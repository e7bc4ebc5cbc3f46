---------------------------- MODULE LifetimeProofs ----------------------------
(***************************************************************************)
(* Proofs about modules PhysMap and Lifetime, for any number of cores, any *)
(* images and any pattern of failures at start-up.                         *)
(***************************************************************************)
EXTENDS Lifetime, SchedulerProofs, SequenceTheorems

-----------------------------------------------------------------------------
\* Addresses.

\* Where the overflow puts the banks: the third at 0.
LEMMA BankStarts ==
  /\ BankOffset(0) = 0
  /\ BankStart(0) = DRAM
  /\ BankStart(1) = DRAM + DRAM_SIZE
  /\ BankStart(2) = 0
  /\ BankStart(3) = DRAM_SIZE
  /\ BankStart(4) = DRAM
<1>1. DRAM_SIZE \in Nat /\ DRAM_SIZE > 0
  BY PhysMapAssumption
<1>2. \A x \in 0 .. Word - 1 : x % Word = x
  BY <1>1 DEF Word
<1>3. \A x \in 0 .. Word - 1 : (x + Word) % Word = x
  BY <1>1 DEF Word
<1>4. BankOffset(0) = 0
  BY <1>1, <1>2 DEF BankOffset, DRAM, Word
<1>5. BankOffset(1) = DRAM_SIZE
  BY <1>1, <1>2 DEF BankOffset, DRAM, Word
<1>6. BankOffset(2) = 0 - DRAM
  <2>1. (DRAM_SIZE * 2) % Word = DRAM
    BY <1>1, <1>2 DEF DRAM, Word
  <2>2. QED
    BY <1>1, <2>1 DEF BankOffset, DRAM, Word
<1>7. BankOffset(3) = 0 - DRAM_SIZE
  <2>1. (DRAM_SIZE * 3) % Word = DRAM_SIZE * 3
    BY <1>1, <1>2 DEF DRAM, Word
  <2>2. QED
    BY <1>1, <2>1 DEF BankOffset, DRAM, Word
<1>8. BankOffset(4) = 0
  <2>1. (DRAM_SIZE * 4) % Word = 0
    <3>1. DRAM_SIZE * 4 = 0 + Word /\ 0 \in 0 .. Word - 1
      BY <1>1 DEF Word
    <3>2. QED
      BY <1>3, <3>1
  <2>2. QED
    BY <1>1, <2>1 DEF BankOffset, DRAM
<1>9. DRAM % Word = DRAM /\ 0 % Word = 0 /\ DRAM_SIZE % Word = DRAM_SIZE
      /\ (DRAM + DRAM_SIZE) % Word = DRAM + DRAM_SIZE
  BY <1>1, <1>2 DEF DRAM, Word
<1>10. DRAM + 0 = DRAM /\ DRAM + (0 - DRAM) = 0 /\ DRAM + (0 - DRAM_SIZE) = DRAM_SIZE
  BY <1>1 DEF DRAM
<1>11. QED
  BY <1>4, <1>5, <1>6, <1>7, <1>8, <1>9, <1>10 DEF BankStart

\* The host's memory of each.
LEMMA BlocksAre ==
  /\ Block[0] = "dram" /\ Block[1] = "dram_2" /\ Block[2] = "dram_3" /\ Block[3] = "dram_4"
  /\ 0 \in Banks
BY DEF Block, Banks

\* The map of a slice.
LEMMA DramRegionsAre ==
  DramRegions = {Region("dram", DRAM, DRAM_SIZE),
                 Region("dram_2", DRAM + DRAM_SIZE, DRAM_SIZE),
                 Region("dram_3", 0, DRAM_SIZE)}
<1>1. DramRegions = {Region(Block[0], BankStart(0), DRAM_SIZE),
                     Region(Block[1], BankStart(1), DRAM_SIZE),
                     Region(Block[2], BankStart(2), DRAM_SIZE)}
  <2>1. 0 .. 2 = {0, 1, 2}
    OBVIOUS
  <2>2. QED
    BY <2>1 DEF DramRegions
<1>2. QED
  BY <1>1, BlocksAre, BankStarts

\* Where the emulator finds an address of the first bank, its first byte excepted.
LEMMA FirstBankLocated ==
  ASSUME NEW a \in Nat, DRAM < a, a <= DRAM + DRAM_SIZE
  PROVE  paddr_to_alloc(a) = [block |-> "dram", at |-> a - DRAM]
<1>1. DRAM_SIZE \in Nat /\ DRAM_SIZE > 0 /\ DRAM = 2 * DRAM_SIZE
  BY PhysMapAssumption DEF DRAM
<1>2. InBank(0, a)
  BY <1>1, BankStarts DEF InBank
<1>3. \A j \in Banks : InBank(j, a) => j = 0
  <2>1. ~InBank(1, a) /\ ~InBank(2, a) /\ ~InBank(3, a)
    BY <1>1, BankStarts DEF InBank
  <2>2. QED
    BY <2>1 DEF Banks
<1>4. (CHOOSE j \in Banks : InBank(j, a)) = 0
  BY <1>2, <1>3 DEF Banks
<1>5. a - DRAM - 0 = a - DRAM
  BY <1>1
<1>6. QED
  BY <1>2, <1>4, <1>5, BlocksAre, BankStarts DEF paddr_to_alloc

\* What the guest finds is in the one region around the address.
LEMMA FoundInRegion ==
  ASSUME NEW regions, NEW a, NEW r0,
         RegionAt(regions, a) = r0, \E r \in regions : Inside(r, a)
  PROVE  GuestSees(regions, a) = [block |-> r0.block, at |-> a - r0.start]
BY DEF GuestSees

\* What the guest finds there, if all that is mapped besides lies elsewhere.
LEMMA FirstBankSeen ==
  ASSUME NEW a \in Nat, DRAM <= a, a < DRAM + DRAM_SIZE,
         NEW others, \A r \in others : ~Inside(r, a)
  PROVE  GuestSees(others \cup DramRegions, a) = [block |-> "dram", at |-> a - DRAM]
<1> DEFINE r0      == Region("dram", DRAM, DRAM_SIZE)
           regions == others \cup DramRegions
<1>1. DRAM_SIZE \in Nat /\ DRAM_SIZE > 0 /\ DRAM = 2 * DRAM_SIZE
  BY PhysMapAssumption DEF DRAM
<1>2. r0 \in regions /\ Inside(r0, a)
  BY <1>1, DramRegionsAre DEF Inside, Region
<1>3. ~Inside(Region("dram_2", DRAM + DRAM_SIZE, DRAM_SIZE), a)
      /\ ~Inside(Region("dram_3", 0, DRAM_SIZE), a)
  BY <1>1 DEF Inside, Region
<1>4. \A r \in regions : Inside(r, a) => r = r0
  BY <1>3, DramRegionsAre
<1>5. r0.block = "dram" /\ r0.start = DRAM
  BY DEF Region
<1> HIDE DEF r0, regions
<1>6. RegionAt(regions, a) = r0
  BY <1>2, <1>4 DEF RegionAt
<1>7. \E r \in regions : Inside(r, a)
  BY <1>2
<1>8. GuestSees(regions, a) = [block |-> r0.block, at |-> a - r0.start]
  BY <1>6, <1>7, FoundInRegion
<1>9. QED
  BY <1>5, <1>8 DEF regions

-----------------------------------------------------------------------------
\* The scheduler.

\* Every step of the emulator's life is one of the scheduler or leaves it alone.
LEMMA LifeSchedStep == [LifeNext]_<<lifeVars, schedVars>> => [SchedNext]_schedVars
<1> SUFFICES ASSUME [LifeNext]_<<lifeVars, schedVars>> PROVE [SchedNext]_schedVars
  OBVIOUS
<1>1. CASE Run
  BY <1>1 DEF Run
<1>2. CASE MapBanks \/ MapSram \/ LoadImage \/ UcInit \/ StartRun
  BY <1>2 DEF MapBanks, MapSram, LoadImage, UcInit, StartRun
<1>3. CASE Crash \/ Report \/ CloseEngine \/ FreeBanks
  BY <1>3 DEF Crash, Report, CloseEngine, FreeBanks
<1>4. CASE UNCHANGED <<lifeVars, schedVars>>
  BY <1>4
<1>5. QED
  BY <1>1, <1>2, <1>3, <1>4 DEF LifeNext

\* Around the loops nothing but the loops moves the scheduler: the emulator
\* implements it, whatever failed before.
THEOREM LifetimeIsScheduled == LifeSafety => SchedSafety
BY LifeSchedStep, PTL DEF LifeSafety, LifeInit, SchedSafety

\* So what is proved of the scheduler is true of the emulator.
THEOREM LifetimeInherits ==
  LifeSafety => [](SchedTypeOK /\ MappingExclusive /\ StartsWhereTold /\ FairTurns)
BY LifetimeIsScheduled, SchedTypeCorrect, MappingIsExclusive, NeverStartsFromReset,
   TurnsAreFair, PTL

-----------------------------------------------------------------------------
\* The emulator dies only of a failure it did not look at.
CrashIsExcused == stage = "crashed" => unnoticed

\* The types the argument needs.
StagesOK ==
  /\ stage \in Stages
  /\ next_core \in 0 .. NCores
  /\ open \in SUBSET Cores
  /\ unnoticed \in BOOLEAN

\* All blocks are there from the load of the images to the close of the engines,
\* and the banks once the first test has passed.
BlocksAreThere ==
  /\ stage = "map sram" => DramBlocks \subseteq blocks
  /\ stage \in {"load", "init", "run", "close"} => HostBlocks \subseteq blocks

\* No engine is open before that or after, and the ones closed are the first.
EnginesAreLate ==
  /\ stage \in {"map banks", "map sram", "load", "gave up", "exited"} => open = {}
  /\ stage = "crashed" => open = {} \/ HostBlocks \subseteq blocks
  /\ stage = "close" => \A c \in open : next_core <= c

\* Unless something failed all engines main has come to are open.
OpenOrUnnoticed ==
  /\ stage = "load" => next_core = 0
  /\ stage = "init" => unnoticed \/ open = 0 .. next_core - 1
  /\ stage = "run" => unnoticed \/ open = Cores

\* main's loop variable has not moved before the engines are opened.
NotYet == stage \in {"map banks", "map sram"} => next_core = 0

LifeInv ==
  /\ StagesOK /\ BlocksAreThere /\ EnginesAreLate /\ OpenOrUnnoticed /\ NotYet
  /\ CrashIsExcused

\* Core 0 is one of the cores, and they are numbered from it.
LEMMA FirstCore ==
  /\ 0 \in Cores /\ 0 \in 0 .. NCores
  /\ 0 .. NCores - 1 = Cores
  /\ \A c \in Cores : 0 <= c /\ c < NCores
BY NCoresAssumption DEF Cores

\* One more core.
LEMMA NextInterval == \A n \in Nat : (0 .. n - 1) \cup {n} = 0 .. (n + 1) - 1
OBVIOUS

\* The first state.
LEMMA LifeInitInv == LifeInit => LifeInv
<1> SUFFICES ASSUME LifeInit PROVE LifeInv
  OBVIOUS
<1>1. /\ stage = "map banks" /\ next_core = 0
      /\ open = {} /\ unnoticed = FALSE
  BY DEF LifeInit
<1>2. StagesOK
  BY <1>1, FirstCore DEF StagesOK, Stages
<1>3. QED
  BY <1>1, <1>2
     DEF LifeInv, BlocksAreThere, EnginesAreLate, OpenOrUnnoticed, NotYet, CrashIsExcused

\* The steps of mem_init.
LEMMA MemInitInv ==
  ASSUME LifeInv, MapBanks \/ MapSram \/ LoadImage
  PROVE  LifeInv'
<1> USE DEF LifeInv, StagesOK, BlocksAreThere, EnginesAreLate, OpenOrUnnoticed,
            NotYet, CrashIsExcused, Stages
<1>1. CASE MapBanks
  BY <1>1 DEF MapBanks
<1>2. CASE MapSram
  BY <1>2 DEF MapSram, HostBlocks
<1>3. CASE LoadImage
  <2>1. /\ stage = "load" /\ UNCHANGED <<next_core, blocks, open, fixed>>
        /\ \/ stage' \in {"init", "load"} /\ UNCHANGED unnoticed
           \/ stage' = "crashed" /\ unnoticed'
    BY <1>3 DEF LoadImage, Load
  <2>2. stage' = "init" => open' = 0 .. next_core' - 1
    BY <2>1
  <2>3. QED
    BY <2>1, <2>2
<1>4. QED
  BY <1>1, <1>2, <1>3

\* uc_init of one core.
LEMMA UcInitInv ==
  ASSUME LifeInv, UcInit
  PROVE  LifeInv'
<1>1. /\ stage = "init" /\ next_core < NCores /\ next_core' = next_core + 1
      /\ UNCHANGED <<stage, blocks>>
      /\ \/ open' = open \cup {next_core} /\ UNCHANGED unnoticed
         \/ unnoticed' = TRUE /\ UNCHANGED open
  BY DEF UcInit
<1>2. StagesOK
  BY DEF LifeInv
<1>3. next_core \in Nat /\ next_core \in Cores /\ next_core' \in 0 .. NCores
  <2>1. next_core \in 0 .. NCores
    BY <1>2 DEF StagesOK
  <2>2. QED
    BY <1>1, <2>1, NCoresAssumption DEF Cores
<1>4. StagesOK'
  BY <1>1, <1>2, <1>3 DEF StagesOK
<1>5. OpenOrUnnoticed'
  <2>1. unnoticed \/ open = 0 .. next_core - 1
    BY <1>1 DEF LifeInv, OpenOrUnnoticed
  <2>2. (0 .. next_core - 1) \cup {next_core} = 0 .. next_core' - 1
    <3>1. (0 .. next_core - 1) \cup {next_core} = 0 .. (next_core + 1) - 1
      BY <1>3, NextInterval
    <3>2. QED
      BY <1>1, <3>1
  <2>3. unnoticed' \/ open' = 0 .. next_core' - 1
    <3>1. CASE open' = open \cup {next_core} /\ UNCHANGED unnoticed
      BY <2>1, <2>2, <3>1
    <3>2. CASE unnoticed' = TRUE
      BY <3>2
    <3>3. QED
      BY <1>1, <3>1, <3>2
  <2>4. QED
    BY <1>1, <2>3 DEF OpenOrUnnoticed
<1>6. (BlocksAreThere /\ EnginesAreLate /\ NotYet /\ CrashIsExcused)'
  BY <1>1 DEF LifeInv, BlocksAreThere, EnginesAreLate, NotYet, CrashIsExcused, HostBlocks,
              DramBlocks, SramBlocks
<1>7. QED
  BY <1>4, <1>5, <1>6 DEF LifeInv

\* The steps from uc_run_stuff to the exit.
LEMMA RunInv ==
  ASSUME LifeInv, StartRun \/ Run \/ Crash \/ Report \/ CloseEngine \/ FreeBanks
  PROVE  LifeInv'
<1> USE DEF LifeInv, StagesOK, BlocksAreThere, EnginesAreLate, OpenOrUnnoticed,
            NotYet, CrashIsExcused, Stages
<1>1. CASE StartRun
  BY <1>1, FirstCore DEF StartRun, AllInit
<1>2. CASE Run
  BY <1>2 DEF Run, lifeVars
<1>3. CASE Crash
  BY <1>3 DEF Crash
<1>4. CASE Report
  BY <1>4, FirstCore DEF Report
<1>5. CASE CloseEngine
  <2>1. /\ stage = "close" /\ next_core < NCores /\ next_core' = next_core + 1
        /\ open' = open \ {next_core} /\ UNCHANGED <<stage, blocks, unnoticed>>
    BY <1>5 DEF CloseEngine
  <2>2. next_core' \in 0 .. NCores
    BY <2>1, NCoresAssumption
  <2>3. \A c \in open' : next_core' <= c
    BY <2>1 DEF Cores
  <2>4. QED
    BY <2>1, <2>2, <2>3
<1>6. CASE FreeBanks
  <2>1. open = {}
    BY <1>6, NCoresAssumption DEF FreeBanks, Cores
  <2>2. QED
    BY <1>6, <2>1 DEF FreeBanks
<1>7. QED
  BY <1>1, <1>2, <1>3, <1>4, <1>5, <1>6

\* One step per action.
LEMMA LifeNextInv == LifeInv /\ [LifeNext]_<<lifeVars, schedVars>> => LifeInv'
<1> SUFFICES ASSUME LifeInv, [LifeNext]_<<lifeVars, schedVars>> PROVE LifeInv'
  OBVIOUS
<1>1. CASE LifeNext
  BY <1>1, MemInitInv, UcInitInv, RunInv DEF LifeNext
<1>2. CASE UNCHANGED <<lifeVars, schedVars>>
  BY <1>2 DEF lifeVars, LifeInv, StagesOK, BlocksAreThere, EnginesAreLate,
              OpenOrUnnoticed, NotYet, CrashIsExcused
<1>3. QED
  BY <1>1, <1>2

\* LifeInv holds throughout.
LEMMA LifeInvariance == LifeSafety => []LifeInv
BY LifeInitInv, LifeNextInv, PTL DEF LifeSafety

-----------------------------------------------------------------------------
\* No engine maps memory of the host that is not allocated, whatever failed.
THEOREM MappedIsAllocated == LifeSafety => []MapsAreBacked
<1>1. LifeInv => open = {} \/ HostBlocks \subseteq blocks
  BY DEF LifeInv, StagesOK, Stages, BlocksAreThere, EnginesAreLate
<1>2. LifeInv => MapsAreBacked
  BY <1>1 DEF MapsAreBacked
<1>3. QED
  BY LifeInvariance, <1>2, PTL

\* In a run where every call succeeds no engine is used that is not open.
THEOREM OnlyFailuresCrash == LifeSafety => []CrashIsExcused
BY LifeInvariance, PTL DEF LifeInv
-----------------------------------------------------------------------------
\* The map of a core in its slice.

InitMap == {InitRegions[k] : k \in DOMAIN InitRegions}

\* No two of uc_init's regions overlap, so that all are granted,
LEMMA NoneRefused == Granted(InitRegions) = InitMap
<1>1. DOMAIN InitRegions = 1 .. 14
  BY DEF InitRegions
<1>2. ASSUME NEW j \in 1 .. 14, NEW k \in 1 .. 14, j # k
      PROVE  ~Overlap(InitRegions[j], InitRegions[k])
  BY <1>2, SMT DEF InitRegions, Region, KiB, Overlap
<1>3. \A k \in 1 .. 14 : \A j \in 1 .. k - 1 : ~Overlap(InitRegions[j], InitRegions[k])
  BY <1>2
<1>4. QED
  BY <1>1, <1>3 DEF Granted, InitMap

\* in units of 0x400 bytes
LEMMA BankNumbers == DRAM_SIZE = 1048576 /\ DRAM = 2097152
BY LifetimeAssumption, SMT DEF KiB, DRAM

\* and the banks of DRAM begin behind the last or end before the first of them.
LEMMA DramIsApart == \A r \in DramRegions : Apart(r, InitMap)
<1>1. DOMAIN InitRegions = 1 .. 14
  BY DEF InitRegions
<1>2. ASSUME NEW k \in 1 .. 14
      PROVE  InitRegions[k].start >= DRAM_SIZE /\ InitRegions[k].start + InitRegions[k].size <= DRAM
  BY BankNumbers, SMT DEF InitRegions, Region, KiB
<1>3. ASSUME NEW k \in 1 .. 14
      PROVE  InitRegions[k].start \in Nat /\ InitRegions[k].size \in Nat
  BY SMT DEF InitRegions, Region, KiB
<1>4. ASSUME NEW r \in DramRegions, NEW k \in 1 .. 14
      PROVE  ~Overlap(r, InitRegions[k])
  BY <1>2, <1>3, BankNumbers, DramRegionsAre, SMT DEF Overlap, Region
<1>5. QED
  BY <1>1, <1>4 DEF Apart, InitMap

-----------------------------------------------------------------------------
\* What uc_init and mem_init leave for the slices.

\* An engine that is open has been given its regions.
FixedWhileOpen ==
  /\ DOMAIN fixed = Cores
  /\ \A c \in open : fixed[c] = Granted(InitRegions)

\* No core is online whose engine is not open; until the loops begin only core 0.
OnlineIsOpen ==
  /\ stage \in {"map banks", "map sram", "load", "init"} =>
       cores_online = [c \in Cores |-> c = 0]
  /\ stage = "run" => \A c \in Cores : cores_online[c] => c \in open

Kernels == {Image("kernel", KADDRESS_800, size) : size \in FileSizes}

Processes == {Image("process", PADDRESS_800, size) : size \in FileSizes}

\* The kernel is loaded, then the process.
LoadedInTurn ==
  \/ files = <<>> /\ stage \in {"map banks", "map sram", "load", "gave up", "crashed"}
  \/ (\E k \in Kernels : files = <<k>>) /\ stage \in {"load", "crashed"}
  \/ /\ \E k \in Kernels, p \in Processes : files = <<k, p>>
     /\ stage \in {"init", "run", "close", "exited", "crashed"}

SetUp ==
  /\ FixedWhileOpen /\ OnlineIsOpen /\ LoadedInTurn
  /\ stage \in Stages /\ blocks \subseteq HostBlocks

\* At the start,
LEMMA SetUpInit == LifeInit => SetUp
<1> SUFFICES ASSUME LifeInit PROVE SetUp
  OBVIOUS
<1>1. /\ stage = "map banks" /\ blocks = {} /\ files = <<>>
      /\ open = {} /\ fixed = [c \in Cores |-> {}]
      /\ cores_online = [c \in Cores |-> c = 0]
  BY DEF LifeInit, SchedInit
<1>2. QED
  BY <1>1 DEF SetUp, FixedWhileOpen, OnlineIsOpen, LoadedInTurn, Stages

\* A second element.
LEMMA SecondOf ==
  ASSUME NEW S, NEW s \in Seq(S), NEW b \in S, NEW t \in Seq(S),
         Len(s) = 1, Len(t) = 2, t[1] = s[1], t[2] = b
  PROVE  Append(s, b) = t
<1>1. Append(s, b) \in Seq(S) /\ Len(Append(s, b)) = Len(s) + 1
  BY AppendProperties
<1>2. \A k \in 1 .. Len(s) : Append(s, b)[k] = s[k]
  BY AppendProperties
<1>3. Append(s, b)[Len(s) + 1] = b
  BY AppendProperties
<1>4. Len(Append(s, b)) = Len(t) /\ \A k \in 1 .. Len(Append(s, b)) : Append(s, b)[k] = t[k]
  BY <1>1, <1>2, <1>3
<1>5. QED
  BY <1>1, <1>4, SeqEqual

\* An element appended to a sequence of one makes a pair.
LEMMA AppendOne ==
  ASSUME NEW a, NEW b
  PROVE  Append(<<a>>, b) = <<a, b>> /\ Len(<<a, b>>) = 2
<1> DEFINE s == <<a>>
           t == <<a, b>>
           S == {a, b}
<1>1. /\ s \in Seq(S) /\ t \in Seq(S) /\ b \in S
      /\ Len(s) = 1 /\ s[1] = a /\ Len(t) = 2 /\ t[1] = a /\ t[2] = b
  OBVIOUS
<1> HIDE DEF s, t, S
<1>2. Append(s, b) = t
  BY <1>1, SecondOf
<1>3. QED
  BY <1>1, <1>2 DEF s, t

\* when an image is loaded,
LEMMA LoadSetUp ==
  ASSUME SetUp, LoadImage
  PROVE  SetUp'
<1>1. /\ stage = "load" /\ UNCHANGED <<blocks, open, fixed, schedVars>>
      /\ IF files = <<>> THEN Load("kernel", KADDRESS_800)
                         ELSE Load("process", PADDRESS_800)
  BY DEF LoadImage
<1>2. cores_online' = cores_online
  BY <1>1 DEF schedVars
<1>3. LoadedInTurn' /\ stage' \in {"load", "init", "crashed"}
  <2>1. CASE files = <<>> /\ stage' = "crashed" /\ UNCHANGED files
    BY <2>1 DEF LoadedInTurn
  <2>2. CASE files = <<>> /\ ~(stage' = "crashed" /\ UNCHANGED files)
    <3>1. PICK size \in FileSizes :
            /\ files' = Append(files, Image("kernel", KADDRESS_800, size))
            /\ stage' = IF AllLoaded(Len(files')) THEN "init" ELSE stage
      BY <1>1, <2>2 DEF Load
    <3>2. files' = <<Image("kernel", KADDRESS_800, size)>> /\ Len(files') = 1
      BY <2>2, <3>1
    <3>3. stage' = "load"
      BY <1>1, <3>1, <3>2 DEF AllLoaded
    <3>4. Image("kernel", KADDRESS_800, size) \in Kernels
      BY DEF Kernels
    <3>5. QED
      BY <3>2, <3>3, <3>4 DEF LoadedInTurn
  <2>3. CASE files # <<>>
    <3>1. PICK k \in Kernels : files = <<k>>
      BY <1>1, <2>3 DEF SetUp, LoadedInTurn
    <3>2. Load("process", PADDRESS_800)
      BY <1>1, <2>3
    <3>3. CASE stage' = "crashed" /\ UNCHANGED files
      BY <3>1, <3>3 DEF LoadedInTurn
    <3>4. CASE ~(stage' = "crashed" /\ UNCHANGED files)
      <4>1. PICK size \in FileSizes :
              /\ files' = Append(files, Image("process", PADDRESS_800, size))
              /\ stage' = IF AllLoaded(Len(files')) THEN "init" ELSE stage
        BY <3>2, <3>4 DEF Load
      <4>2. files' = <<k, Image("process", PADDRESS_800, size)>> /\ Len(files') = 2
        <5> DEFINE p == Image("process", PADDRESS_800, size)
        <5>1. Append(<<k>>, p) = <<k, p>> /\ Len(<<k, p>>) = 2
          BY AppendOne
        <5>2. QED
          BY <3>1, <4>1, <5>1
      <4>3. stage' = "init"
        BY <4>1, <4>2 DEF AllLoaded
      <4>4. Image("process", PADDRESS_800, size) \in Processes
        BY DEF Processes
      <4>5. QED
        BY <4>2, <4>3, <4>4 DEF LoadedInTurn
    <3>5. QED
      BY <3>3, <3>4
  <2>4. QED
    BY <2>1, <2>2, <2>3
<1>4. FixedWhileOpen' /\ OnlineIsOpen'
  BY <1>1, <1>2, <1>3 DEF SetUp, FixedWhileOpen, OnlineIsOpen
<1>5. QED
  BY <1>1, <1>3, <1>4 DEF SetUp, Stages, HostBlocks, DramBlocks, SramBlocks

\* and with every step of main's.
LEMMA SetUpNext ==
  SetUp /\ LifeInv /\ [LifeNext]_<<lifeVars, schedVars>> => SetUp'
<1> SUFFICES ASSUME SetUp, LifeInv, [LifeNext]_<<lifeVars, schedVars>> PROVE SetUp'
  OBVIOUS
<1> DEFINE Blocks == blocks \subseteq HostBlocks
<1>1. CASE MapBanks \/ MapSram
  <2>1. /\ stage \in {"map banks", "map sram"} /\ files = <<>> /\ UNCHANGED <<files, open, fixed>>
        /\ stage' \in {"map sram", "load", "gave up"} /\ cores_online' = cores_online
        /\ Blocks'
    BY <1>1 DEF SetUp, LoadedInTurn, MapBanks, MapSram, schedVars, HostBlocks,
                DramBlocks, SramBlocks
  <2>2. LoadedInTurn'
    BY <2>1 DEF LoadedInTurn
  <2>3. QED
    BY <2>1, <2>2 DEF SetUp, FixedWhileOpen, OnlineIsOpen, Stages
<1>2. CASE LoadImage
  BY <1>2, LoadSetUp
<1>3. CASE UcInit
  <2>1. /\ stage = "init" /\ UNCHANGED <<stage, blocks, files>> /\ cores_online' = cores_online
        /\ \/ /\ open'  = open \cup {next_core}
              /\ fixed' = [fixed EXCEPT ![next_core] = Granted(InitRegions)]
           \/ UNCHANGED <<open, fixed>>
        /\ next_core \in Cores
    BY <1>3, NCoresAssumption DEF UcInit, LifeInv, StagesOK, schedVars, Cores
  <2>2. FixedWhileOpen'
    <3>1. DOMAIN fixed = Cores /\ \A c \in open : fixed[c] = Granted(InitRegions)
      BY DEF SetUp, FixedWhileOpen
    <3>2. CASE /\ open'  = open \cup {next_core}
               /\ fixed' = [fixed EXCEPT ![next_core] = Granted(InitRegions)]
      <4>1. open \subseteq Cores
        BY DEF LifeInv, StagesOK
      <4>2. /\ DOMAIN fixed' = Cores /\ fixed'[next_core] = Granted(InitRegions)
            /\ \A c \in Cores : c # next_core => fixed'[c] = fixed[c]
        BY <2>1, <3>1, <3>2
      <4>3. QED
        BY <2>1, <3>1, <3>2, <4>1, <4>2 DEF FixedWhileOpen
    <3>3. CASE UNCHANGED <<open, fixed>>
      BY <3>1, <3>3 DEF FixedWhileOpen
    <3>4. QED
      BY <2>1, <3>2, <3>3
  <2>3. QED
    BY <2>1, <2>2 DEF SetUp, OnlineIsOpen, LoadedInTurn, HostBlocks, DramBlocks, SramBlocks
<1>4. CASE StartRun
  <2>1. /\ stage = "init" /\ UNCHANGED <<blocks, files, open, fixed>> /\ cores_online' = cores_online
        /\ stage' = IF 0 \in open THEN "run" ELSE "crashed"
    BY <1>4 DEF StartRun, schedVars
  <2>2. LoadedInTurn'
    BY <2>1 DEF SetUp, LoadedInTurn
  <2>3. OnlineIsOpen'
    BY <2>1 DEF SetUp, OnlineIsOpen
  <2>4. QED
    BY <2>1, <2>2, <2>3
       DEF SetUp, FixedWhileOpen, Stages, HostBlocks, DramBlocks, SramBlocks
<1>5. CASE Run
  <2>1. /\ stage = "run" /\ UNCHANGED <<stage, blocks, files, open, fixed>>
        /\ \A c \in Cores : cores_online'[c] => c \in open
    BY <1>5 DEF Run, lifeVars
  <2>2. QED
    BY <2>1
       DEF SetUp, FixedWhileOpen, OnlineIsOpen, LoadedInTurn, HostBlocks, DramBlocks, SramBlocks
<1>6. CASE Crash \/ Report \/ CloseEngine \/ FreeBanks
  <2>1. /\ stage \in {"run", "close"} /\ stage' \in {"crashed", "close", "exited"}
        /\ open' \subseteq open /\ UNCHANGED <<files, fixed>> /\ blocks' \subseteq blocks
    BY <1>6 DEF Crash, Report, CloseEngine, FreeBanks
  <2>2. LoadedInTurn'
    BY <2>1 DEF SetUp, LoadedInTurn
  <2>3. QED
    BY <2>1, <2>2
       DEF SetUp, FixedWhileOpen, OnlineIsOpen, Stages, HostBlocks, DramBlocks, SramBlocks
<1>7. CASE UNCHANGED <<lifeVars, schedVars>>
  BY <1>7 DEF lifeVars, schedVars, SetUp, FixedWhileOpen, OnlineIsOpen, LoadedInTurn,
              HostBlocks, DramBlocks, SramBlocks
<1>8. QED
  BY <1>1, <1>2, <1>3, <1>4, <1>5, <1>6, <1>7 DEF LifeNext

\* SetUp holds throughout.
LEMMA SetUpInvariance == LifeSafety => []SetUp
BY SetUpInit, SetUpNext, LifeInvariance, PTL DEF LifeSafety

\* Every variable of the emulator's life has its type, the scheduler's included,
\* for images of any size.
THEOREM LifeTypeCorrect == LifeSafety => []LifeTypeOK
<1>1. SetUp => Len(files) <= 2
  <2>1. SetUp => \/ files = <<>>
                 \/ \E k \in Kernels : files = <<k>>
                 \/ \E k \in Kernels, p \in Processes : files = <<k, p>>
    BY DEF SetUp, LoadedInTurn
  <2>2. Len(<<>>) <= 2 /\ (\A k : Len(<<k>>) <= 2) /\ (\A k, p : Len(<<k, p>>) <= 2)
    OBVIOUS
  <2>3. QED
    BY <2>1, <2>2
<1>2. SetUp /\ LifeInv /\ SchedTypeOK => LifeTypeOK
  BY <1>1 DEF SetUp, LifeInv, StagesOK, LifeTypeOK, HostBlocks
<1>3. QED
  BY <1>2, SetUpInvariance, LifeInvariance, LifetimeInherits, PTL

\* The guest's map in a slice.
LEMMA SliceMap == SchedInv /\ SetUp => MapIsWhole
<1> SUFFICES ASSUME SchedInv, SetUp, stage = "run", phase = "slice"
             PROVE  Map(i) = InitMap \cup DramRegions
  BY DEF MapIsWhole, InitMap
<1>1. i \in Cores /\ cores_online[i] /\ mapped = {i}
  BY DEF SchedInv, MappingExclusive
<1>2. i \in open
  BY <1>1 DEF SetUp, OnlineIsOpen
<1>3. fixed[i] = InitMap
  BY <1>2, NoneRefused DEF SetUp, FixedWhileOpen
<1>4. QED
  BY <1>1, <1>3, DramIsApart DEF Map

\* In every slice the core has its whole address map: of the fourteen regions
\* uc_init maps and the three banks no two overlap, and no core is run whose
\* engine is not open, whatever failed at start-up.
THEOREM SlicesHaveAllMemory == LifeSafety => []MapIsWhole
BY SliceMap, SetUpInvariance, LifetimeIsScheduled, SchedInvariance, PTL

-----------------------------------------------------------------------------
\* The images.

\* An image's start is found by both sides at the same place of the first bank.
LEMMA ImageStarts ==
  ASSUME NEW a \in {KADDRESS_800, PADDRESS_800}
  PROVE  /\ a \in Nat /\ DRAM < a /\ a < DRAM + DRAM_SIZE
         /\ paddr_to_alloc(a) = [block |-> "dram", at |-> a - DRAM]
         /\ GuestSees(InitMap \cup DramRegions, a) = [block |-> "dram", at |-> a - DRAM]
<1>1. KADDRESS_800 = DRAM + 384 /\ PADDRESS_800 = DRAM + 980
  BY SMT DEF KADDRESS_800, PADDRESS_800, KiB
<1>2. a \in Nat /\ DRAM < a /\ a < DRAM + DRAM_SIZE
  BY <1>1, BankNumbers, SMT
<1>3. \A r \in InitMap : ~Inside(r, a)
  <2>1. DOMAIN InitRegions = 1 .. 14
    BY DEF InitRegions
  <2>2. ASSUME NEW k \in 1 .. 14 PROVE ~Inside(InitRegions[k], a)
    BY <1>2, BankNumbers, SMT DEF InitRegions, Region, KiB, Inside
  <2>3. QED
    BY <2>1, <2>2 DEF InitMap
<1>4. paddr_to_alloc(a) = [block |-> "dram", at |-> a - DRAM]
  <2>1. a <= DRAM + DRAM_SIZE
    BY <1>2, PhysMapAssumption DEF DRAM
  <2>2. QED
    BY <1>2, <2>1, FirstBankLocated
<1>5. GuestSees(InitMap \cup DramRegions, a) = [block |-> "dram", at |-> a - DRAM]
  <2>1. DRAM <= a
    BY <1>2, PhysMapAssumption DEF DRAM
  <2>2. QED
    BY <1>2, <1>3, <2>1, FirstBankSeen
<1>6. QED
  BY <1>2, <1>4, <1>5

\* Of two images the second is found where it covers, else the first.
LEMMA TwoImages ==
  ASSUME NEW k, NEW p, files = <<k, p>>, NEW loc
  PROVE  /\ Covers(p, loc) => ImageAt(loc) = p.name
         /\ Covers(k, loc) /\ ~Covers(p, loc) => ImageAt(loc) = k.name
<1> DEFINE hits == {n \in DOMAIN files : Covers(files[n], loc)}
           last == CHOOSE n \in hits : \A j \in hits : j <= n
<1>1. DOMAIN files = {1, 2} /\ files[1] = k /\ files[2] = p
  OBVIOUS
<1>2. ImageAt(loc) = IF hits = {} THEN "nothing" ELSE files[last].name
  BY DEF ImageAt
<1>3. ASSUME Covers(p, loc) PROVE hits # {} /\ last = 2
  <2>1. 2 \in hits /\ hits \subseteq {1, 2}
    BY <1>1, <1>3
  <2>2. QED
    BY <2>1
<1>4. ASSUME Covers(k, loc), ~Covers(p, loc) PROVE hits # {} /\ last = 1
  <2>1. hits = {1}
    BY <1>1, <1>4
  <2>2. QED
    BY <2>1
<1> HIDE DEF hits, last
<1>5. QED
  BY <1>1, <1>2, <1>3, <1>4

\* In every slice the kernel is where core 0 starts and the process at its own
\* address, for files of any size mem_init reads: a kernel that reaches into the
\* process image is overwritten by it there.
THEOREM GuestFindsTheImages == LifeSafety => []ImagesInPlace
<1>1. SetUp /\ MapIsWhole => ImagesInPlace
  <2> SUFFICES ASSUME SetUp, MapIsWhole, stage = "run", phase = "slice"
               PROVE  /\ ImageAt(GuestSees(Map(i), KADDRESS_800)) = "kernel"
                      /\ ImageAt(GuestSees(Map(i), PADDRESS_800)) = "process"
    BY DEF ImagesInPlace
  <2>1. Map(i) = InitMap \cup DramRegions
    BY DEF MapIsWhole, InitMap
  <2>2. PICK ksize \in FileSizes, psize \in FileSizes :
          files = <<Image("kernel", KADDRESS_800, ksize), Image("process", PADDRESS_800, psize)>>
    BY DEF SetUp, LoadedInTurn, Kernels, Processes
  <2>3. ksize \in Nat \ {0} /\ psize \in Nat \ {0}
    <3>1. \A n \in 1 .. KiB(\h1000000) : n \in Nat \ {0}
      BY SMT DEF KiB
    <3>2. QED
      BY <3>1, LifetimeAssumption
  <2> DEFINE kernel  == Image("kernel", KADDRESS_800, ksize)
             process == Image("process", PADDRESS_800, psize)
             kloc    == [block |-> "dram", at |-> KADDRESS_800 - DRAM]
             ploc    == [block |-> "dram", at |-> PADDRESS_800 - DRAM]
  <2>4. /\ kernel = [name |-> "kernel", loc |-> kloc, size |-> ksize]
        /\ process = [name |-> "process", loc |-> ploc, size |-> psize]
    BY ImageStarts DEF Image
  <2>5. KADDRESS_800 - DRAM = 384 /\ PADDRESS_800 - DRAM = 980
    BY BankNumbers, SMT DEF KADDRESS_800, PADDRESS_800, KiB
  <2>6. Covers(process, ploc) /\ Covers(kernel, kloc) /\ ~Covers(process, kloc)
    BY <2>3, <2>4, <2>5 DEF Covers
  <2>7. ImageAt(ploc) = process.name /\ ImageAt(kloc) = kernel.name
    BY <2>2, <2>6, TwoImages
  <2>8. /\ GuestSees(Map(i), KADDRESS_800) = kloc
        /\ GuestSees(Map(i), PADDRESS_800) = ploc
    BY <2>1, ImageStarts
  <2>9. QED
    BY <2>4, <2>7, <2>8
<1>2. QED
  BY <1>1, SetUpInvariance, SlicesHaveAllMemory, PTL

-----------------------------------------------------------------------------
\* The way out.

\* Steps until the process ends, once the emulator is asked to quit: the
\* scheduler's, the reports, the closing of each engine and the unmapping.
StepsToExit ==
  CASE stage = "run"   -> StepsToStop + NCores + 2
    [] stage = "close" -> (NCores - next_core) + 1
    [] OTHER           -> 0

\* Nothing asks for it before the loops run.
QuitIsLate == uc_quit => stage \in {"run", "close", "exited", "crashed"}

ExitIsClean == stage = "exited" => open = {} /\ blocks = SramBlocks

ExitBounded == uc_quit => StepsToExit \in 0 .. SliceInsns + NCores + 4

ExitNears == uc_quit => StepsToExit' < StepsToExit

\* The banks and the SRAMs are different blocks.
LEMMA SramIsLeft == \A got \in SUBSET HostBlocks :
                      HostBlocks \subseteq got => got \ DramBlocks = SramBlocks
BY DEF HostBlocks, DramBlocks, SramBlocks, Block, Banks

\* What main leaves when it returns.
LEMMA CleanNext ==
  LifeInv /\ SetUp /\ QuitIsLate /\ ExitIsClean /\ [LifeNext]_<<lifeVars, schedVars>>
    => QuitIsLate' /\ ExitIsClean'
<1> SUFFICES ASSUME LifeInv, SetUp, QuitIsLate, ExitIsClean, [LifeNext]_<<lifeVars, schedVars>>
             PROVE  QuitIsLate' /\ ExitIsClean'
  OBVIOUS
<1>1. CASE MapBanks \/ MapSram \/ UcInit \/ StartRun
  <2>1. stage \notin {"run", "close", "exited", "crashed"}
    BY <1>1 DEF MapBanks, MapSram, UcInit, StartRun
  <2>2. ~uc_quit
    BY <2>1 DEF QuitIsLate
  <2>3. uc_quit' = uc_quit
    BY <1>1 DEF MapBanks, MapSram, UcInit, StartRun, schedVars
  <2>4. CASE MapBanks
    BY <2>2, <2>3, <2>4 DEF MapBanks, QuitIsLate, ExitIsClean
  <2>5. CASE MapSram
    BY <2>2, <2>3, <2>5 DEF MapSram, QuitIsLate, ExitIsClean
  <2>6. CASE UcInit
    BY <2>2, <2>3, <2>6 DEF UcInit, QuitIsLate, ExitIsClean
  <2>7. CASE StartRun
    BY <2>2, <2>3, <2>7 DEF StartRun, QuitIsLate, ExitIsClean
  <2>8. QED
    BY <1>1, <2>4, <2>5, <2>6, <2>7
<1>2. CASE LoadImage
  BY <1>2 DEF LoadImage, Load, QuitIsLate, ExitIsClean, schedVars
<1>3. CASE Run
  BY <1>3 DEF Run, lifeVars, QuitIsLate, ExitIsClean
<1>4. CASE Crash \/ Report \/ CloseEngine
  BY <1>4 DEF Crash, Report, CloseEngine, QuitIsLate, ExitIsClean, schedVars
<1>5. CASE FreeBanks
  <2>1. /\ stage = "close" /\ stage' = "exited" /\ next_core = NCores
        /\ open' = open /\ blocks' = blocks \ DramBlocks
    BY <1>5 DEF FreeBanks
  <2>2. open = {}
    BY <2>1, FirstCore, NCoresAssumption DEF LifeInv, StagesOK, EnginesAreLate
  <2>3. blocks' = SramBlocks
    BY <2>1, SramIsLeft DEF LifeInv, BlocksAreThere, SetUp
  <2>4. QED
    BY <2>1, <2>2, <2>3 DEF QuitIsLate, ExitIsClean
<1>6. CASE UNCHANGED <<lifeVars, schedVars>>
  BY <1>6 DEF lifeVars, schedVars, QuitIsLate, ExitIsClean
<1>7. QED
  BY <1>1, <1>2, <1>3, <1>4, <1>5, <1>6 DEF LifeNext

\* Asked to quit, the process is a bounded number of steps from its end.
LEMMA ExitIsBounded == LifeInv /\ SchedInv => ExitBounded
<1> SUFFICES ASSUME LifeInv, SchedInv, uc_quit
             PROVE  StepsToExit \in 0 .. SliceInsns + NCores + 4
  BY DEF ExitBounded
<1>1. /\ NCores \in Nat /\ SliceInsns \in Nat /\ next_core \in 0 .. NCores
      /\ StepsToStop \in 0 .. SliceInsns + 2
  BY StopIsBounded, SchedulerAssumption, NCoresAssumption
     DEF StopBounded, LifeInv, StagesOK
<1>2. StepsToExit \in {StepsToStop + NCores + 2, (NCores - next_core) + 1, 0}
  BY DEF StepsToExit
<1>3. QED
  BY <1>1, <1>2

\* Each step shortens the way.
LEMMA ExitNearsNext == LifeInv /\ SchedInv /\ QuitIsLate /\ LifeNext => ExitNears
<1> SUFFICES ASSUME LifeInv, SchedInv, QuitIsLate, LifeNext, uc_quit
             PROVE  StepsToExit' < StepsToExit
  BY DEF ExitNears
<1>1. /\ NCores \in Nat \ {0} /\ SliceInsns \in Nat /\ next_core \in 0 .. NCores
      /\ StepsToStop \in Nat
  <2>1. StepsToStop \in 0 .. SliceInsns + 2
    BY StopIsBounded DEF StopBounded
  <2>2. QED
    BY <2>1, SchedulerAssumption, NCoresAssumption DEF LifeInv, StagesOK
<1>2. stage \in {"run", "close", "exited", "crashed"}
  BY DEF QuitIsLate
<1>3. CASE Run
  <2>1. stage = "run" /\ stage' = "run"
    BY <1>3 DEF Run, lifeVars
  <2>2. StepsToStop' < StepsToStop
    BY <1>3, StopNearsNext DEF Run, StopNears
  <2>3. /\ StepsToExit = StepsToStop + NCores + 2
        /\ StepsToExit' = StepsToStop' + NCores + 2
    BY <2>1 DEF StepsToExit
  <2>4. StepsToStop' \in Int
    <3>1. left' \in Int
      BY <1>3, SchedNextInv, SchedulerAssumption DEF Run, SchedInv, SchedTypeOK
    <3>2. StepsToStop' \in {left' + 2, 1, 0}
      BY DEF StepsToStop
    <3>3. QED
      BY <3>1, <3>2
  <2>5. PICK x \in Int, y \in Int : x = StepsToStop /\ y = StepsToStop'
    BY <1>1, <2>4
  <2>6. /\ StepsToExit = x + NCores + 2 /\ StepsToExit' = y + NCores + 2
        /\ y < x
    BY <2>2, <2>3, <2>5
  <2>7. QED
    BY <1>1, <2>6
<1>4. CASE Crash
  <2>1. StepsToExit = StepsToStop + NCores + 2 /\ StepsToExit' = 0
    BY <1>4 DEF Crash, StepsToExit
  <2>2. QED
    BY <1>1, <2>1
<1>5. CASE Report
  <2>1. /\ StepsToExit = StepsToStop + NCores + 2
        /\ StepsToExit' \in {(NCores - 0) + 1, 0}
    BY <1>5 DEF Report, StepsToExit
  <2>2. QED
    BY <1>1, <2>1
<1>6. CASE CloseEngine
  <2>1. /\ StepsToExit = (NCores - next_core) + 1
        /\ StepsToExit' = (NCores - (next_core + 1)) + 1
    BY <1>6 DEF CloseEngine, StepsToExit
  <2>2. QED
    BY <1>1, <2>1
<1>7. CASE FreeBanks
  <2>1. StepsToExit = (NCores - next_core) + 1 /\ StepsToExit' = 0
    BY <1>7 DEF FreeBanks, StepsToExit
  <2>2. QED
    BY <1>1, <2>1
<1>8. ~(MapBanks \/ MapSram \/ LoadImage \/ UcInit \/ StartRun)
  BY <1>2 DEF MapBanks, MapSram, LoadImage, UcInit, StartRun
<1>9. QED
  BY <1>3, <1>4, <1>5, <1>6, <1>7, <1>8 DEF LifeNext

\* After a request to quit the process ends, or is hung or dies, within a slice
\* and a step or two for each engine, and when it ends every engine is closed and
\* every bank unmapped.  With OnlyFailuresCrash this is EmulatorExits without the
\* fairness (main.cpp:756-780, 911-939).
THEOREM ExitIsPrompt ==
  LifeSafety => []ExitIsClean /\ []ExitBounded /\ [][ExitNears]_<<lifeVars, schedVars>>
<1>1. LifeInit => QuitIsLate /\ ExitIsClean
  BY DEF LifeInit, SchedInit, QuitIsLate, ExitIsClean
<1>2. LifeInv /\ SchedInv /\ QuitIsLate /\ [LifeNext]_<<lifeVars, schedVars>>
        => [ExitNears]_<<lifeVars, schedVars>>
  BY ExitNearsNext
<1>3. LifeSafety => []SchedInv
  BY LifetimeIsScheduled, SchedInvariance, PTL
<1>4. QED
  BY <1>1, <1>2, <1>3, CleanNext, ExitIsBounded, LifeInvariance, SetUpInvariance, PTL
     DEF LifeSafety
=============================================================================
