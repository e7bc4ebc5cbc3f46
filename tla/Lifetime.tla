------------------------------- MODULE Lifetime -------------------------------
(***************************************************************************)
(* The emulator's life: main allocates the guest's memory and loads two    *)
(* images (mem_init), opens a unicorn engine per core and builds its       *)
(* address map (uc_init), runs the scheduler, reports and frees.  What     *)
(* happens while it runs is module Scheduler's; here it meets what was set *)
(* up before it, and what failed then.                                     *)
(*                                                                         *)
(* Addresses and sizes are in units of 0x400 bytes.                        *)
(***************************************************************************)
EXTENDS Scheduler, PhysMap, Sequences

CONSTANT FileSizes  \* how many units of an image file there may be

KiB(n) == n \div \h400

ASSUME LifetimeAssumption ==
  /\ DRAM_SIZE = KiB(\h40000000)
  /\ FileSizes \subseteq 1 .. KiB(\h1000000)  \* the most that mem_init reads

VARIABLES
  stage,     \* where main is
  next_core, \* the variable of its loops over the cores
  blocks,    \* the host's blocks that are allocated
  files,     \* the images loaded so far, first to last
  open,      \* the cores whose engine is open
  fixed,     \* fixed[c]: what uc_init mapped in core c, for good
  unnoticed  \* history: a call of unicorn or fopen failed and nobody looked

lifeVars == <<stage, next_core, blocks, files, open, fixed, unnoticed>>

Stages == {"map banks", "map sram", "load", "init", "run", "close", "exited",
           "gave up", "crashed"}

KADDRESS_800 == DRAM + KiB(\h60000)
PADDRESS_800 == DRAM + KiB(\hF5000)

DramBlocks == {Block[k] : k \in Banks}
SramBlocks == {"iram", "tzram"}

-----------------------------------------------------------------------------
\* What uc_init maps in every engine, in this order: the devices, then the two
\* blocks of SRAM.
InitRegions ==
  <<Region("timer",   KiB(\h60005000), KiB(\h400)),
    Region("host1x",  KiB(\h50000000), KiB(\h40000)),
    Region("system",  KiB(\h6000C000), KiB(\h800)),
    Region("mselect", KiB(\h50060000), KiB(\h1000)),
    Region("gicd",    KiB(\h50041000), KiB(\h1000)),
    Region("gicc",    KiB(\h50042000), KiB(\h2000)),
    Region("mc",      KiB(\h70019000), KiB(\h1000)),
    Region("mc0",     KiB(\h7001C000), KiB(\h1000)),
    Region("mc1",     KiB(\h7001D000), KiB(\h1000)),
    Region("car",     KiB(\h60006000), KiB(\h1000)),
    Region("pinmux",  KiB(\h70003000), KiB(\h1000)),
    Region("uart",    KiB(\h70006000), KiB(\h1000)),
    Region("iram",    KiB(\h40000000), KiB(\h40000)),
    Region("tzram",   KiB(\h7C010000), KiB(\h10000))>>

Overlap(r, s) == r.start < s.start + s.size /\ s.start < r.start + r.size

\* External: uc_mmio_map and uc_mem_map_ptr refuse a region that overlaps one
\* before it; nobody looks at their result.
Granted(regions) ==
  {regions[k] : k \in {k \in DOMAIN regions :
                         \A j \in 1 .. k - 1 : ~Overlap(regions[j], regions[k])}}

Apart(r, regions) == \A s \in regions : ~Overlap(r, s)

\* The address map of core c: what it keeps, and in its slice the DRAM.
Map(c) ==
  fixed[c] \cup {r \in DramRegions : c \in mapped /\ Apart(r, fixed[c])}

-----------------------------------------------------------------------------
MapBanks_Unchecked ==
  /\ stage = "map banks"
  /\ \E got \in SUBSET DramBlocks : blocks' = got
  /\ stage' = "map sram"
  /\ UNCHANGED <<next_core, files, open, fixed, unnoticed, schedVars>>

\* Four mmaps, then one test of their results.
MapBanks ==
  /\ stage = "map banks"
  /\ \E got \in SUBSET DramBlocks :
       /\ blocks' = got
       /\ stage' = IF got = DramBlocks THEN "map sram" ELSE "gave up"
  /\ UNCHANGED <<next_core, files, open, fixed, unnoticed, schedVars>>

\* Two mallocs, then one test.
MapSram ==
  /\ stage = "map sram"
  /\ \E got \in SUBSET SramBlocks :
       /\ blocks' = blocks \cup got
       /\ stage' = IF got = SramBlocks THEN "load" ELSE "gave up"
  /\ UNCHANGED <<next_core, files, open, fixed, unnoticed, schedVars>>

\* An image is read to where paddr_to_alloc finds its address.
Image(name, addr, size) ==
  [name |-> name, loc |-> paddr_to_alloc(addr), size |-> size]

AllLoaded(count) == count = 2

\* fopen and fread; when fopen fails, fread of a null FILE ends the process.
Load(name, addr) ==
  \/ /\ \E size \in FileSizes : files' = Append(files, Image(name, addr, size))
     /\ stage' = IF AllLoaded(Len(files')) THEN "init" ELSE stage
     /\ UNCHANGED unnoticed
  \/ stage' = "crashed" /\ unnoticed' = TRUE /\ UNCHANGED files

LoadImage_ProcessFirst ==
  /\ stage = "load"
  /\ IF files = <<>> THEN Load("process", PADDRESS_800)
                     ELSE Load("kernel", KADDRESS_800)
  /\ UNCHANGED <<next_core, blocks, open, fixed, schedVars>>

LoadImage ==
  /\ stage = "load"
  /\ IF files = <<>> THEN Load("kernel", KADDRESS_800)
                     ELSE Load("process", PADDRESS_800)
  /\ UNCHANGED <<next_core, blocks, open, fixed, schedVars>>

\* uc_init of the next core.  main ignores what it returns, which is nothing
\* unless uc_open failed; then the engine stays null.
UcInit ==
  /\ stage = "init"
  /\ next_core < NCores
  /\ \/ /\ open'  = open \cup {next_core}
        /\ fixed' = [fixed EXCEPT ![next_core] = Granted(InitRegions)]
        /\ UNCHANGED unnoticed
     \/ unnoticed' = TRUE /\ UNCHANGED <<open, fixed>>
  /\ next_core' = next_core + 1
  /\ UNCHANGED <<stage, blocks, files, schedVars>>

AllInit == next_core = NCores

\* Core 0 is put online (SchedInit has it so) and its PC is written; the write
\* to an engine that is not open ends the process.
StartRun ==
  /\ stage = "init"
  /\ AllInit
  /\ stage' = IF 0 \in open THEN "run" ELSE "crashed"
  /\ UNCHANGED <<next_core, blocks, files, open, fixed, unnoticed, schedVars>>

\* A step of the scheduler; smcCpuOn only names cores that are open.
Run ==
  /\ stage = "run"
  /\ SchedNext
  /\ \A c \in Cores : cores_online'[c] => c \in open
  /\ UNCHANGED lifeVars

\* smcCpuOn, or hook_mem_invalid's walk of everyone's tables, uses an engine
\* that is not open.
Crash ==
  /\ stage = "run"
  /\ phase = "slice" /\ left > 0
  /\ open # Cores
  /\ stage' = "crashed"
  /\ UNCHANGED <<next_core, blocks, files, open, fixed, unnoticed, schedVars>>

Report_KeepsIndex ==
  /\ stage = "run"
  /\ phase = "done"
  /\ stage' = IF open = Cores THEN "close" ELSE "crashed"
  /\ UNCHANGED <<next_core, blocks, files, open, fixed, unnoticed, schedVars>>

\* uc_run_stuff and main print the registers of all cores.
Report ==
  /\ stage = "run"
  /\ phase = "done"
  /\ stage' = IF open = Cores THEN "close" ELSE "crashed"
  /\ next_core' = 0
  /\ UNCHANGED <<blocks, files, open, fixed, unnoticed, schedVars>>

CloseEngine ==
  /\ stage = "close"
  /\ next_core < NCores
  /\ open' = open \ {next_core}
  /\ next_core' = next_core + 1
  /\ UNCHANGED <<stage, blocks, files, fixed, unnoticed, schedVars>>

\* The banks are unmapped; iram and tzram are left to the end of the process.
FreeBanks ==
  /\ stage = "close"
  /\ next_core = NCores
  /\ blocks' = blocks \ DramBlocks
  /\ stage' = "exited"
  /\ UNCHANGED <<next_core, files, open, fixed, unnoticed, schedVars>>

LifeInit ==
  /\ SchedInit
  /\ stage  = "map banks"
  /\ next_core      = 0
  /\ blocks = {}
  /\ files  = <<>>
  /\ open   = {}
  /\ fixed  = [c \in Cores |-> {}]
  /\ unnoticed = FALSE

LifeNext ==
  \/ MapBanks \/ MapSram \/ LoadImage \/ UcInit \/ StartRun
  \/ Run \/ Crash \/ Report \/ CloseEngine \/ FreeBanks

LifeSafety == LifeInit /\ [][LifeNext]_<<lifeVars, schedVars>>

\* The host thread keeps running.
LifeSpec == LifeSafety /\ WF_<<lifeVars, schedVars>>(LifeNext)

-----------------------------------------------------------------------------
\* Every variable has its type, those of the scheduler included.
LifeTypeOK ==
  /\ SchedTypeOK
  /\ stage \in Stages
  /\ next_core \in 0 .. NCores
  /\ blocks \subseteq DramBlocks \cup SramBlocks
  /\ Len(files) <= 2
  /\ open \subseteq Cores
  /\ unnoticed \in BOOLEAN

HostBlocks == DramBlocks \cup SramBlocks

\* No engine maps memory of the host that is not allocated, from the first
\* uc_init to the last uc_close (main.cpp:864-880, 707-708, 923-936).
MapsAreBacked ==
  \A c \in open : \A r \in Map(c) : r.block \in HostBlocks => r.block \in blocks

\* While a core runs, its guest finds every device, both SRAMs and the three
\* banks of DRAM: none was refused because it overlaps one mapped before it
\* (main.cpp:696-708, 731-734; each mmio_*_init).
MapIsWhole ==
  stage = "run" /\ phase = "slice" =>
    Map(i) = {InitRegions[k] : k \in DOMAIN InitRegions} \cup DramRegions

\* Which image the guest finds first at an address: the last one loaded over it.
Covers(image, loc) ==
  /\ image.loc.block = loc.block
  /\ image.loc.at <= loc.at
  /\ loc.at < image.loc.at + image.size

ImageAt(loc) ==
  LET hits == {k \in DOMAIN files : Covers(files[k], loc)}
  IN  IF hits = {} THEN "nothing"
      ELSE files[CHOOSE k \in hits : \A j \in hits : j <= k].name

\* In its slice a core finds the kernel at the address where core 0 starts and
\* the process image at its own: where the emulator put them is where the guest
\* sees them, and the process is not overwritten by a kernel that reaches into
\* it (main.cpp:72-75, 731, 882-888, 909).
ImagesInPlace ==
  stage = "run" /\ phase = "slice" =>
    /\ ImageAt(GuestSees(Map(i), KADDRESS_800)) = "kernel"
    /\ ImageAt(GuestSees(Map(i), PADDRESS_800)) = "process"

\* Once it is asked to quit the emulator gets to its end, past the reports and
\* the closing of every engine, unless smcGetConfig has hung it.  It dies before
\* that only of a failure that it did not look at: no engine is used that uc_init
\* has not opened, by smcCpuOn, by a walk of all cores' tables, or by the reports
\* (main.cpp:420-423, 640-643, 776-780, 903-906, 913-936).
EmulatorExits ==
  uc_quit ~> \/ stage = "exited" /\ open = {} /\ blocks = SramBlocks
             \/ stage = "crashed" /\ unnoticed
             \/ phase = "hung"
=============================================================================
