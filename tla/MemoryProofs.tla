---------------------------- MODULE MemoryProofs ----------------------------
(***************************************************************************)
(* Proofs about module Walker, for banks, tables and pages of any size,    *)
(* any tables in them and any values of the roots; and about module        *)
(* Memory, which puts the walks beside the emulator's life.                *)
(***************************************************************************)
EXTENDS Memory, LifetimeProofs

-----------------------------------------------------------------------------
\* The first bank from both sides.

\* In the first bank, its first byte excepted, the emulator reads at
LEMMA FirstBankRead ==
  ASSUME NEW addr \in Nat, WellInside(addr), NEW k \in 0 .. E - 1
  PROVE  /\ Location(addr, k) = [block |-> "dram", at |-> (addr + k) - DRAM]
         /\ InDram(Location(addr, k))
<1>1. /\ DRAM_SIZE \in Nat /\ DRAM \in Nat /\ k \in Nat /\ k < E /\ E \in Nat
      /\ DRAM < addr /\ addr + E <= DRAM + DRAM_SIZE
  BY PhysMapAssumption, WalkerAssumption DEF DRAM, WellInside
<1>2. paddr_to_alloc(addr) = [block |-> "dram", at |-> addr - DRAM]
  <2>1. addr <= DRAM + DRAM_SIZE
    BY <1>1
  <2>2. QED
    BY <1>1, <2>1, FirstBankLocated
<1>3. (addr - DRAM) + k = (addr + k) - DRAM
  BY <1>1
<1>4. Location(addr, k) = [block |-> "dram", at |-> (addr + k) - DRAM]
  BY <1>2, <1>3 DEF Location
<1>5. (addr + k) - DRAM \in 0 .. DRAM_SIZE - 1
  BY <1>1
<1>6. QED
  BY <1>4, <1>5 DEF InDram

\* what the guest's map has there.
LEMMA FirstBankAgrees ==
  ASSUME NEW addr \in Nat, WellInside(addr), NEW k \in 0 .. E - 1
  PROVE  Location(addr, k) = GuestSees(DramRegions, addr + k)
<1>1. /\ Location(addr, k) = [block |-> "dram", at |-> (addr + k) - DRAM]
      /\ addr + k \in Nat /\ DRAM <= addr + k /\ addr + k < DRAM + DRAM_SIZE
  BY FirstBankRead, PhysMapAssumption, WalkerAssumption DEF DRAM, WellInside
<1> DEFINE a    == addr + k
           none == {}
<1>2. /\ a \in Nat /\ DRAM <= a /\ a < DRAM + DRAM_SIZE
      /\ \A r \in none : ~Inside(r, a)
      /\ none \cup DramRegions = DramRegions
  BY <1>1
<1> HIDE DEF a, none
<1>3. GuestSees(none \cup DramRegions, a) = [block |-> "dram", at |-> a - DRAM]
  BY <1>2, FirstBankSeen
<1>4. GuestSees(DramRegions, a) = [block |-> "dram", at |-> a - DRAM]
  BY <1>2, <1>3, Zenon
<1>5. Location(addr, k) = [block |-> "dram", at |-> a - DRAM]
  BY <1>1 DEF a
<1>6. QED
  BY <1>4, <1>5 DEF a

-----------------------------------------------------------------------------
\* The calls of uc_mmu_level_iterate.

\* Those that have passed the test at its top.
Frames ==
  [addr : {a \in Nat : ~Bad(a)}, base : Nat, level : 0 .. 2, k : 0 .. E]

\* Each is one level below the call around it.
Nested(calls) ==
  /\ calls \in Seq(Frames)
  /\ Len(calls) <= 3
  /\ \A d \in 1 .. Len(calls) : calls[d].level = Len(calls) - d

\* How many calls there are.
LEMMA Depths ==
  \A n \in Nat : /\ n <= 2 => n \in 0 .. 2
                 /\ n <= 3 /\ n # 0 => n \in 1 .. 3
OBVIOUS

\* One more, if its level is the next and its address is not refused.
LEMMA CallNested ==
  ASSUME NEW calls, Nested(calls), Len(calls) <= 2,
         NEW addr \in Nat, NEW base \in Nat
  PROVE  Nested(Call(Frame(addr, base, Len(calls)), calls))
<1> DEFINE frame == Frame(addr, base, Len(calls))
<1>1. CASE Bad(addr)
  BY <1>1 DEF Call, Frame
<1>2. CASE ~Bad(addr)
  <2>1. /\ Call(frame, calls) = <<frame>> \o calls
        /\ calls \in Seq(Frames) /\ Len(calls) \in 0 .. 2
    <3>1. ~Bad(frame.addr)
      BY <1>2 DEF Frame
    <3>2. calls \in Seq(Frames)
      BY DEF Nested
    <3>3. Len(calls) \in Nat
      BY <3>2, LenProperties
    <3>4. Call(frame, calls) = <<frame>> \o calls
      BY <3>1 DEF Call
    <3>5. Len(calls) \in 0 .. 2
      BY <3>3, Depths
    <3>6. QED
      BY <3>2, <3>4, <3>5
  <2>2. frame \in Frames /\ frame.level = Len(calls)
    BY <1>2, <2>1, WalkerAssumption DEF Frame, Frames
  <2> HIDE DEF frame
  <2>3. /\ <<frame>> \in Seq(Frames) /\ Len(<<frame>>) = 1 /\ <<frame>>[1] = frame
    BY <2>2
  <2>4. /\ <<frame>> \o calls \in Seq(Frames)
        /\ Len(<<frame>> \o calls) = 1 + Len(calls)
        /\ \A d \in 1 .. 1 + Len(calls) :
             (<<frame>> \o calls)[d] = IF d <= 1 THEN <<frame>>[d] ELSE calls[d - 1]
    BY <2>1, <2>3, ConcatProperties
  <2>5. ASSUME NEW d \in 1 .. 1 + Len(calls)
        PROVE  (<<frame>> \o calls)[d].level = 1 + Len(calls) - d
    <3>1. CASE d = 1
      BY <2>1, <2>2, <2>3, <2>4, <3>1
    <3>2. CASE d # 1
      <4>1. (<<frame>> \o calls)[d] = calls[d - 1] /\ d - 1 \in 1 .. Len(calls)
        BY <2>1, <2>4, <3>2
      <4>2. calls[d - 1].level = Len(calls) - (d - 1)
        BY <4>1 DEF Nested
      <4>3. QED
        BY <2>1, <4>1, <4>2
    <3>3. QED
      BY <3>1, <3>2
  <2>6. Nested(<<frame>> \o calls)
    BY <2>1, <2>4, <2>5 DEF Nested
  <2>7. QED
    BY <2>1, <2>6 DEF frame
<1>3. QED
  BY <1>1, <1>2

\* The innermost one goes on to its next entry.
LEMMA AdvanceNested ==
  ASSUME NEW calls, Nested(calls), calls # <<>>, Head(calls).k < E
  PROVE  /\ Nested(<<Advance(Head(calls))>> \o Tail(calls))
         /\ Len(<<Advance(Head(calls))>> \o Tail(calls)) = Len(calls)
         /\ Head(calls) \in Frames /\ Head(calls).level = Len(calls) - 1
<1> DEFINE h    == Head(calls)
           next == Advance(h)
<1>1. /\ h \in Frames /\ h = calls[1]
      /\ Tail(calls) \in Seq(Frames) /\ Len(Tail(calls)) = Len(calls) - 1
      /\ \A d \in 1 .. Len(calls) - 1 : Tail(calls)[d] = calls[d + 1]
      /\ Len(calls) \in 1 .. 3
  <2>1. calls \in Seq(Frames) /\ Len(calls) <= 3
    BY DEF Nested
  <2>2. Len(calls) \in Nat /\ Len(calls) # 0
    BY <2>1, EmptySeq
  <2>3. calls \in Seq(Frames) /\ calls # <<>>
    BY <2>1
  <2>4. /\ h \in Frames /\ Tail(calls) \in Seq(Frames) /\ Len(Tail(calls)) = Len(calls) - 1
        /\ \A d \in 1 .. Len(Tail(calls)) : Tail(calls)[d] = calls[d + 1]
    BY <2>3, HeadTailProperties
  <2>5. h = calls[1]
    BY <2>1, <2>2
  <2>6. Len(calls) \in 1 .. 3
    BY <2>1, <2>2, Depths
  <2>7. QED
    BY <2>4, <2>5, <2>6
<1>2. h.level = Len(calls) - 1
  BY <1>1 DEF Nested
<1>3. next \in Frames /\ next.level = h.level
  <2>1. h.k \in 0 .. E /\ h.k < E
    BY <1>1 DEF Frames
  <2>2. h.k + 1 \in 0 .. E
    BY <2>1, WalkerAssumption
  <2>3. QED
    BY <1>1, <2>2 DEF Frames, Advance
<1> HIDE DEF h, next
<1>4. <<next>> \in Seq(Frames) /\ Len(<<next>>) = 1 /\ <<next>>[1] = next
  BY <1>3
<1>5. /\ <<next>> \o Tail(calls) \in Seq(Frames)
      /\ Len(<<next>> \o Tail(calls)) = 1 + Len(Tail(calls))
      /\ \A d \in 1 .. 1 + Len(Tail(calls)) :
           (<<next>> \o Tail(calls))[d] =
             IF d <= 1 THEN <<next>>[d] ELSE Tail(calls)[d - 1]
  BY <1>1, <1>4, ConcatProperties
<1>6. Len(<<next>> \o Tail(calls)) = Len(calls)
  BY <1>1, <1>5
<1>7. ASSUME NEW d \in 1 .. Len(calls)
      PROVE  (<<next>> \o Tail(calls))[d].level = Len(calls) - d
  <2>1. CASE d = 1
    BY <1>1, <1>2, <1>3, <1>4, <1>5, <2>1
  <2>2. CASE d # 1
    <3>1. (<<next>> \o Tail(calls))[d] = Tail(calls)[d - 1] /\ d - 1 \in 1 .. Len(calls) - 1
      BY <1>1, <1>5, <2>2
    <3>2. Tail(calls)[d - 1] = calls[d]
      BY <1>1, <3>1
    <3>3. QED
      BY <3>1, <3>2 DEF Nested
  <2>3. QED
    BY <2>1, <2>2
<1>8. Nested(<<next>> \o Tail(calls))
  BY <1>1, <1>5, <1>6, <1>7 DEF Nested
<1>9. QED
  BY <1>1, <1>2, <1>6, <1>8 DEF h, next

\* It returns.
LEMMA ReturnNested ==
  ASSUME NEW calls, Nested(calls), calls # <<>>
  PROVE  Nested(Tail(calls))
<1>1. calls \in Seq(Frames) /\ Len(calls) <= 3
  BY DEF Nested
<1>2. /\ Tail(calls) \in Seq(Frames) /\ Len(Tail(calls)) = Len(calls) - 1
      /\ \A d \in 1 .. Len(calls) - 1 : Tail(calls)[d] = calls[d + 1]
      /\ Len(calls) \in Nat \ {0}
  BY <1>1, HeadTailProperties, EmptySeq
<1>3. ASSUME NEW d \in 1 .. Len(calls) - 1
      PROVE  Tail(calls)[d].level = Len(calls) - 1 - d
  <2>1. Tail(calls)[d] = calls[d + 1] /\ d + 1 \in 1 .. Len(calls)
    BY <1>2
  <2>2. calls[d + 1].level = Len(calls) - (d + 1)
    BY <2>1 DEF Nested
  <2>3. QED
    BY <1>2, <2>1, <2>2
<1>4. QED
  BY <1>1, <1>2, <1>3 DEF Nested

-----------------------------------------------------------------------------
\* The walk.

\* The addresses and the entries the walk computes are numbers.
LEMMA SizesType ==
  /\ \A level \in 0 .. 2 : ttb_vaddr_sizes[level] \in Nat
  /\ Space \in Nat \ {0} /\ Top \in Nat
<1>1. E \in Nat \ {0} /\ Page \in Nat \ {0}
  BY WalkerAssumption
<1>2. Page * E \in Nat \ {0}
  BY <1>1
<1>3. Page * E * E \in Nat \ {0}
  BY <1>1, <1>2
<1>4. Page * E * E * E \in Nat \ {0}
  BY <1>1, <1>3
<1>5. Space \in Nat \ {0}
  BY <1>4 DEF Space
<1>6. Top \in Nat
  BY <1>5 DEF Top, Full
<1>7. \A level \in 0 .. 2 : ttb_vaddr_sizes[level] \in Nat
  <2>1. /\ ttb_vaddr_sizes[0] = Page * E * E
        /\ ttb_vaddr_sizes[1] = Page * E
        /\ ttb_vaddr_sizes[2] = Page
    BY DEF ttb_vaddr_sizes
  <2>2. QED
    BY <1>1, <1>2, <1>3, <2>1
<1>8. QED
  BY <1>5, <1>6, <1>7

\* So is the address of an entry,
LEMMA VaddrType == \A frame \in Frames : Vaddr(frame) \in Nat
<1> SUFFICES ASSUME NEW frame \in Frames PROVE Vaddr(frame) \in Nat
  OBVIOUS
<1>1. /\ frame.base \in Nat /\ frame.k \in Nat
      /\ ttb_vaddr_sizes[frame.level] \in Nat
  BY SizesType, WalkerAssumption DEF Frames
<1>2. ttb_vaddr_sizes[frame.level] * frame.k \in Nat
  BY <1>1
<1>3. frame.base + ttb_vaddr_sizes[frame.level] * frame.k \in Nat
  BY <1>1, <1>2
<1>4. \A n \in Nat : n % Space \in Nat
  BY SizesType
<1>5. (frame.base + ttb_vaddr_sizes[frame.level] * frame.k) % Space \in Nat
  BY <1>3, <1>4
<1>6. QED
  BY <1>5, SizesType DEF Vaddr

\* the address in it,
LEMMA FoundType ==
  ASSUME memory \in Memories, NEW loc, NEW val \in Found(loc)
  PROVE  val.addr \in Nat
<1>1. CASE InDram(loc)
  <2>1. val = IF loc.at \in DOMAIN memory THEN memory[loc.at] ELSE Zero
    BY <1>1 DEF Found, Dram
  <2>2. QED
    BY <2>1, WalkerAssumption DEF Zero, Entry
<1>2. CASE ~InDram(loc)
  BY <1>2, WalkerAssumption DEF Found
<1>3. QED
  BY <1>1, <1>2

\* The roots of every walk are numbers, and there are two of each core at most.
LEMMA RootsType ==
  ASSUME ttbr \in [Cores -> Ttbrs], NEW c \in Cores
  PROVE  Roots(c) \in Seq(Nat) /\ Len(Roots(c)) = 2
<1>1. ttbr[c] \in Nat \X Nat
  BY WalkerAssumption
<1>2. \A n \in Nat : Low32(n) \in Nat
  BY PhysMapAssumption DEF Low32, Word
<1>3. Low32(ttbr[c][1]) \in Nat /\ Low32(ttbr[c][2]) \in Nat
  BY <1>1, <1>2
<1>4. QED
  BY <1>3 DEF Roots

\* The same of a walk of all cores.
LEMMA AllRootsType ==
  ASSUME ttbr \in [Cores -> Ttbrs]
  PROVE  AllRoots \in Seq(Nat) /\ Len(AllRoots) = 2 * NCores
<1>1. ASSUME NEW j \in 1 .. 2 * NCores
      PROVE  Roots((j - 1) \div 2)[1 + ((j - 1) % 2)] \in Nat
  <2>1. (j - 1) \div 2 \in Cores
    BY NCoresAssumption DEF Cores
  <2>2. 1 + ((j - 1) % 2) \in {1, 2}
    BY NCoresAssumption
  <2>3. ttbr[(j - 1) \div 2] \in Nat \X Nat
    BY <2>1, WalkerAssumption
  <2>4. \A n \in Nat : Low32(n) \in Nat
    BY PhysMapAssumption DEF Low32, Word
  <2>5. /\ Roots((j - 1) \div 2)[1] \in Nat
        /\ Roots((j - 1) \div 2)[2] \in Nat
    BY <2>3, <2>4 DEF Roots
  <2>6. QED
    BY <2>2, <2>5
<1>2. AllRoots \in [1 .. 2 * NCores -> Nat] /\ 2 * NCores \in Nat
  BY <1>1, NCoresAssumption DEF AllRoots
<1>3. QED
  BY <1>2

-----------------------------------------------------------------------------
\* The invariant.

WalkInv ==
  /\ memory \in Memories /\ ttbr \in [Cores -> Ttbrs]
  /\ walker \in {"guest", "walk", "stopped", "crashed"}
  /\ core \in Cores /\ cause \in Causes /\ check \in Checks \cup {0}
  /\ message \in {"none", "READ", "WRITE", "EXEC"}
  /\ todo \in Seq(Nat) /\ Len(todo) <= 2 * NCores
  /\ Nested(stack)
  /\ walker = "walk" => cause # UC_MEM_FETCH_UNMAPPED

\* Nothing is being walked, or to be.
LEMMA NoCalls == Nested(<<>>) /\ <<>> \in Seq(Nat) /\ Len(<<>>) <= 2 * NCores
<1>1. <<>> \in Seq(Frames) /\ <<>> \in Seq(Nat) /\ Len(<<>>) = 0
  BY EmptySeq
<1>2. QED
  BY <1>1, NCoresAssumption DEF Nested

\* At the start,
LEMMA WalkInitInv == WalkInit => WalkInv
<1> SUFFICES ASSUME WalkInit PROVE WalkInv
  OBVIOUS
<1>1. 0 \in Cores
  BY NCoresAssumption DEF Cores
<1>2. PrefetchAbort \in Causes
  BY DEF Causes
<1>3. QED
  BY <1>1, <1>2, NoCalls DEF WalkInit, WalkInv

\* after one more entry,
LEMMA ExamineInv ==
  ASSUME WalkInv, ExamineEntry
  PROVE  WalkInv'
<1> DEFINE frame == Head(stack)
           rest  == <<Advance(frame)>> \o Tail(stack)
<1>1. PICK val \in Found(Location(frame.addr, frame.k)) : Examine(val)
  BY DEF ExamineEntry
<1>2. Nested(stack) /\ stack # <<>> /\ Head(stack).k < E
  BY DEF WalkInv, ExamineEntry, Walking
<1>3. /\ Nested(rest) /\ Len(rest) = Len(stack)
      /\ frame \in Frames /\ frame.level = Len(stack) - 1
  BY <1>2, AdvanceNested
<1>4. val.addr \in Nat
  BY FoundType DEF WalkInv
<1>5. Nested(stack')
  <2>1. CASE stack' = rest
    BY <1>3, <2>1
  <2>2. CASE /\ Descends(frame, val)
             /\ stack' = Call(Frame(val.addr, Vaddr(frame), frame.level + 1), rest)
    <3>1. frame.level \in 0 .. 2 /\ frame.level < 2
      BY <1>3, <2>2 DEF Descends, Frames
    <3>2. Len(stack) \in Nat
      BY <1>2, LenProperties DEF Nested
    <3>3. frame.level + 1 = Len(rest) /\ Len(rest) <= 2
      BY <1>3, <3>1, <3>2
    <3>4. Vaddr(frame) \in Nat
      BY <1>3, VaddrType
    <3>5. stack' = Call(Frame(val.addr, Vaddr(frame), Len(rest)), rest)
      BY <2>2, <3>3
    <3> HIDE DEF frame, rest
    <3>6. QED
      BY <1>3, <1>4, <3>3, <3>4, <3>5, CallNested
  <2>3. QED
    BY <1>1, <2>1, <2>2 DEF Examine
<1>6. UNCHANGED <<memory, ttbr, walker, core, cause, check, todo, message>>
  BY DEF ExamineEntry
<1> HIDE DEF frame, rest
<1>7. QED
  BY <1>5, <1>6 DEF WalkInv

\* one more root,
LEMMA NextRootInv ==
  ASSUME WalkInv, NextRoot
  PROVE  WalkInv'
<1>1. /\ todo \in Seq(Nat) /\ todo # <<>> /\ Len(todo) <= 2 * NCores
      /\ stack = <<>> /\ stack' = Call(Frame(Head(todo), 0, 0), <<>>)
      /\ todo' = Tail(todo)
  BY DEF WalkInv, NextRoot
<1>2. Head(todo) \in Nat /\ Tail(todo) \in Seq(Nat) /\ Len(Tail(todo)) = Len(todo) - 1
  BY <1>1, HeadTailProperties
<1>3. Len(todo') <= 2 * NCores
  <2>1. Len(todo) \in Nat
    BY <1>1, LenProperties
  <2>2. QED
    BY <1>1, <1>2, <2>1, NCoresAssumption
<1>4. Nested(stack')
  <2>1. Nested(<<>>) /\ Len(<<>>) = 0 /\ Len(<<>>) <= 2
    BY NoCalls
  <2>2. Nested(Call(Frame(Head(todo), 0, Len(<<>>)), <<>>))
    BY <1>2, <2>1, CallNested
  <2>3. QED
    BY <1>1, <2>1, <2>2
<1>5. UNCHANGED <<memory, ttbr, walker, core, cause, check, message>>
  BY DEF NextRoot
<1>6. QED
  BY <1>1, <1>2, <1>3, <1>4, <1>5 DEF WalkInv

\* and one more access to what is not there.
LEMMA MissingMemoryInv ==
  ASSUME WalkInv, NEW c \in Cores, NEW type \in Causes, NEW address \in Checks,
         MissingMemory(c, type, address)
  PROVE  WalkInv'
<1>1. /\ core' = c /\ cause' = type /\ check' = address
      /\ Dispatch(c, type) /\ UNCHANGED <<memory, ttbr, stack>>
  BY DEF MissingMemory
<1>2. \/ StartWalk(Roots(c)) /\ type # UC_MEM_FETCH_UNMAPPED
      \/ StartWalk(AllRoots) /\ type # UC_MEM_FETCH_UNMAPPED
      \/ GiveUp
  <2> USE DEF UC_MEM_READ_UNMAPPED, UC_MEM_WRITE_UNMAPPED, UC_MEM_FETCH_UNMAPPED,
              UC_ERR_FETCH_UNMAPPED, PrefetchAbort
  <2>1. CASE type \in {UC_MEM_READ_UNMAPPED, PrefetchAbort}
    BY <1>1, <2>1 DEF Dispatch
  <2>2. CASE type = UC_MEM_WRITE_UNMAPPED
    BY <1>1, <2>2 DEF Dispatch
  <2>3. CASE type = UC_MEM_FETCH_UNMAPPED
    BY <1>1, <2>3 DEF Dispatch
  <2>4. QED
    BY <2>1, <2>2, <2>3 DEF Causes
<1>3. todo' \in Seq(Nat) /\ Len(todo') <= 2 * NCores
  <2>1. /\ Roots(c) \in Seq(Nat) /\ Len(Roots(c)) <= 2 * NCores
        /\ AllRoots \in Seq(Nat) /\ Len(AllRoots) <= 2 * NCores
    <3>1. ttbr \in [Cores -> Ttbrs]
      BY DEF WalkInv
    <3>2. /\ Roots(c) \in Seq(Nat) /\ Len(Roots(c)) = 2
          /\ AllRoots \in Seq(Nat) /\ Len(AllRoots) = 2 * NCores
      BY <3>1, RootsType, AllRootsType
    <3>3. 2 <= 2 * NCores /\ 2 * NCores <= 2 * NCores
      BY NCoresAssumption
    <3>4. QED
      BY <3>2, <3>3
  <2>2. QED
    BY <1>2, <2>1 DEF WalkInv, StartWalk, GiveUp
<1>4. QED
  BY <1>1, <1>2, <1>3 DEF WalkInv, StartWalk, GiveUp

\* One step per action.
LEMMA WalkNextInv == WalkInv /\ [WalkNext]_walkVars => WalkInv'
<1> SUFFICES ASSUME WalkInv, [WalkNext]_walkVars PROVE WalkInv'
  OBVIOUS
<1>1. CASE ExamineEntry
  BY <1>1, ExamineInv
<1>2. CASE CrashAtEntry
  BY <1>2 DEF CrashAtEntry, WalkInv
<1>3. CASE TableDone
  <2>1. Nested(stack')
    BY <1>3, ReturnNested DEF TableDone, Walking, WalkInv
  <2>2. QED
    BY <1>3, <2>1 DEF TableDone, WalkInv
<1>4. CASE NextRoot
  BY <1>4, NextRootInv
<1>5. CASE EndReport
  <2>1. walker = "walk"
    BY <1>5 DEF EndReport, WalkDone
  <2>2. cause # PrefetchAbort => ReportOf[cause] \in {"READ", "WRITE"}
    BY <2>1 DEF WalkInv, Causes, ReportOf, UC_MEM_READ_UNMAPPED, UC_MEM_WRITE_UNMAPPED,
                UC_MEM_FETCH_UNMAPPED, UC_ERR_FETCH_UNMAPPED, PrefetchAbort
  <2>3. /\ walker' \in {"guest", "stopped"}
        /\ message' = message \/ message' \in {"READ", "WRITE"}
    BY <1>5, <2>2 DEF EndReport
  <2>4. UNCHANGED <<memory, ttbr, core, cause, check, todo, stack>>
    BY <1>5 DEF EndReport
  <2>5. QED
    BY <2>3, <2>4 DEF WalkInv
<1>6. ASSUME NEW c \in Cores, NEW type \in Causes, NEW address \in Checks,
             MissingMemory(c, type, address)
      PROVE  WalkInv'
  BY <1>6, MissingMemoryInv
<1>7. CASE UNCHANGED walkVars
  BY <1>7 DEF walkVars, WalkInv
<1>8. QED
  BY <1>1, <1>2, <1>3, <1>4, <1>5, <1>6, <1>7 DEF WalkNext, WalkStep

\* WalkInv holds throughout.
LEMMA WalkInvariance == WalkSafety => []WalkInv
BY WalkInitInv, WalkNextInv, PTL DEF WalkSafety

\* The walk's variables have their types, and its calls are nested three deep at
\* most whatever the tables point at, themselves included.
THEOREM WalkTypeCorrect == WalkSafety => []WalkTypeOK
<1>1. WalkInv => WalkTypeOK
  <2> SUFFICES ASSUME WalkInv PROVE WalkTypeOK
    OBVIOUS
  <2>1. stack \in Seq(Frames) /\ Len(stack) <= 3
    BY DEF WalkInv, Nested
  <2>2. DOMAIN stack = 1 .. Len(stack)
    BY <2>1, LenProperties
  <2>3. \A d \in DOMAIN stack : stack[d] \in Frames
    BY <2>1, <2>2, ElementOfSeq
  <2>4. \A d \in DOMAIN stack :
          stack[d].level = Len(stack) - d /\ stack[d].k \in 0 .. E
    BY <2>2, <2>3 DEF WalkInv, Nested, Frames
  <2>5. QED
    BY <2>1, <2>4 DEF WalkInv, WalkTypeOK
<1>2. QED
  BY <1>1, WalkInvariance, PTL

\* Of the tables the walk enters it reads what the guest has there, but for those
\* at the two ends of the first bank: for banks and tables of any size, and
\* tables that point anywhere.
THEOREM WalkerReadsTheGuests == WalkSafety => []TablesAsGuestSees
<1>1. WalkInv => TablesAsGuestSees
  <2> SUFFICES ASSUME WalkInv, NEW d \in DOMAIN stack,
                      stack[d].addr # DRAM, ~(stack[d].addr > DRAM + DRAM_SIZE - E)
               PROVE  /\ WellInside(stack[d].addr)
                      /\ \A k \in 0 .. E - 1 :
                           Location(stack[d].addr, k) =
                             GuestSees(DramRegions, stack[d].addr + k)
    BY DEF TablesAsGuestSees
  <2>1. stack \in Seq(Frames)
    BY DEF WalkInv, Nested
  <2>2. stack[d] \in Frames
    BY <2>1, LenProperties, ElementOfSeq
  <2>3. stack[d].addr \in Nat /\ ~Bad(stack[d].addr)
    BY <2>2 DEF Frames
  <2>4. WellInside(stack[d].addr)
    BY <2>3, PhysMapAssumption, WalkerAssumption DEF Bad, WellInside, DRAM
  <2>5. QED
    BY <2>3, <2>4, FirstBankAgrees
<1>2. QED
  BY <1>1, WalkInvariance, PTL

-----------------------------------------------------------------------------
\* The guest's translation in numbers.

\* v is q and, below it, x; of x, d is the digit for m and r what is below that.
Splits(m, n, q, x, v, d, r) ==
  /\ d \in 0 .. n - 1 /\ r \in 0 .. m - 1
  /\ x = d * m + r /\ v = (q * n + d) * m + r

\* Quotient and remainder make a number up, and they are the only ones that do.
LEMMA DivMod ==
  ASSUME NEW m \in Nat \ {0}, NEW x \in Nat, NEW q, q = x \div m, NEW r, r = x % m
  PROVE  q * m + r = x /\ q \in Nat /\ r \in 0 .. m - 1
<1>1. q * m + r = x
  BY SMTT(60)
<1>2. q \in Nat /\ r \in 0 .. m - 1
  OBVIOUS
<1>3. QED
  BY <1>1, <1>2

\* What is below a multiple is the remainder.
LEMMA ModUnique ==
  ASSUME NEW m \in Nat \ {0}, NEW q \in Nat, NEW r \in 0 .. m - 1
  PROVE  (q * m + r) % m = r
OBVIOUS

\* One more digit of an address.
LEMMA Digit ==
  ASSUME NEW m \in Nat \ {0}, NEW n \in Nat \ {0}, NEW q \in Nat,
         NEW x \in 0 .. m * n - 1, NEW v, v = q * (m * n) + x,
         NEW d, d = (v % (m * n)) \div m, NEW r, r = v % m
  PROVE  Splits(m, n, q, x, v, d, r)
<1> DEFINE e == x \div m
           s == x % m
<1>1. m * n \in Nat \ {0} /\ x \in Nat
  OBVIOUS
<1>2. v % (m * n) = x
  BY <1>1, ModUnique
<1>3. d = e
  BY <1>2
<1>4. e * m + s = x /\ e \in Nat /\ s \in 0 .. m - 1
  BY <1>1, DivMod
<1> HIDE DEF e, s
<1>5. e \in 0 .. n - 1
  <2>1. e * m < n * m
    BY <1>4
  <2>2. e < n
    BY <1>4, <2>1
  <2>3. QED
    BY <1>4, <2>2
<1>6. v = (q * n + e) * m + s
  <2>1. q * (m * n) = (q * n) * m
    OBVIOUS
  <2>2. (q * n + e) * m = (q * n) * m + e * m
    BY <1>4
  <2>3. QED
    BY <1>4, <2>1, <2>2
<1>7. q * n + e \in Nat
  BY <1>4
<1>8. r = s
  BY <1>4, <1>6, <1>7, ModUnique
<1>9. QED
  BY <1>3, <1>4, <1>5, <1>6, <1>8 DEF Splits

\* What an entry of each level covers, and how much those of a table cover.
LEMMA SizesAre ==
  /\ ttb_vaddr_sizes[0] = Page * E * E
  /\ ttb_vaddr_sizes[1] = Page * E
  /\ ttb_vaddr_sizes[2] = Page
  /\ Page \in Nat \ {0} /\ E \in Nat \ {0}
  /\ Page * E \in Nat \ {0} /\ Page * E * E \in Nat \ {0}
<1>1. Page \in Nat \ {0} /\ E \in Nat \ {0}
  BY WalkerAssumption
<1>2. Page * E \in Nat \ {0}
  BY <1>1
<1>3. Page * E * E \in Nat \ {0}
  BY <1>1, <1>2
<1>4. QED
  BY <1>1, <1>2, <1>3 DEF ttb_vaddr_sizes

\* An address of the upper half is Top and a digit for each level, and what is
\* left lies within the page.
LEMMA AddressIs ==
  ASSUME NEW va \in Nat, Top <= va, va < Full
  PROVE  \E r \in 0 .. Page - 1 :
           /\ \A level \in 0 .. 2 : Index(va, level) \in 0 .. E - 1
           /\ va = Top + Page * E * E * Index(va, 0) + Page * E * Index(va, 1)
                       + Page * Index(va, 2) + r
           /\ r = va % Page
<1> DEFINE S0 == Page * E * E
           S1 == Page * E
           i0 == Index(va, 0)
           i1 == Index(va, 1)
           i2 == Index(va, 2)
           r0 == va % S0
           r1 == va % S1
           r2 == va % Page
           x  == va - Top
<1>1. /\ Page \in Nat \ {0} /\ E \in Nat \ {0} /\ S0 \in Nat \ {0} /\ S1 \in Nat \ {0}
      /\ S0 = S1 * E /\ S1 = Page * E /\ Space = S0 * E
      /\ i0 = (va % (S0 * E)) \div S0
      /\ i1 = (va % (S1 * E)) \div S1
      /\ i2 = (va % (Page * E)) \div Page
  BY SizesAre DEF Index, Space
<1>2. x \in 0 .. S0 * E - 1 /\ va = 3 * (S0 * E) + x /\ Top = 3 * (S0 * E)
  <2>1. Space \in Nat /\ Top = 3 * Space /\ Full = 4 * Space
    BY SizesType DEF Top, Full
  <2>2. QED
    BY <1>1, <2>1
<1> HIDE DEF S0, S1, i0, i1, i2, r0, r1, r2, x
<1>3. /\ i0 \in 0 .. E - 1 /\ r0 \in 0 .. S0 - 1
      /\ x = i0 * S0 + r0 /\ va = (3 * E + i0) * S0 + r0
  <2>1. r0 = va % S0 /\ 3 \in Nat
    BY DEF r0
  <2>2. Splits(S0, E, 3, x, va, i0, r0)
    BY <1>1, <1>2, <2>1, Digit
  <2>3. QED
    BY <2>2 DEF Splits
<1>4. /\ i1 \in 0 .. E - 1 /\ r1 \in 0 .. S1 - 1
      /\ r0 = i1 * S1 + r1 /\ va = ((3 * E + i0) * E + i1) * S1 + r1
  <2>1. 3 * E + i0 \in Nat
    BY <1>1, <1>3
  <2>2. va = (3 * E + i0) * (S1 * E) + r0 /\ r0 \in 0 .. S1 * E - 1
    BY <1>1, <1>3
  <2>3. r1 = va % S1
    BY DEF r1
  <2>4. Splits(S1, E, 3 * E + i0, r0, va, i1, r1)
    BY <1>1, <2>1, <2>2, <2>3, Digit
  <2>5. QED
    BY <2>4 DEF Splits
<1>5. i2 \in 0 .. E - 1 /\ r2 \in 0 .. Page - 1 /\ r1 = i2 * Page + r2
  <2>1. (3 * E + i0) * E + i1 \in Nat
    BY <1>1, <1>3, <1>4
  <2>2. va = ((3 * E + i0) * E + i1) * (Page * E) + r1 /\ r1 \in 0 .. Page * E - 1
    BY <1>1, <1>4
  <2>3. r2 = va % Page
    BY DEF r2
  <2>4. Splits(Page, E, (3 * E + i0) * E + i1, r1, va, i2, r2)
    BY <1>1, <2>1, <2>2, <2>3, Digit
  <2>5. QED
    BY <2>4 DEF Splits
<1>6. va = Top + (i0 * S0 + (i1 * S1 + (i2 * Page + r2)))
  <2>1. x = va - Top /\ Top \in Nat
    BY <1>1, <1>2
  <2>2. QED
    BY <1>3, <1>4, <1>5, <2>1
<1>7. /\ i0 * S0 = S0 * i0 /\ i0 * S0 \in Nat
      /\ i1 * S1 = S1 * i1 /\ i1 * S1 \in Nat
      /\ i2 * Page = Page * i2 /\ i2 * Page \in Nat
  BY <1>1, <1>3, <1>4, <1>5
<1>8. va = Top + S0 * i0 + S1 * i1 + Page * i2 + r2
  BY <1>1, <1>2, <1>5, <1>6, <1>7
<1>9. \A level \in 0 .. 2 : Index(va, level) \in 0 .. E - 1
  BY <1>3, <1>4, <1>5 DEF i0, i1, i2
<1>10. QED
  BY <1>5, <1>8, <1>9 DEF S0, S1, i0, i1, i2, r2

-----------------------------------------------------------------------------
\* The page of the missing address.

\* The root of its translation and the tables on the way to its entry.
Root == Roots(core)[2]

Table == [level \in 0 .. 2 |->
  CASE level = 0 -> Root
    [] level = 1 -> EntryOf(Root, check, 0).addr
    [] level = 2 -> EntryOf(EntryOf(Root, check, 0).addr, check, 1).addr]

PathEntry(level) == EntryOf(Table[level], check, level)

\* There is a page, and it is not the last one of all.
PageIsThere ==
  /\ Translates(Root, check, PathEntry(2))
  /\ check < Full - Page

\* The address the walk has computed when it comes to each level's entry.
Base == [level \in 0 .. 3 |->
  CASE level = 0 -> 0
    [] level = 1 -> Top + Page * E * E * Index(check, 0)
    [] level = 2 -> Top + Page * E * E * Index(check, 0) + Page * E * Index(check, 1)
    [] level = 3 -> PageOf(check)]

\* A call on the way that has not come past the entry it is made for.
OnPath(frame) ==
  /\ frame.addr = Table[frame.level]
  /\ frame.base = Base[frame.level]
  /\ frame.k <= Index(check, frame.level)

PageLine == [level |-> 2, vaddr |-> PageOf(check), val |-> PathEntry(2)]

\* These depend on the tables, the registers and the address only.
LEMMA PathKept ==
  ASSUME UNCHANGED <<memory, ttbr, core, check>>
  PROVE  /\ Root' = Root /\ PageLine' = PageLine /\ PageIsThere' = PageIsThere
         /\ \A frame : OnPath(frame)' = OnPath(frame)
<1>1. Root' = Root
  BY DEF Root, Roots, Low32
<1>2. \A table, va, level : EntryOf(table, va, level)' = EntryOf(table, va, level)
  BY DEF EntryOf, Dram
<1>3. Table' = Table
  BY <1>1, <1>2 DEF Table
<1>4. PathEntry(2)' = PathEntry(2)
  BY <1>2, <1>3 DEF PathEntry
<1>5. Base' = Base
  BY DEF Base
<1>6. \A frame : OnPath(frame)' = OnPath(frame)
  BY <1>3, <1>5 DEF OnPath
<1>7. PageIsThere' = PageIsThere
  BY <1>1, <1>2, <1>4 DEF PageIsThere, Translates, IsTable
<1>8. QED
  BY <1>1, <1>4, <1>6, <1>7 DEF PageLine

\* The walk finds the entries on the way in the tables on the way.
LEMMA PathRead ==
  ASSUME WalkInv, PageIsThere, NEW level \in 0 .. 2
  PROVE  /\ Table[level] \in Nat /\ WellInside(Table[level])
         /\ Index(check, level) \in 0 .. E - 1
         /\ Found(Location(Table[level], Index(check, level))) = {PathEntry(level)}
         /\ PathEntry(level) # Zero
         /\ level < 2 => /\ PathEntry(level).type = 3
                         /\ PathEntry(level).addr = Table[level + 1]
<1>1. /\ Table[0] = Root
      /\ Table[1] = PathEntry(0).addr
      /\ Table[2] = PathEntry(1).addr
  BY DEF Table, PathEntry
<1>2. /\ check >= Top /\ WellInside(Root)
      /\ IsTable(PathEntry(0)) /\ IsTable(PathEntry(1)) /\ PathEntry(2) # Zero
  BY <1>1 DEF PageIsThere, Translates, PathEntry
<1>3. check \in Nat /\ check < Full /\ Top \in Nat
  <2>1. check \in 0 .. Full - 1 \/ check = 0
    BY WalkerAssumption DEF WalkInv
  <2>2. Space \in Nat \ {0} /\ Top = 3 * Space /\ Full = 4 * Space
    BY SizesType DEF Top, Full
  <2>3. QED
    BY <2>1, <2>2
<1>4. \A n \in 0 .. 2 : Index(check, n) \in 0 .. E - 1
  BY <1>2, <1>3, AddressIs
<1>5. \A table, n : EntryOf(table, check, n).addr \in Nat
  <2>1. \A o : Dram(o).addr \in Nat
    BY WalkerAssumption DEF WalkInv, Dram, Zero, Entry
  <2>2. QED
    BY <2>1 DEF EntryOf
<1>6. Root \in Nat
  <2>1. ttbr[core] \in Nat \X Nat
    BY WalkerAssumption DEF WalkInv
  <2>2. \A n \in Nat : Low32(n) \in Nat
    BY PhysMapAssumption DEF Low32, Word
  <2>3. QED
    BY <2>1, <2>2 DEF Root, Roots
<1>7. \A n \in 0 .. 2 : Table[n] \in Nat /\ WellInside(Table[n])
  <2>1. 0 .. 2 = {0, 1, 2}
    OBVIOUS
  <2>2. PathEntry(0).addr \in Nat /\ PathEntry(1).addr \in Nat
    BY <1>5 DEF PathEntry
  <2>3. QED
    BY <1>1, <1>2, <1>6, <2>1, <2>2 DEF IsTable
<1>8. Found(Location(Table[level], Index(check, level))) = {PathEntry(level)}
  <2> DEFINE k == Index(check, level)
             t == Table[level]
  <2>1. k \in 0 .. E - 1 /\ t \in Nat /\ WellInside(t)
    BY <1>4, <1>7
  <2> HIDE DEF k, t
  <2>2. Location(t, k) = [block |-> "dram", at |-> (t + k) - DRAM] /\ InDram(Location(t, k))
    BY <2>1, FirstBankRead
  <2>3. Found(Location(t, k)) = {Dram((t + k) - DRAM)}
    BY <2>2 DEF Found
  <2>4. (t + k) - DRAM = t + (k - DRAM)
    BY <2>1, PhysMapAssumption, WalkerAssumption DEF DRAM
  <2>5. PathEntry(level) = Dram(t + (k - DRAM))
    BY DEF PathEntry, EntryOf, t, k
  <2>6. QED
    BY <2>3, <2>4, <2>5 DEF t, k
<1>9. PathEntry(level) # Zero
  <2>1. Zero.type = 0
    BY DEF Zero, Entry
  <2>2. level \in {0, 1, 2}
    OBVIOUS
  <2>3. QED
    BY <1>2, <2>1, <2>2 DEF IsTable
<1>10. level < 2 => PathEntry(level).type = 3 /\ PathEntry(level).addr = Table[level + 1]
  <2>1. level \in {0, 1, 2} /\ 0 + 1 = 1 /\ 1 + 1 = 2
    OBVIOUS
  <2>2. QED
    BY <1>1, <1>2, <2>1 DEF IsTable
<1>11. QED
  BY <1>4, <1>7, <1>8, <1>9, <1>10

\* The address it computes at the entry on the way is the next level's base, and
\* at the last level the page's.
LEMMA PathVaddr ==
  ASSUME WalkInv, PageIsThere, NEW frame \in Frames,
         OnPath(frame), frame.k = Index(check, frame.level)
  PROVE  Vaddr(frame) = Base[frame.level + 1]
<1> DEFINE S0 == Page * E * E
           S1 == Page * E
           i0 == Index(check, 0)
           i1 == Index(check, 1)
           i2 == Index(check, 2)
<1>1. check \in Nat /\ Top <= check /\ check < Full
  <2>1. check \in 0 .. Full - 1 \/ check = 0
    BY WalkerAssumption DEF WalkInv
  <2>2. Space \in Nat \ {0} /\ Top = 3 * Space /\ Full = 4 * Space
    BY SizesType DEF Top, Full
  <2>3. QED
    BY <2>1, <2>2 DEF PageIsThere, Translates
<1>2. PICK r \in 0 .. Page - 1 :
        /\ \A level \in 0 .. 2 : Index(check, level) \in 0 .. E - 1
        /\ check = Top + S0 * i0 + S1 * i1 + Page * i2 + r
        /\ r = check % Page
  BY <1>1, AddressIs
<1>3. /\ S0 \in Nat /\ S1 \in Nat /\ Page \in Nat
      /\ ttb_vaddr_sizes[0] = S0 /\ ttb_vaddr_sizes[1] = S1 /\ ttb_vaddr_sizes[2] = Page
  BY SizesAre
<1>4. i0 \in Nat /\ i1 \in Nat /\ i2 \in Nat
  BY <1>2, WalkerAssumption
<1> HIDE DEF S0, S1, i0, i1, i2
<1>5. PICK a \in Nat, b \in Nat, c \in Nat : a = S0 * i0 /\ b = S1 * i1 /\ c = Page * i2
  BY <1>3, <1>4
<1>6. Space \in Nat \ {0} /\ Top = 3 * Space /\ Full = 4 * Space
  BY SizesType DEF Top, Full
<1>7. check = Top + a + b + c + r /\ r \in Nat
  BY <1>2, <1>3, <1>5
<1>8. a + b + c < Space
  BY <1>1, <1>6, <1>7
<1>9. \A y \in 0 .. Space - 1 : y % Space = y /\ (Top + y) % Space = y
  BY <1>6, ModUnique
<1>10. frame.level \in {0, 1, 2}
  BY DEF Frames
<1>11. CASE frame.level = 0
  <2>1. frame.base = 0 /\ frame.k = i0 /\ Base[1] = Top + a
    BY <1>5, <1>11 DEF OnPath, Base, S0, i0
  <2>2. Vaddr(frame) = Top + ((0 + a) % Space)
    BY <1>3, <1>5, <1>11, <2>1 DEF Vaddr
  <2>3. 0 + a = a /\ a \in 0 .. Space - 1 /\ 0 + 1 = 1
    BY <1>6, <1>8
  <2>4. QED
    BY <1>9, <1>11, <2>1, <2>2, <2>3
<1>12. CASE frame.level = 1
  <2>1. frame.base = Top + a /\ frame.k = i1 /\ Base[2] = Top + a + b
    BY <1>5, <1>12 DEF OnPath, Base, S0, i0, S1, i1
  <2>2. Vaddr(frame) = Top + ((Top + a + b) % Space)
    BY <1>3, <1>5, <1>12, <2>1 DEF Vaddr
  <2>3. Top + a + b = Top + (a + b) /\ a + b \in 0 .. Space - 1
    BY <1>6, <1>8
  <2>4. QED
    BY <1>9, <1>12, <2>1, <2>2, <2>3
<1>13. CASE frame.level = 2
  <2>1. frame.base = Top + a + b /\ frame.k = i2 /\ Base[3] = check - r
    BY <1>2, <1>5, <1>13 DEF OnPath, Base, PageOf, S0, i0, S1, i1, i2
  <2>2. Vaddr(frame) = Top + ((Top + a + b + c) % Space)
    BY <1>3, <1>5, <1>13, <2>1 DEF Vaddr
  <2>3. Top + a + b + c = Top + (a + b + c) /\ a + b + c \in 0 .. Space - 1
    BY <1>6, <1>8
  <2>4. check - r = Top + (a + b + c)
    BY <1>6, <1>7
  <2>5. QED
    BY <1>9, <1>13, <2>1, <2>2, <2>3, <2>4
<1>14. QED
  BY <1>10, <1>11, <1>12, <1>13

\* x is one of these roots, or calls.
Among(x, calls) == \E d \in 1 .. Len(calls) : calls[d] = x

\* In front of the others one is among them, and they still are.
LEMMA PushAmong ==
  ASSUME NEW S, NEW calls \in Seq(S), NEW g \in S
  PROVE  /\ <<g>> \o calls \in Seq(S)
         /\ Among(g, <<g>> \o calls)
         /\ \A x : Among(x, calls) => Among(x, <<g>> \o calls)
<1>1. <<g>> \in Seq(S) /\ Len(<<g>>) = 1 /\ <<g>>[1] = g
  OBVIOUS
<1>2. /\ <<g>> \o calls \in Seq(S) /\ Len(<<g>> \o calls) = 1 + Len(calls)
      /\ \A d \in 1 .. 1 + Len(calls) :
           (<<g>> \o calls)[d] = IF d <= 1 THEN <<g>>[d] ELSE calls[d - 1]
  BY <1>1, ConcatProperties
<1>3. Len(calls) \in Nat
  BY LenProperties
<1>4. Among(g, <<g>> \o calls)
  <2>1. 1 \in 1 .. 1 + Len(calls) /\ 1 <= 1
    BY <1>3
  <2>2. (<<g>> \o calls)[1] = g
    BY <1>1, <1>2, <2>1
  <2>3. QED
    BY <1>2, <2>1, <2>2 DEF Among
<1>5. ASSUME NEW x, Among(x, calls) PROVE Among(x, <<g>> \o calls)
  <2>1. PICK d \in 1 .. Len(calls) : calls[d] = x
    BY <1>5 DEF Among
  <2>2. d + 1 \in 1 .. 1 + Len(calls) /\ ~(d + 1 <= 1) /\ (d + 1) - 1 = d
    BY <1>3
  <2>3. (<<g>> \o calls)[d + 1] = x
    BY <1>2, <2>1, <2>2
  <2>4. QED
    BY <1>2, <2>2, <2>3 DEF Among
<1>6. QED
  BY <1>2, <1>4, <1>5

\* What is not the first is among the rest.
LEMMA HeadOrTail ==
  ASSUME NEW S, NEW calls \in Seq(S), calls # <<>>, NEW x, Among(x, calls)
  PROVE  x = Head(calls) \/ Among(x, Tail(calls))
<1>1. PICK d \in 1 .. Len(calls) : calls[d] = x
  BY DEF Among
<1>2. /\ Len(Tail(calls)) = Len(calls) - 1
      /\ \A n \in 1 .. Len(Tail(calls)) : Tail(calls)[n] = calls[n + 1]
  BY HeadTailProperties
<1>3. Len(calls) \in Nat /\ Head(calls) = calls[1]
  BY LenProperties
<1>4. CASE d = 1
  BY <1>1, <1>3, <1>4
<1>5. CASE d # 1
  <2>1. d - 1 \in 1 .. Len(Tail(calls)) /\ (d - 1) + 1 = d
    BY <1>2, <1>3, <1>5
  <2>2. Tail(calls)[d - 1] = x
    BY <1>1, <1>2, <2>1
  <2>3. QED
    BY <2>1, <2>2 DEF Among
<1>6. QED
  BY <1>4, <1>5

\* So with a call of uc_mmu_level_iterate.
LEMMA CallAmong ==
  ASSUME NEW calls \in Seq(Frames),
         NEW addr \in Nat, NEW base \in Nat, NEW level \in 0 .. 2
  PROVE  LET g == Frame(addr, base, level)
         IN  /\ \A x : Among(x, calls) => Among(x, Call(g, calls))
             /\ ~Bad(addr) => g \in Frames /\ Among(g, Call(g, calls))
<1> DEFINE g == Frame(addr, base, level)
<1>1. g.addr = addr
  BY DEF Frame
<1>2. CASE Bad(addr)
  BY <1>1, <1>2 DEF Call
<1>3. CASE ~Bad(addr)
  <2>1. g \in Frames /\ Call(g, calls) = <<g>> \o calls
    BY <1>1, <1>3, WalkerAssumption DEF Call, Frame, Frames
  <2> HIDE DEF g
  <2>2. Among(g, <<g>> \o calls) /\ \A x : Among(x, calls) => Among(x, <<g>> \o calls)
    BY <2>1, PushAmong
  <2>3. QED
    BY <2>1, <2>2 DEF g
<1>4. QED
  BY <1>2, <1>3

\* The page's entry is printed, or the root is still to be walked, or a call on
\* the way is being made.
Left ==
  \/ Among(Root, todo)
  \/ \E frame \in Frames : OnPath(frame) /\ Among(frame, stack)

Pending == walker = "walk" /\ PageIsThere => Left \/ PageLine \in printed

\* The entry of the missing address' page concerns the address.
LEMMA PageConcerns == WalkInv /\ PageIsThere => Concerns(PageOf(check))
<1> SUFFICES ASSUME WalkInv, PageIsThere PROVE Concerns(PageOf(check))
  OBVIOUS
<1>1. check \in Nat /\ check < Full - Page /\ Page \in Nat \ {0}
  <2>1. check \in 0 .. Full - 1 \/ check = 0
    BY WalkerAssumption DEF WalkInv
  <2>2. QED
    BY <2>1, WalkerAssumption DEF PageIsThere
<1>2. Full \in Nat
  BY SizesType DEF Full
<1> DEFINE r == check % Page
           y == check \div Page
<1>3. y * Page + r = check /\ y \in Nat /\ r \in 0 .. Page - 1
  BY <1>1, DivMod
<1> HIDE DEF r, y
<1>4. y * Page \in Nat
  BY <1>1, <1>3
<1>5. check - r \in Nat /\ check - r <= check /\ check <= (check - r) + Page
      /\ (check - r) + Page < Full
  BY <1>1, <1>2, <1>3, <1>4
<1>6. ((check - r) + Page) % Full = (check - r) + Page
  BY <1>1, <1>2, <1>5
<1>7. PageOf(check) = check - r
  BY DEF PageOf, r
<1>8. QED
  BY <1>5, <1>6, <1>7 DEF Concerns

\* Looking at an entry goes on along the way, or prints the page's.
LEMMA ExamineLeft ==
  ASSUME WalkInv, PageIsThere, ExamineEntry, Left
  PROVE  Left' \/ PageLine \in printed'
<1> DEFINE frame == Head(stack)
           next  == Advance(frame)
           rest  == <<next>> \o Tail(stack)
<1>1. PICK val \in Found(Location(frame.addr, frame.k)) : Examine(val)
  BY DEF ExamineEntry
<1>2. /\ Nested(stack) /\ stack \in Seq(Frames) /\ stack # <<>> /\ frame.k < E
  BY DEF WalkInv, Nested, ExamineEntry, Walking
<1>3. frame \in Frames /\ Tail(stack) \in Seq(Frames)
  BY <1>2, HeadTailProperties
<1>4. /\ next \in Frames /\ next.addr = frame.addr /\ next.base = frame.base
      /\ next.level = frame.level /\ next.k = frame.k + 1
      /\ frame.k \in Nat /\ frame.level \in 0 .. 2
  <2>1. frame.k \in 0 .. E /\ frame.k + 1 \in 0 .. E /\ frame.k \in Nat
    BY <1>2, <1>3, WalkerAssumption DEF Frames
  <2>2. QED
    BY <1>3, <2>1 DEF Frames, Advance
<1>5. val.addr \in Nat /\ Vaddr(frame) \in Nat
  BY <1>3, FoundType, VaddrType DEF WalkInv
<1>6. /\ \/ stack' = rest
         \/ /\ Descends(frame, val)
            /\ stack' = Call(Frame(val.addr, Vaddr(frame), frame.level + 1), rest)
      /\ val # Zero /\ Concerns(Vaddr(frame)) =>
           [level |-> frame.level, vaddr |-> Vaddr(frame), val |-> val] \in printed'
      /\ val # Zero /\ Descends(frame, val) =>
           stack' = Call(Frame(val.addr, Vaddr(frame), frame.level + 1), rest)
  BY <1>1 DEF Examine
<1>7. UNCHANGED <<memory, ttbr, core, check>> /\ UNCHANGED todo
  BY DEF ExamineEntry
<1>8. /\ Root' = Root /\ \A f : OnPath(f)' = OnPath(f)
  BY <1>7, PathKept
<1> HIDE DEF next, frame
<1>9. /\ rest \in Seq(Frames) /\ Among(next, rest)
      /\ \A x : Among(x, Tail(stack)) => Among(x, rest)
  BY <1>3, <1>4, PushAmong
<1>10. \A x : Among(x, rest) => Among(x, stack')
  <2>1. CASE stack' = rest
    BY <2>1
  <2>2. CASE /\ Descends(frame, val)
             /\ stack' = Call(Frame(val.addr, Vaddr(frame), frame.level + 1), rest)
    <3>1. frame.level + 1 \in 0 .. 2
      BY <1>4, <2>2 DEF Descends
    <3> HIDE DEF rest
    <3>2. QED
      BY <1>5, <1>9, <2>2, <3>1, CallAmong
  <2>3. QED
    BY <1>6, <2>1, <2>2
<1> HIDE DEF rest
<1>11. CASE Among(Root, todo)
  BY <1>7, <1>8, <1>11 DEF Left
<1>12. ASSUME NEW f \in Frames, OnPath(f), Among(f, stack)
       PROVE  Left' \/ PageLine \in printed'
  <2>1. CASE Among(f, Tail(stack))
    BY <1>8, <1>9, <1>10, <1>12, <2>1 DEF Left
  <2>2. CASE f = frame /\ f.k # Index(check, f.level)
    <3>1. Index(check, frame.level) \in Nat
      BY <1>4, PathRead
    <3>2. next.k <= Index(check, next.level)
      BY <1>4, <1>12, <2>2, <3>1 DEF OnPath
    <3>3. OnPath(next)
      BY <1>4, <1>12, <2>2, <3>2 DEF OnPath
    <3>4. QED
      BY <1>4, <1>8, <1>9, <1>10, <3>3 DEF Left
  <2>3. CASE f = frame /\ f.k = Index(check, f.level)
    <3>1. /\ val = PathEntry(frame.level) /\ val # Zero
          /\ frame.level < 2 => val.type = 3 /\ val.addr = Table[frame.level + 1]
      <4>1. frame.addr = Table[frame.level]
        BY <1>12, <2>3 DEF OnPath
      <4>2. /\ Found(Location(frame.addr, frame.k)) = {PathEntry(frame.level)}
            /\ PathEntry(frame.level) # Zero
            /\ frame.level < 2 => /\ PathEntry(frame.level).type = 3
                                  /\ PathEntry(frame.level).addr = Table[frame.level + 1]
        BY <1>4, <2>3, <4>1, PathRead
      <4>3. QED
        BY <4>2
    <3>2. Vaddr(frame) = Base[frame.level + 1]
      BY <1>3, <1>12, <2>3, PathVaddr
    <3>3. CASE frame.level < 2
      <4> DEFINE n == frame.level + 1
                 g == Frame(Table[n], Base[n], n)
      <4>1. n \in 0 .. 2
        BY <1>4, <3>3
      <4>2. stack' = Call(g, rest)
        BY <1>6, <3>1, <3>2, <3>3 DEF Descends
      <4>3. /\ Table[n] \in Nat /\ WellInside(Table[n]) /\ Base[n] \in Nat
            /\ Index(check, n) \in 0 .. E - 1
        BY <1>5, <3>2, <4>1, PathRead
      <4>4. ~Bad(Table[n])
        BY <4>3, PhysMapAssumption, WalkerAssumption DEF Bad, WellInside, DRAM
      <4>5. g \in Frames /\ Among(g, stack')
        <5> HIDE DEF n
        <5>1. QED
          BY <1>9, <4>1, <4>2, <4>3, <4>4, CallAmong
      <4>6. OnPath(g)
        <5>1. /\ g.addr = Table[n] /\ g.base = Base[n] /\ g.level = n /\ g.k = 0
          BY DEF Frame
        <5> HIDE DEF g, n
        <5>2. g.k <= Index(check, g.level)
          BY <4>3, <5>1
        <5>3. QED
          BY <5>1, <5>2 DEF OnPath
      <4>7. QED
        BY <1>8, <4>5, <4>6 DEF Left
    <3>4. CASE ~(frame.level < 2)
      <4>1. frame.level = 2 /\ 2 + 1 = 3 /\ Base[3] = PageOf(check)
        BY <1>4, <3>4 DEF Base
      <4>2. [level |-> 2, vaddr |-> PageOf(check), val |-> PathEntry(2)] \in printed'
        BY <1>6, <3>1, <3>2, <4>1, PageConcerns
      <4>3. PageLine' = PageLine
        BY <1>7, PathKept
      <4>4. QED
        BY <4>2 DEF PageLine
    <3>5. QED
      BY <3>3, <3>4
  <2>4. QED
    BY <1>2, <1>12, <2>1, <2>2, <2>3, HeadOrTail DEF frame
<1>13. QED
  BY <1>11, <1>12 DEF Left

\* A call returns when it has come past its last entry, so past the one on the
\* way.
LEMMA TableDoneLeft ==
  ASSUME WalkInv, PageIsThere, TableDone, Left
  PROVE  Left'
<1>1. /\ stack \in Seq(Frames) /\ stack # <<>> /\ Head(stack).k = E
      /\ stack' = Tail(stack) /\ UNCHANGED <<memory, ttbr, core, check>> /\ UNCHANGED todo
  BY DEF WalkInv, Nested, TableDone, Walking
<1>2. Root' = Root /\ \A f : OnPath(f)' = OnPath(f)
  BY <1>1, PathKept
<1>3. CASE Among(Root, todo)
  BY <1>1, <1>2, <1>3 DEF Left
<1>4. ASSUME NEW f \in Frames, OnPath(f), Among(f, stack) PROVE Left'
  <2>1. f # Head(stack)
    <3>1. Index(check, f.level) \in 0 .. E - 1
      BY PathRead DEF Frames
    <3>2. f.k <= Index(check, f.level)
      BY <1>4 DEF OnPath
    <3>3. QED
      BY <1>1, <3>1, <3>2, WalkerAssumption
  <2>2. Among(f, Tail(stack))
    BY <1>1, <1>4, <2>1, HeadOrTail
  <2>3. QED
    BY <1>1, <1>2, <1>4, <2>2 DEF Left
<1>5. QED
  BY <1>3, <1>4 DEF Left

\* The root's turn begins the way.
LEMMA NextRootLeft ==
  ASSUME WalkInv, PageIsThere, NextRoot, Left
  PROVE  Left'
<1>1. /\ todo \in Seq(Nat) /\ todo # <<>> /\ todo' = Tail(todo)
      /\ stack = <<>> /\ stack' = Call(Frame(Head(todo), 0, 0), <<>>)
      /\ UNCHANGED <<memory, ttbr, core, check>>
  BY DEF WalkInv, NextRoot
<1>2. Root' = Root /\ \A f : OnPath(f)' = OnPath(f)
  BY <1>1, PathKept
<1>3. Among(Root, todo)
  <2>1. ~\E f : Among(f, stack)
    BY <1>1 DEF Among
  <2>2. QED
    BY <2>1 DEF Left
<1>4. CASE Among(Root, Tail(todo))
  BY <1>1, <1>2, <1>4 DEF Left
<1>5. CASE Root = Head(todo)
  <2>1. 0 \in 0 .. 2 /\ 0 \in Nat
    OBVIOUS
  <2>2. /\ Root \in Nat /\ ~Bad(Root) /\ Table[0] = Root
        /\ Index(check, 0) \in 0 .. E - 1
    <3>1. Table[0] = Root
      BY DEF Table
    <3>2. Root \in Nat /\ WellInside(Root) /\ Index(check, 0) \in 0 .. E - 1
      BY <2>1, <3>1, PathRead
    <3>3. ~Bad(Root)
      BY <3>2, PhysMapAssumption, WalkerAssumption DEF Bad, WellInside, DRAM
    <3>4. QED
      BY <3>1, <3>2, <3>3
  <2> DEFINE g == Frame(Root, 0, 0)
  <2>3. g \in Frames /\ Among(g, stack')
    <3>1. <<>> \in Seq(Frames)
      BY EmptySeq
    <3>2. QED
      BY <1>1, <1>5, <2>1, <2>2, <3>1, CallAmong
  <2>4. OnPath(g)
    BY <2>2 DEF OnPath, Frame, Base
  <2>5. QED
    BY <1>2, <2>3, <2>4 DEF Left
<1>6. QED
  BY <1>1, <1>3, <1>4, <1>5, HeadOrTail

\* Of every walk, the root is one to be walked.
LEMMA MissingMemoryLeft ==
  ASSUME WalkInv, NEW c \in Cores, NEW type \in Causes, NEW address \in Checks,
         MissingMemory(c, type, address), walker' = "walk"
  PROVE  Left'
<1>1. /\ core' = c /\ UNCHANGED <<memory, ttbr>> /\ Dispatch(c, type)
  BY DEF MissingMemory
<1>2. todo' = Roots(c) \/ todo' = AllRoots
  <2>1. ~GiveUp
    BY DEF GiveUp
  <2>2. StartWalk(Roots(c)) \/ StartWalk(AllRoots)
    <3> USE DEF UC_MEM_READ_UNMAPPED, UC_MEM_WRITE_UNMAPPED, UC_MEM_FETCH_UNMAPPED,
                UC_ERR_FETCH_UNMAPPED, PrefetchAbort
    <3>1. CASE type \in {UC_MEM_READ_UNMAPPED, PrefetchAbort}
      BY <1>1, <3>1 DEF Dispatch
    <3>2. CASE type = UC_MEM_WRITE_UNMAPPED
      BY <1>1, <3>2 DEF Dispatch
    <3>3. CASE type = UC_MEM_FETCH_UNMAPPED
      BY <1>1, <2>1, <3>3 DEF Dispatch
    <3>4. QED
      BY <3>1, <3>2, <3>3 DEF Causes
  <2>3. QED
    BY <2>2 DEF StartWalk
<1>3. Root' = Roots(c)[2] /\ ttbr \in [Cores -> Ttbrs]
  BY <1>1 DEF Root, Roots, Low32, WalkInv
<1>4. CASE todo' = Roots(c)
  <2>1. Len(Roots(c)) = 2
    BY <1>3, RootsType
  <2>2. Among(Roots(c)[2], Roots(c))
    BY <2>1 DEF Among
  <2>3. QED
    BY <1>3, <1>4, <2>2 DEF Left
<1>5. CASE todo' = AllRoots
  <2>1. Len(AllRoots) = 2 * NCores
    BY <1>3, AllRootsType
  <2>2. /\ 2 * c + 2 \in 1 .. 2 * NCores
        /\ ((2 * c + 2) - 1) \div 2 = c /\ 1 + (((2 * c + 2) - 1) % 2) = 2
    BY NCoresAssumption DEF Cores
  <2>3. AllRoots[2 * c + 2] = Roots(c)[2]
    BY <2>2 DEF AllRoots
  <2>4. Among(Roots(c)[2], AllRoots)
    BY <2>1, <2>2, <2>3 DEF Among
  <2>5. QED
    BY <1>3, <1>5, <2>4 DEF Left
<1>6. QED
  BY <1>2, <1>4, <1>5

\* One step per action.
LEMMA PendingNext == WalkInv /\ Pending /\ [WalkNext]_walkVars => Pending'
<1> SUFFICES ASSUME WalkInv, Pending, [WalkNext]_walkVars, walker' = "walk", PageIsThere'
             PROVE  Left' \/ (PageLine \in printed)'
  BY DEF Pending
<1>1. ASSUME UNCHANGED <<memory, ttbr, walker, core, check>>
      PROVE  /\ PageIsThere /\ PageLine' = PageLine
             /\ Left \/ PageLine \in printed
  BY <1>1, PathKept DEF Pending
<1>2. CASE ExamineEntry
  <2>1. UNCHANGED <<memory, ttbr, walker, core, check>> /\ printed \subseteq printed'
    BY <1>2 DEF ExamineEntry, Examine
  <2>2. PageIsThere /\ PageLine' = PageLine /\ (Left \/ PageLine \in printed)
    BY <1>1, <2>1
  <2>3. QED
    BY <1>2, <2>1, <2>2, ExamineLeft
<1>3. CASE CrashAtEntry
  BY <1>3 DEF CrashAtEntry
<1>4. CASE TableDone
  <2>1. UNCHANGED <<memory, ttbr, walker, core, check>> /\ UNCHANGED printed
    BY <1>4 DEF TableDone
  <2>2. PageIsThere /\ PageLine' = PageLine /\ (Left \/ PageLine \in printed)
    BY <1>1, <2>1
  <2>3. QED
    BY <1>4, <2>1, <2>2, TableDoneLeft
<1>5. CASE NextRoot
  <2>1. UNCHANGED <<memory, ttbr, walker, core, check>> /\ UNCHANGED printed
    BY <1>5 DEF NextRoot
  <2>2. PageIsThere /\ PageLine' = PageLine /\ (Left \/ PageLine \in printed)
    BY <1>1, <2>1
  <2>3. QED
    BY <1>5, <2>1, <2>2, NextRootLeft
<1>6. CASE EndReport
  BY <1>6 DEF EndReport
<1>7. ASSUME NEW c \in Cores, NEW type \in Causes, NEW address \in Checks,
             MissingMemory(c, type, address)
      PROVE  Left'
  BY <1>7, MissingMemoryLeft
<1>8. CASE UNCHANGED walkVars
  <2>1. /\ UNCHANGED <<memory, ttbr, walker, core, check>>
        /\ UNCHANGED printed /\ UNCHANGED todo /\ UNCHANGED stack
    BY <1>8 DEF walkVars
  <2>2. PageIsThere /\ PageLine' = PageLine /\ (Left \/ PageLine \in printed)
    BY <1>1, <2>1
  <2>3. Root' = Root /\ \A f : OnPath(f)' = OnPath(f)
    BY <2>1, PathKept
  <2>4. Left' = Left
    BY <2>1, <2>3 DEF Left
  <2>5. QED
    BY <2>1, <2>2, <2>4
<1>9. QED
  BY <1>2, <1>3, <1>4, <1>5, <1>6, <1>7, <1>8 DEF WalkNext, WalkStep

\* A translation has one result.
LEMMA OneResult ==
  ASSUME NEW val, Translates(Root, check, val)
  PROVE  val = PathEntry(2) /\ Translates(Root, check, PathEntry(2))
<1>1. Table[2] = EntryOf(EntryOf(Root, check, 0).addr, check, 1).addr
  BY DEF Table
<1>2. val = PathEntry(2)
  BY <1>1 DEF Translates, PathEntry
<1>3. QED
  BY <1>2

\* When a walk for an address is over, the line of its page has been printed, if
\* the tables of TTBR1 lead to one: whatever else the tables hold, cycles and bad
\* addresses included, for tables of any size and any number of cores.
THEOREM PagesAreFound == WalkSafety => []PageIsFound
<1>1. WalkInit => Pending
  BY DEF WalkInit, Pending
<1>2. WalkInv /\ Pending => PageIsFound
  <2> SUFFICES ASSUME WalkInv, Pending, WalkDone, check < Full - Page, NEW val,
                      Translates(Roots(core)[2], check, val)
               PROVE  [level |-> 2, vaddr |-> PageOf(check), val |-> val] \in printed
    BY DEF PageIsFound
  <2>1. val = PathEntry(2) /\ PageIsThere
    BY OneResult DEF Root, PageIsThere
  <2>2. walker = "walk" /\ stack = <<>> /\ todo = <<>>
    BY DEF WalkDone
  <2>3. ~Left
    BY <2>2 DEF Left, Among
  <2>4. PageLine \in printed
    BY <2>1, <2>2, <2>3 DEF Pending
  <2>5. QED
    BY <2>1, <2>4 DEF PageLine
<1>3. QED
  BY <1>1, <1>2, PendingNext, WalkInvariance, PTL DEF WalkSafety

-----------------------------------------------------------------------------
\* How long a walk may be.

\* The steps an entry of each level may cost besides looking at it: those of a
\* table of the next level.
Below == [level \in 0 .. 2 |->
  CASE level = 2 -> 0
    [] level = 1 -> E + 1
    [] level = 0 -> E * (E + 2) + 1]

\* Those a call has left, at most, its return included, and those of a root.
Remaining(frame) == (E - frame.k) * (1 + Below[frame.level]) + 1

RootSteps == E * (1 + Below[0]) + 2

RemainingAt(calls, d) == IF d <= Len(calls) THEN Remaining(calls[d]) ELSE 0

RemainingOf(calls) ==
  RemainingAt(calls, 1) + RemainingAt(calls, 2) + RemainingAt(calls, 3)

\* Those a walk has left, at most.
StepsLeft == Len(todo) * RootSteps + RemainingOf(stack)

\* A table costs what is set aside for it.
LEMMA BelowIs ==
  /\ \A level \in 0 .. 2 : Below[level] \in Nat
  /\ \A level \in 0 .. 1 : Below[level] = E * (1 + Below[level + 1]) + 1
  /\ RootSteps \in Nat
<1>1. E \in Nat /\ Below[0] = E * (E + 2) + 1 /\ Below[1] = E + 1 /\ Below[2] = 0
  BY WalkerAssumption DEF Below
<1>2. E * (E + 2) \in Nat
  BY <1>1
<1>3. \A level \in 0 .. 2 : Below[level] \in Nat
  BY <1>1, <1>2
<1>4. ASSUME NEW level \in 0 .. 1
      PROVE  Below[level] = E * (1 + Below[level + 1]) + 1
  <2>1. CASE level = 0
    <3>1. 1 + (E + 1) = E + 2 /\ level + 1 = 1
      BY <1>1, <2>1
    <3>2. QED
      BY <1>1, <2>1, <3>1
  <2>2. CASE level = 1
    <3>1. E * (1 + 0) = E /\ level + 1 = 2
      BY <1>1, <2>2
    <3>2. QED
      BY <1>1, <2>2, <3>1
  <2>3. QED
    BY <2>1, <2>2
<1>5. RootSteps \in Nat
  <2> DEFINE b == Below[0]
  <2>1. b \in Nat
    BY <1>3
  <2> HIDE DEF b
  <2>2. E * (1 + b) \in Nat
    BY <1>1, <2>1
  <2>3. QED
    BY <2>2 DEF RootSteps, b
<1>6. QED
  BY <1>3, <1>4, <1>5

\* One entry less is one step less, and those of the table it may lead to.
LEMMA RemainingIs ==
  ASSUME NEW frame \in Frames
  PROVE  /\ Remaining(frame) \in Nat \ {0}
         /\ frame.k < E => /\ Advance(frame) \in Frames
                           /\ Remaining(Advance(frame)) + 1 + Below[frame.level] = Remaining(frame)
<1> DEFINE k == frame.k
           b == 1 + Below[frame.level]
<1>1. E \in Nat /\ k \in 0 .. E /\ b \in Nat
  BY BelowIs, WalkerAssumption DEF Frames
<1>2. Remaining(frame) = (E - k) * b + 1
  BY DEF Remaining
<1>3. frame.k < E => Advance(frame) \in Frames /\ Remaining(Advance(frame)) = (E - (k + 1)) * b + 1
  <2>1. ASSUME frame.k < E PROVE Advance(frame) \in Frames
    BY <1>1, <2>1 DEF Advance, Frames
  <2>2. Advance(frame).k = k + 1 /\ Advance(frame).level = frame.level
    BY DEF Advance, Frames
  <2>3. QED
    BY <2>1, <2>2 DEF Remaining
<1>4. b = 1 + Below[frame.level] /\ Below[frame.level] \in Nat
  BY BelowIs DEF Frames
<1>5. frame.k < E <=> k < E
  OBVIOUS
<1> HIDE DEF k, b
<1>6. (E - k) * b \in Nat
  BY <1>1
<1>7. k < E => (E - (k + 1)) * b + b = (E - k) * b
  BY <1>1
<1>8. k < E => (E - (k + 1)) * b \in Nat
  BY <1>1
<1>9. QED
  BY <1>2, <1>3, <1>4, <1>5, <1>6, <1>7, <1>8

\* A number of steps, that is.
LEMMA RemainingType ==
  ASSUME NEW calls \in Seq(Frames)
  PROVE  /\ RemainingOf(calls) \in Nat
         /\ \A d \in 1 .. 3 : RemainingAt(calls, d) \in Nat
<1>1. Len(calls) \in Nat /\ \A d \in 1 .. Len(calls) : calls[d] \in Frames
  BY LenProperties, ElementOfSeq
<1>2. ASSUME NEW d \in 1 .. 3 PROVE RemainingAt(calls, d) \in Nat
  <2>1. CASE d <= Len(calls)
    <3>1. calls[d] \in Frames
      BY <1>1, <2>1
    <3>2. QED
      BY <2>1, <3>1, RemainingIs DEF RemainingAt
  <2>2. CASE ~(d <= Len(calls))
    BY <2>2 DEF RemainingAt
  <2>3. QED
    BY <2>1, <2>2
<1>3. RemainingAt(calls, 1) \in Nat /\ RemainingAt(calls, 2) \in Nat /\ RemainingAt(calls, 3) \in Nat
  <2>1. 1 \in 1 .. 3 /\ 2 \in 1 .. 3 /\ 3 \in 1 .. 3
    OBVIOUS
  <2>2. QED
    BY <1>2, <2>1
<1>4. QED
  BY <1>2, <1>3 DEF RemainingOf

\* The steps of calls in progress are those of the innermost and of the others.
LEMMA RemainingPush ==
  ASSUME NEW calls \in Seq(Frames), Len(calls) <= 2, NEW g \in Frames
  PROVE  RemainingOf(<<g>> \o calls) = Remaining(g) + RemainingOf(calls)
<1>1. <<g>> \in Seq(Frames) /\ Len(<<g>>) = 1 /\ <<g>>[1] = g
  OBVIOUS
<1>2. /\ Len(<<g>> \o calls) = 1 + Len(calls)
      /\ \A d \in 1 .. 1 + Len(calls) :
           (<<g>> \o calls)[d] = IF d <= 1 THEN <<g>>[d] ELSE calls[d - 1]
  BY <1>1, ConcatProperties
<1>3. Len(calls) \in 0 .. 2
  BY LenProperties, Depths
<1>5. \A d \in 1 .. 2 : RemainingAt(calls, d) \in Nat
  BY RemainingType
<1>6. RemainingAt(calls, 3) = 0
  BY <1>3 DEF RemainingAt
<1>7. RemainingAt(<<g>> \o calls, 1) = Remaining(g)
  BY <1>1, <1>2, <1>3 DEF RemainingAt
<1>8. ASSUME NEW d \in 1 .. 2
      PROVE  RemainingAt(<<g>> \o calls, d + 1) = RemainingAt(calls, d)
  <2>1. d + 1 <= 1 + Len(calls) <=> d <= Len(calls)
    BY <1>3
  <2>2. CASE d <= Len(calls)
    <3>1. d + 1 \in 1 .. 1 + Len(calls) /\ ~(d + 1 <= 1) /\ (d + 1) - 1 = d
      BY <1>3, <2>2
    <3>2. (<<g>> \o calls)[d + 1] = calls[d]
      BY <1>2, <3>1
    <3>3. QED
      BY <1>2, <2>1, <2>2, <3>2 DEF RemainingAt
  <2>3. CASE ~(d <= Len(calls))
    BY <1>2, <2>1, <2>3 DEF RemainingAt
  <2>4. QED
    BY <2>2, <2>3
<1>9. 1 \in 1 .. 2 /\ 2 \in 1 .. 2 /\ 1 + 1 = 2 /\ 2 + 1 = 3
  OBVIOUS
<1>10. /\ RemainingAt(<<g>> \o calls, 2) = RemainingAt(calls, 1)
       /\ RemainingAt(<<g>> \o calls, 3) = RemainingAt(calls, 2)
       /\ RemainingAt(calls, 1) \in Nat /\ RemainingAt(calls, 2) \in Nat
  BY <1>5, <1>8, <1>9
<1>11. Remaining(g) \in Nat
  BY RemainingIs
<1>12. QED
  BY <1>6, <1>7, <1>10, <1>11 DEF RemainingOf

\* So it is when the innermost is taken away.
LEMMA RemainingPop ==
  ASSUME NEW calls, Nested(calls), calls # <<>>
  PROVE  /\ Head(calls) \in Frames /\ Tail(calls) \in Seq(Frames)
         /\ Len(Tail(calls)) = Len(calls) - 1 /\ Len(Tail(calls)) <= 2
         /\ RemainingOf(calls) = Remaining(Head(calls)) + RemainingOf(Tail(calls))
<1>1. calls \in Seq(Frames) /\ Len(calls) <= 3
  BY DEF Nested
<1>2. /\ Head(calls) \in Frames /\ Tail(calls) \in Seq(Frames)
      /\ Len(Tail(calls)) = Len(calls) - 1
      /\ \A d \in 1 .. Len(Tail(calls)) : Tail(calls)[d] = calls[d + 1]
  BY <1>1, HeadTailProperties
<1>3. Len(calls) \in 1 .. 3 /\ Head(calls) = calls[1]
  <2>1. Len(calls) \in Nat /\ Len(calls) # 0
    BY <1>1, EmptySeq
  <2>2. Head(calls) = calls[1]
    BY <1>1, <2>1
  <2>3. Len(calls) \in 1 .. 3
    BY <1>1, <2>1, Depths
  <2>4. QED
    BY <2>2, <2>3
<1>4. /\ Len(Tail(calls)) \in 0 .. 2 /\ Len(Tail(calls)) <= 2
      /\ Len(calls) = 1 + Len(Tail(calls))
  BY <1>2, <1>3
<1> DEFINE h == Head(calls)
           t == Tail(calls)
<1>5. RemainingAt(calls, 1) = Remaining(h)
  BY <1>3 DEF RemainingAt
<1>6. ASSUME NEW d \in 1 .. 2
      PROVE  RemainingAt(calls, d + 1) = RemainingAt(t, d)
  <2>1. d + 1 <= Len(calls) <=> d <= Len(t)
    BY <1>3, <1>4
  <2>2. CASE d <= Len(t)
    <3>1. d \in 1 .. Len(t)
      BY <1>4, <2>2
    <3>2. t[d] = calls[d + 1]
      BY <1>2, <3>1
    <3>3. QED
      BY <2>1, <2>2, <3>2 DEF RemainingAt
  <2>3. CASE ~(d <= Len(t))
    BY <2>1, <2>3 DEF RemainingAt
  <2>4. QED
    BY <2>2, <2>3
<1>7. RemainingAt(t, 3) = 0
  BY <1>4 DEF RemainingAt
<1>9. \A d \in 1 .. 2 : RemainingAt(t, d) \in Nat
  <2>1. t \in Seq(Frames)
    BY <1>2
  <2> HIDE DEF t
  <2>2. \A d \in 1 .. 3 : RemainingAt(t, d) \in Nat
    BY <2>1, RemainingType
  <2>3. QED
    BY <2>2
<1>10. 1 \in 1 .. 2 /\ 2 \in 1 .. 2 /\ 1 + 1 = 2 /\ 2 + 1 = 3
  OBVIOUS
<1>11. /\ RemainingAt(calls, 2) = RemainingAt(t, 1)
       /\ RemainingAt(calls, 3) = RemainingAt(t, 2)
       /\ RemainingAt(t, 1) \in Nat /\ RemainingAt(t, 2) \in Nat
  BY <1>6, <1>9, <1>10
<1>12. Remaining(h) \in Nat
  BY <1>2, RemainingIs
<1>13. RemainingOf(calls) = Remaining(h) + RemainingOf(t)
  BY <1>5, <1>7, <1>11, <1>12 DEF RemainingOf
<1>14. QED
  BY <1>2, <1>4, <1>13

\* One more call costs its own steps, or none when its address is refused.
LEMMA CallCosts ==
  ASSUME NEW calls \in Seq(Frames), Len(calls) <= 2,
         NEW addr \in Nat, NEW base \in Nat, NEW level \in 0 .. 2
  PROVE  LET after == RemainingOf(Call(Frame(addr, base, level), calls))
         IN  /\ after \in Nat
             /\ after <= RemainingOf(calls) + E * (1 + Below[level]) + 1
<1> DEFINE g == Frame(addr, base, level)
           cost == E * (1 + Below[level])
<1>1. E \in Nat /\ Below[level] \in Nat
  BY BelowIs, WalkerAssumption
<1>2. cost \in Nat
  BY <1>1
<1>3. g.addr = addr /\ g.k = 0 /\ g.level = level
  BY DEF Frame
<1>4. Remaining(g) = cost + 1
  <2>1. E - 0 = E
    BY <1>1
  <2>2. QED
    BY <1>3, <2>1 DEF Remaining
<1>5. g \in Frames \/ Bad(addr)
  BY WalkerAssumption DEF Frame, Frames
<1>6. CASE Bad(addr)
  <2>1. Call(g, calls) = calls
    BY <1>3, <1>6 DEF Call
  <2>2. RemainingOf(calls) \in Nat
    BY RemainingType
  <2> HIDE DEF cost, g
  <2>3. RemainingOf(calls) <= RemainingOf(calls) + cost + 1
    BY <1>2, <2>2
  <2>4. QED
    BY <2>1, <2>2, <2>3 DEF cost, g
<1>7. CASE ~Bad(addr)
  <2>1. g \in Frames /\ Call(g, calls) = <<g>> \o calls
    BY <1>3, <1>5, <1>7 DEF Call
  <2> HIDE DEF cost, g
  <2>2. /\ RemainingOf(<<g>> \o calls) = Remaining(g) + RemainingOf(calls)
        /\ RemainingOf(calls) \in Nat
    BY <2>1, RemainingPush, RemainingType
  <2>3. /\ RemainingOf(Call(g, calls)) \in Nat
        /\ RemainingOf(Call(g, calls)) <= RemainingOf(calls) + cost + 1
    BY <1>2, <1>4, <2>1, <2>2
  <2>4. QED
    BY <2>3 DEF cost, g
<1>8. QED
  BY <1>6, <1>7

\* A walk has at most this many steps left when it begins.
MostSteps == 2 * NCores * RootSteps

Bounded == walker = "walk" => StepsLeft \in 0 .. MostSteps

Falls == walker = "walk" => walker' # "walk" \/ StepsLeft' < StepsLeft

\* What is left is a number.
LEMMA StepsLeftType == WalkInv => RemainingOf(stack) \in Nat /\ StepsLeft \in Nat
<1> SUFFICES ASSUME WalkInv PROVE RemainingOf(stack) \in Nat /\ StepsLeft \in Nat
  OBVIOUS
<1>1. Nested(stack) /\ todo \in Seq(Nat)
  BY DEF WalkInv
<1>2. RemainingOf(stack) \in Nat
  BY <1>1, RemainingType DEF Nested
<1>3. Len(todo) \in Nat /\ RootSteps \in Nat
  BY <1>1, LenProperties, BelowIs
<1>4. Len(todo) * RootSteps \in Nat
  BY <1>3
<1>5. QED
  BY <1>2, <1>4 DEF StepsLeft

\* One entry less.
LEMMA ExamineCosts ==
  ASSUME WalkInv, ExamineEntry
  PROVE  RemainingOf(stack') < RemainingOf(stack)
<1> DEFINE frame == Head(stack)
           next  == Advance(frame)
           t     == Tail(stack)
           rest  == <<next>> \o t
<1>1. PICK val \in Found(Location(frame.addr, frame.k)) : Examine(val)
  BY DEF ExamineEntry
<1>2. Nested(stack) /\ stack # <<>> /\ frame.k < E
  BY DEF WalkInv, ExamineEntry, Walking
<1>3. /\ frame \in Frames /\ t \in Seq(Frames) /\ Len(t) <= 2
      /\ RemainingOf(stack) = Remaining(frame) + RemainingOf(t)
  BY <1>2, RemainingPop
<1>4. Nested(rest) /\ Len(rest) = Len(stack) /\ frame.level = Len(stack) - 1
  BY <1>2, AdvanceNested
<1>5. val.addr \in Nat /\ Vaddr(frame) \in Nat
  BY <1>3, FoundType, VaddrType DEF WalkInv
<1>6. \/ stack' = rest
      \/ /\ Descends(frame, val)
         /\ stack' = Call(Frame(val.addr, Vaddr(frame), frame.level + 1), rest)
  BY <1>1 DEF Examine
<1> HIDE DEF frame, t
<1>7. /\ next \in Frames
      /\ Remaining(next) + 1 + Below[frame.level] = Remaining(frame)
      /\ Below[frame.level] \in Nat /\ Remaining(next) \in Nat
  <2>1. next \in Frames /\ Remaining(next) + 1 + Below[frame.level] = Remaining(frame)
    BY <1>2, <1>3, RemainingIs
  <2>2. Remaining(next) \in Nat
    BY <2>1, RemainingIs
  <2>3. Below[frame.level] \in Nat
    BY <1>3, BelowIs DEF Frames
  <2>4. QED
    BY <2>1, <2>2, <2>3
<1> HIDE DEF next
<1>8. /\ RemainingOf(rest) = Remaining(next) + RemainingOf(t)
      /\ RemainingOf(t) \in Nat
  BY <1>3, <1>7, RemainingPush, RemainingType
<1>9. CASE stack' = rest
  BY <1>3, <1>7, <1>8, <1>9
<1>10. CASE /\ Descends(frame, val)
            /\ stack' = Call(Frame(val.addr, Vaddr(frame), frame.level + 1), rest)
  <2>1. frame.level \in 0 .. 1 /\ frame.level + 1 \in 0 .. 2
    BY <1>3, <1>10 DEF Descends, Frames
  <2>2. Below[frame.level] = E * (1 + Below[frame.level + 1]) + 1
    BY <2>1, BelowIs
  <2>3. rest \in Seq(Frames) /\ Len(rest) <= 2
    <3>1. stack \in Seq(Frames)
      BY <1>2 DEF Nested
    <3>2. Len(stack) \in Nat
      BY <3>1, LenProperties
    <3>3. QED
      BY <1>4, <2>1, <3>2 DEF Nested
  <2> HIDE DEF rest
  <2>4. /\ RemainingOf(stack') \in Nat
        /\ RemainingOf(stack') <= RemainingOf(rest) + E * (1 + Below[frame.level + 1]) + 1
    BY <1>5, <1>10, <2>1, <2>3, CallCosts
  <2> DEFINE n == E * (1 + Below[frame.level + 1])
  <2>5. n \in Nat
    <3>1. n = Below[frame.level] - 1 /\ Below[frame.level + 1] \in Nat /\ E \in Nat
      BY <1>7, <2>1, <2>2, BelowIs, WalkerAssumption
    <3> DEFINE b == Below[frame.level + 1]
    <3>2. b \in Nat
      BY <3>1
    <3> HIDE DEF b
    <3>3. E * (1 + b) \in Nat
      BY <3>1, <3>2
    <3>4. QED
      BY <3>3 DEF b
  <2>6. Below[frame.level] = n + 1 /\ RemainingOf(stack') <= RemainingOf(rest) + n + 1
    BY <2>2, <2>4
  <2> HIDE DEF n
  <2>7. QED
    BY <1>3, <1>7, <1>8, <2>4, <2>5, <2>6
<1>11. QED
  BY <1>6, <1>9, <1>10

\* Only an access to what is not there begins a walk, and every other step brings
\* one nearer to its end.
LEMMA WalkStepCosts ==
  ASSUME WalkInv, walker = "walk", walker' = "walk", WalkNext
  PROVE  StepsLeft' < StepsLeft
<1>1. /\ StepsLeft \in Nat /\ RemainingOf(stack) \in Nat /\ RootSteps \in Nat
      /\ todo \in Seq(Nat) /\ Len(todo) \in Nat /\ Len(todo) * RootSteps \in Nat
  <2>1. todo \in Seq(Nat)
    BY DEF WalkInv
  <2>2. Len(todo) \in Nat /\ RootSteps \in Nat
    BY <2>1, LenProperties, BelowIs
  <2>3. Len(todo) * RootSteps \in Nat
    BY <2>2
  <2>4. QED
    BY <2>1, <2>2, <2>3, StepsLeftType
<1>2. WalkInv'
  BY WalkNextInv
<1>3. RemainingOf(stack') \in Nat
  <2>1. stack' \in Seq(Frames)
    BY <1>2 DEF WalkInv, Nested
  <2>2. QED
    BY <2>1, RemainingType
<1>4. StepsLeft' = Len(todo') * RootSteps + RemainingOf(stack')
  BY DEF StepsLeft, RemainingOf, RemainingAt, Remaining
<1>5. CASE ExamineEntry
  <2>1. todo' = todo /\ RemainingOf(stack') < RemainingOf(stack)
    BY <1>5, ExamineCosts DEF ExamineEntry
  <2>2. QED
    BY <1>1, <1>3, <1>4, <2>1 DEF StepsLeft
<1>6. CASE TableDone
  <2>1. /\ Nested(stack) /\ stack # <<>> /\ stack' = Tail(stack) /\ todo' = todo
    BY <1>6 DEF WalkInv, TableDone, Walking
  <2>2. /\ RemainingOf(stack) = Remaining(Head(stack)) + RemainingOf(stack')
        /\ Remaining(Head(stack)) \in Nat \ {0}
    BY <2>1, RemainingPop, RemainingIs
  <2>3. RemainingOf(stack') < RemainingOf(stack)
    BY <1>3, <2>2
  <2>4. QED
    BY <1>1, <1>3, <1>4, <2>1, <2>3 DEF StepsLeft
<1>7. CASE NextRoot
  <2>1. /\ todo # <<>> /\ todo' = Tail(todo)
        /\ stack = <<>> /\ stack' = Call(Frame(Head(todo), 0, 0), <<>>)
    BY <1>7 DEF NextRoot
  <2>2. Head(todo) \in Nat /\ Len(todo') = Len(todo) - 1
    BY <1>1, <2>1, HeadTailProperties
  <2>3. /\ <<>> \in Seq(Frames) /\ Len(<<>>) <= 2 /\ RemainingOf(<<>>) = 0
        /\ 0 \in 0 .. 2 /\ 0 \in Nat
    BY EmptySeq DEF RemainingOf, RemainingAt
  <2>4. RemainingOf(stack') <= RemainingOf(<<>>) + E * (1 + Below[0]) + 1
    BY <2>1, <2>2, <2>3, CallCosts
  <2> DEFINE n == E * (1 + Below[0])
  <2>5. n + 2 = RootSteps
    BY DEF RootSteps
  <2>6. RemainingOf(stack') <= 0 + n + 1 /\ RemainingOf(stack) = 0
    BY <2>1, <2>3, <2>4
  <2>7. n \in Int
    <3>1. E \in Nat /\ Below[0] \in Nat
      BY <2>3, BelowIs, WalkerAssumption
    <3> DEFINE b == Below[0]
    <3>2. b \in Nat
      BY <3>1
    <3> HIDE DEF b
    <3>3. E * (1 + b) \in Int
      BY <3>1, <3>2
    <3>4. QED
      BY <3>3 DEF b
  <2> HIDE DEF n
  <2>8. RemainingOf(stack') < RootSteps
    BY <1>3, <2>5, <2>6, <2>7
  <2>9. (Len(todo) - 1) * RootSteps + RootSteps = Len(todo) * RootSteps
        /\ (Len(todo) - 1) * RootSteps \in Int
    BY <1>1
  <2>10. QED
    BY <1>1, <1>3, <1>4, <2>2, <2>6, <2>8, <2>9 DEF StepsLeft
<1>8. ~CrashAtEntry /\ ~EndReport
  BY DEF CrashAtEntry, EndReport
<1>9. \A c \in Cores, type \in Causes, address \in Checks : ~MissingMemory(c, type, address)
  BY DEF MissingMemory
<1>10. QED
  BY <1>5, <1>6, <1>7, <1>8, <1>9 DEF WalkNext, WalkStep

\* Before a walk nothing is left of another.
Idle == walker = "guest" => stack = <<>>

\* A walk begins with at most MostSteps, and has fewer after every step.
LEMMA BoundedNext ==
  WalkInv /\ Idle /\ Bounded /\ [WalkNext]_walkVars => Idle' /\ Bounded'
<1> SUFFICES ASSUME WalkInv, Idle, Bounded, [WalkNext]_walkVars PROVE Idle' /\ Bounded'
  OBVIOUS
<1>1. /\ StepsLeft' = Len(todo') * RootSteps + RemainingOf(stack')
      /\ MostSteps' = MostSteps
  BY DEF StepsLeft, RemainingOf, RemainingAt, Remaining, MostSteps
<1>2. /\ todo' \in Seq(Nat) /\ Len(todo') \in Nat /\ Len(todo') <= 2 * NCores
      /\ stack' \in Seq(Frames) /\ RemainingOf(stack') \in Nat /\ RootSteps \in Nat
  <2>1. WalkInv'
    BY WalkNextInv
  <2>2. todo' \in Seq(Nat) /\ Len(todo') <= 2 * NCores /\ stack' \in Seq(Frames)
    BY <2>1 DEF WalkInv, Nested
  <2>3. QED
    BY <2>2, LenProperties, RemainingType, BelowIs
<1>3. Len(todo') * RootSteps \in Nat
  BY <1>2
<1>4. Bounded' <=> (walker' = "walk" => StepsLeft' \in 0 .. MostSteps)
  BY <1>1 DEF Bounded
<1>5. CASE walker = "walk" /\ WalkNext
  <2>1. Bounded'
    <3>1. CASE walker' = "walk"
      <4>1. StepsLeft' < StepsLeft
        BY <1>5, <3>1, WalkStepCosts
      <4>2. StepsLeft \in Nat /\ StepsLeft <= MostSteps /\ StepsLeft' \in Nat
        BY <1>1, <1>2, <1>3, <1>5, StepsLeftType DEF Bounded
      <4>3. MostSteps \in Nat
        <5>1. 2 * NCores \in Nat
          BY NCoresAssumption
        <5>2. QED
          BY <1>2, <5>1 DEF MostSteps
      <4>4. StepsLeft' \in 0 .. MostSteps
        BY <4>1, <4>2, <4>3
      <4>5. QED
        BY <1>4, <4>4
    <3>2. CASE walker' # "walk"
      BY <1>4, <3>2
    <3>3. QED
      BY <3>1, <3>2
  <2>2. Idle'
    BY <1>5 DEF WalkNext, WalkStep, ExamineEntry, CrashAtEntry, TableDone, NextRoot,
                EndReport, WalkDone, MissingMemory, Idle
  <2>3. QED
    BY <2>1, <2>2
<1>6. CASE walker # "walk" /\ WalkNext
  <2>1. PICK c \in Cores, type \in Causes, address \in Checks :
          MissingMemory(c, type, address)
    BY <1>6 DEF WalkNext, WalkStep, ExamineEntry, CrashAtEntry, TableDone, NextRoot,
                EndReport, WalkDone, Walking
  <2>2. stack' = <<>>
    BY <2>1 DEF MissingMemory, Idle
  <2>3. RemainingOf(stack') = 0
    BY <2>2 DEF RemainingOf, RemainingAt
  <2>4. Len(todo') * RootSteps <= (2 * NCores) * RootSteps
    <3>1. 2 * NCores \in Nat
      BY NCoresAssumption
    <3> DEFINE m == 2 * NCores - Len(todo')
    <3>2. m \in Nat /\ 2 * NCores = Len(todo') + m
      BY <1>2, <3>1
    <3> HIDE DEF m
    <3>3. (Len(todo') + m) * RootSteps = Len(todo') * RootSteps + m * RootSteps
      BY <1>2, <3>2
    <3>4. m * RootSteps \in Nat
      BY <1>2, <3>2
    <3>5. QED
      BY <1>3, <3>2, <3>3, <3>4
  <2>5. StepsLeft' \in 0 .. MostSteps
    BY <1>1, <1>2, <1>3, <2>3, <2>4, NCoresAssumption DEF MostSteps
  <2>6. QED
    BY <1>4, <2>2, <2>5 DEF Idle
<1>7. CASE UNCHANGED walkVars
  <2>1. walker' = walker /\ todo' = todo /\ stack' = stack
    BY <1>7 DEF walkVars
  <2>2. StepsLeft' = StepsLeft
    BY <1>1, <2>1 DEF StepsLeft
  <2>3. QED
    BY <1>4, <2>1, <2>2 DEF Bounded, Idle
<1>8. QED
  BY <1>5, <1>6, <1>7

\* A walk takes at most MostSteps steps, about E^3 for each of two roots of every
\* core, also of tables that point at themselves: it begins with as many at most,
\* and each of its steps leaves fewer.  This is WalkEnds without the fairness
\* (main.cpp:149).
THEOREM WalksAreBounded == WalkSafety => []Bounded /\ [][Falls]_walkVars
<1>1. WalkInit => Idle /\ Bounded
  BY DEF WalkInit, Idle, Bounded
<1>2. WalkInv /\ [WalkNext]_walkVars => [Falls]_walkVars
  BY WalkStepCosts DEF Falls
<1>3. QED
  BY <1>1, <1>2, BoundedNext, WalkInvariance, PTL DEF WalkSafety

-----------------------------------------------------------------------------
\* The two sides together: whichever a behaviour exercises, the other's steps
\* leave it alone.

\* The life's steps are its own,
LEMMA LifetimeRuns == MemSafety => LifeSafety
<1>1. MemInit => LifeInit
  BY DEF MemInit
<1>2. [LifetimeStep \/ WalkerStep]_memVars => [LifeNext]_<<lifeVars, schedVars>>
  BY DEF LifetimeStep, WalkerStep, memVars, lifetimeVars
<1>3. QED
  BY <1>1, <1>2, PTL DEF MemSafety, LifeSafety

\* and the walker's are.
LEMMA WalkerRuns == MemSafety => WalkSafety
<1>1. MemInit => WalkInit
  BY DEF MemInit
<1>2. [LifetimeStep \/ WalkerStep]_memVars => [WalkNext]_walkVars
  BY DEF LifetimeStep, WalkerStep, memVars
<1>3. QED
  BY <1>1, <1>2, PTL DEF MemSafety, WalkSafety

\* Every variable of either side has its type.
THEOREM MemTypeCorrect == MemSafety => []MemTypeOK
<1>1. LifeTypeOK /\ WalkTypeOK => MemTypeOK
  BY DEF MemTypeOK
<1>2. QED
  BY <1>1, LifetimeRuns, WalkerRuns, LifeTypeCorrect, WalkTypeCorrect, PTL

\* What is proved of the emulator's life and of the walks holds where a run
\* checks both.
THEOREM MemoryIsCorrect ==
  MemSafety => [](/\ MapsAreBacked /\ MapIsWhole /\ ImagesInPlace
                  /\ TablesAsGuestSees /\ PageIsFound)
BY LifetimeRuns, WalkerRuns, MappedIsAllocated, SlicesHaveAllMemory,
   GuestFindsTheImages, WalkerReadsTheGuests, PagesAreFound, PTL
=============================================================================
