---------------------------- MODULE EmulatorProofs ----------------------------
(***************************************************************************)
(* Proofs about module Emulator, for any number of cores, any length of a  *)
(* slice, any set of GICD_SGIR words and any guest: its steps are steps of *)
(* the scheduler and steps of the interrupt controller, so that what is    *)
(* proved of either holds of both together; and guests acknowledge SGIs in *)
(* order.                                                                  *)
(***************************************************************************)
EXTENDS Emulator, SchedulerProofs, GicProofs

\* What the guest has acknowledged never runs ahead of what left the queue, and
\* a core about to read GICC_IAR has not acknowledged what it will find there.
AckedBehind ==
  \A c \in Cores : \A n \in 1 .. Len(acked[c]) : acked[c][n] <= handed[c]

RunningFindsFresh ==
  \A c \in Cores :
    /\ phase = "slice" /\ i = c
    /\ handler[c] # "eoi"
    /\ InterruptActive(c)
    => \A n \in 1 .. Len(acked[c]) : acked[c][n] < handed[c]

GuestTypeOK ==
  /\ handler \in [Cores -> HandlerStates]
  /\ acked \in [Cores -> Seq(Nat)]

\* The inductive invariant.  AckedInOrder is kept by AckedBehind and
\* RunningFindsFresh: a handler that has been cut between the acknowledgement
\* and the end of an interrupt finds another one, or none, in its next slice.
EmuInv ==
  /\ SchedInv
  /\ GicInv
  /\ GuestTypeOK
  /\ AckedInOrder
  /\ AckedBehind
  /\ RunningFindsFresh

-----------------------------------------------------------------------------
\* The core that is being run, or is about to be, is a core.
LEMMA RunningIsCore ==
  ASSUME SchedInv,
         phase = "slice" \/ BeginSlice
  PROVE  i \in Cores
<1>1. CASE phase = "slice"
  BY <1>1 DEF SchedInv
<1>2. CASE BeginSlice
  BY <1>2, NCoresAssumption DEF SchedInv, SchedTypeOK, BeginSlice, GoesOn, Cores
<1>3. QED
  BY <1>1, <1>2

\* Guests execute instructions in slices only.
LEMMA GuestStepsInSlices == GuestStep => phase = "slice"
BY DEF GuestStep, PlainInsn, CpuOn, RequestQuit, HangInGetConfig, Executes

\* Every step of the emulator is a step of the scheduler.
LEMMA SchedulerStep == [EmuNext]_emuVars => [SchedNext]_schedVars
<1> SUFFICES ASSUME [EmuNext]_emuVars PROVE [SchedNext]_schedVars
  OBVIOUS
<1>1. CASE UNCHANGED emuVars
  BY <1>1 DEF emuVars
<1>2. CASE VisitCore \/ LeaveCore \/ LoopStep
  BY <1>2 DEF VisitCore, LeaveCore, LoopStep, SchedNext
<1>3. ASSUME PlainInsn \/ GuestStep PROVE SchedNext
  BY <1>3 DEF GuestStep, SchedNext
<1>4. CASE \E w \in SgirWords : SendSgi(w)
  BY <1>3, <1>4 DEF SendSgi
<1>5. CASE OtherInsn
  BY <1>3, <1>5 DEF OtherInsn
<1>6. CASE EnterHandler \/ ReadIar \/ EndInterrupt
  BY <1>3, <1>6 DEF EnterHandler, ReadIar, EndInterrupt
<1>7. QED
  BY <1>1, <1>2, <1>4, <1>5, <1>6 DEF EmuNext

\* Every step of the emulator is a step of the interrupt controller, or does not
\* concern it.
LEMMA ControllerStep == SchedInv /\ [EmuNext]_emuVars => [GicNext]_gicVars
<1> SUFFICES ASSUME SchedInv, [EmuNext]_emuVars PROVE [GicNext]_gicVars
  OBVIOUS
<1>1. CASE UNCHANGED emuVars
  BY <1>1 DEF emuVars
<1>2. CASE VisitCore
  <2>1. i \in Cores /\ HandleInterrupts(i)
    BY <1>2, RunningIsCore DEF VisitCore
  <2>2. QED
    BY <2>1 DEF GicNext
<1>3. ASSUME PlainInsn PROVE i \in Cores
  BY <1>3, RunningIsCore DEF PlainInsn, Executes
<1>4. CASE \E w \in SgirWords : SendSgi(w)
  BY <1>3, <1>4 DEF SendSgi, GicNext
<1>5. CASE EnterHandler
  BY <1>3, <1>5 DEF EnterHandler, GicNext
<1>6. CASE EndInterrupt
  BY <1>3, <1>6 DEF EndInterrupt, GicNext
<1>7. CASE LeaveCore \/ LoopStep \/ OtherInsn \/ ReadIar
  BY <1>7 DEF LeaveCore, LoopStep, OtherInsn, ReadIar
<1>8. QED
  BY <1>1, <1>2, <1>4, <1>5, <1>6, <1>7 DEF EmuNext

\* The emulator implements the scheduler.
THEOREM EmulatorIsScheduled == EmuSpec => SchedSafety
BY SchedulerStep, PTL DEF EmuSpec, EmuInit, SchedSafety

\* And it implements the interrupt controller: the scheduler and the guests
\* between them use it in none but the ways module Gic allows.
THEOREM EmulatorInterrupts == EmuSpec => GicSafety
<1>1. EmuInit => GicInit
  BY DEF EmuInit
<1>2. EmuSpec => []SchedInv
  BY EmulatorIsScheduled, SchedInvariance, PTL
<1>3. QED
  BY <1>1, <1>2, ControllerStep, PTL DEF EmuSpec, GicSafety

\* So all that is proved of the parts is true of the whole.
THEOREM EmulatorInherits ==
  EmuSpec => /\ [](MappingExclusive /\ StartsWhereTold /\ FairTurns)
             /\ [](QueueIsUnsentTail /\ IarNamesLastHanded /\ NoIrqStorm)
             /\ Mailbox!MailboxSafety
BY EmulatorIsScheduled, EmulatorInterrupts, MappingIsExclusive, NeverStartsFromReset,
   TurnsAreFair, QueueExact, IarExact, IrqBounded, ImplementsMailbox, PTL

-----------------------------------------------------------------------------
\* The guests' first state.
LEMMA EmuInitInv == EmuInit => EmuInv
<1> SUFFICES ASSUME EmuInit PROVE EmuInv
  OBVIOUS
<1>1. SchedInv /\ GicInv
  BY SchedInitInv, InitInv DEF EmuInit
<1>2. GuestTypeOK
  BY DEF EmuInit, GuestTypeOK, HandlerStates
<1>3. ASSUME NEW c \in Cores PROVE 1 .. Len(acked[c]) = {}
  BY <1>3 DEF EmuInit
<1>4. QED
  BY <1>1, <1>2, <1>3 DEF EmuInv, AckedInOrder, AckedBehind, RunningFindsFresh

\* The guest's variables keep their types.
LEMMA GuestTypes == EmuInv /\ [EmuNext]_emuVars => GuestTypeOK'
<1> SUFFICES ASSUME EmuInv, [EmuNext]_emuVars PROVE GuestTypeOK'
  OBVIOUS
<1>1. GuestTypeOK /\ GicTypeOK /\ SchedInv
  BY DEF EmuInv, GicInv
<1>2. CASE UNCHANGED <<handler, acked>>
  BY <1>1, <1>2 DEF GuestTypeOK
<1>3. CASE OtherInsn
  <2>1. "thread" \in HandlerStates
    BY DEF HandlerStates
  <2>2. handler' \in [Cores -> HandlerStates]
    BY <1>1, <1>3, <2>1 DEF OtherInsn, GuestTypeOK
  <2>3. QED
    BY <1>1, <1>3, <2>2 DEF OtherInsn, GuestTypeOK
<1>4. CASE EnterHandler \/ EndInterrupt
  <2>1. acked' = acked
    BY <1>4 DEF EnterHandler, EndInterrupt
  <2>2. handler' \in [Cores -> HandlerStates]
    BY <1>1, <1>4 DEF EnterHandler, EndInterrupt, GuestTypeOK, HandlerStates
  <2>3. QED
    BY <1>1, <2>1, <2>2 DEF GuestTypeOK
<1>5. CASE ReadIar
  <2>1. handler' \in [Cores -> HandlerStates]
    BY <1>1, <1>5 DEF ReadIar, GuestTypeOK, HandlerStates
  <2>2. i \in Cores
    BY <1>1, <1>5, RunningIsCore DEF ReadIar, PlainInsn, Executes
  <2>3. handed[i] \in Nat
    BY <1>1, <2>2 DEF GicTypeOK
  <2>4. Append(acked[i], handed[i]) \in Seq(Nat)
    BY <1>1, <2>2, <2>3 DEF GuestTypeOK
  <2>5. acked' \in [Cores -> Seq(Nat)]
    BY <1>1, <1>5, <2>4 DEF ReadIar, GuestTypeOK
  <2>6. QED
    BY <2>1, <2>5 DEF GuestTypeOK
<1>6. CASE VisitCore \/ LeaveCore \/ LoopStep \/ \E w \in SgirWords : SendSgi(w)
  BY <1>2, <1>6 DEF VisitCore, LeaveCore, LoopStep, SendSgi
<1>7. CASE UNCHANGED emuVars
  BY <1>2, <1>7 DEF emuVars
<1>8. QED
  BY <1>3, <1>4, <1>5, <1>6, <1>7 DEF EmuNext

-----------------------------------------------------------------------------
\* Core c is about to read GICC_IAR, or may be before its next acknowledgement.
MayRead(c) == phase = "slice" /\ i = c /\ handler[c] # "eoi" /\ InterruptActive(c)

\* A step that moves no queue and lets no core read that could not before.
LEMMA QuietStep ==
  ASSUME EmuInv, UNCHANGED <<acked, handed>>,
         \A c \in Cores : MayRead(c)' => MayRead(c)
  PROVE  (AckedInOrder /\ AckedBehind /\ RunningFindsFresh)'
<1>1. AckedInOrder' /\ AckedBehind'
  BY DEF EmuInv, AckedInOrder, AckedBehind
<1>2. RunningFindsFresh'
  BY DEF EmuInv, RunningFindsFresh, MayRead
<1>3. QED
  BY <1>1, <1>2

\* Whenever a core's queue is moved, what is then active has a higher number
\* than all the core has acknowledged.
LEMMA PushFreshens ==
  ASSUME EmuInv, NEW core \in Cores, PushNextInterrupt(core), acked' = acked
  PROVE  /\ AckedInOrder' /\ AckedBehind'
         /\ InterruptActive(core)' =>
              \A n \in 1 .. Len(acked[core]) : acked[core][n] < handed'[core]
         /\ \A c \in Cores \ {core} : InterruptActive(c)' = InterruptActive(c)
                                      /\ handed'[c] = handed[c]
<1>1. /\ handed \in [Cores -> Nat]
      /\ active_intr \in [Cores -> 0 .. 15 \cup {NoIntr}]
      /\ acked \in [Cores -> Seq(Nat)]
  BY DEF EmuInv, GicInv, GicTypeOK, GuestTypeOK
<1>2. ASSUME NEW c \in Cores, NEW n \in 1 .. Len(acked[c])
      PROVE  acked[c][n] \in Nat /\ acked[c][n] <= handed[c]
  BY <1>1, <1>2, ElementOfSeq DEF EmuInv, AckedBehind
<1>3. AckedInOrder'
  BY DEF EmuInv, AckedInOrder
<1>4. ASSUME NEW c \in Cores PROVE handed'[c] \in Nat /\ handed[c] <= handed'[c]
  <2>1. handed' = handed \/ handed' = [handed EXCEPT ![core] = handed[core] + 1]
    BY DEF PushNextInterrupt
  <2>2. handed[c] \in Nat /\ (handed'[c] = handed[c] \/ handed'[c] = handed[c] + 1)
    BY <1>1, <2>1
  <2>3. QED
    BY <2>2
<1>5. AckedBehind'
  <2>1. ASSUME NEW c \in Cores, NEW n \in 1 .. Len(acked[c])
        PROVE  acked[c][n] <= handed'[c]
    BY <1>1, <1>2, <1>4
  <2>2. QED
    BY <2>1 DEF AckedBehind
<1>6. ASSUME InterruptActive(core)' PROVE handed'[core] = handed[core] + 1
  BY <1>1, <1>6 DEF InterruptActive, PushNextInterrupt, SetActiveInterrupt
<1>7. ASSUME InterruptActive(core)', NEW n \in 1 .. Len(acked[core])
      PROVE  acked[core][n] < handed'[core]
  BY <1>1, <1>2, <1>6, <1>7
<1>8. ASSUME NEW c \in Cores \ {core}
      PROVE  InterruptActive(c)' = InterruptActive(c) /\ handed'[c] = handed[c]
  BY <1>1 DEF InterruptActive, PushNextInterrupt, SetActiveInterrupt
<1>9. QED
  BY <1>3, <1>5, <1>7, <1>8

\* The scheduler's look at a core's interrupts.
LEMMA VisitOrder ==
  ASSUME EmuInv, VisitCore
  PROVE  (AckedInOrder /\ AckedBehind /\ RunningFindsFresh)'
<1>1. i \in Cores
  BY RunningIsCore DEF EmuInv, VisitCore
<1>2. /\ acked' = acked /\ handler' = handler /\ i' = i
      /\ HandleInterrupts(i)
  BY DEF VisitCore, BeginSlice
<1>3. CASE NothingToSend(i) /\ UNCHANGED gicVars
  <2>1. ASSUME NEW c \in Cores PROVE ~MayRead(c)'
    BY <1>2, <1>3 DEF NothingToSend, MayRead, gicVars, InterruptActive
  <2>2. QED
    BY <1>2, <1>3, <2>1, QuietStep DEF gicVars
<1>4. CASE PushNextInterrupt(i)
  <2>1. AckedInOrder' /\ AckedBehind'
    BY <1>1, <1>2, <1>4, PushFreshens
  <2>2. RunningFindsFresh'
    BY <1>1, <1>2, <1>4, PushFreshens DEF RunningFindsFresh
  <2>3. QED
    BY <2>1, <2>2
<1>5. QED
  BY <1>2, <1>3, <1>4 DEF HandleInterrupts

\* The guest writes GICC_EOIR.
LEMMA EndInterruptOrder ==
  ASSUME EmuInv, EndInterrupt
  PROVE  (AckedInOrder /\ AckedBehind /\ RunningFindsFresh)'
<1>1. i \in Cores
  BY RunningIsCore DEF EmuInv, EndInterrupt, PlainInsn, Executes
<1>2. acked' = acked /\ i' = i /\ PushNextInterrupt(i)
  BY DEF EndInterrupt, WriteEoir, PlainInsn, Executes
<1>3. AckedInOrder' /\ AckedBehind'
  BY <1>1, <1>2, PushFreshens
<1>4. RunningFindsFresh'
  BY <1>1, <1>2, PushFreshens DEF RunningFindsFresh
<1>5. QED
  BY <1>3, <1>4

\* The guest reads GICC_IAR: what it finds is newer than all it has read.
LEMMA ReadIarOrder ==
  ASSUME EmuInv, ReadIar
  PROVE  (AckedInOrder /\ AckedBehind /\ RunningFindsFresh)'
<1>1. i \in Cores
  BY RunningIsCore DEF EmuInv, ReadIar, PlainInsn, Executes
<1>2. /\ phase = "slice" /\ handler[i] = "ack" /\ i' = i /\ phase' = phase
      /\ UNCHANGED gicVars
  BY DEF ReadIar, PlainInsn, Executes
<1>3. /\ handler \in [Cores -> HandlerStates]
      /\ acked \in [Cores -> Seq(Nat)]
      /\ handed \in [Cores -> Nat]
  BY DEF EmuInv, GuestTypeOK, GicInv, GicTypeOK
<1>4. handed' = handed /\ \A c \in Cores : InterruptActive(c)' = InterruptActive(c)
  BY <1>2 DEF gicVars, InterruptActive
<1>5. CASE ~InterruptActive(i)
  <2>1. acked' = acked
    BY <1>5 DEF ReadIar
  <2>2. ASSUME NEW c \in Cores PROVE ~MayRead(c)'
    BY <1>2, <1>4, <1>5 DEF MayRead
  <2>3. QED
    BY <1>4, <2>1, <2>2, QuietStep
<1>6. CASE InterruptActive(i)
  <2>1. /\ acked' = [acked EXCEPT ![i] = Append(acked[i], handed[i])]
        /\ handler' = [handler EXCEPT ![i] = "eoi"]
    BY <1>6 DEF ReadIar
  <2>2. \A n \in 1 .. Len(acked[i]) : acked[i][n] < handed[i]
    BY <1>1, <1>2, <1>6 DEF EmuInv, RunningFindsFresh
  <2>3. /\ Len(acked'[i]) = Len(acked[i]) + 1
        /\ \A n \in 1 .. Len(acked[i]) : acked'[i][n] = acked[i][n]
        /\ acked'[i][Len(acked[i]) + 1] = handed[i]
        /\ Len(acked[i]) \in Nat
    BY <1>1, <1>3, <2>1
  <2>4. \A c \in Cores \ {i} : acked'[c] = acked[c]
    BY <1>3, <2>1
  <2>5. ASSUME NEW m \in 1 .. Len(acked'[i]), NEW n \in 1 .. Len(acked'[i]), m < n
        PROVE  acked'[i][m] < acked'[i][n]
    <3>1. m \in 1 .. Len(acked[i])
      BY <2>3, <2>5
    <3>2. CASE n = Len(acked[i]) + 1
      BY <2>2, <2>3, <3>1, <3>2
    <3>3. CASE n \in 1 .. Len(acked[i])
      BY <1>1, <2>3, <2>5, <3>1, <3>3 DEF EmuInv, AckedInOrder
    <3>4. QED
      BY <2>3, <2>5, <3>2, <3>3
  <2>6. AckedInOrder'
    BY <2>4, <2>5 DEF EmuInv, AckedInOrder
  <2>7. ASSUME NEW n \in 1 .. Len(acked'[i]) PROVE acked'[i][n] <= handed'[i]
    <3>1. CASE n = Len(acked[i]) + 1
      BY <1>1, <1>3, <1>4, <2>3, <3>1
    <3>2. CASE n \in 1 .. Len(acked[i])
      BY <1>1, <1>4, <2>3, <3>2 DEF EmuInv, AckedBehind
    <3>3. QED
      BY <2>3, <2>7, <3>1, <3>2
  <2>8. AckedBehind'
    BY <1>4, <2>4, <2>7 DEF EmuInv, AckedBehind
  <2>9. RunningFindsFresh'
    BY <1>1, <1>2, <1>3, <2>1 DEF RunningFindsFresh
  <2>10. QED
    BY <2>6, <2>8, <2>9
<1>7. QED
  BY <1>5, <1>6

\* What a core does outside its handler, and the taking of the IRQ.  Only other
\* cores than the running one are ever thrown out of their handlers.
LEMMA GuestOrder ==
  ASSUME EmuInv,
         OtherInsn \/ EnterHandler \/ \E w \in SgirWords : SendSgi(w)
  PROVE  (AckedInOrder /\ AckedBehind /\ RunningFindsFresh)'
<1>1. GuestStep
  BY DEF OtherInsn, EnterHandler, SendSgi, GuestStep
<1>2. i \in Cores /\ phase = "slice" /\ i' = i /\ handler[i] = "thread"
  <2>1. phase = "slice"
    BY <1>1, GuestStepsInSlices
  <2>2. i' = i
    BY <1>1 DEF GuestStep, PlainInsn, CpuOn, RequestQuit, HangInGetConfig, Executes
  <2>3. handler[i] = "thread"
    BY DEF OtherInsn, EnterHandler, SendSgi, ThreadCode
  <2>4. QED
    BY <2>1, <2>2, <2>3, RunningIsCore DEF EmuInv
<1>3. UNCHANGED <<acked, handed, active_intr>>
  BY DEF OtherInsn, EnterHandler, SendSgi, WriteSgir, TakeIrq, gicVars
<1>4. ASSUME NEW c \in Cores, MayRead(c)' PROVE MayRead(c)
  BY <1>2, <1>3, <1>4 DEF MayRead, InterruptActive
<1>5. QED
  BY <1>3, <1>4, QuietStep

\* The rest of the scheduler: afterwards no core is being run.
LEMMA LoopOrder ==
  ASSUME EmuInv, LeaveCore \/ LoopStep
  PROVE  (AckedInOrder /\ AckedBehind /\ RunningFindsFresh)'
<1>1. UNCHANGED <<acked, handed>>
  BY DEF LeaveCore, LoopStep, gicVars
<1>2. phase' # "slice"
  BY DEF LeaveCore, LoopStep, EndSlice, WhileTest, EndPass, AfterPass
<1>3. ASSUME NEW c \in Cores PROVE ~MayRead(c)'
  BY <1>2 DEF MayRead
<1>4. QED
  BY <1>1, <1>3, QuietStep

\* One step per action.
LEMMA EmuNextInv == EmuInv /\ [EmuNext]_emuVars => EmuInv'
<1> SUFFICES ASSUME EmuInv, [EmuNext]_emuVars PROVE EmuInv'
  OBVIOUS
<1>1. SchedInv'
  BY SchedulerStep, SchedNextInv DEF EmuInv
<1>2. GicInv'
  BY ControllerStep, NextInv DEF EmuInv
<1>3. CASE UNCHANGED emuVars
  <2>1. UNCHANGED <<acked, handed>>
    BY <1>3 DEF emuVars, gicVars
  <2>2. ASSUME NEW c \in Cores, MayRead(c)' PROVE MayRead(c)
    BY <1>3, <2>2 DEF emuVars, gicVars, schedVars, MayRead, InterruptActive
  <2>3. QED
    BY <1>1, <1>2, <2>1, <2>2, GuestTypes, QuietStep DEF EmuInv
<1>4. CASE EmuNext
  <2>1. (AckedInOrder /\ AckedBehind /\ RunningFindsFresh)'
    BY <1>4, VisitOrder, EndInterruptOrder, ReadIarOrder, GuestOrder, LoopOrder
       DEF EmuNext
  <2>2. QED
    BY <1>1, <1>2, <2>1, GuestTypes DEF EmuInv
<1>5. QED
  BY <1>3, <1>4

\* EmuInv holds throughout.
LEMMA EmuInvariance == EmuSpec => []EmuInv
BY EmuInitInv, EmuNextInv, PTL DEF EmuSpec

\* Every variable keeps its type.
THEOREM EmuTypeCorrect == EmuSpec => []EmuTypeOK
<1>1. EmuInv => EmuTypeOK
  BY DEF EmuInv, SchedInv, GicInv, GuestTypeOK, EmuTypeOK
<1>2. QED
  BY EmuInvariance, <1>1, PTL

\* No guest acknowledges an SGI twice or out of order, wherever its slices end
\* and however often the scheduler replaces what GICC_IAR shows.
THEOREM AcknowledgedInOrder == EmuSpec => []AckedInOrder
BY EmuInvariance, PTL DEF EmuInv

-----------------------------------------------------------------------------
\* The first n SGIs, acknowledged in order.
UpTo(n) == [k \in 1 .. n |-> k]

Full(c) == acked[c] = UpTo(handed[c])

\* All but the one that GICC_IAR shows, if it shows one.
Settled(c) == IF InterruptActive(c) THEN acked[c] = UpTo(handed[c] - 1) ELSE Full(c)

\* Where an attentive core is: outside its handler an IRQ is raised exactly when
\* GICC_IAR shows an interrupt; between its slices it is outside, with neither.
Tended(c) ==
  /\ handler[c] = "thread" => (irq[c] <=> InterruptActive(c)) /\ Settled(c)
  /\ handler[c] = "ack" => ~irq[c] /\ Settled(c)
  /\ handler[c] = "eoi" => ~irq[c] /\ Full(c)

Idle(c) == handler[c] = "thread" /\ ~irq[c]

IsRunning(c) == phase = "slice" /\ i = c

\* The inductive invariant of attentive guests.
AllTended ==
  Attentive /\ ~uc_quit /\ phase # "hung" =>
    \A c \in Cores : Tended(c) /\ (~IsRunning(c) => Idle(c))

AttentiveInv == EmuInv /\ AllTended

\* A core between two slices has acknowledged everything.
LEMMA IdleIsFull ==
  ASSUME NEW c \in Cores, Tended(c), Idle(c)
  PROVE  Full(c) /\ ~InterruptActive(c)
BY DEF Tended, Idle, Settled

\* A queue moved for a core that has acknowledged everything leaves it settled.
LEMMA PushSettles ==
  ASSUME GicTypeOK, NEW core \in Cores, PushNextInterrupt(core),
         acked' = acked, Full(core)
  PROVE  /\ Settled(core)'
         /\ InterruptActive(core)' <=> (sgir_queue[core] # <<>>)
<1>1. /\ active_intr \in [Cores -> 0 .. 15 \cup {NoIntr}]
      /\ handed \in [Cores -> Nat]
      /\ sgir_queue[core] \in Seq(Interrupt)
  BY DEF GicTypeOK
<1>2. CASE sgir_queue[core] = <<>>
  <2>1. ~InterruptActive(core)' /\ handed'[core] = handed[core]
    BY <1>1, <1>2 DEF PushNextInterrupt, SetActiveInterrupt, InterruptActive
  <2>2. QED
    BY <1>2, <2>1 DEF Settled, Full
<1>3. CASE sgir_queue[core] # <<>>
  <2>1. Head(sgir_queue[core]) \in Interrupt
    BY <1>1, <1>3
  <2>2. Head(sgir_queue[core]).intid # NoIntr
    BY <2>1 DEF Interrupt, NoIntr
  <2>3. InterruptActive(core)' /\ handed'[core] = handed[core] + 1
    BY <1>1, <1>3, <2>2 DEF PushNextInterrupt, SetActiveInterrupt, InterruptActive
  <2>4. handed'[core] - 1 = handed[core]
    BY <1>1, <2>3
  <2>5. QED
    BY <1>3, <2>3, <2>4 DEF Settled, Full
<1>4. QED
  BY <1>2, <1>3

\* Nothing that Tended speaks of changes for core c.
LEMMA TendedStays ==
  ASSUME NEW c \in Cores, Tended(c),
         handler'[c] = handler[c], irq'[c] = irq[c],
         InterruptActive(c)' <=> InterruptActive(c),
         acked'[c] = acked[c], handed'[c] = handed[c]
  PROVE  Tended(c)' /\ (Idle(c) => Idle(c)')
BY DEF Tended, Idle, Settled, Full

\* One more acknowledgement.
LEMMA AppendNext ==
  ASSUME NEW n \in Nat
  PROVE  n # 0 => Append(UpTo(n - 1), n) = UpTo(n)
<1>1. ASSUME n # 0
      PROVE  Append(UpTo(n - 1), n) = UpTo(n)
  <2>1. n - 1 \in Nat /\ (n - 1) + 1 = n
    BY <1>1
  <2>2. UpTo(n - 1) \in Seq(Nat) /\ Len(UpTo(n - 1)) = n - 1
    BY <2>1 DEF UpTo
  <2>3. UpTo(n) \in Seq(Nat) /\ Len(UpTo(n)) = n
    BY DEF UpTo
  <2>4. /\ Append(UpTo(n - 1), n) \in Seq(Nat)
        /\ Len(Append(UpTo(n - 1), n)) = n
    BY <2>1, <2>2
  <2>5. ASSUME NEW k \in 1 .. n
        PROVE  Append(UpTo(n - 1), n)[k] = UpTo(n)[k]
    BY <2>1, <2>2 DEF UpTo
  <2>6. QED
    BY <2>3, <2>4, <2>5, SeqEqual
<1>2. QED
  BY <1>1

\* Stopping is for good, so an attentive guest's past was watched over as well.
LEMMA StoppedStays ==
  ASSUME [EmuNext]_emuVars, ~uc_quit', phase' # "hung", uc_quit \in BOOLEAN
  PROVE  ~uc_quit /\ phase # "hung"
<1>1. [SchedNext]_schedVars
  BY SchedulerStep
<1>2. CASE UNCHANGED schedVars
  BY <1>2 DEF schedVars
<1>3. CASE WhileTest \/ EndPass \/ BeginSlice \/ EndSlice
  BY <1>3 DEF WhileTest, EndPass, BeginSlice, EndSlice
<1>4. CASE GuestStep
  BY <1>4 DEF GuestStep, PlainInsn, CpuOn, RequestQuit, HangInGetConfig, Executes
<1>5. QED
  BY <1>1, <1>2, <1>3, <1>4 DEF SchedNext

\* What the actions below start from.
Watched == AttentiveInv /\ Attentive /\ ~uc_quit /\ phase # "hung"

\* The conjuncts of what is assumed.
LEMMA WatchedFacts ==
  ASSUME Watched
  PROVE  /\ EmuInv /\ GicTypeOK /\ SchedTypeOK /\ GuestTypeOK /\ ActiveIsHanded
         /\ \A c \in Cores : Tended(c) /\ (~IsRunning(c) => Idle(c))
BY DEF Watched, AttentiveInv, AllTended, EmuInv, GicInv, SchedInv

\* A step that changes nothing of what a core has to do.
LEMMA UndisturbedTended ==
  ASSUME Watched, NEW c \in Cores,
         UNCHANGED <<irq, active_intr, acked, handed>>,
         handler'[c] = handler[c]
  PROVE  Tended(c)' /\ (Idle(c) => Idle(c)')
<1>1. Tended(c)
  BY WatchedFacts
<1>2. InterruptActive(c)' <=> InterruptActive(c)
  BY DEF InterruptActive
<1>3. QED
  BY <1>1, <1>2, TendedStays

\* A step of core i that moves its own queue, IRQ, handler and acknowledgements
\* only.
LEMMA OthersTended ==
  ASSUME Watched, NEW c \in Cores \ {i}, i' = i,
         handler'[c] = handler[c], irq'[c] = irq[c], acked'[c] = acked[c],
         active_intr'[c] = active_intr[c], handed'[c] = handed[c]
  PROVE  Tended(c)' /\ (~IsRunning(c)' => Idle(c)')
<1>1. Tended(c) /\ Idle(c)
  BY WatchedFacts DEF IsRunning
<1>2. InterruptActive(c)' <=> InterruptActive(c)
  BY DEF InterruptActive
<1>3. QED
  BY <1>1, <1>2, TendedStays

\* The scheduler's visit: the core was idle, so that an IRQ comes with an
\* interrupt to show.
LEMMA VisitTended ==
  ASSUME Watched, VisitCore, NEW c \in Cores
  PROVE  Tended(c)' /\ (~IsRunning(c)' => Idle(c)')
<1>1. i \in Cores
  BY WatchedFacts, RunningIsCore DEF EmuInv, VisitCore
<1>2. /\ phase = "for" /\ phase' = "slice" /\ i' = i
      /\ acked' = acked /\ handler' = handler /\ HandleInterrupts(i)
  BY DEF VisitCore, BeginSlice
<1>3. Tended(i) /\ Idle(i)
  BY <1>1, <1>2, WatchedFacts DEF IsRunning
<1>4. Full(i) /\ ~InterruptActive(i)
  BY <1>1, <1>3, IdleIsFull
<1>5. /\ irq \in [Cores -> BOOLEAN] /\ handed \in [Cores -> Nat]
      /\ active_intr \in [Cores -> 0 .. 15 \cup {NoIntr}]
  BY WatchedFacts DEF GicTypeOK
<1>6. CASE UNCHANGED gicVars
  <2>1. UNCHANGED <<irq, active_intr, handed>>
    BY <1>6 DEF gicVars
  <2>2. Tended(c)' /\ (Idle(c) => Idle(c)')
    BY <1>2, <2>1, UndisturbedTended
  <2>3. ~IsRunning(c)' => Idle(c)
    BY <1>2, WatchedFacts DEF IsRunning
  <2>4. QED
    BY <2>2, <2>3
<1>7. CASE ~NothingToSend(i) /\ PushNextInterrupt(i) /\ RaiseIrq(i)
  <2>1. Settled(i)' /\ InterruptActive(i)'
    BY <1>1, <1>2, <1>4, <1>7, PushSettles, WatchedFacts DEF NothingToSend
  <2>2. irq'[i] /\ \A d \in Cores \ {i} : irq'[d] = irq[d]
    BY <1>1, <1>5, <1>7, Zenon DEF RaiseIrq
  <2>3. CASE c = i
    <3>1. Tended(i)'
      BY <1>2, <1>3, <2>1, <2>2 DEF Tended, Idle
    <3>2. IsRunning(i)'
      BY <1>2 DEF IsRunning
    <3>3. QED
      BY <1>2, <2>3, <3>1, <3>2
  <2>4. CASE c # i
    <3>1. active_intr'[c] = active_intr[c] /\ handed'[c] = handed[c]
      BY <1>5, <1>7, <2>4 DEF PushNextInterrupt, SetActiveInterrupt
    <3>2. handler'[c] = handler[c] /\ irq'[c] = irq[c] /\ acked'[c] = acked[c]
      BY <1>2, <2>2, <2>4
    <3>3. c \in Cores \ {i} /\ i' = i
      BY <1>2, <2>4
    <3>4. QED
      BY <3>1, <3>2, <3>3, OthersTended
  <2>5. QED
    BY <2>3, <2>4
<1>8. QED
  BY <1>2, <1>6, <1>7 DEF HandleInterrupts

\* The end of a slice: an attentive core is not in its handler.
LEMMA LeaveTended ==
  ASSUME Watched, LeaveCore, ~uc_quit', NEW c \in Cores
  PROVE  Tended(c)' /\ (~IsRunning(c)' => Idle(c)')
<1>1. UNCHANGED <<irq, active_intr, acked, handed, handler>>
  BY DEF LeaveCore, gicVars
<1>2. Tended(c)' /\ (Idle(c) => Idle(c)')
  BY <1>1, UndisturbedTended
<1>3. Idle(c)
  <2>1. CASE c = i
    BY <2>1, WatchedFacts DEF Watched, LeaveCore, InHandler, Idle
  <2>2. CASE c # i
    BY <2>2, WatchedFacts DEF IsRunning
  <2>3. QED
    BY <2>1, <2>2
<1>4. QED
  BY <1>2, <1>3

\* Between slices nothing happens to any core.
LEMMA LoopTended ==
  ASSUME Watched, LoopStep, NEW c \in Cores
  PROVE  Tended(c)' /\ (~IsRunning(c)' => Idle(c)')
<1>1. UNCHANGED <<irq, active_intr, acked, handed, handler>>
  BY DEF LoopStep, gicVars
<1>2. Tended(c)' /\ (Idle(c) => Idle(c)')
  BY <1>1, UndisturbedTended
<1>3. Idle(c)
  BY WatchedFacts DEF LoopStep, WhileTest, EndPass, IsRunning
<1>4. QED
  BY <1>2, <1>3

\* What every step of the guest leaves alone.
LEMMA GuestKeepsPlace ==
  ASSUME SchedInv, GuestStep
  PROVE  phase = "slice" /\ i' = i /\ resume'[i] = resume[i]
<1>1. phase = "slice" /\ i' = i
  BY DEF GuestStep, PlainInsn, CpuOn, RequestQuit, HangInGetConfig, Executes
<1>2. i \in Cores /\ resume \in [Cores -> Entries \cup {Reset, Running}]
  BY <1>1 DEF SchedInv, SchedTypeOK
<1>3. ASSUME NEW c \in Cores, NEW e \in Entries, CpuOn(c, e)
      PROVE  resume'[i] = resume[i]
  BY <1>2, <1>3 DEF CpuOn
<1>4. resume'[i] = resume[i]
  BY <1>3 DEF GuestStep, PlainInsn, RequestQuit, HangInGetConfig
<1>5. QED
  BY <1>1, <1>4

\* An attentive core sends, and runs other code, with no IRQ pending.
LEMMA ThreadTended ==
  ASSUME Watched, OtherInsn \/ \E w \in SgirWords : SendSgi(w),
         phase' # "hung", NEW c \in Cores
  PROVE  Tended(c)' /\ (~IsRunning(c)' => Idle(c)')
<1>1. GuestStep
  BY DEF OtherInsn, SendSgi, GuestStep
<1>2. phase = "slice" /\ i' = i /\ resume'[i] = resume[i]
  BY <1>1, GuestKeepsPlace, WatchedFacts DEF EmuInv
<1>3. phase' = "slice"
  BY <1>1, <1>2 DEF GuestStep, PlainInsn, CpuOn, RequestQuit, HangInGetConfig
<1>4. UNCHANGED <<irq, active_intr, acked, handed>>
  BY DEF OtherInsn, SendSgi, WriteSgir, gicVars
<1>5. c # i => Idle(c)
  BY WatchedFacts DEF IsRunning
<1>6. handler'[c] = handler[c]
  <2>1. CASE OtherInsn
    BY <1>2, <1>5, <2>1 DEF OtherInsn, Idle
  <2>2. CASE \E w \in SgirWords : SendSgi(w)
    BY <2>2 DEF SendSgi
  <2>3. QED
    BY <2>1, <2>2
<1>7. Tended(c)' /\ (Idle(c) => Idle(c)')
  BY <1>4, <1>6, UndisturbedTended
<1>8. c = i => IsRunning(c)'
  BY <1>2, <1>3 DEF IsRunning
<1>9. QED
  BY <1>5, <1>7, <1>8

\* The handler: the acknowledgement of what GICC_IAR shows settles the core, and
\* the end of the interrupt shows the next one.
LEMMA HandlerTended ==
  ASSUME Watched, EnterHandler \/ ReadIar \/ EndInterrupt, NEW c \in Cores
  PROVE  Tended(c)' /\ (~IsRunning(c)' => Idle(c)')
<1>1. PlainInsn
  BY DEF EnterHandler, ReadIar, EndInterrupt
<1>2. phase = "slice" /\ phase' = "slice" /\ i' = i
  BY <1>1 DEF PlainInsn, Executes
<1>3. i \in Cores /\ Tended(i)
  BY <1>2, WatchedFacts, RunningIsCore DEF EmuInv
<1>4. /\ irq \in [Cores -> BOOLEAN] /\ handed \in [Cores -> Nat]
      /\ active_intr \in [Cores -> 0 .. 15 \cup {NoIntr}]
      /\ handler \in [Cores -> HandlerStates]
      /\ acked \in [Cores -> Seq(Nat)]
  BY WatchedFacts DEF GicTypeOK, GuestTypeOK
<1>5. CASE c # i
  <2>1. handler'[c] = handler[c]
    BY <1>4, <1>5 DEF EnterHandler, ReadIar, EndInterrupt
  <2>2. irq'[c] = irq[c]
    BY <1>4, <1>5, Zenon DEF EnterHandler, ReadIar, EndInterrupt, TakeIrq, WriteEoir,
                              gicVars
  <2>3. acked'[c] = acked[c]
    BY <1>4, <1>5 DEF EnterHandler, ReadIar, EndInterrupt
  <2>4. active_intr'[c] = active_intr[c] /\ handed'[c] = handed[c]
    BY <1>4, <1>5 DEF EnterHandler, ReadIar, EndInterrupt, TakeIrq, WriteEoir, gicVars,
                      PushNextInterrupt, SetActiveInterrupt
  <2>5. QED
    BY <1>2, <1>5, <2>1, <2>2, <2>3, <2>4, OthersTended
<1>6. ASSUME Tended(i)' PROVE c = i => Tended(c)' /\ (~IsRunning(c)' => Idle(c)')
  BY <1>2, <1>6 DEF IsRunning
<1>7. CASE EnterHandler
  <2>1. handler[i] = "thread" /\ handler'[i] = "ack"
    BY <1>3, <1>4, <1>7 DEF EnterHandler
  <2>2. ~irq'[i]
    BY <1>3, <1>4, <1>7, Zenon DEF EnterHandler, TakeIrq
  <2>3. UNCHANGED <<active_intr, handed, acked>>
    BY <1>7 DEF EnterHandler, TakeIrq
  <2>4. Settled(i)'
    BY <1>2, <1>3, <2>1, <2>3 DEF Tended, Settled, Full, InterruptActive
  <2>5. Tended(i)'
    BY <1>2, <2>1, <2>2, <2>4 DEF Tended
  <2>6. QED
    BY <1>5, <1>6, <2>5
<1>8. CASE ReadIar
  <2>1. handler[i] = "ack" /\ UNCHANGED <<irq, active_intr, handed>>
    BY <1>8 DEF ReadIar, gicVars
  <2>2. ~irq[i] /\ Settled(i)
    BY <1>3, <2>1 DEF Tended
  <2>3. CASE InterruptActive(i)
    <3>1. handler'[i] = "eoi" /\ acked'[i] = Append(acked[i], handed[i])
      BY <1>3, <1>4, <1>8, <2>3 DEF ReadIar
    <3>2. handed[i] # 0
      BY <1>3, <2>3, WatchedFacts DEF ActiveIsHanded, InterruptActive
    <3>3. acked'[i] = UpTo(handed[i])
      BY <1>3, <1>4, <2>2, <2>3, <3>1, <3>2, AppendNext DEF Settled
    <3>4. Tended(i)'
      BY <1>2, <2>1, <2>2, <3>1, <3>3 DEF Tended, Full
    <3>5. QED
      BY <1>5, <1>6, <3>4
  <2>4. CASE ~InterruptActive(i)
    <3>1. handler'[i] = "thread" /\ acked' = acked
      BY <1>3, <1>4, <1>8, <2>4 DEF ReadIar
    <3>2. Settled(i)' /\ ~InterruptActive(i)'
      BY <2>1, <2>2, <2>4, <3>1, <1>2 DEF Settled, Full, InterruptActive
    <3>3. Tended(i)'
      BY <1>2, <2>1, <2>2, <3>1, <3>2 DEF Tended
    <3>4. QED
      BY <1>5, <1>6, <3>3
  <2>5. QED
    BY <2>3, <2>4
<1>9. CASE EndInterrupt
  <2>1. handler[i] = "eoi" /\ acked' = acked /\ irq' = irq /\ PushNextInterrupt(i)
    BY <1>9 DEF EndInterrupt, WriteEoir
  <2>2. handler'[i] = "ack"
    BY <1>3, <1>4, <1>9 DEF EndInterrupt, Watched
  <2>3. ~irq[i] /\ Full(i)
    BY <1>3, <2>1 DEF Tended
  <2>4. Settled(i)'
    <3>1. GicTypeOK
      BY WatchedFacts
    <3>2. PICK core \in Cores : core = i
      BY <1>3
    <3>3. Settled(core)'
      BY <2>1, <2>3, <3>1, <3>2, PushSettles
    <3>4. QED
      BY <1>2, <3>2, <3>3 DEF Settled, Full, InterruptActive
  <2>5. Tended(i)'
    BY <1>2, <2>1, <2>2, <2>3, <2>4 DEF Tended
  <2>6. QED
    BY <1>5, <1>6, <2>5
<1>10. QED
  BY <1>7, <1>8, <1>9

\* The first state: nothing has been sent.
LEMMA AttentiveInit == EmuInit => AttentiveInv
<1> SUFFICES ASSUME EmuInit PROVE AttentiveInv
  OBVIOUS
<1>1. EmuInv
  BY EmuInitInv
<1>2. ASSUME NEW c \in Cores PROVE Tended(c) /\ Idle(c)
  <2>1. /\ handler[c] = "thread" /\ ~irq[c] /\ ~InterruptActive(c)
        /\ handed[c] = 0 /\ acked[c] = <<>>
    BY <1>2 DEF EmuInit, GicInit, InterruptActive
  <2>2. UpTo(0) = <<>>
    BY DEF UpTo
  <2>3. QED
    BY <2>1, <2>2 DEF Tended, Idle, Settled, Full
<1>3. QED
  BY <1>1, <1>2 DEF AttentiveInv, AllTended

\* One step per action.
LEMMA AttentiveNext == AttentiveInv /\ [EmuNext]_emuVars => AttentiveInv'
<1> SUFFICES ASSUME AttentiveInv, [EmuNext]_emuVars PROVE AttentiveInv'
  OBVIOUS
<1>1. EmuInv'
  BY EmuNextInv DEF AttentiveInv
<1>2. ASSUME Attentive, ~uc_quit', phase' # "hung", NEW c \in Cores
      PROVE  Tended(c)' /\ (~IsRunning(c)' => Idle(c)')
  <2>1. Watched
    BY <1>2, StoppedStays DEF Watched, AttentiveInv, EmuInv, SchedInv, SchedTypeOK
  <2>2. CASE UNCHANGED emuVars
    <3>1. /\ UNCHANGED <<irq, active_intr, acked, handed, handler, phase, i>>
      BY <2>2 DEF emuVars, gicVars, schedVars
    <3>2. Tended(c)' /\ (Idle(c) => Idle(c)')
      BY <2>1, <3>1, UndisturbedTended
    <3>3. QED
      BY <2>1, <3>1, <3>2, WatchedFacts DEF IsRunning
  <2>3. CASE EmuNext
    BY <1>2, <2>1, <2>3, VisitTended, LeaveTended, LoopTended, ThreadTended, HandlerTended
       DEF EmuNext
  <2>4. QED
    BY <2>2, <2>3
<1>3. AllTended'
  BY <1>2 DEF AllTended
<1>4. QED
  BY <1>1, <1>3 DEF AttentiveInv

\* A guest that takes its IRQs at once and acknowledges until GICC_IAR shows
\* nothing loses no SGI, although neither GICC_EOIR nor the scheduler ever asks
\* whether what they replace has been read.
THEOREM AttentiveMissNothing == EmuSpec => [](Attentive => NothingMissed)
<1>1. AttentiveInv => (Attentive => NothingMissed)
  <2>1. SUFFICES ASSUME AttentiveInv, Attentive, NEW c \in Cores,
                        phase # "hung", ~uc_quit, ~(phase = "slice" /\ i = c)
                 PROVE  acked[c] = [k \in 1 .. handed[c] |-> k]
    BY DEF NothingMissed
  <2>2. Tended(c) /\ Idle(c)
    BY <2>1 DEF AttentiveInv, AllTended, IsRunning
  <2>3. Full(c)
    BY <2>2, IdleIsFull
  <2>4. QED
    BY <2>3 DEF Full, UpTo
<1>2. QED
  BY AttentiveInit, AttentiveNext, <1>1, PTL DEF EmuSpec
=============================================================================
