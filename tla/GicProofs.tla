------------------------------ MODULE GicProofs ------------------------------
(***************************************************************************)
(* Proofs about module Gic, for any number of cores, any set of GICD_SGIR  *)
(* words and any bound: its safety invariants, and that it implements      *)
(* SgiMailbox.                                                             *)
(***************************************************************************)
EXTENDS Gic, SequenceTheorems, TLAPS

\* The inductive invariant: the properties, each with what makes it inductive.
GicInv ==
  /\ GicTypeOK
  /\ QueueIsUnsentTail
  /\ ActiveIsHanded
  /\ IrqBudget

-----------------------------------------------------------------------------
\* The record a write of GICD_SGIR queues is well formed.
LEMMA SgiIsInterrupt ==
  ASSUME NEW core \in Cores, NEW w \in SgirWords
  PROVE  SgiFrom(core, w) \in Interrupt
<1>1. w \in Nat
  BY GicAssumption
<1>2. IntidField(w) \in 0 .. 15
  BY <1>1 DEF IntidField
<1>3. QED
  BY <1>2 DEF SgiFrom, Interrupt

\* Core 0 exists, so 0 is a sender.
LEMMA ZeroIsCore == 0 \in Cores
BY NCoresAssumption DEF Cores

-----------------------------------------------------------------------------
\* The first state.
LEMMA InitInv == GicInit => GicInv
<1> SUFFICES ASSUME GicInit PROVE GicInv
  OBVIOUS
<1>1. GicTypeOK
  BY ZeroIsCore DEF GicInit, GicTypeOK, Interrupt
<1>2. QueueIsUnsentTail
  BY DEF GicInit, QueueIsUnsentTail, IsRest
<1>3. ActiveIsHanded
  BY DEF GicInit, ActiveIsHanded
<1>4. IrqBudget
  BY DEF GicInit, IrqBudget, IrqCredit, InterruptActive
<1>5. QED
  BY <1>1, <1>2, <1>3, <1>4 DEF GicInv


-----------------------------------------------------------------------------
\* A queue extended by one SGI, beside a history extended by the same SGI,
\* still is the tail of that history.
LEMMA AppendBoth ==
  ASSUME NEW q \in Seq(Interrupt), NEW l \in Seq(Interrupt), NEW h \in Nat,
         NEW m \in Interrupt,
         IsRest(q, l, h)
  PROVE  IsRest(Append(q, m), Append(l, m), h)
<1>1. /\ Len(q) \in Nat
      /\ Len(l) \in Nat
  BY LenProperties
<1>2. /\ Len(Append(q, m)) = Len(q) + 1
      /\ \A i \in 1 .. Len(q) : Append(q, m)[i] = q[i]
      /\ Append(q, m)[Len(q) + 1] = m
  BY AppendProperties
<1>3. /\ Len(Append(l, m)) = Len(l) + 1
      /\ \A i \in 1 .. Len(l) : Append(l, m)[i] = l[i]
      /\ Append(l, m)[Len(l) + 1] = m
  BY AppendProperties
<1>4. ASSUME NEW k \in 1 .. Len(q) + 1
      PROVE  Append(q, m)[k] = Append(l, m)[h + k]
  <2>1. CASE k = Len(q) + 1
    <3>1. h + k = Len(l) + 1
      BY <1>1, <2>1 DEF IsRest
    <3>2. QED
      BY <2>1, <3>1, <1>2, <1>3
  <2>2. CASE k \in 1 .. Len(q)
    <3>1. h + k \in 1 .. Len(l)
      BY <1>1, <2>2 DEF IsRest
    <3>2. QED
      BY <2>2, <3>1, <1>2, <1>3 DEF IsRest
  <2>3. k = Len(q) + 1 \/ k \in 1 .. Len(q)
    BY <1>1
  <2>4. QED
    BY <2>1, <2>2, <2>3
<1>5. QED
  BY <1>1, <1>2, <1>3, <1>4 DEF IsRest

\* GICD_SGIR preserves the invariant.
LEMMA WriteSgirInv ==
  ASSUME GicInv, NEW core \in Cores, NEW w \in SgirWords, WriteSgir(core, w)
  PROVE  GicInv'
<1> DEFINE to == Recipients(core, w)
           m == SgiFrom(core, w)
<1>1. m \in Interrupt
  BY SgiIsInterrupt
<1>2. /\ sgir_queue' = [c \in Cores |-> IF c \in to THEN Append(sgir_queue[c], m)
                                                   ELSE sgir_queue[c]]
      /\ log' = [c \in Cores |-> IF c \in to THEN Append(log[c], m) ELSE log[c]]
      /\ UNCHANGED <<active_intr, active_intr_cpu, irq, handed, raised>>
  BY DEF WriteSgir
<1> HIDE DEF to, m
<1>3. GicTypeOK
  BY DEF GicInv
<1>4. ASSUME NEW c \in Cores
      PROVE  /\ sgir_queue[c] \in Seq(Interrupt)
             /\ log[c] \in Seq(Interrupt)
             /\ handed[c] \in Nat
             /\ raised[c] \in Nat
             /\ Len(sgir_queue[c]) \in Nat
             /\ Len(log[c]) \in Nat
             /\ handed'[c] = handed[c]
             /\ raised'[c] = raised[c]
             /\ active_intr'[c] = active_intr[c]
             /\ active_intr_cpu'[c] = active_intr_cpu[c]
  <2>1. sgir_queue[c] \in Seq(Interrupt) /\ log[c] \in Seq(Interrupt)
    BY <1>3 DEF GicTypeOK
  <2>2. QED
    BY <1>2, <1>3, <2>1, LenProperties DEF GicTypeOK
<1>5. ASSUME NEW c \in Cores, c \in to
      PROVE  /\ sgir_queue'[c] = Append(sgir_queue[c], m)
             /\ log'[c] = Append(log[c], m)
             /\ sgir_queue'[c] \in Seq(Interrupt)
             /\ log'[c] \in Seq(Interrupt)
             /\ Len(sgir_queue'[c]) = Len(sgir_queue[c]) + 1
             /\ Len(log'[c]) = Len(log[c]) + 1
             /\ \A i \in 1 .. Len(log[c]) : log'[c][i] = log[c][i]
  <2>1. sgir_queue'[c] = Append(sgir_queue[c], m) /\ log'[c] = Append(log[c], m)
    BY <1>2, <1>5
  <2>2. QED
    BY <1>1, <1>4, <2>1, AppendProperties
<1>6. ASSUME NEW c \in Cores, c \notin to
      PROVE  sgir_queue'[c] = sgir_queue[c] /\ log'[c] = log[c]
  BY <1>2, <1>6
<1>7. GicTypeOK'
  <2>1. sgir_queue' \in [Cores -> Seq(Interrupt)] /\ log' \in [Cores -> Seq(Interrupt)]
    BY <1>2, <1>4, <1>5, <1>6
  <2>2. QED
    BY <1>2, <1>3, <2>1 DEF GicTypeOK
<1>8. QueueIsUnsentTail'
  <2>1. SUFFICES ASSUME NEW c \in Cores
                 PROVE  IsRest(sgir_queue'[c], log'[c], handed[c])
    BY <1>4 DEF QueueIsUnsentTail
  <2>2. IsRest(sgir_queue[c], log[c], handed[c])
    BY DEF GicInv, QueueIsUnsentTail
  <2>3. CASE c \in to
    BY <2>2, <2>3, <1>1, <1>4, <1>5, AppendBoth
  <2>4. CASE c \notin to
    BY <2>2, <2>4, <1>6
  <2>5. QED
    BY <2>3, <2>4
<1>9. ActiveIsHanded'
  <2>1. SUFFICES ASSUME NEW c \in Cores
                 PROVE  \/ active_intr[c] = NoIntr /\ active_intr_cpu[c] = 0
                        \/ /\ handed[c] \in 1 .. Len(log'[c])
                           /\ active_intr[c] = log'[c][handed[c]].intid
                           /\ active_intr_cpu[c] = log'[c][handed[c]].sender
    BY <1>4 DEF ActiveIsHanded
  <2>2. \/ active_intr[c] = NoIntr /\ active_intr_cpu[c] = 0
        \/ /\ handed[c] \in 1 .. Len(log[c])
           /\ active_intr[c] = log[c][handed[c]].intid
           /\ active_intr_cpu[c] = log[c][handed[c]].sender
    BY DEF GicInv, ActiveIsHanded
  <2>3. CASE c \in to
    BY <2>2, <2>3, <1>4, <1>5
  <2>4. CASE c \notin to
    BY <2>2, <2>4, <1>6
  <2>5. QED
    BY <2>3, <2>4
<1>10. IrqBudget'
  <2> DEFINE showing(c) == IF active_intr[c] # NoIntr THEN 1 ELSE 0
  <2>1. SUFFICES ASSUME NEW c \in Cores
                 PROVE  raised[c] + (2 * Len(sgir_queue'[c]) + showing(c))
                          <= 2 * Len(log'[c])
    BY <1>4 DEF IrqBudget, IrqCredit, InterruptActive
  <2>2. raised[c] + (2 * Len(sgir_queue[c]) + showing(c)) <= 2 * Len(log[c])
    BY DEF GicInv, IrqBudget, IrqCredit, InterruptActive
  <2>3. CASE c \in to
    <3>1. /\ Len(sgir_queue'[c]) = Len(sgir_queue[c]) + 1
          /\ Len(log'[c]) = Len(log[c]) + 1
      BY <2>3, <1>5
    <3>2. /\ Len(sgir_queue[c]) \in Nat
          /\ Len(log[c]) \in Nat
          /\ raised[c] \in Nat
          /\ showing(c) \in Nat
      BY <1>4
    <3> HIDE DEF showing
    <3>3. QED
      BY <2>2, <3>1, <3>2
  <2>4. CASE c \notin to
    BY <2>2, <2>4, <1>6
  <2>5. QED
    BY <2>3, <2>4
<1>11. QED
  BY <1>7, <1>8, <1>9, <1>10 DEF GicInv

\* Moving the head of a core's queue into its GICC_IAR slot preserves what the
\* invariant says about queues and slots, and costs IRQ credit when there was
\* anything to send.
LEMMA PushNextInv ==
  ASSUME GicInv, NEW core \in Cores, PushNextInterrupt(core), UNCHANGED log
  PROVE  /\ sgir_queue' \in [Cores -> Seq(Interrupt)]
         /\ active_intr' \in [Cores -> 0 .. 15 \cup {NoIntr}]
         /\ active_intr_cpu' \in [Cores -> Cores]
         /\ handed' \in [Cores -> Nat]
         /\ QueueIsUnsentTail'
         /\ ActiveIsHanded'
         /\ \A c \in Cores : IrqCredit(c)' \in Nat /\ IrqCredit(c)' <= IrqCredit(c)
         /\ ~NothingToSend(core) => IrqCredit(core)' < IrqCredit(core)
<1> USE DEF GicInv, GicTypeOK
<1>1. /\ sgir_queue[core] \in Seq(Interrupt)
      /\ log[core] \in Seq(Interrupt)
      /\ handed[core] \in Nat
      /\ IsRest(sgir_queue[core], log[core], handed[core])
  BY DEF QueueIsUnsentTail
<1>2. Len(sgir_queue[core]) \in Nat /\ Len(log[core]) \in Nat
  BY <1>1, LenProperties
<1>3. CASE /\ sgir_queue[core] = <<>>
           /\ SetActiveInterrupt(NoIntr, 0, core)
           /\ UNCHANGED <<sgir_queue, handed>>
  <2>1. /\ active_intr' = [active_intr EXCEPT ![core] = NoIntr]
        /\ active_intr_cpu' = [active_intr_cpu EXCEPT ![core] = 0]
    BY <1>3 DEF SetActiveInterrupt
  <2>2. /\ active_intr' \in [Cores -> 0 .. 15 \cup {NoIntr}]
        /\ active_intr_cpu' \in [Cores -> Cores]
    BY <2>1, ZeroIsCore
  <2>3. QueueIsUnsentTail'
    BY <1>3 DEF QueueIsUnsentTail
  <2>4. ActiveIsHanded'
    BY <1>3, <2>1 DEF ActiveIsHanded
  <2>5. ASSUME NEW c \in Cores
        PROVE  IrqCredit(c)' \in Nat /\ IrqCredit(c)' <= IrqCredit(c)
    <3>1. sgir_queue[c] \in Seq(Interrupt)
      OBVIOUS
    <3>2. Len(sgir_queue[c]) \in Nat
      BY <3>1, LenProperties
    <3>3. QED
      BY <1>3, <2>1, <3>2 DEF IrqCredit, InterruptActive
  <2>6. ASSUME ~NothingToSend(core)
        PROVE  IrqCredit(core)' < IrqCredit(core)
    BY <1>3, <2>1, <2>6, <1>2 DEF IrqCredit, InterruptActive, NothingToSend
  <2>7. QED
    BY <1>3, <2>2, <2>3, <2>4, <2>5, <2>6
<1>4. CASE /\ sgir_queue[core] # <<>>
           /\ SetActiveInterrupt(Head(sgir_queue[core]).intid,
                                 Head(sgir_queue[core]).sender, core)
           /\ sgir_queue' = [sgir_queue EXCEPT ![core] = Tail(@)]
           /\ handed' = [handed EXCEPT ![core] = @ + 1]
  <2> DEFINE q == sgir_queue[core]
             l == log[core]
             h == handed[core]
  <2>1. /\ Head(q) \in Interrupt
        /\ Tail(q) \in Seq(Interrupt)
        /\ Len(Tail(q)) = Len(q) - 1
        /\ \A i \in 1 .. Len(Tail(q)) : Tail(q)[i] = q[i + 1]
    BY <1>1, <1>4, HeadTailProperties
  <2>2. Len(q) \in Nat \ {0} /\ Head(q) = q[1]
    BY <1>1, <1>4, EmptySeq
  <2>3. /\ active_intr' = [active_intr EXCEPT ![core] = Head(q).intid]
        /\ active_intr_cpu' = [active_intr_cpu EXCEPT ![core] = Head(q).sender]
        /\ sgir_queue' = [sgir_queue EXCEPT ![core] = Tail(q)]
        /\ handed' = [handed EXCEPT ![core] = h + 1]
    BY <1>4 DEF SetActiveInterrupt
  <2>4. Head(q).intid \in 0 .. 15 /\ Head(q).sender \in Cores
    BY <2>1 DEF Interrupt
  <2>5. /\ sgir_queue' \in [Cores -> Seq(Interrupt)]
        /\ active_intr' \in [Cores -> 0 .. 15 \cup {NoIntr}]
        /\ active_intr_cpu' \in [Cores -> Cores]
        /\ handed' \in [Cores -> Nat]
    BY <1>1, <2>1, <2>3, <2>4
  <2>6. h + 1 \in 1 .. Len(l) /\ Head(q) = l[h + 1]
    <3>1. h + Len(q) = Len(l) /\ \A k \in 1 .. Len(q) : q[k] = l[h + k]
      BY <1>1 DEF IsRest
    <3>2. 1 \in 1 .. Len(q)
      BY <2>2
    <3>3. q[1] = l[h + 1]
      BY <3>1, <3>2
    <3>4. h \in Nat /\ Len(l) \in Nat
      BY <1>1, <1>2
    <3> HIDE DEF q, l, h
    <3>5. h + 1 \in 1 .. Len(l)
      BY <2>2, <3>1, <3>4
    <3>6. QED
      BY <2>2, <3>3, <3>5
  <2>7. IsRest(Tail(q), l, h + 1)
    <3>1. h + 1 + Len(Tail(q)) = Len(l)
      BY <1>1, <1>2, <2>1, <2>2 DEF IsRest
    <3>2. ASSUME NEW i \in 1 .. Len(Tail(q))
          PROVE  Tail(q)[i] = l[h + 1 + i]
      <4>1. i + 1 \in 1 .. Len(q) /\ h + (i + 1) = h + 1 + i
        BY <1>1, <2>1, <2>2
      <4>2. QED
        BY <1>1, <2>1, <4>1 DEF IsRest
    <3>3. QED
      BY <3>1, <3>2 DEF IsRest
  <2> HIDE DEF q, l, h
  <2>8. QueueIsUnsentTail'
    <3>1. SUFFICES ASSUME NEW c \in Cores
                   PROVE  IsRest(sgir_queue'[c], log[c], handed'[c])
      BY DEF QueueIsUnsentTail
    <3>2. CASE c = core
      BY <2>3, <2>7, <3>2 DEF l
    <3>3. CASE c # core
      BY <2>3, <3>3 DEF QueueIsUnsentTail
    <3>4. QED
      BY <3>2, <3>3
  <2>9. ActiveIsHanded'
    <3>1. SUFFICES ASSUME NEW c \in Cores
                   PROVE  \/ active_intr'[c] = NoIntr /\ active_intr_cpu'[c] = 0
                          \/ /\ handed'[c] \in 1 .. Len(log[c])
                             /\ active_intr'[c] = log[c][handed'[c]].intid
                             /\ active_intr_cpu'[c] = log[c][handed'[c]].sender
      BY DEF ActiveIsHanded
    <3>2. CASE c = core
      BY <2>3, <2>6, <3>2 DEF l
    <3>3. CASE c # core
      BY <2>3, <3>3 DEF ActiveIsHanded
    <3>4. QED
      BY <3>2, <3>3
  <2>10. ASSUME NEW c \in Cores
         PROVE  IrqCredit(c)' \in Nat /\ IrqCredit(c)' <= IrqCredit(c)
    <3>1. CASE c = core
      BY <2>1, <2>2, <2>3, <3>1 DEF IrqCredit, InterruptActive, q
    <3>2. CASE c # core
      <4>1. sgir_queue[c] \in Seq(Interrupt)
        OBVIOUS
      <4>2. Len(sgir_queue[c]) \in Nat
        BY <4>1, LenProperties
      <4>3. QED
        BY <2>3, <3>2, <4>2 DEF IrqCredit, InterruptActive
    <3>3. QED
      BY <3>1, <3>2
  <2>11. IrqCredit(core)' < IrqCredit(core)
    BY <2>1, <2>2, <2>3 DEF IrqCredit, InterruptActive, q
  <2>12. QED
    BY <2>5, <2>8, <2>9, <2>10, <2>11
<1>5. QED
  BY <1>3, <1>4 DEF PushNextInterrupt

\* The ranges of the terms of IrqBudget.
LEMMA CreditType ==
  ASSUME GicInv, NEW c \in Cores
  PROVE  IrqCredit(c) \in Nat /\ raised[c] \in Nat /\ Len(log[c]) \in Nat
<1>1. /\ sgir_queue[c] \in Seq(Interrupt)
      /\ log[c] \in Seq(Interrupt)
      /\ raised[c] \in Nat
  BY DEF GicInv, GicTypeOK
<1>2. Len(sgir_queue[c]) \in Nat /\ Len(log[c]) \in Nat
  BY <1>1, LenProperties
<1>3. (IF InterruptActive(c) THEN 1 ELSE 0) \in Nat
  BY DEF InterruptActive
<1>4. IrqCredit(c) \in Nat
  <2> DEFINE n == Len(sgir_queue[c])
             b == IF InterruptActive(c) THEN 1 ELSE 0
  <2>1. n \in Nat /\ b \in Nat
    BY <1>2, <1>3
  <2>2. IrqCredit(c) = 2 * n + b
    BY DEF IrqCredit
  <2> HIDE DEF n, b
  <2>3. QED
    BY <2>1, <2>2
<1>5. QED
  BY <1>1, <1>2, <1>4

\* A step that changes nothing preserves the invariant.
LEMMA StutterInv ==
  ASSUME GicInv, UNCHANGED gicVars
  PROVE  GicInv'
BY DEF gicVars, GicInv, GicTypeOK, QueueIsUnsentTail, ActiveIsHanded,
       IrqBudget, IrqCredit, InterruptActive

\* GICC_EOIR preserves the invariant.
LEMMA WriteEoirInv ==
  ASSUME GicInv, NEW core \in Cores, WriteEoir(core)
  PROVE  GicInv'
<1>1. PushNextInterrupt(core) /\ UNCHANGED log /\ UNCHANGED <<irq, raised>>
  BY DEF WriteEoir
<1>2. GicTypeOK'
  BY <1>1, PushNextInv DEF GicInv, GicTypeOK
<1>3. IrqBudget'
  <2>1. SUFFICES ASSUME NEW c \in Cores
                 PROVE  raised[c] + IrqCredit(c)' <= 2 * Len(log[c])
    BY <1>1 DEF IrqBudget
  <2>2. IrqCredit(c)' \in Nat /\ IrqCredit(c)' <= IrqCredit(c)
    BY <1>1, PushNextInv
  <2>3. raised[c] + IrqCredit(c) <= 2 * Len(log[c])
    BY DEF GicInv, IrqBudget
  <2>4. QED
    BY <2>2, <2>3, CreditType
<1>4. QED
  BY <1>1, <1>2, <1>3, PushNextInv DEF GicInv

\* The core taking its IRQ touches nothing the invariant speaks of but the line.
LEMMA TakeIrqInv ==
  ASSUME GicInv, NEW core \in Cores, TakeIrq(core)
  PROVE  GicInv'
<1>1. /\ irq' = [irq EXCEPT ![core] = FALSE]
      /\ UNCHANGED <<sgir_queue, active_intr, active_intr_cpu, log, handed, raised>>
  BY DEF TakeIrq
<1>2. GicTypeOK'
  BY <1>1 DEF GicInv, GicTypeOK
<1>3. QueueIsUnsentTail' /\ ActiveIsHanded'
  BY <1>1 DEF GicInv, QueueIsUnsentTail, ActiveIsHanded
<1>4. IrqBudget'
  BY <1>1 DEF GicInv, IrqBudget, IrqCredit, InterruptActive
<1>5. QED
  BY <1>2, <1>3, <1>4 DEF GicInv

\* The scheduler's visit preserves the invariant: the IRQ it raises is paid for
\* by the credit the move of the queue costs.
LEMMA HandleInterruptsInv ==
  ASSUME GicInv, NEW core \in Cores, HandleInterrupts(core)
  PROVE  GicInv'
<1>1. CASE NothingToSend(core) /\ UNCHANGED gicVars
  BY <1>1, StutterInv
<1>2. CASE /\ ~NothingToSend(core)
           /\ PushNextInterrupt(core)
           /\ RaiseIrq(core)
           /\ UNCHANGED log
  <2>1. /\ irq' = [irq EXCEPT ![core] = TRUE]
        /\ raised' = [raised EXCEPT ![core] = @ + 1]
    BY <1>2 DEF RaiseIrq
  <2>2. GicTypeOK'
    BY <1>2, <2>1, PushNextInv DEF GicInv, GicTypeOK
  <2>3. IrqBudget'
    <3>1. SUFFICES ASSUME NEW c \in Cores
                   PROVE  raised'[c] + IrqCredit(c)' <= 2 * Len(log[c])
      BY <1>2 DEF IrqBudget
    <3>2. raised[c] + IrqCredit(c) <= 2 * Len(log[c])
      BY DEF GicInv, IrqBudget
    <3>3. IrqCredit(c)' \in Nat /\ IrqCredit(c)' <= IrqCredit(c)
      BY <1>2, PushNextInv
    <3>4. CASE c = core
      <4>1. IrqCredit(c)' < IrqCredit(c)
        BY <1>2, <3>4, PushNextInv
      <4>2. raised'[c] = raised[c] + 1
        BY <2>1, <3>4 DEF GicInv, GicTypeOK
      <4>3. QED
        BY <3>2, <3>3, <4>1, <4>2, CreditType
    <3>5. CASE c # core
      <4>1. raised'[c] = raised[c]
        BY <2>1, <3>5 DEF GicInv, GicTypeOK
      <4>2. QED
        BY <3>2, <3>3, <4>1, CreditType
    <3>6. QED
      BY <3>4, <3>5
  <2>4. QED
    BY <1>2, <2>2, <2>3, PushNextInv DEF GicInv
<1>3. QED
  BY <1>1, <1>2 DEF HandleInterrupts

\* One step per action.
LEMMA NextInv == GicInv /\ [GicNext]_gicVars => GicInv'
<1> SUFFICES ASSUME GicInv, [GicNext]_gicVars PROVE GicInv'
  OBVIOUS
<1>1. ASSUME NEW core \in Cores, NEW w \in SgirWords, WriteSgir(core, w)
      PROVE  GicInv'
  BY <1>1, WriteSgirInv
<1>2. ASSUME NEW core \in Cores, WriteEoir(core)
      PROVE  GicInv'
  BY <1>2, WriteEoirInv
<1>3. ASSUME NEW core \in Cores, TakeIrq(core)
      PROVE  GicInv'
  BY <1>3, TakeIrqInv
<1>4. ASSUME NEW core \in Cores, HandleInterrupts(core)
      PROVE  GicInv'
  BY <1>4, HandleInterruptsInv
<1>5. CASE UNCHANGED gicVars
  BY <1>5, StutterInv
<1>6. QED
  BY <1>1, <1>2, <1>3, <1>4, <1>5 DEF GicNext

\* GicInv holds throughout.
LEMMA Invariance == GicSafety => []GicInv
BY InitInv, NextInv, PTL DEF GicSafety

-----------------------------------------------------------------------------
\* Every variable keeps its type: in particular no queue ever holds anything but
\* an SGI of an existing sender, and GICC_IAR always shows an SGI or 0x3FF.
THEOREM TypeCorrect == GicSafety => []GicTypeOK
BY Invariance, PTL DEF GicInv

\* No SGI is lost, doubled or overtaken in a queue of the distributor, for any
\* number of cores and any order of GICD_SGIR writes, GICC_EOIR writes and
\* scheduler visits.
THEOREM QueueExact == GicSafety => []QueueIsUnsentTail
BY Invariance, PTL DEF GicInv

\* The word GICC_IAR returns always names the SGI handed out last and the core
\* that sent it, or nothing: the two fields do not overlap and never come from
\* different SGIs.
THEOREM IarExact == GicSafety => []IarNamesLastHanded
<1>1. GicInv => IarNamesLastHanded
  <2>1. SUFFICES ASSUME GicInv, NEW c \in Cores
                 PROVE  \/ IarValue(c) = NoIntr
                        \/ /\ handed[c] \in 1 .. Len(log[c])
                           /\ IarValue(c) % 1024 = log[c][handed[c]].intid
                           /\ IarValue(c) \div 1024 = log[c][handed[c]].sender
    BY DEF IarNamesLastHanded
  <2>2. CASE active_intr[c] = NoIntr /\ active_intr_cpu[c] = 0
    BY <2>2 DEF IarValue, NoIntr
  <2>3. CASE /\ handed[c] \in 1 .. Len(log[c])
             /\ active_intr[c] = log[c][handed[c]].intid
             /\ active_intr_cpu[c] = log[c][handed[c]].sender
    <3>1. log[c] \in Seq(Interrupt)
      BY <2>1 DEF GicInv, GicTypeOK
    <3>2. log[c][handed[c]] \in Interrupt
      BY <2>3, <3>1, ElementOfSeq
    <3>3. active_intr[c] \in 0 .. 15 /\ active_intr_cpu[c] \in Nat
      BY <2>3, <3>2, NCoresAssumption DEF Interrupt, Cores
    <3>4. /\ IarValue(c) % 1024 = active_intr[c]
          /\ IarValue(c) \div 1024 = active_intr_cpu[c]
      BY <3>3 DEF IarValue
    <3>5. QED
      BY <2>3, <3>4
  <2>4. QED
    BY <2>1, <2>2, <2>3 DEF GicInv, ActiveIsHanded
<1>2. QED
  BY Invariance, <1>1, PTL

\* A core is interrupted at most twice for every SGI sent to it, although the
\* scheduler raises an IRQ again for an interrupt it finds still active.
THEOREM IrqBounded == GicSafety => []NoIrqStorm
<1>1. GicInv => NoIrqStorm
  <2>1. SUFFICES ASSUME GicInv, NEW c \in Cores
                 PROVE  raised[c] <= 2 * Len(log[c])
    BY DEF NoIrqStorm
  <2>2. raised[c] + IrqCredit(c) <= 2 * Len(log[c])
    BY <2>1 DEF GicInv, IrqBudget
  <2>3. QED
    BY <2>1, <2>2, CreditType
<1>2. QED
  BY Invariance, <1>1, PTL

-----------------------------------------------------------------------------
\* What the specification SgiMailbox sees of the slots.
ShownSlots == [c \in Cores |-> [intid  |-> active_intr[c],
                                sender |-> active_intr_cpu[c]]]

\* GICD_SGIR is a Post to the recipients.
LEMMA WriteSgirPosts ==
  ASSUME GicInv, NEW core \in Cores, NEW w \in SgirWords, WriteSgir(core, w)
  PROVE  Mailbox!Post(Recipients(core, w), SgiFrom(core, w))
BY DEF WriteSgir, Mailbox!Post

\* Moving the queue is a Show, or a Withdraw when the queue is empty: by
\* QueueIsUnsentTail an empty queue means that everything has been shown.
LEMMA PushNextShows ==
  ASSUME GicInv, NEW core \in Cores, PushNextInterrupt(core), UNCHANGED log
  PROVE  Mailbox!Show(core) \/ Mailbox!Withdraw(core)
<1> DEFINE q == sgir_queue[core]
<1>1. /\ q \in Seq(Interrupt)
      /\ log[core] \in Seq(Interrupt)
      /\ handed[core] \in Nat
      /\ IsRest(q, log[core], handed[core])
  BY DEF GicInv, GicTypeOK, QueueIsUnsentTail
<1>2. Len(q) \in Nat /\ Len(log[core]) \in Nat
  BY <1>1, LenProperties
<1>3. handed[core] + Len(q) = Len(log[core])
  BY <1>1 DEF IsRest
<1>4. active_intr \in [Cores -> 0 .. 15 \cup {NoIntr}] /\ active_intr_cpu \in [Cores -> Cores]
  BY DEF GicInv, GicTypeOK
<1>5. ASSUME NEW id, NEW cpu, SetActiveInterrupt(id, cpu, core)
      PROVE  ShownSlots' = [ShownSlots EXCEPT ![core] = [intid |-> id, sender |-> cpu]]
  <2>1. /\ active_intr'[core] = id
        /\ active_intr_cpu'[core] = cpu
        /\ \A c \in Cores \ {core} : /\ active_intr'[c] = active_intr[c]
                                      /\ active_intr_cpu'[c] = active_intr_cpu[c]
    BY <1>4, <1>5 DEF SetActiveInterrupt
  <2>2. QED
    BY <2>1 DEF ShownSlots
<1>6. CASE /\ q = <<>>
           /\ SetActiveInterrupt(NoIntr, 0, core)
           /\ UNCHANGED <<sgir_queue, handed>>
  <2>1. handed[core] = Len(log[core])
    BY <1>1, <1>2, <1>3, <1>6
  <2>2. ShownSlots' = [ShownSlots EXCEPT ![core] = [intid |-> NoIntr, sender |-> 0]]
    BY <1>5, <1>6
  <2>3. QED
    BY <1>6, <2>1, <2>2 DEF Mailbox!Withdraw, ShownSlots
<1>7. CASE /\ q # <<>>
           /\ SetActiveInterrupt(Head(q).intid, Head(q).sender, core)
           /\ handed' = [handed EXCEPT ![core] = @ + 1]
  <2>1. Len(q) \in Nat \ {0} /\ Head(q) = q[1] /\ Head(q) \in Interrupt
    BY <1>1, <1>7, EmptySeq, HeadTailProperties
  <2>2. handed[core] < Len(log[core])
    <3> HIDE DEF q
    <3>1. QED
      BY <1>1, <1>2, <1>3, <2>1
  <2>3. Head(q) = log[core][handed[core] + 1]
    <3>1. 1 \in 1 .. Len(q)
      BY <2>1
    <3>2. QED
      BY <1>1, <2>1, <3>1 DEF IsRest
  <2>4. [intid |-> Head(q).intid, sender |-> Head(q).sender] = Head(q)
    BY <2>1 DEF Interrupt
  <2>5. ShownSlots' = [ShownSlots EXCEPT ![core] = log[core][handed[core] + 1]]
    BY <1>5, <1>7, <2>3, <2>4
  <2>6. QED
    BY <1>7, <2>2, <2>5 DEF Mailbox!Show, ShownSlots
<1>8. QED
  BY <1>6, <1>7 DEF PushNextInterrupt

\* The controller's first state is the empty mailbox.
LEMMA MailboxStart == GicInit => Mailbox!MailboxInit
BY DEF GicInit, Mailbox!MailboxInit

\* Every step of the controller is a step of the mailbox or changes nothing
\* of it.
LEMMA MailboxStep ==
  GicInv /\ [GicNext]_gicVars => [Mailbox!MailboxNext]_Mailbox!mailboxVars
<1> SUFFICES ASSUME GicInv, [GicNext]_gicVars
             PROVE  [Mailbox!MailboxNext]_Mailbox!mailboxVars
  OBVIOUS
<1>1. ASSUME NEW core \in Cores, NEW w \in SgirWords, WriteSgir(core, w)
      PROVE  Mailbox!MailboxNext
  <2>1. Recipients(core, w) \in SUBSET Cores
    BY DEF Recipients
  <2>2. QED
    BY <1>1, <2>1, WriteSgirPosts, SgiIsInterrupt DEF Mailbox!MailboxNext
<1>2. ASSUME NEW core \in Cores, PushNextInterrupt(core), UNCHANGED log
      PROVE  Mailbox!MailboxNext
  BY <1>2, PushNextShows DEF Mailbox!MailboxNext
<1>3. ASSUME NEW core \in Cores, WriteEoir(core)
      PROVE  Mailbox!MailboxNext
  BY <1>2, <1>3 DEF WriteEoir
<1>4. ASSUME NEW core \in Cores, TakeIrq(core)
      PROVE  UNCHANGED Mailbox!mailboxVars
  BY <1>4 DEF TakeIrq, Mailbox!mailboxVars
<1>5. ASSUME NEW core \in Cores, HandleInterrupts(core)
      PROVE  [Mailbox!MailboxNext]_Mailbox!mailboxVars
  <2>1. CASE UNCHANGED gicVars
    BY <2>1 DEF gicVars, Mailbox!mailboxVars
  <2>2. CASE PushNextInterrupt(core) /\ UNCHANGED log
    BY <1>2, <2>2
  <2>3. QED
    BY <1>5, <2>1, <2>2 DEF HandleInterrupts
<1>6. CASE UNCHANGED gicVars
  BY <1>6 DEF gicVars, Mailbox!mailboxVars
<1>7. QED
  BY <1>1, <1>3, <1>4, <1>5, <1>6 DEF GicNext

\* The controller implements SgiMailbox (its safety part): every SGI is shown to
\* its core at most once, in the order of sending, and the slot is emptied only
\* after the last one.
THEOREM ImplementsMailbox == GicSafety => Mailbox!MailboxSafety
BY Invariance, MailboxStart, MailboxStep, PTL DEF GicSafety, Mailbox!MailboxSafety

=============================================================================
