--------------------------------- MODULE Gic ---------------------------------
(***************************************************************************)
(* The software generated interrupts of the emulated GIC:                  *)
(* mmio/gicd.cpp (the distributor: GICD_SGIR and the queue of every core)  *)
(* and mmio/gicc.cpp (the CPU interface: GICC_IAR, GICC_EOIR).             *)
(*                                                                         *)
(* A write to GICD_SGIR appends a record to the queues of the addressed    *)
(* cores.  Before each slice of a core the scheduler calls                 *)
(* mmio_gicd_handle_interrupts, which moves the head of the core's queue   *)
(* into the one slot GICC_IAR reads and raises the core's IRQ; the guest's *)
(* write to GICC_EOIR moves the next one without raising anything.         *)
(*                                                                         *)
(* Each handler runs to completion on the emulator's one host thread, so   *)
(* each is one action.  Here any core may call any of them at any time;    *)
(* module Emulator adds the scheduler that decides when.                   *)
(***************************************************************************)
EXTENDS GuestCores, Sequences

CONSTANTS
  SgirWords,  \* the 32-bit words guests write to GICD_SGIR
  MaxSent     \* bound: SGIs ever queued to one core

ASSUME GicAssumption ==
  /\ SgirWords \subseteq Nat
  /\ MaxSent \in Nat

VARIABLES
  sgir_queue,       \* sgir_queue[c]: SGIs waiting for core c
  active_intr,      \* active_intr[c]: the number GICC_IAR shows to core c
  active_intr_cpu,  \* active_intr_cpu[c]: the sender it shows beside it
  irq,              \* irq[c]: core c has an IRQ raised and not yet taken
  \* History, read by properties only:
  log,              \* log[c]: every SGI ever queued to core c
  handed,           \* handed[c]: how many of them have left the queue
  raised            \* raised[c]: how often uc_raise_irq was called for c

gicVars ==
  <<sgir_queue, active_intr, active_intr_cpu, irq, log, handed, raised>>

NoIntr == 1023  \* 0x3FF, the GIC's "no interrupt pending"

\* A queued SGI.  The code's record also keeps target_list and target, which
\* nothing reads once the recipients are known.
Interrupt == [intid : 0 .. 15, sender : Cores]

-----------------------------------------------------------------------------
\* The fields of a GICD_SGIR word, by the masks and shifts of gicd.h.
TargetListField(w) == (w \div 16777216) % 4   \* bits 24-25
TargetField(w)     == (w \div 65536) % 256    \* bits 16-23
IntidField_NoMask(w) == w % 65536             \* for the mutants
IntidField(w)      == w % 16                  \* bits 0-3

TARGET_OTHERS == 1
TARGET_SELF   == 2

\* The cores a write of w by core is queued to.  The code compares bits 16-23
\* with the values of the filter, which live in bits 24-25.
Recipients(core, w) ==
  CASE TargetField(w) = TARGET_OTHERS -> Cores \ {core}
    [] TargetField(w) = TARGET_SELF   -> {core}
    [] OTHER                          -> Cores

SgiFrom(core, w) == [intid |-> IntidField(w), sender |-> core]

PushFront(queue, sgi) == <<sgi>> \o queue

\* Bound of the model, not of the code: std::queue grows without limit.
SgirBound == \A c \in Cores : Len(log[c]) < MaxSent

\* A guest on core writes w to GICD_SGIR.
WriteSgir_Lifo(core, w) ==
  /\ SgirBound
  /\ sgir_queue' = [c \in Cores |-> IF c \in Recipients(core, w)
                                    THEN PushFront(sgir_queue[c], SgiFrom(core, w))
                                    ELSE sgir_queue[c]]
  /\ log' = [c \in Cores |-> IF c \in Recipients(core, w)
                             THEN Append(log[c], SgiFrom(core, w))
                             ELSE log[c]]
  /\ UNCHANGED <<active_intr, active_intr_cpu, irq, handed, raised>>

WriteSgir(core, w) ==
  /\ SgirBound
  /\ sgir_queue' = [c \in Cores |-> IF c \in Recipients(core, w)
                                    THEN Append(sgir_queue[c], SgiFrom(core, w))
                                    ELSE sgir_queue[c]]
  /\ log' = [c \in Cores |-> IF c \in Recipients(core, w)
                             THEN Append(log[c], SgiFrom(core, w))
                             ELSE log[c]]
  /\ UNCHANGED <<active_intr, active_intr_cpu, irq, handed, raised>>

-----------------------------------------------------------------------------
SetActiveInterrupt(id, cpu, core) ==
  /\ active_intr'     = [active_intr EXCEPT ![core] = id]
  /\ active_intr_cpu' = [active_intr_cpu EXCEPT ![core] = cpu]

InterruptActive(core) == active_intr[core] # NoIntr

\* mmio_gicd_push_next_interrupt with plausible slips, for the mutants.
PushNextInterrupt_NoPop(core) ==
  \/ /\ sgir_queue[core] = <<>>
     /\ SetActiveInterrupt(NoIntr, 0, core)
     /\ UNCHANGED <<sgir_queue, handed>>
  \/ /\ sgir_queue[core] # <<>>
     /\ SetActiveInterrupt(Head(sgir_queue[core]).intid,
                           Head(sgir_queue[core]).sender, core)
     /\ handed' = [handed EXCEPT ![core] = @ + 1]
     /\ UNCHANGED sgir_queue

PushNextInterrupt_KeepsStale(core) ==
  \/ /\ sgir_queue[core] = <<>>
     /\ UNCHANGED <<active_intr, active_intr_cpu, sgir_queue, handed>>
  \/ /\ sgir_queue[core] # <<>>
     /\ SetActiveInterrupt(Head(sgir_queue[core]).intid,
                           Head(sgir_queue[core]).sender, core)
     /\ sgir_queue' = [sgir_queue EXCEPT ![core] = Tail(@)]
     /\ handed' = [handed EXCEPT ![core] = @ + 1]

PushNextInterrupt_WrongSender(core) ==
  \/ /\ sgir_queue[core] = <<>>
     /\ SetActiveInterrupt(NoIntr, 0, core)
     /\ UNCHANGED <<sgir_queue, handed>>
  \/ /\ sgir_queue[core] # <<>>
     /\ SetActiveInterrupt(Head(sgir_queue[core]).intid, core, core)
     /\ sgir_queue' = [sgir_queue EXCEPT ![core] = Tail(@)]
     /\ handed' = [handed EXCEPT ![core] = @ + 1]

\* The slot GICC_IAR reads takes the head of the queue, or NoIntr.  Whatever
\* the slot held is gone, read by the guest or not.
PushNextInterrupt(core) ==
  \/ /\ sgir_queue[core] = <<>>
     /\ SetActiveInterrupt(NoIntr, 0, core)
     /\ UNCHANGED <<sgir_queue, handed>>
  \/ /\ sgir_queue[core] # <<>>
     /\ SetActiveInterrupt(Head(sgir_queue[core]).intid,
                           Head(sgir_queue[core]).sender, core)
     /\ sgir_queue' = [sgir_queue EXCEPT ![core] = Tail(@)]
     /\ handed' = [handed EXCEPT ![core] = @ + 1]

\* The word GICC_IAR returns: number and sender, whose bits do not overlap.
IarValue(core) == active_intr[core] + 1024 * active_intr_cpu[core]

\* The guest writes GICC_EOIR: the next SGI is shown, no IRQ is raised.
WriteEoir(core) ==
  /\ PushNextInterrupt(core)
  /\ UNCHANGED <<irq, log, raised>>

-----------------------------------------------------------------------------
\* External (the patched unicorn): an IRQ stays raised until the core takes it.
RaiseIrq(core) ==
  /\ irq'    = [irq EXCEPT ![core] = TRUE]
  /\ raised' = [raised EXCEPT ![core] = @ + 1]

TakeIrq(core) ==
  /\ irq[core]
  /\ irq' = [irq EXCEPT ![core] = FALSE]
  /\ UNCHANGED <<sgir_queue, active_intr, active_intr_cpu, log, handed, raised>>

NothingToSend_IgnoresQueue(core) == ~InterruptActive(core)
NothingToSend_IgnoresActive(core) == sgir_queue[core] = <<>>

\* The early return of mmio_gicd_handle_interrupts.
NothingToSend(core) == sgir_queue[core] = <<>> /\ ~InterruptActive(core)

HandleInterrupts_NoRaise(core) ==
  \/ /\ NothingToSend(core)
     /\ UNCHANGED gicVars
  \/ /\ ~NothingToSend(core)
     /\ PushNextInterrupt(core)
     /\ UNCHANGED <<irq, raised, log>>

\* What the scheduler does for a core before each of its slices.
HandleInterrupts(core) ==
  \/ /\ NothingToSend(core)
     /\ UNCHANGED gicVars
  \/ /\ ~NothingToSend(core)
     /\ PushNextInterrupt(core)
     /\ RaiseIrq(core)
     /\ UNCHANGED log

\* mmio_gicc_init of every core has run before the first guest instruction.
GicInit ==
  /\ sgir_queue      = [c \in Cores |-> <<>>]
  /\ active_intr     = [c \in Cores |-> NoIntr]
  /\ active_intr_cpu = [c \in Cores |-> 0]
  /\ irq             = [c \in Cores |-> FALSE]
  /\ log             = [c \in Cores |-> <<>>]
  /\ handed          = [c \in Cores |-> 0]
  /\ raised          = [c \in Cores |-> 0]

GicNext ==
  \E core \in Cores :
    \/ \E w \in SgirWords : WriteSgir(core, w)
    \/ WriteEoir(core)
    \/ TakeIrq(core)
    \/ HandleInterrupts(core)

GicSafety == GicInit /\ [][GicNext]_gicVars

\* The scheduler comes back to every core it runs and then always calls
\* HandleInterrupts; the guest is not obliged to do anything.
GicSpec == GicSafety /\ \A c \in Cores : WF_gicVars(HandleInterrupts(c))

-----------------------------------------------------------------------------
\* Every variable has its type.
GicTypeOK ==
  /\ sgir_queue      \in [Cores -> Seq(Interrupt)]
  /\ active_intr     \in [Cores -> 0 .. 15 \cup {NoIntr}]
  /\ active_intr_cpu \in [Cores -> Cores]
  /\ irq             \in [Cores -> BOOLEAN]
  /\ log             \in [Cores -> Seq(Interrupt)]
  /\ handed          \in [Cores -> Nat]
  /\ raised          \in [Cores -> Nat]

\* queue is what remains of history after its first n elements.
IsRest(queue, history, n) ==
  /\ n + Len(queue) = Len(history)
  /\ \A k \in 1 .. Len(queue) : queue[k] = history[n + k]

\* A core's queue holds exactly the SGIs sent to it that have not been handed
\* out, in the order they were sent: none is lost, doubled or overtaken in the
\* queue, whatever mixture of GICD_SGIR writes, GICC_EOIR writes and scheduler
\* passes led here (gicd.cpp push/pop at lines 252-263 and 300-303).
QueueIsUnsentTail ==
  \A c \in Cores : IsRest(sgir_queue[c], log[c], handed[c])

\* What GICC_IAR shows is either "nothing", or the number of the SGI handed out
\* last together with the core that sent that very SGI: two handlers in two
\* files keep the number, the sender and the queue in step (gicc.cpp:68).
IarNamesLastHanded ==
  \A c \in Cores :
    \/ IarValue(c) = NoIntr
    \/ /\ handed[c] \in 1 .. Len(log[c])
       /\ IarValue(c) % 1024 = log[c][handed[c]].intid
       /\ IarValue(c) \div 1024 = log[c][handed[c]].sender

\* The strengthening of IarNamesLastHanded that is inductive.
ActiveIsHanded ==
  \A c \in Cores :
    \/ active_intr[c] = NoIntr /\ active_intr_cpu[c] = 0
    \/ /\ handed[c] \in 1 .. Len(log[c])
       /\ active_intr[c] = log[c][handed[c]].intid
       /\ active_intr_cpu[c] = log[c][handed[c]].sender

\* IRQs a core may still get without any further SGI: two for each queued one
\* (its own, and a spurious one when it is found still active), one for the
\* active one.
IrqCredit(c) ==
  2 * Len(sgir_queue[c]) + (IF InterruptActive(c) THEN 1 ELSE 0)

\* The strengthening of NoIrqStorm that is inductive.
IrqBudget ==
  \A c \in Cores : raised[c] + IrqCredit(c) <= 2 * Len(log[c])

\* However often the scheduler comes by and whatever the guest acknowledges, a
\* core is interrupted at most twice for every SGI sent to it.  The emulator
\* re-raises the IRQ of an interrupt it finds still active (gicd.cpp:318), so
\* this depends on the slot being emptied every time.
NoIrqStorm == \A c \in Cores : raised[c] <= 2 * Len(log[c])

\* The controller keeps the promise of SgiMailbox: every SGI is shown once, in
\* the order of sending, and none waits for ever.
Mailbox == INSTANCE SgiMailbox WITH
  Message <- Interrupt,
  Nothing <- [intid |-> NoIntr, sender |-> 0],
  mail    <- log,
  cursor  <- handed,
  shown   <- [c \in Cores |-> [intid  |-> active_intr[c],
                               sender |-> active_intr_cpu[c]]]

MailboxKept == Mailbox!MailboxSpec

\* Once guests stop sending, every core ends with an empty queue and nothing
\* active, so that the scheduler stops interrupting it (gicd.cpp:318); here
\* MaxSent is what makes the guests stop.
GoesQuiet ==
  <>[](\A c \in Cores : sgir_queue[c] = <<>> /\ ~InterruptActive(c))

\* gicd.h:43-48 places the target filter of GICD_SGIR in bits 24-25: a word
\* that carries GICD_SGIR_TARGET_OTHERS there is for the cores other than the
\* writer, one that carries GICD_SGIR_TARGET_SELF for the writer alone.
FilterHonoured ==
  [][\A core \in Cores, w \in SgirWords :
       WriteSgir(core, w) =>
         /\ TargetListField(w) = TARGET_OTHERS =>
              sgir_queue'[core] = sgir_queue[core]
         /\ TargetListField(w) = TARGET_SELF =>
              \A c \in Cores \ {core} : sgir_queue'[c] = sgir_queue[c]]_gicVars
=============================================================================
