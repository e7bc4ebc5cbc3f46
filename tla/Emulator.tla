------------------------------- MODULE Emulator -------------------------------
(***************************************************************************)
(* The scheduler and the interrupt controller together, with the guest     *)
(* between them: uc_run_stuff calls mmio_gicd_handle_interrupts for a core *)
(* before each of its slices (main.cpp:763), and the guest's interrupt     *)
(* handler reads GICC_IAR and writes GICC_EOIR in the middle of slices.    *)
(*                                                                         *)
(* The guest is not part of the repository.  It is any program that sends  *)
(* SGIs, and whose IRQ handler acknowledges what GICC_IAR shows and then   *)
(* ends it; Attentive says how much more is assumed of it.                 *)
(***************************************************************************)
EXTENDS Scheduler, Gic

CONSTANT
  Attentive  \* TRUE: every core takes an IRQ before it does anything else,
             \* acknowledges until GICC_IAR shows nothing, and does so within
             \* the slice.  FALSE: a core may mask IRQs for as long as it
             \* likes, return after any acknowledgement, and its slice may end
             \* anywhere in the handler.

ASSUME EmulatorAssumption == Attentive \in BOOLEAN

VARIABLES
  handler,  \* handler[c]: where core c is in its IRQ handler
  acked     \* history; acked[c]: which SGIs of log[c] core c has read from
            \* GICC_IAR, in the order of reading

emuVars == <<schedVars, gicVars, handler, acked>>

\* "thread": not in the handler; "ack": about to read GICC_IAR; "eoi": about to
\* write GICC_EOIR.
HandlerStates == {"thread", "ack", "eoi"}

-----------------------------------------------------------------------------
VisitCore_NoInterrupts ==
  /\ BeginSlice
  /\ UNCHANGED <<gicVars, handler, acked>>

\* A core's slice begins with a look at its interrupts.
VisitCore ==
  /\ BeginSlice
  /\ HandleInterrupts(i)
  /\ UNCHANGED <<handler, acked>>

InHandler(c) == handler[c] # "thread" \/ irq[c]

\* A slice that ends with an error stops the emulator, in the handler or not.
LeaveCore ==
  /\ EndSlice
  /\ Attentive /\ InHandler(i) => uc_quit'
  /\ UNCHANGED <<gicVars, handler, acked>>

\* The tests of the scheduler's two loops.
LoopStep ==
  /\ WhileTest \/ EndPass
  /\ UNCHANGED <<gicVars, handler, acked>>

-----------------------------------------------------------------------------
\* External: what the guest does in a slice.  Its handler sends nothing.
ThreadCode ==
  /\ handler[i] = "thread"
  /\ Attentive => ~irq[i]

SendSgi(w) ==
  /\ PlainInsn
  /\ ThreadCode
  /\ WriteSgir(i, w)
  /\ UNCHANGED <<handler, acked>>

OtherInsn ==
  /\ GuestStep
  /\ ThreadCode
  /\ UNCHANGED <<gicVars, acked>>
  \* smcCpuOn of another core throws it out of its handler.
  /\ handler' = [c \in Cores |-> IF resume'[c] = resume[c] THEN handler[c] ELSE "thread"]

EnterHandler ==
  /\ PlainInsn
  /\ handler[i] = "thread"
  /\ TakeIrq(i)
  /\ handler' = [handler EXCEPT ![i] = "ack"]
  /\ UNCHANGED acked

\* GICC_IAR is read; 0x3FF sends the handler home.
ReadIar ==
  /\ PlainInsn
  /\ handler[i] = "ack"
  /\ IF InterruptActive(i)
       THEN /\ handler' = [handler EXCEPT ![i] = "eoi"]
            /\ acked' = [acked EXCEPT ![i] = Append(@, handed[i])]
       ELSE /\ handler' = [handler EXCEPT ![i] = "thread"]
            /\ UNCHANGED acked
  /\ UNCHANGED gicVars

EndInterrupt ==
  /\ PlainInsn
  /\ handler[i] = "eoi"
  /\ WriteEoir(i)
  /\ \E next \in IF Attentive THEN {"ack"} ELSE {"ack", "thread"} :
       handler' = [handler EXCEPT ![i] = next]
  /\ UNCHANGED acked

-----------------------------------------------------------------------------
EmuInit ==
  /\ SchedInit
  /\ GicInit
  /\ handler = [c \in Cores |-> "thread"]
  /\ acked   = [c \in Cores |-> <<>>]

EmuNext ==
  \/ VisitCore
  \/ LeaveCore
  \/ LoopStep
  \/ \E w \in SgirWords : SendSgi(w)
  \/ OtherInsn
  \/ EnterHandler
  \/ ReadIar
  \/ EndInterrupt

\* The host thread keeps running; nothing is assumed of the guest.
EmuSpec == EmuInit /\ [][EmuNext]_emuVars /\ WF_emuVars(EmuNext)

-----------------------------------------------------------------------------
\* Every variable of the guest has its type.
EmuTypeOK ==
  /\ SchedTypeOK
  /\ GicTypeOK
  /\ handler \in [Cores -> HandlerStates]
  /\ acked \in [Cores -> Seq(Nat)]

\* Whatever the guest does and wherever its slices end, it never acknowledges
\* an SGI twice or out of the order of sending, although the scheduler replaces
\* what GICC_IAR shows under a handler that is not finished (gicd.cpp:318-321).
AckedInOrder ==
  \A c \in Cores :
    \A m, n \in 1 .. Len(acked[c]) :
      m < n => acked[c][m] < acked[c][n]

\* An attentive guest loses nothing: when a core is not being run, it has
\* acknowledged every SGI that ever left its queue.
NothingMissed ==
  \A c \in Cores :
    phase # "hung" /\ ~uc_quit /\ ~(phase = "slice" /\ i = c) =>
      acked[c] = [k \in 1 .. handed[c] |-> k]

\* Every SGI for a core that can be run is shown to it, unless the emulator
\* stops: the controller is never visited too rarely (main.cpp:763).
EverySgiShown ==
  \A c \in Cores : \A n \in 1 .. MaxSent :
    Runnable(c) /\ n <= Len(log[c]) ~> handed[c] >= n \/ Stopped

\* And an attentive guest acknowledges every one.
EverySgiAcked ==
  \A c \in Cores : \A n \in 1 .. MaxSent :
    Runnable(c) /\ n <= Len(log[c]) ~> Len(acked[c]) >= n \/ Stopped
=============================================================================
