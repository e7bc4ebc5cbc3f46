------------------------------ MODULE Devices ------------------------------
(***************************************************************************)
(* The devices of the machine together: the register files, the UARTs and  *)
(* the timer.  Their handlers share no state (each device has its own      *)
(* file under mmio/ with its own statics), so a behaviour exercises one of *)
(* them, device, and leaves the others as they begin.                      *)
(***************************************************************************)
EXTENDS Registers, Uart, Timer

VARIABLE device

devVars == <<device, regVars, uartVars, timerVars>>

DevInit ==
  /\ device \in {"registers", "uart", "timer"}
  /\ RegInit
  /\ UartInit
  /\ TimerInit
  /\ device # "timer" => host = 0

OfRegisters(A) ==
  device = "registers" /\ A /\ UNCHANGED <<device, uartVars, timerVars>>

OfUart(A) == device = "uart" /\ A /\ UNCHANGED <<device, regVars, timerVars>>

OfTimer(A) == device = "timer" /\ A /\ UNCHANGED <<device, regVars, uartVars>>

DevNext == OfRegisters(RegNext) \/ OfUart(UartNext) \/ OfTimer(TimerNext)

DevSafety == DevInit /\ [][DevNext]_devVars

\* The fairness of UartSpec and TimerSpec.
DevSpec ==
  /\ DevSafety
  /\ WF_devVars(OfTimer(Tick))
  /\ \A c \in Cores : /\ WF_devVars(OfUart(AwaitEmpty(c)))
                      /\ WF_devVars(OfUart(Send(c)))
                      /\ WF_devVars(OfTimer(PollCounter(c)))

\* Every variable of every device has its type.
DevTypeOK == RegTypeOK /\ UartTypeOK /\ TimerTypeOK
=============================================================================
