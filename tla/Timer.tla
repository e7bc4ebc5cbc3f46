-------------------------------- MODULE Timer --------------------------------
(***************************************************************************)
(* The microsecond counter of timer.cpp, which is the host's clock, and    *)
(* the guest's delay loops that poll it:                                   *)
(*                                                                         *)
(*   start = TIMERUS_CNTR_1US;  while (TIMERUS_CNTR_1US - start < delay);  *)
(*                                                                         *)
(* in 32 bits.  Time passes while a core waits for its next slice, the     *)
(* host's clock may be set, and the counter wraps.                         *)
(***************************************************************************)
EXTENDS GuestCores

CONSTANTS
  Second,  \* microseconds of a second (10^6)
  Wrap,    \* what 32 bits hold (2^32)
  Delays,  \* what guests wait for
  Gap,     \* a core polls again before Gap microseconds have passed
  Shifts   \* what the host's clock may be set forward by (back: modulo Cycle)

ASSUME TimerAssumption ==
  /\ Second \in Nat \ {0} /\ Wrap \in Nat \ {0} /\ Gap \in Nat \ {0}
  /\ Shifts \subseteq Nat
  /\ \A d \in Delays : d \in Nat /\ d + Gap <= Wrap

VARIABLES
  host,   \* the host's clock, modulo Cycle
  guest,  \* guest[c]: the delay loop core c is in, if any
  \* History, read by properties and by the bound Gap only:
  past    \* past[c]: time passed since the loop began and since its last poll,
          \* and whether the clock was set in between

timerVars == <<host, guest, past>>

Cycle == Second * Wrap  \* bound: the clock is taken modulo this

NoDelay == [waits |-> FALSE, start |-> 0, delay |-> 0]
JustNow == [begun |-> 0, polled |-> 0, set |-> FALSE]

-----------------------------------------------------------------------------
\* External: gettimeofday.
tv_sec  == host \div Second
tv_usec == host % Second

time_us_NoSeconds == tv_usec

time_us == tv_sec * Second + tv_usec

\* A guest's read of TIMERUS_CNTR_1US_0, of 32 bits.
Counter == time_us % Wrap

\* External: the guest's delay loop.
BeginDelay(c, d) ==
  /\ ~guest[c].waits
  /\ guest' = [guest EXCEPT ![c] = [waits |-> TRUE, start |-> Counter, delay |-> d]]
  /\ past' = [past EXCEPT ![c] = JustNow]
  /\ UNCHANGED host

PollCounter(c) ==
  /\ guest[c].waits
  /\ IF (Counter - guest[c].start) % Wrap < guest[c].delay
       THEN UNCHANGED guest
       ELSE guest' = [guest EXCEPT ![c] = NoDelay]
  /\ past' = [past EXCEPT ![c].polled = 0]
  /\ UNCHANGED host

\* A microsecond passes; begun is counted no further than Wrap.
Tick ==
  /\ \A c \in Cores : guest[c].waits => past[c].polled + 1 < Gap
  /\ host' = (host + 1) % Cycle
  /\ past' = [c \in Cores |->
       IF guest[c].waits
       THEN [past[c] EXCEPT !.begun = IF @ < Wrap THEN @ + 1 ELSE @, !.polled = @ + 1]
       ELSE JustNow]
  /\ UNCHANGED guest

\* The host's clock is set.
SetClock(shift) ==
  /\ host' = (host + shift) % Cycle
  /\ past' = [c \in Cores |-> [past[c] EXCEPT !.set = guest[c].waits]]
  /\ UNCHANGED guest

TimerInit ==
  /\ host \in 0 .. Cycle - 1
  /\ guest = [c \in Cores |-> NoDelay]
  /\ past  = [c \in Cores |-> JustNow]

TimerNext ==
  \/ Tick
  \/ \E shift \in Shifts : SetClock(shift)
  \/ \E c \in Cores : PollCounter(c) \/ \E d \in Delays : BeginDelay(c, d)

TimerSafety == TimerInit /\ [][TimerNext]_timerVars

\* Time passes, and every core gets slices again and again (Scheduler's
\* RunnableRuns).
TimerSpec ==
  TimerSafety /\ WF_timerVars(Tick) /\ \A c \in Cores : WF_timerVars(PollCounter(c))

-----------------------------------------------------------------------------
\* Every variable has its type.
TimerTypeOK ==
  /\ host \in 0 .. Cycle - 1
  /\ guest \in [Cores ->
       [waits : BOOLEAN, start : 0 .. Wrap - 1, delay : Delays \cup {0}]]
  /\ past \in [Cores ->
       [begun : 0 .. Wrap, polled : 0 .. Gap - 1, set : BOOLEAN]]

\* A delay is never cut short, unless the host's clock is set meanwhile: not by
\* the end of a second, nor by the counter's wrap, wherever the two meet
\* (timer.cpp:8-10, 19).
NeverEarly ==
  [][\A c \in Cores : guest[c].waits /\ ~guest'[c].waits =>
       past[c].begun >= guest[c].delay \/ past[c].set]_timerVars

\* A delay ends, unless the host's clock is set again and again while the guest
\* waits: set back or forward any number of times, the loop still sees its time
\* pass, in the new reading, once the clock is left alone (timer.cpp:8-10, 19).
DelayEnds ==
  \A c \in Cores :
    \/ guest[c].waits ~> ~guest[c].waits
    \/ []<><<\E shift \in Shifts : SetClock(shift)>>_timerVars
=============================================================================
