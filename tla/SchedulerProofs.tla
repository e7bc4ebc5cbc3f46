--------------------------- MODULE SchedulerProofs ---------------------------
(***************************************************************************)
(* Proofs about module Scheduler, for any number of cores, any entry       *)
(* points and any length of a slice.                                       *)
(***************************************************************************)
EXTENDS Scheduler, TLAPS

\* The inductive invariant.  The loop variable is a core whenever that core is
\* being run; TurnsByPosition says why no core is passed over.
SchedInv ==
  /\ SchedTypeOK
  /\ phase \in {"slice", "hung"} => i \in Cores /\ cores_online[i]
  /\ MappingExclusive
  /\ StartsWhereTold
  /\ TurnsByPosition

-----------------------------------------------------------------------------
\* The first state.
LEMMA SchedInitInv == SchedInit => SchedInv
<1> SUFFICES ASSUME SchedInit PROVE SchedInv
  OBVIOUS
<1>1. PICK e \in Entries : resume = [c \in Cores |-> IF c = 0 THEN e ELSE Reset]
  BY DEF SchedInit
<1>2. SchedTypeOK
  <2>1. cores_online \in [Cores -> BOOLEAN]
    <3>1. ASSUME NEW c \in Cores PROVE (c = 0) \in BOOLEAN
      OBVIOUS
    <3>2. QED
      BY <3>1, Zenon DEF SchedInit
  <2>2. resume \in [Cores -> Entries \cup {Reset, Running}]
    BY <1>1
  <2>3. turns \in [Cores -> [Cores -> 0 .. 2]]
    BY DEF SchedInit, NoTurns
  <2>4. 0 \in 0 .. NCores /\ 0 \in 0 .. SliceInsns
    BY NCoresAssumption, SchedulerAssumption
  <2>5. QED
    BY <2>1, <2>2, <2>3, <2>4 DEF SchedInit, SchedTypeOK, Phases
<1>3. StartsWhereTold
  BY <1>1, SchedulerAssumption DEF SchedInit, StartsWhereTold
<1>4. MappingExclusive /\ TurnsByPosition
  BY DEF SchedInit, MappingExclusive, TurnsByPosition, NoTurns
<1>5. QED
  BY <1>2, <1>3, <1>4 DEF SchedInit, SchedInv

\* The test of the while loop: when a new pass begins, the turns of the last one
\* are those of later cores.
LEMMA WhileTestInv == SchedInv /\ WhileTest => SchedInv'
<1> SUFFICES ASSUME SchedInv, WhileTest PROVE SchedInv'
  OBVIOUS
<1>1. UNCHANGED <<cores_online, resume, uc_quit, err, mapped, left, turns>>
  BY DEF WhileTest
<1>2. \/ phase = "while" /\ phase' = "done" /\ i' = i
      \/ phase = "while" /\ phase' = "for" /\ i' = 0 /\ ~err
  BY DEF WhileTest
<1>3. SchedTypeOK'
  BY <1>1, <1>2, NCoresAssumption DEF SchedInv, SchedTypeOK, Phases
<1>4. MappingExclusive' /\ StartsWhereTold'
  BY <1>1, <1>2 DEF SchedInv, MappingExclusive, StartsWhereTold
<1>5. TurnsByPosition'
  <2>1. SUFFICES ASSUME NEW c \in Cores, NEW d \in Cores, turns[c][d] # 0
                 PROVE  turns[c][d] = 1 /\ Runnable(c) /\ MayHaveSeen(c, d)'
    BY <1>1 DEF TurnsByPosition, Runnable
  <2>2. turns[c][d] = 1 /\ Runnable(c) /\ MayHaveSeen(c, d)
    BY <2>1 DEF SchedInv, TurnsByPosition
  <2>3. CASE phase' = "done"
    BY <2>2, <2>3 DEF MayHaveSeen
  <2>4. CASE phase = "while" /\ phase' = "for" /\ i' = 0 /\ ~err
    <3>1. c < d
      BY <2>2, <2>4 DEF MayHaveSeen
    <3>2. ~(c < 0)
      BY NCoresAssumption DEF Cores
    <3>3. QED
      BY <2>2, <2>4, <3>1, <3>2 DEF MayHaveSeen, Passed
  <2>5. QED
    BY <1>2, <2>3, <2>4
<1>6. QED
  BY <1>2, <1>3, <1>4, <1>5 DEF SchedInv

\* The end of a pass.  A core that has not had its slice in it is not runnable,
\* so it has seen no turns.
LEMMA EndPassInv == SchedInv /\ EndPass => SchedInv'
<1> SUFFICES ASSUME SchedInv, EndPass PROVE SchedInv'
  OBVIOUS
<1>1. /\ phase = "for"
      /\ ~GoesOn
      /\ phase' \in {"done", "while"}
      /\ phase' = "while" => ~uc_quit
      /\ UNCHANGED <<cores_online, resume, i, uc_quit, err, mapped, left, turns>>
  BY DEF EndPass, AfterPass
<1>2. SchedTypeOK'
  BY <1>1 DEF SchedInv, SchedTypeOK, Phases
<1>3. MappingExclusive' /\ StartsWhereTold'
  BY <1>1 DEF SchedInv, MappingExclusive, StartsWhereTold
<1>4. TurnsByPosition'
  <2>1. SUFFICES ASSUME NEW c \in Cores, NEW d \in Cores, turns[c][d] # 0
                 PROVE  turns[c][d] = 1 /\ Runnable(c) /\ MayHaveSeen(c, d)'
    BY <1>1 DEF TurnsByPosition, Runnable
  <2>2. turns[c][d] = 1 /\ Runnable(c) /\ MayHaveSeen(c, d)
    BY <2>1 DEF SchedInv, TurnsByPosition
  <2>3. CASE phase' = "done"
    BY <2>2, <2>3 DEF MayHaveSeen
  <2>4. CASE phase' = "while"
    <3>1. i = NCores \/ ~cores_online[i]
      BY <1>1, <2>4 DEF GoesOn
    <3>2. i \in 0 .. NCores /\ c \in 0 .. NCores - 1 /\ d \in 0 .. NCores - 1
      BY DEF SchedInv, SchedTypeOK, Cores
    <3>3. c < i
      <4>1. SUFFICES ASSUME i <= c PROVE FALSE
        BY <3>2, NCoresAssumption
      <4>2. i \in 0 .. c /\ i # NCores
        BY <3>2, <4>1, NCoresAssumption
      <4>3. QED
        BY <2>2, <3>1, <4>2 DEF Runnable
    <3>4. c < d
      BY <1>1, <2>2, <3>3 DEF MayHaveSeen, Passed
    <3>5. QED
      BY <2>2, <2>4, <3>4 DEF MayHaveSeen
  <2>5. QED
    BY <1>1, <2>3, <2>4
<1>5. QED
  BY <1>1, <1>2, <1>3, <1>4 DEF SchedInv

\* Core i is given its slice: no core that still waits in this pass has seen a
\* turn of i before.
LEMMA BeginSliceInv == SchedInv /\ BeginSlice => SchedInv'
<1> SUFFICES ASSUME SchedInv, BeginSlice PROVE SchedInv'
  OBVIOUS
<1>1. /\ phase = "for" /\ phase' = "slice"
      /\ i # NCores /\ cores_online[i]
      /\ mapped' = mapped \cup {i}
      /\ left' = SliceInsns
      /\ resume' = [resume EXCEPT ![i] = Running]
      /\ CountTurn(i)
      /\ UNCHANGED <<cores_online, i, uc_quit, err>>
  BY DEF BeginSlice, GoesOn
<1>2. i \in Cores
  BY <1>1, NCoresAssumption DEF SchedInv, SchedTypeOK, Cores
<1>3. ASSUME NEW c \in Cores, NEW d \in Cores
      PROVE  /\ turns[c][d] \in 0 .. 2
             /\ turns'[c][d] =
                  IF c = i \/ ~Runnable(c) THEN 0
                  ELSE IF d = i THEN OneMore(turns[c][d]) ELSE turns[c][d]
  <2>1. turns[c] \in [Cores -> 0 .. 2]
    BY DEF SchedInv, SchedTypeOK
  <2>2. turns'[c] = IF c = i \/ ~Runnable(c) THEN NoTurns
                    ELSE [turns[c] EXCEPT ![i] = OneMore(@)]
    BY <1>1 DEF CountTurn
  <2>3. CASE c = i \/ ~Runnable(c)
    BY <2>1, <2>2, <2>3 DEF NoTurns
  <2>4. CASE ~(c = i \/ ~Runnable(c))
    BY <2>1, <2>2, <2>4
  <2>5. QED
    BY <2>3, <2>4
<1>4. SchedTypeOK'
  <2>1. turns' \in [Cores -> [Cores -> 0 .. 2]]
    <3>1. ASSUME NEW c \in Cores PROVE NoTurns \in [Cores -> 0 .. 2]
                              /\ [turns[c] EXCEPT ![i] = OneMore(@)] \in [Cores -> 0 .. 2]
      BY <1>2, <1>3 DEF NoTurns, OneMore, SchedInv, SchedTypeOK
    <3>2. QED
      BY <1>1, <3>1 DEF CountTurn
  <2>2. resume' \in [Cores -> Entries \cup {Reset, Running}]
    BY <1>1 DEF SchedInv, SchedTypeOK
  <2>3. mapped' \in SUBSET Cores
    BY <1>1, <1>2 DEF SchedInv, SchedTypeOK
  <2>4. left' \in 0 .. SliceInsns
    BY <1>1, SchedulerAssumption
  <2>5. QED
    BY <1>1, <2>1, <2>2, <2>3, <2>4 DEF SchedInv, SchedTypeOK, Phases
<1>5. MappingExclusive'
  BY <1>1 DEF SchedInv, MappingExclusive
<1>6. StartsWhereTold'
  BY <1>1, <1>2, SchedulerAssumption DEF SchedInv, SchedTypeOK, StartsWhereTold
<1>7. TurnsByPosition'
  <2>1. SUFFICES ASSUME NEW c \in Cores, NEW d \in Cores, turns'[c][d] # 0
                 PROVE  turns'[c][d] = 1 /\ Runnable(c) /\ MayHaveSeen(c, d)'
    BY <1>1 DEF TurnsByPosition, Runnable
  <2>2. c # i /\ Runnable(c)
    BY <1>3, <2>1
  <2>3. turns[c][d] # 0 => turns[c][d] = 1 /\ MayHaveSeen(c, d)
    BY DEF SchedInv, TurnsByPosition
  <2>4. c \in Int /\ d \in Int /\ i \in Int
    BY <1>2, NCoresAssumption DEF Cores
  <2>5. /\ MayHaveSeen(c, d) <=> IF c < i THEN c < d /\ d < i ELSE c < d \/ d < i
        /\ MayHaveSeen(c, d)' <=> IF c < i + 1 THEN c < d /\ d < i + 1
                                               ELSE c < d \/ d < i + 1
    BY <1>1 DEF MayHaveSeen, Passed
  <2>6. CASE d = i
    <3>1. ~MayHaveSeen(c, d)
      BY <2>2, <2>4, <2>5, <2>6
    <3>2. turns[c][d] = 0
      BY <2>3, <3>1
    <3>3. turns'[c][d] = 1
      BY <1>3, <2>2, <2>6, <3>2 DEF OneMore
    <3>4. MayHaveSeen(c, d)'
      BY <2>2, <2>4, <2>5, <2>6
    <3>5. QED
      BY <2>2, <3>3, <3>4
  <2>7. CASE d # i
    <3>1. turns'[c][d] = turns[c][d]
      BY <1>3, <2>2, <2>7
    <3>2. turns[c][d] = 1 /\ MayHaveSeen(c, d)
      BY <2>1, <2>3, <3>1
    <3>3. MayHaveSeen(c, d)'
      BY <2>2, <2>4, <2>5, <2>7, <3>2
    <3>4. QED
      BY <2>2, <3>1, <3>2, <3>3
  <2>8. QED
    BY <2>6, <2>7
<1>8. QED
  BY <1>1, <1>2, <1>4, <1>5, <1>6, <1>7 DEF SchedInv

\* The end of a slice: the core's mapping goes whether it failed or not.
LEMMA EndSliceInv == SchedInv /\ EndSlice => SchedInv'
<1> SUFFICES ASSUME SchedInv, EndSlice PROVE SchedInv'
  OBVIOUS
<1>1. /\ phase = "slice" /\ i \in Cores
      /\ mapped' = mapped \ {i}
      /\ uc_quit' \in BOOLEAN /\ err' \in BOOLEAN
      /\ left' = 0
      /\ UNCHANGED <<cores_online, resume, turns>>
  BY DEF EndSlice, Unmap, SchedInv, SchedTypeOK
<1>2. \/ err' /\ phase' \in {"done", "while"} /\ i' = i
      \/ ~err' /\ phase' = "for" /\ i' = i + 1
  BY DEF EndSlice, AfterPass
<1>3. i' \in 0 .. NCores
  BY <1>1, <1>2, NCoresAssumption DEF Cores
<1>4. SchedTypeOK'
  BY <1>1, <1>2, <1>3, SchedulerAssumption DEF SchedInv, SchedTypeOK, Phases
<1>5. MappingExclusive' /\ StartsWhereTold'
  BY <1>1, <1>2 DEF SchedInv, MappingExclusive, StartsWhereTold
<1>6. TurnsByPosition'
  <2>1. SUFFICES ASSUME NEW c \in Cores, NEW d \in Cores, turns[c][d] # 0
                 PROVE  turns[c][d] = 1 /\ Runnable(c) /\ MayHaveSeen(c, d)'
    BY <1>1 DEF TurnsByPosition, Runnable
  <2>2. turns[c][d] = 1 /\ Runnable(c) /\ MayHaveSeen(c, d)
    BY <2>1 DEF SchedInv, TurnsByPosition
  <2>3. CASE err' /\ phase' \in {"done", "while"}
    BY <2>2, <2>3 DEF MayHaveSeen
  <2>4. CASE phase' = "for" /\ i' = i + 1
    BY <1>1, <2>2, <2>4 DEF MayHaveSeen, Passed
  <2>5. QED
    BY <1>2, <2>3, <2>4
<1>7. QED
  BY <1>2, <1>4, <1>5, <1>6 DEF SchedInv

\* A guest instruction: cores only ever come online, and with an entry point.
LEMMA GuestStepInv == SchedInv /\ GuestStep => SchedInv'
<1> SUFFICES ASSUME SchedInv, GuestStep PROVE SchedInv'
  OBVIOUS
<1>1. /\ phase = "slice" /\ i \in Cores /\ cores_online[i]
      /\ left > 0 /\ left' = left - 1
      /\ UNCHANGED <<i, err, mapped, turns>>
  BY DEF GuestStep, PlainInsn, CpuOn, RequestQuit, HangInGetConfig, Executes, SchedInv
<1>2. /\ phase' \in {"slice", "hung"}
      /\ uc_quit' \in BOOLEAN
  BY DEF GuestStep, PlainInsn, CpuOn, RequestQuit, HangInGetConfig, Executes,
         SchedInv, SchedTypeOK
<1>3. \/ UNCHANGED <<cores_online, resume>>
      \/ \E c \in Cores, e \in Entries : CpuOn(c, e)
  BY DEF GuestStep, PlainInsn, RequestQuit, HangInGetConfig
<1>4. ASSUME NEW c \in Cores, NEW e \in Entries, CpuOn(c, e)
      PROVE  /\ cores_online' \in [Cores -> BOOLEAN]
             /\ resume' \in [Cores -> Entries \cup {Reset, Running}]
             /\ StartsWhereTold'
             /\ \A d \in Cores : cores_online[d] => cores_online'[d]
  <2>1. /\ cores_online' = [cores_online EXCEPT ![c] = TRUE]
        /\ resume' = IF c = i THEN resume ELSE [resume EXCEPT ![c] = e]
    BY <1>4 DEF CpuOn
  <2>2. /\ cores_online' \in [Cores -> BOOLEAN]
        /\ resume' \in [Cores -> Entries \cup {Reset, Running}]
        /\ \A d \in Cores : cores_online[d] => cores_online'[d]
    BY <2>1 DEF SchedInv, SchedTypeOK
  <2>3. SUFFICES ASSUME NEW d \in Cores, cores_online'[d]
                 PROVE  resume'[d] # Reset
    BY <2>2 DEF StartsWhereTold
  <2>4. CASE d # c
    BY <2>1, <2>3, <2>4 DEF SchedInv, SchedTypeOK, StartsWhereTold
  <2>5. CASE d = c /\ c # i
    BY <2>1, <2>5, SchedulerAssumption DEF SchedInv, SchedTypeOK
  <2>6. CASE d = c /\ c = i
    BY <1>1, <2>1, <2>6 DEF SchedInv, StartsWhereTold
  <2>7. QED
    BY <2>4, <2>5, <2>6
<1>6. SchedTypeOK'
  <2>1. left' \in 0 .. SliceInsns
    BY <1>1, SchedulerAssumption DEF SchedInv, SchedTypeOK
  <2>2. QED
    BY <1>1, <1>2, <1>3, <1>4, <2>1 DEF SchedInv, SchedTypeOK, Phases
<1>7. MappingExclusive'
  BY <1>1, <1>2 DEF SchedInv, MappingExclusive
<1>8. StartsWhereTold'
  BY <1>3, <1>4 DEF SchedInv, StartsWhereTold
<1>9. TurnsByPosition'
  <2>1. ASSUME NEW c \in Cores, Runnable(c)
        PROVE  Runnable(c)'
    <3>1. \A d \in 0 .. c : d \in Cores
      BY NCoresAssumption DEF Cores
    <3>2. QED
      BY <1>3, <1>4, <2>1, <3>1 DEF Runnable
  <2>2. ASSUME NEW c \in Cores, NEW d \in Cores, MayHaveSeen(c, d)
        PROVE  MayHaveSeen(c, d)'
    BY <1>1, <1>2, <2>2 DEF MayHaveSeen, Passed
  <2>3. QED
    BY <1>1, <2>1, <2>2 DEF SchedInv, TurnsByPosition
<1>10. cores_online'[i]
  BY <1>1, <1>3, <1>4
<1>11. QED
  BY <1>1, <1>6, <1>7, <1>8, <1>9, <1>10 DEF SchedInv

\* One step per action.
LEMMA SchedNextInv == SchedInv /\ [SchedNext]_schedVars => SchedInv'
<1> SUFFICES ASSUME SchedInv, [SchedNext]_schedVars PROVE SchedInv'
  OBVIOUS
<1>1. CASE UNCHANGED schedVars
  BY <1>1 DEF schedVars, SchedInv, SchedTypeOK, MappingExclusive, StartsWhereTold,
              TurnsByPosition, MayHaveSeen, Passed, Runnable
<1>2. QED
  BY <1>1, WhileTestInv, EndPassInv, BeginSliceInv, EndSliceInv, GuestStepInv
     DEF SchedNext

\* SchedInv holds throughout.
LEMMA SchedInvariance == SchedSafety => []SchedInv
BY SchedInitInv, SchedNextInv, PTL DEF SchedSafety

-----------------------------------------------------------------------------
\* Every variable keeps its type: the loop variable never leaves 0..NCores and
\* the slice's budget never goes below zero.
THEOREM SchedTypeCorrect == SchedSafety => []SchedTypeOK
BY SchedInvariance, PTL DEF SchedInv

\* At most one core has the DRAM mapped, the one being run, whatever ended the
\* slices before it.
THEOREM MappingIsExclusive == SchedSafety => []MappingExclusive
BY SchedInvariance, PTL DEF SchedInv

\* No core is ever online without an entry point.
THEOREM NeverStartsFromReset == SchedSafety => []StartsWhereTold
BY SchedInvariance, PTL DEF SchedInv

\* Round-robin fairness in its strongest form, for any number of cores: while a
\* runnable core waits, every other core gets one slice at most.
THEOREM TurnsAreFair == SchedSafety => []FairTurns
<1>1. SchedInv => FairTurns
  BY DEF SchedInv, TurnsByPosition, FairTurns
<1>2. QED
  BY SchedInvariance, <1>1, PTL

\* After a request to quit only the rest of the running slice is executed.
THEOREM QuitIsHonoured == SchedSafety => QuitEndsSlices
<1>1. SchedInv /\ [SchedNext]_schedVars
        => [uc_quit => left' <= left /\ mapped' \subseteq mapped]_schedVars
  <2>1. SUFFICES ASSUME SchedInv, SchedNext, uc_quit
                 PROVE  left' <= left /\ mapped' \subseteq mapped
    OBVIOUS
  <2>2. left \in Nat
    BY <2>1, SchedulerAssumption DEF SchedInv, SchedTypeOK
  <2>3. CASE WhileTest \/ EndPass
    BY <2>2, <2>3 DEF WhileTest, EndPass
  <2>4. CASE BeginSlice
    BY <2>1, <2>4 DEF BeginSlice, GoesOn
  <2>5. CASE EndSlice
    BY <2>2, <2>5 DEF EndSlice, Unmap
  <2>6. CASE GuestStep
    BY <2>2, <2>6 DEF GuestStep, PlainInsn, CpuOn, RequestQuit, HangInGetConfig, Executes
  <2>7. QED
    BY <2>1, <2>3, <2>4, <2>5, <2>6 DEF SchedNext
<1>2. QED
  BY SchedInvariance, <1>1, PTL DEF SchedSafety, QuitEndsSlices

-----------------------------------------------------------------------------
\* How long the emulator takes to stop, and a core to get its slice.

\* Steps until the emulator has stopped, once it is asked to.
StepsToStop ==
  CASE phase = "slice" -> left + 2
    [] phase \in {"for", "while"} -> 1
    [] OTHER -> 0

StopBounded == uc_quit => StepsToStop \in 0 .. SliceInsns + 2

StopNears == uc_quit => StepsToStop' < StepsToStop

\* The way is never longer than a slice and two steps,
LEMMA StopIsBounded == SchedInv => StopBounded
<1> SUFFICES ASSUME SchedInv PROVE StepsToStop \in 0 .. SliceInsns + 2
  BY DEF StopBounded
<1>1. left \in 0 .. SliceInsns /\ SliceInsns \in Nat /\ phase \in Phases
  BY SchedulerAssumption DEF SchedInv, SchedTypeOK
<1>2. CASE phase = "slice"
  <2>1. StepsToStop = left + 2
    BY <1>2 DEF StepsToStop
  <2>2. QED
    BY <1>1, <2>1
<1>3. CASE phase \in {"for", "while"}
  <2>1. StepsToStop = 1
    BY <1>3 DEF StepsToStop
  <2>2. QED
    BY <1>1, <2>1
<1>4. CASE phase \in {"done", "hung"}
  <2>1. StepsToStop = 0
    BY <1>4 DEF StepsToStop
  <2>2. QED
    BY <1>1, <2>1
<1>5. QED
  BY <1>1, <1>2, <1>3, <1>4 DEF Phases

\* and each step shortens it.
LEMMA StopNearsNext == SchedInv /\ SchedNext => StopNears
<1> SUFFICES ASSUME SchedInv, SchedNext, uc_quit PROVE StepsToStop' < StepsToStop
  BY DEF StopNears
<1>1. left \in Nat
  BY SchedulerAssumption DEF SchedInv, SchedTypeOK
<1>2. CASE WhileTest \/ EndPass
  <2>1. phase \in {"for", "while"} /\ phase' = "done"
    BY <1>2 DEF WhileTest, EndPass, AfterPass
  <2>2. StepsToStop = 1 /\ StepsToStop' = 0
    BY <2>1 DEF StepsToStop
  <2>3. QED
    BY <2>2
<1>3. CASE BeginSlice
  BY <1>3 DEF BeginSlice, GoesOn
<1>4. CASE EndSlice
  <2>1. phase = "slice" /\ phase' \in {"for", "done"}
    BY <1>4 DEF EndSlice, AfterPass
  <2>2. StepsToStop = left + 2 /\ StepsToStop' \in {0, 1}
    BY <2>1 DEF StepsToStop
  <2>3. QED
    BY <1>1, <2>2
<1>5. CASE GuestStep
  <2>1. phase = "slice" /\ phase' \in {"slice", "hung"} /\ left' = left - 1
    BY <1>5 DEF GuestStep, PlainInsn, CpuOn, RequestQuit, HangInGetConfig, Executes
  <2>2. StepsToStop = left + 2 /\ StepsToStop' \in {0, left' + 2}
    BY <2>1 DEF StepsToStop
  <2>3. QED
    BY <1>1, <2>1, <2>2
<1>6. QED
  BY <1>2, <1>3, <1>4, <1>5 DEF SchedNext

\* After a request to quit the emulator stops within the instructions left of the
\* slice and two steps more: each step brings it nearer.  This is QuitStops
\* without the fairness (main.cpp:756-770).
THEOREM QuitIsPrompt == SchedSafety => []StopBounded /\ [][StopNears]_schedVars
<1>1. SchedInv /\ [SchedNext]_schedVars => [StopNears]_schedVars
  BY StopNearsNext
<1>2. QED
  BY SchedInvariance, StopIsBounded, <1>1, PTL DEF SchedSafety

\* The steps of a slice.
SliceSteps == SliceInsns + 2

\* Steps until core c's slice when the for loop is at core n: the slices before
\* it of this pass, or those of the rest of it and of the next.
FromFor(c, n) ==
  IF n <= c THEN (c - n) * SliceSteps + 1
            ELSE (NCores - n) * SliceSteps + c * SliceSteps + 3

StepsToTurn(c) ==
  CASE phase = "while" -> IF err \/ uc_quit THEN 1 ELSE c * SliceSteps + 2
    [] phase = "for"   -> FromFor(c, i)
    [] phase = "slice" -> left + 1 + FromFor(c, i + 1)
    [] OTHER           -> 0

HasTurn(c) == (phase = "slice" /\ i = c) \/ Stopped

WaitBounded ==
  \A c \in Cores :
    Runnable(c) /\ ~HasTurn(c) => StepsToTurn(c) \in 1 .. NCores * SliceSteps + 2

TurnNears ==
  \A c \in Cores :
    Runnable(c) /\ ~HasTurn(c) => HasTurn(c)' \/ StepsToTurn(c)' < StepsToTurn(c)

\* Of every core the way is one slice shorter behind each core but itself.
LEMMA OneSliceOn ==
  ASSUME NEW c \in Cores
  PROVE  /\ SliceSteps \in Nat /\ SliceSteps = SliceInsns + 2 /\ c * SliceSteps \in Nat
         /\ FromFor(c, 0) = c * SliceSteps + 1
         /\ FromFor(c, NCores) = c * SliceSteps + 3
         /\ \A n \in Cores : n # c => FromFor(c, n) = FromFor(c, n + 1) + SliceSteps
         /\ \A n \in 0 .. NCores : /\ FromFor(c, n) \in Nat \ {0}
                                   /\ n > c => FromFor(c, n) >= c * SliceSteps + 3
<1> DEFINE P == SliceSteps
<1>1. P \in Nat /\ P = SliceInsns + 2 /\ c \in Nat /\ NCores \in Nat /\ c < NCores
  BY SchedulerAssumption, NCoresAssumption DEF SliceSteps, Cores
<1>2. /\ \A n : n <= c => FromFor(c, n) = (c - n) * P + 1
      /\ \A n : ~(n <= c) => FromFor(c, n) = (NCores - n) * P + c * P + 3
  BY DEF FromFor
<1> HIDE DEF P
<1>3. \A a \in Nat : a * P \in Nat
  BY <1>1
<1>4. FromFor(c, 0) = c * P + 1
  <2>1. 0 <= c /\ c - 0 = c
    BY <1>1
  <2>2. QED
    BY <1>2, <2>1
<1>5. FromFor(c, NCores) = c * P + 3
  <2>1. ~(NCores <= c) /\ (NCores - NCores) * P = 0 /\ c * P \in Nat
    BY <1>1, <1>3
  <2>2. FromFor(c, NCores) = (NCores - NCores) * P + c * P + 3
    BY <1>2, <2>1
  <2>3. QED
    BY <2>1, <2>2
<1>6. ASSUME NEW n \in Cores, n # c PROVE FromFor(c, n) = FromFor(c, n + 1) + P
  <2>1. n \in Nat /\ n < NCores
    BY <1>1, <1>6 DEF Cores
  <2>2. CASE n < c
    <3>1. (c - n) * P = (c - (n + 1)) * P + P
      BY <1>1, <2>1
    <3>2. n <= c /\ n + 1 <= c /\ c - (n + 1) \in Nat
      BY <1>1, <2>1, <2>2
    <3>3. /\ FromFor(c, n) = (c - n) * P + 1
          /\ FromFor(c, n + 1) = (c - (n + 1)) * P + 1
          /\ (c - (n + 1)) * P \in Nat
      BY <1>2, <1>3, <3>2
    <3>4. QED
      BY <1>1, <3>1, <3>3
  <2>3. CASE n > c
    <3>1. (NCores - n) * P = (NCores - (n + 1)) * P + P
      BY <1>1, <2>1
    <3>2. ~(n <= c) /\ ~(n + 1 <= c) /\ NCores - (n + 1) \in Nat
      BY <1>1, <2>1, <2>3
    <3>3. /\ FromFor(c, n) = (NCores - n) * P + c * P + 3
          /\ FromFor(c, n + 1) = (NCores - (n + 1)) * P + c * P + 3
          /\ (NCores - (n + 1)) * P \in Nat /\ c * P \in Nat
      BY <1>1, <1>2, <1>3, <3>2
    <3>4. QED
      BY <1>1, <3>1, <3>3
  <2>4. QED
    BY <1>1, <1>6, <2>1, <2>2, <2>3
<1>7. ASSUME NEW n \in 0 .. NCores
      PROVE  FromFor(c, n) \in Nat \ {0} /\ (n > c => FromFor(c, n) >= c * P + 3)
  <2>1. CASE n <= c
    <3>1. c - n \in Nat
      BY <1>1, <2>1
    <3>2. (c - n) * P \in Nat
      BY <1>3, <3>1
    <3>3. QED
      BY <1>1, <1>2, <2>1, <3>2
  <2>2. CASE n > c
    <3>1. NCores - n \in Nat /\ ~(n <= c)
      BY <1>1, <2>2
    <3>2. (NCores - n) * P \in Nat /\ c * P \in Nat
      BY <1>1, <1>3, <3>1
    <3>3. FromFor(c, n) = (NCores - n) * P + c * P + 3
      BY <1>2, <3>1
    <3>4. QED
      BY <3>2, <3>3
  <2>3. QED
    BY <1>1, <2>1, <2>2
<1>8. QED
  BY <1>1, <1>3, <1>4, <1>5, <1>6, <1>7 DEF P

\* The way is never longer than a slice of every core.
LEMMA WaitIsBounded == SchedInv => WaitBounded
<1> SUFFICES ASSUME SchedInv, NEW c \in Cores, ~HasTurn(c)
             PROVE  StepsToTurn(c) \in 1 .. NCores * SliceSteps + 2
  BY DEF WaitBounded
<1> DEFINE P == SliceSteps
<1>1. /\ c \in Nat /\ c < NCores /\ NCores \in Nat
      /\ P \in Nat /\ P = SliceInsns + 2 /\ c * P \in Nat
      /\ \A n \in 0 .. NCores : FromFor(c, n) \in Nat \ {0}
      /\ \A n : n <= c => FromFor(c, n) = (c - n) * P + 1
      /\ \A n : ~(n <= c) => FromFor(c, n) = (NCores - n) * P + c * P + 3
  BY OneSliceOn, NCoresAssumption DEF Cores, FromFor
<1>2. /\ phase \in Phases /\ i \in 0 .. NCores /\ left \in 0 .. SliceInsns
      /\ SliceInsns \in Nat
      /\ phase = "slice" => i < NCores
  BY SchedulerAssumption, NCoresAssumption DEF SchedInv, SchedTypeOK, Cores
<1> HIDE DEF P
<1>3. \A a \in Nat, b \in Nat : a <= b => a * P <= b * P
  <2> SUFFICES ASSUME NEW a \in Nat, NEW b \in Nat, a <= b PROVE a * P <= b * P
    OBVIOUS
  <2> DEFINE d == b - a
  <2>1. d \in Nat /\ b = a + d
    OBVIOUS
  <2> HIDE DEF d
  <2>2. d * P \in Nat /\ (a + d) * P = a * P + d * P /\ a * P \in Nat
    BY <1>1, <2>1
  <2>3. QED
    BY <2>1, <2>2
<1>4. c * P <= NCores * P /\ NCores * P \in Nat
  BY <1>1, <1>3
<1>5. ASSUME NEW n \in 0 .. NCores PROVE
        /\ n <= c => FromFor(c, n) <= c * P + 1
        /\ n > c  => FromFor(c, n) <= ((NCores - n) + c) * P + 3
  <2>1. CASE n <= c
    <3>1. c - n \in Nat /\ c - n <= c /\ n \in Nat
      BY <1>1, <2>1
    <3>2. (c - n) * P <= c * P
      BY <1>1, <1>3, <3>1
    <3>3. QED
      BY <1>1, <2>1, <3>1, <3>2
  <2>2. CASE n > c
    <3>1. ((NCores - n) + c) * P = (NCores - n) * P + c * P
      BY <1>1
    <3>2. ~(n <= c)
      BY <1>1, <2>2
    <3>3. FromFor(c, n) = (NCores - n) * P + c * P + 3
      BY <1>1, <3>2
    <3>4. NCores - n \in Nat
      BY <1>1
    <3>5. (NCores - n) * P \in Nat
      BY <1>1, <3>4
    <3>6. QED
      BY <1>1, <2>2, <3>1, <3>3, <3>5
  <2>3. QED
    BY <1>1, <2>1, <2>2
<1>6. (NCores - 1) * P + P = NCores * P /\ (NCores - 1) * P \in Nat
  <2>1. NCores - 1 \in Nat
    BY <1>1
  <2>2. QED
    BY <1>1, <2>1
<1>7. ASSUME NEW n \in 0 .. NCores
      PROVE  FromFor(c, n) <= (NCores - 1) * P + 3
  <2>1. CASE n <= c
    <3>1. c <= NCores - 1 /\ NCores - 1 \in Nat
      BY <1>1
    <3>2. c * P <= (NCores - 1) * P
      BY <1>1, <1>3, <3>1
    <3>3. FromFor(c, n) <= c * P + 1 /\ FromFor(c, n) \in Nat
      BY <1>1, <1>5, <2>1
    <3>4. QED
      BY <1>1, <1>6, <3>2, <3>3
  <2>2. CASE n > c
    <3>1. (NCores - n) + c \in Nat /\ (NCores - n) + c <= NCores - 1 /\ NCores - 1 \in Nat
      BY <1>1, <2>2
    <3>2. ((NCores - n) + c) * P <= (NCores - 1) * P /\ ((NCores - n) + c) * P \in Nat
      BY <1>1, <1>3, <3>1
    <3>3. FromFor(c, n) <= ((NCores - n) + c) * P + 3 /\ FromFor(c, n) \in Nat
      BY <1>1, <1>5, <2>2
    <3>4. QED
      BY <1>6, <3>2, <3>3
  <2>3. QED
    BY <1>1, <2>1, <2>2
<1> DEFINE most == (NCores - 1) * P
<1> HIDE DEF most
<1>8. /\ most \in Nat /\ NCores * P = most + P
       /\ \A n \in 0 .. NCores : FromFor(c, n) \in Nat \ {0} /\ FromFor(c, n) <= most + 3
  BY <1>1, <1>6, <1>7 DEF most
<1>9. CASE phase = "while"
  <2>1. StepsToTurn(c) = IF err \/ uc_quit THEN 1 ELSE c * P + 2
    BY <1>9 DEF StepsToTurn, P
  <2>2. StepsToTurn(c) \in 1 .. NCores * P + 2
    BY <1>1, <1>4, <2>1
  <2>3. QED
    BY <2>2 DEF P
<1>10. CASE phase = "for"
  <2>1. StepsToTurn(c) = FromFor(c, i)
    BY <1>10 DEF StepsToTurn
  <2>2. FromFor(c, i) \in Nat \ {0} /\ FromFor(c, i) <= most + 3
    BY <1>2, <1>8
  <2>3. FromFor(c, i) \in 1 .. (most + P) + 2
    BY <1>1, <1>2, <1>8, <2>2
  <2>4. QED
    BY <1>8, <2>1, <2>3 DEF P
<1>11. CASE phase = "slice"
  <2>1. StepsToTurn(c) = left + 1 + FromFor(c, i + 1)
    BY <1>11 DEF StepsToTurn
  <2>2. i + 1 \in 0 .. NCores
    BY <1>1, <1>2, <1>11
  <2>3. FromFor(c, i + 1) \in Nat \ {0} /\ FromFor(c, i + 1) <= most + 3
    BY <1>8, <2>2
  <2>4. left + 1 + FromFor(c, i + 1) \in 1 .. (most + P) + 2
    BY <1>1, <1>2, <1>8, <2>3
  <2>5. QED
    BY <1>8, <2>1, <2>4 DEF P
<1>12. QED
  BY <1>2, <1>9, <1>10, <1>11 DEF Phases, HasTurn, Stopped

\* Each step shortens the way of a core that can be run, or it has its turn or the
\* emulator stops.  When the last slice has failed that is what comes next.
LEMMA TurnNearsNext == SchedInv /\ SchedNext => TurnNears
<1> SUFFICES ASSUME SchedInv, SchedNext, NEW c \in Cores, Runnable(c), ~HasTurn(c), ~HasTurn(c)'
             PROVE  StepsToTurn(c)' < StepsToTurn(c)
  BY DEF TurnNears
<1> DEFINE P   == SliceSteps
           way == c * P
<1>1. /\ P \in Nat /\ P = SliceInsns + 2 /\ way \in Nat
      /\ FromFor(c, 0) = way + 1 /\ FromFor(c, NCores) = way + 3
      /\ \A n \in Cores : n # c => FromFor(c, n) = FromFor(c, n + 1) + P
      /\ \A n \in 0 .. NCores : /\ FromFor(c, n) \in Nat \ {0}
                                /\ n > c => FromFor(c, n) >= way + 3
  BY OneSliceOn
<1>2. /\ i \in 0 .. NCores /\ left \in 0 .. SliceInsns /\ SliceInsns \in Nat
      /\ NCores \in Nat /\ c \in Nat /\ c < NCores
      /\ \A d \in Cores : d <= c => cores_online[d]
  BY SchedulerAssumption, NCoresAssumption DEF SchedInv, SchedTypeOK, Cores, Runnable
<1>3. /\ StepsToTurn(c) = CASE phase = "while" -> IF err \/ uc_quit THEN 1 ELSE way + 2
                            [] phase = "for"   -> FromFor(c, i)
                            [] phase = "slice" -> left + 1 + FromFor(c, i + 1)
                            [] OTHER           -> 0
      /\ StepsToTurn(c)' = CASE phase' = "while" -> IF err' \/ uc_quit' THEN 1 ELSE way + 2
                             [] phase' = "for"   -> FromFor(c, i')
                             [] phase' = "slice" -> left' + 1 + FromFor(c, i' + 1)
                             [] OTHER            -> 0
  BY DEF StepsToTurn, FromFor, SliceSteps
<1>4. phase \notin {"done", "hung"} /\ phase' \notin {"done", "hung"}
  BY DEF HasTurn, Stopped
<1>5. phase = "slice" => i \in Cores /\ i # c
  BY DEF SchedInv, HasTurn
<1> HIDE DEF P, way
<1>6. CASE WhileTest
  <2>1. phase = "while" /\ ~(err \/ uc_quit) /\ phase' = "for" /\ i' = 0
    BY <1>4, <1>6 DEF WhileTest
  <2>2. StepsToTurn(c) = way + 2 /\ StepsToTurn(c)' = way + 1
    BY <1>1, <1>3, <2>1
  <2>3. QED
    BY <1>1, <2>2
<1>7. CASE EndPass
  <2>1. phase = "for" /\ ~GoesOn /\ phase' = "while" /\ ~uc_quit /\ UNCHANGED <<i, err, uc_quit>>
    BY <1>4, <1>7 DEF EndPass, AfterPass
  <2>2. i > c
    <3>1. CASE i <= c
      <4>1. i \in Cores /\ i # NCores
        BY <1>2, <3>1 DEF Cores
      <4>2. QED
        BY <1>2, <2>1, <3>1, <4>1 DEF GoesOn
    <3>2. QED
      BY <1>2, <3>1
  <2>3. StepsToTurn(c) = FromFor(c, i) /\ StepsToTurn(c)' \in {1, way + 2}
    BY <1>3, <2>1
  <2>4. FromFor(c, i) >= way + 3 /\ FromFor(c, i) \in Nat
    BY <1>1, <1>2, <2>2
  <2>5. QED
    BY <1>1, <2>3, <2>4
<1>8. CASE BeginSlice
  <2>1. phase = "for" /\ i # NCores /\ phase' = "slice" /\ left' = SliceInsns /\ i' = i
    BY <1>8 DEF BeginSlice, GoesOn
  <2>2. i \in Cores /\ i # c
    BY <1>2, <2>1 DEF HasTurn, Cores
  <2>3. /\ StepsToTurn(c) = FromFor(c, i)
        /\ StepsToTurn(c)' = SliceInsns + 1 + FromFor(c, i + 1)
    BY <1>3, <2>1
  <2>4. FromFor(c, i) = FromFor(c, i + 1) + P
    BY <1>1, <2>2
  <2>5. FromFor(c, i + 1) \in Nat
    <3>1. i + 1 \in 0 .. NCores
      BY <1>2, <2>1
    <3>2. QED
      BY <1>1, <3>1
  <2>6. QED
    BY <1>1, <1>2, <2>3, <2>4, <2>5
<1>9. phase = "slice" => i + 1 \in 0 .. NCores /\ FromFor(c, i + 1) \in Nat \ {0}
  <2> SUFFICES ASSUME phase = "slice"
               PROVE  i + 1 \in 0 .. NCores /\ FromFor(c, i + 1) \in Nat \ {0}
    OBVIOUS
  <2>1. i + 1 \in 0 .. NCores
    BY <1>2, <1>5 DEF Cores
  <2>2. QED
    BY <1>1, <2>1
<1>10. CASE EndSlice
  <2>1. /\ phase = "slice"
        /\ \/ phase' = "while" /\ err'
           \/ phase' = "for" /\ i' = i + 1
    BY <1>4, <1>10 DEF EndSlice, AfterPass
  <2>2. StepsToTurn(c) = left + 1 + FromFor(c, i + 1)
    BY <1>3, <2>1
  <2>3. StepsToTurn(c)' \in {1, FromFor(c, i + 1)}
    BY <1>3, <2>1
  <2>4. QED
    BY <1>2, <1>9, <2>1, <2>2, <2>3
<1>11. CASE GuestStep
  <2>1. phase = "slice" /\ phase' \in {"slice", "hung"} /\ left' = left - 1 /\ i' = i
    BY <1>11 DEF GuestStep, PlainInsn, CpuOn, RequestQuit, HangInGetConfig, Executes
  <2>2. /\ StepsToTurn(c) = left + 1 + FromFor(c, i + 1)
        /\ StepsToTurn(c)' = left' + 1 + FromFor(c, i + 1)
    BY <1>3, <1>4, <2>1
  <2>3. QED
    BY <1>2, <1>9, <2>1, <2>2
<1>12. QED
  BY <1>6, <1>7, <1>8, <1>10, <1>11 DEF SchedNext

\* A core that can be run gets a slice, or the emulator stops, within the steps
\* of a slice of every core and two: the way to it is never longer, and each step
\* shortens it, whatever guests do and cores come online.  This is RunnableRuns
\* without the fairness (main.cpp:756-770).
THEOREM TurnsComeSoon == SchedSafety => []WaitBounded /\ [][TurnNears]_schedVars
<1>1. SchedInv /\ [SchedNext]_schedVars => [TurnNears]_schedVars
  BY TurnNearsNext
<1>2. QED
  BY SchedInvariance, WaitIsBounded, <1>1, PTL DEF SchedSafety
=============================================================================
