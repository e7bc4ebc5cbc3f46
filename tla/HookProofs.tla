------------------------------ MODULE HookProofs ------------------------------
(***************************************************************************)
(* Proofs about module HookCode, for any number of cores, any program of   *)
(* the guest and any length of a slice; those about the hang detector for  *)
(* programs with no two WFEs in a row, the last of them for one core.      *)
(***************************************************************************)
EXTENDS HookCode, TLAPS

\* The inductive invariant: a core that executed a WFE without an event has its
\* stop before it, or its slice is over.
StopIsDue == owes => g_should_stop[running] \/ left = 0

HookInv == HookTypeOK /\ StopIsDue

-----------------------------------------------------------------------------
\* The first state.
LEMMA HookInitInv == HookInit => HookInv
<1> SUFFICES ASSUME HookInit PROVE HookInv
  OBVIOUS
<1>1. pc \in [Cores -> Addrs]
  BY HookAssumption DEF HookInit
<1>2. running \in Cores /\ left \in 0 .. SliceInsns
  BY NCoresAssumption, HookAssumption DEF HookInit, Cores
<1>3. g_has_sevl \in [Cores -> BOOLEAN] /\ g_should_stop \in [Cores -> BOOLEAN]
  BY DEF HookInit
<1>4. QED
  BY <1>1, <1>2, <1>3, NCoresAssumption
     DEF HookInit, HookInv, HookTypeOK, StopIsDue, Cores

\* The hook keeps the types of what it writes.
LEMMA HookTypes ==
  ASSUME HookTypeOK, NEW core \in Cores, NEW address \in Addrs, Hook(core, address)
  PROVE  /\ g_has_sevl' \in [Cores -> BOOLEAN]
         /\ g_should_stop' \in [Cores -> BOOLEAN]
         /\ last_pc' \in (Addrs \cup {NoAddr}) \X (Addrs \cup {NoAddr})
         /\ uc_quit' \in BOOLEAN
         /\ blamed' \in Addrs \cup {NoAddr}
         /\ last_core' \in Cores \X Cores
         /\ alone' \in BOOLEAN
<1>1. HasSevl(core, Insn[address]) \in BOOLEAN /\ ShouldStop(core, Insn[address]) \in BOOLEAN
  BY DEF HasSevl, ShouldStop, HookTypeOK
<1>2. g_has_sevl' \in [Cores -> BOOLEAN]
  BY <1>1 DEF Hook, HookTypeOK
<1>3. g_should_stop' \in [Cores -> BOOLEAN]
  BY <1>1 DEF Hook, HookTypeOK
<1>4. last_pc' \in (Addrs \cup {NoAddr}) \X (Addrs \cup {NoAddr})
  BY DEF Hook, HookTypeOK, Remember
<1>5. uc_quit' \in BOOLEAN /\ blamed' \in Addrs \cup {NoAddr}
  BY DEF Hook, HookTypeOK
<1>6. last_core' \in Cores \X Cores
  BY DEF Hook, HookTypeOK
<1>7. alone' \in BOOLEAN
  BY DEF Hook, HookTypeOK
<1>8. QED
  BY <1>2, <1>3, <1>4, <1>5, <1>6, <1>7

\* One step per action.
LEMMA HookNextInv == HookInv /\ [HookNext]_hookVars => HookInv'
<1> SUFFICES ASSUME HookInv, [HookNext]_hookVars PROVE HookInv'
  OBVIOUS
<1>1. HookTypeOK /\ running \in Cores /\ pc[running] \in Addrs /\ left \in Nat
  BY HookAssumption DEF HookInv, HookTypeOK
<1>2. CASE StopAtInsn
  <2>1. 0 \in 0 .. SliceInsns
    BY HookAssumption
  <2>2. HookTypeOK'
    BY <1>1, <1>2, <2>1, HookTypes DEF StopAtInsn, HookTypeOK
  <2>3. StopIsDue'
    BY <1>2 DEF StopAtInsn, StopIsDue
  <2>4. QED
    BY <2>2, <2>3 DEF HookInv
<1>3. CASE ExecuteInsn
  <2>1. pc' \in [Cores -> Addrs]
    <3>1. PICK a \in Succ[pc[running]] : pc' = [pc EXCEPT ![running] = a]
      BY <1>3 DEF ExecuteInsn
    <3>2. a \in Addrs
      BY <1>1, HookAssumption
    <3>3. QED
      BY <1>1, <3>1, <3>2 DEF HookTypeOK
  <2>2. left' \in 0 .. SliceInsns
    BY <1>1, <1>3, HookAssumption DEF ExecuteInsn, HookTypeOK
  <2>3. owes' \in BOOLEAN /\ running' = running /\ Hook(running, pc[running])
    BY <1>1, <1>3 DEF ExecuteInsn, HookTypeOK
  <2>4. HookTypeOK'
    BY <1>1, <2>1, <2>2, <2>3, HookTypes DEF HookTypeOK
  <2>5. ~owes
    BY <1>1, <1>3 DEF HookInv, StopIsDue, ExecuteInsn
  <2>6. owes' => g_should_stop'[running]
    BY <1>1, <1>3, <2>5 DEF ExecuteInsn, Hook, ShouldStop, HookTypeOK
  <2>7. QED
    BY <2>3, <2>4, <2>6 DEF HookInv, StopIsDue
<1>4. CASE NextSlice
  <2>1. running' \in Cores
    BY <1>1, <1>4, NCoresAssumption DEF NextSlice, Cores
  <2>2. left' \in 0 .. SliceInsns
    BY <1>4, HookAssumption DEF NextSlice
  <2>3. QED
    BY <1>1, <1>4, <2>1, <2>2 DEF NextSlice, HookInv, HookTypeOK, StopIsDue
<1>5. CASE UNCHANGED hookVars
  BY <1>5 DEF hookVars, HookInv, HookTypeOK, StopIsDue
<1>6. QED
  BY <1>2, <1>3, <1>4, <1>5 DEF HookNext

\* HookInv holds throughout.
LEMMA HookInvariance == HookSafety => []HookInv
BY HookInitInv, HookNextInv, PTL DEF HookSafety

-----------------------------------------------------------------------------
\* Every variable keeps its type.
THEOREM HookTypeCorrect == HookSafety => []HookTypeOK
BY HookInvariance, PTL DEF HookInv

\* After a WFE without an event the core executes nothing more in its slice.
THEOREM WfeStops == HookSafety => WfeEndsSlice
<1>1. HookInv /\ [HookNext]_hookVars => [owes => UNCHANGED pc]_hookVars
  <2>1. SUFFICES ASSUME HookInv, HookNext, owes PROVE UNCHANGED pc
    OBVIOUS
  <2>2. left \in Nat /\ ~ExecuteInsn
    BY <2>1, HookAssumption DEF HookInv, HookTypeOK, StopIsDue, ExecuteInsn
  <2>3. QED
    BY <2>1, <2>2 DEF HookNext, StopAtInsn, NextSlice
<1>2. QED
  BY HookInvariance, <1>1, PTL DEF HookSafety, WfeEndsSlice

-----------------------------------------------------------------------------
\* No WFE directly behind another.
NoDoubleWfe == \A a \in Addrs : Insn[a] = "WFE" => \A b \in Succ[a] : Insn[b] # "WFE"

\* Where core c is, from the last addresses hooked.  It is told to stop only
\* right behind a WFE; the same address twice in the history, both of them its
\* own, and about to come a third time, has been executed and leads to itself.
HistoryIsHonest(c) ==
  /\ g_should_stop[c] => Insn[pc[c]] # "WFE"
  /\ g_should_stop[c] /\ last_core[1] = c => Insn[last_pc[1]] = "WFE"
  /\ last_core = <<c, c>> /\ last_pc = <<pc[c], pc[c]>> => pc[c] \in Succ[pc[c]]

HangInv ==
  /\ HookInv
  /\ NoDoubleWfe => (\A c \in Cores : HistoryIsHonest(c)) /\ OwnHangIsReal

\* The first state: the history is empty.
LEMMA HangInit == HookInit => HangInv
<1> SUFFICES ASSUME HookInit PROVE HangInv
  OBVIOUS
<1>1. HookInv
  BY HookInitInv
<1>2. ~uc_quit /\ \A c \in Cores : ~g_should_stop[c]
  BY DEF HookInit
<1>3. \A c \in Cores : pc[c] \in Addrs
  BY <1>1 DEF HookInv, HookTypeOK
<1>4. \A c \in Cores : last_pc # <<pc[c], pc[c]>>
  BY <1>3, HookAssumption DEF HookInit
<1>5. QED
  BY <1>1, <1>2, <1>4 DEF HangInv, HistoryIsHonest, OwnHangIsReal

\* What a hook leaves in the history.
LEMMA HookHistory ==
  ASSUME HookTypeOK, NEW core \in Cores, Hook(core, pc[core])
  PROVE  /\ last_pc' = <<pc[core], last_pc[1]>>
         /\ last_core' = <<core, last_core[1]>>
         /\ g_should_stop'[core] => Insn[pc[core]] = "WFE"
         /\ \A c \in Cores \ {core} : g_should_stop'[c] = g_should_stop[c]
BY DEF Hook, Remember, ShouldStop, HookTypeOK

\* A hook blames an address for hooks of its own core only if it leads to itself.
LEMMA HookBlamesRightly ==
  ASSUME HookTypeOK, NEW core \in Cores, HistoryIsHonest(core), OwnHangIsReal,
         Hook(core, pc[core])
  PROVE  OwnHangIsReal'
<1>1. CASE LooksHung(pc[core]) /\ ~uc_quit
  <2>1. blamed' = pc[core] /\ alone' = (last_core = <<core, core>>)
    BY <1>1 DEF Hook
  <2>2. last_pc = <<pc[core], pc[core]>>
    BY <1>1 DEF LooksHung, HookTypeOK
  <2>3. QED
    BY <2>1, <2>2 DEF HistoryIsHonest, OwnHangIsReal
<1>2. CASE ~(LooksHung(pc[core]) /\ ~uc_quit)
  BY <1>2 DEF Hook, OwnHangIsReal
<1>3. QED
  BY <1>1, <1>2

\* The hook of one core leaves what is known of another.
LEMMA HookSparesOthers ==
  ASSUME HookTypeOK, NEW core \in Cores, Hook(core, pc[core]),
         NEW c \in Cores \ {core}, HistoryIsHonest(c), pc'[c] = pc[c]
  PROVE  HistoryIsHonest(c)'
<1>1. last_core'[1] # c /\ last_core' # <<c, c>> /\ g_should_stop'[c] = g_should_stop[c]
  BY HookHistory
<1>2. QED
  BY <1>1 DEF HistoryIsHonest

\* One step per action.
LEMMA HangNext == HangInv /\ [HookNext]_hookVars => HangInv'
<1> SUFFICES ASSUME HangInv, [HookNext]_hookVars PROVE HangInv'
  OBVIOUS
<1>1. HookInv'
  BY HookNextInv DEF HangInv
<1>2. SUFFICES ASSUME NoDoubleWfe
      PROVE  (\A c \in Cores : HistoryIsHonest(c)') /\ OwnHangIsReal'
  BY <1>1 DEF HangInv
<1>3. HookTypeOK /\ OwnHangIsReal /\ \A c \in Cores : HistoryIsHonest(c)
  BY <1>2 DEF HangInv, HookInv
<1>4. /\ running \in Cores /\ pc \in [Cores -> Addrs] /\ pc[running] \in Addrs
      /\ last_pc = <<last_pc[1], last_pc[2]>>
  BY <1>3 DEF HookTypeOK
<1> PICK core \in Cores : core = running
  BY <1>4
<1>5. CASE StopAtInsn
  <2>1. Hook(core, pc[core]) /\ pc' = pc /\ g_should_stop[core]
    BY <1>5 DEF StopAtInsn
  <2>2. OwnHangIsReal'
    BY <1>3, <1>4, <2>1, HookBlamesRightly
  <2>3. \A c \in Cores \ {core} : HistoryIsHonest(c)'
    BY <1>3, <1>4, <2>1, HookSparesOthers
  <2>4. Insn[pc[core]] # "WFE" /\ (last_core[1] = core => last_pc[1] # pc[core])
    BY <1>3, <1>4, <2>1 DEF HistoryIsHonest
  <2>5. /\ ~g_should_stop'[core]
        /\ last_pc' = <<pc[core], last_pc[1]>>
        /\ last_core' = <<core, last_core[1]>>
    BY <1>3, <1>4, <2>1, <2>4, HookHistory
  <2>6. HistoryIsHonest(core)'
    BY <2>1, <2>4, <2>5 DEF HistoryIsHonest
  <2>7. QED
    BY <2>2, <2>3, <2>6
<1>6. CASE ExecuteInsn
  <2>1. Hook(core, pc[core])
    BY <1>6 DEF ExecuteInsn
  <2>2. PICK a \in Succ[pc[core]] : pc' = [pc EXCEPT ![core] = a]
    BY <1>6 DEF ExecuteInsn
  <2>3. pc'[core] = a /\ \A c \in Cores \ {core} : pc'[c] = pc[c]
    BY <1>4, <2>2
  <2>4. OwnHangIsReal'
    BY <1>3, <1>4, <2>1, HookBlamesRightly
  <2>5. \A c \in Cores \ {core} : HistoryIsHonest(c)'
    BY <1>3, <1>4, <2>1, <2>3, HookSparesOthers
  <2>6. last_pc' = <<pc[core], last_pc[1]>> /\ (g_should_stop'[core] => Insn[pc[core]] = "WFE")
    BY <1>3, <1>4, <2>1, HookHistory
  <2>7. g_should_stop'[core] => Insn[a] # "WFE"
    BY <1>2, <1>4, <2>6 DEF NoDoubleWfe
  <2>8. last_pc' = <<a, a>> => a \in Succ[a]
    BY <2>6
  <2>9. HistoryIsHonest(core)'
    BY <2>3, <2>6, <2>7, <2>8 DEF HistoryIsHonest
  <2>10. QED
    BY <2>4, <2>5, <2>9
<1>7. CASE NextSlice \/ UNCHANGED hookVars
  BY <1>3, <1>7 DEF NextSlice, hookVars, HistoryIsHonest, OwnHangIsReal
<1>8. QED
  BY <1>5, <1>6, <1>7 DEF HookNext

\* With any number of cores and in any program without two WFEs in a row, three
\* hooks of one core that lead to a report name an instruction that can follow
\* itself: the address hooked again after a stop makes two in a row and never
\* three.
THEOREM OwnHangCorrect == HookSafety => [](NoDoubleWfe => OwnHangIsReal)
<1>1. HangInv => (NoDoubleWfe => OwnHangIsReal)
  BY DEF HangInv
<1>2. QED
  BY HangInit, HangNext, <1>1, PTL DEF HookSafety

\* One core hooks alone.
OneCoreIsAlone == NCores = 1 => (uc_quit => alone)

\* With one core, none but it is hooked.
LEMMA OneCoreAloneNext ==
  HookTypeOK /\ OneCoreIsAlone /\ [HookNext]_hookVars => OneCoreIsAlone'
<1> SUFFICES ASSUME HookTypeOK, OneCoreIsAlone, [HookNext]_hookVars, NCores = 1
             PROVE  uc_quit' => alone'
  BY DEF OneCoreIsAlone
<1>1. last_core = <<running, running>>
  BY DEF HookTypeOK, Cores
<1>2. CASE Hook(running, pc[running])
  BY <1>1, <1>2 DEF Hook, OneCoreIsAlone
<1>3. CASE NextSlice \/ UNCHANGED hookVars
  BY <1>3 DEF NextSlice, hookVars, OneCoreIsAlone
<1>4. QED
  BY <1>2, <1>3 DEF HookNext, StopAtInsn, ExecuteInsn

\* So on one core the hang detector raises no false alarm at all.
THEOREM OneCoreHangIsReal ==
  HookSafety => [](NCores = 1 /\ NoDoubleWfe => HangIsReal)
<1>1. HookInit => OneCoreIsAlone
  BY DEF HookInit, OneCoreIsAlone
<1>2. OneCoreIsAlone /\ (NoDoubleWfe => OwnHangIsReal)
        => (NCores = 1 /\ NoDoubleWfe => HangIsReal)
  BY DEF OneCoreIsAlone, OwnHangIsReal, HangIsReal
<1>3. QED
  BY <1>1, <1>2, OneCoreAloneNext, HookTypeCorrect, OwnHangCorrect, PTL DEF HookSafety
=============================================================================
