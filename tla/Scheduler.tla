------------------------------ MODULE Scheduler ------------------------------
(***************************************************************************)
(* The round-robin scheduler of main.cpp: uc_run_stuff, the slices of      *)
(* uc_core_run_slice, and the guest's calls that steer them (smcCpuOn,     *)
(* svc 7, the hang detector, smcGetConfig of an unknown item).             *)
(*                                                                         *)
(* One host thread runs one core at a time for a slice of at most          *)
(* SliceInsns guest instructions.  Everything between two guest            *)
(* instructions is atomic; a guest instruction is one step.                *)
(***************************************************************************)
EXTENDS GuestCores

CONSTANTS
  Entries,     \* what smcCpuOn names: pairs of entry point and context
  SliceInsns,  \* instructions of a slice (the code's 0x10000)
  Reset,       \* a core that was never told where to start
  Running      \* a core that goes on where its last slice ended

ASSUME SchedulerAssumption ==
  /\ SliceInsns \in Nat
  /\ Reset \notin Entries /\ Running \notin Entries /\ Reset # Running

VARIABLES
  cores_online,  \* cores_online[c], set by smcCpuOn and never cleared
  resume,        \* resume[c]: where core c's next slice begins
  phase,         \* where uc_run_stuff is
  i,             \* its loop variable
  uc_quit,       \* the request to stop
  err,           \* what uc_core_run_slice "returned" last, TRUE when not UC_ERR_OK
  mapped,        \* the cores that have the host's DRAM mapped
  left,          \* instructions left in the running slice
  \* History, read by properties only:
  turns          \* turns[c][d]: slices of d since c was given one or could be:
                 \* none, one, or 2 for more

schedVars == <<cores_online, resume, phase, i, uc_quit, err, mapped, left, turns>>

\* "while": at the test of the while loop; "for": at the tests of the for
\* loop; "slice": in uc_emu_start for core i; "done": past both loops; "hung":
\* for ever in the while(1) of smcGetConfig.
Phases == {"while", "for", "slice", "done", "hung"}

\* Cores above the first offline one are not run, online or not.
Runnable(c) == \A d \in 0 .. c : cores_online[d]

NoTurns == [d \in Cores |-> 0]

-----------------------------------------------------------------------------
WhileTest_IgnoresErr ==
  /\ phase = "while"
  /\ IF uc_quit
       THEN phase' = "done" /\ UNCHANGED i
       ELSE phase' = "for" /\ i' = 0
  /\ UNCHANGED <<cores_online, resume, uc_quit, err, mapped, left, turns>>

\* while (!err && !uc_quit)
WhileTest ==
  /\ phase = "while"
  /\ IF err \/ uc_quit
       THEN phase' = "done" /\ UNCHANGED i
       ELSE phase' = "for" /\ i' = 0
  /\ UNCHANGED <<cores_online, resume, uc_quit, err, mapped, left, turns>>

\* The test after the for loop.
AfterPass(quit) == IF quit THEN "done" ELSE "while"

GoesOn_IgnoresQuit == i # NCores /\ cores_online[i]  \* for the mutants

\* The for loop is left at its bound, at the first offline core, or to quit.
GoesOn == i # NCores /\ cores_online[i] /\ ~uc_quit

EndPass ==
  /\ phase = "for"
  /\ ~GoesOn
  /\ phase' = AfterPass(uc_quit)
  /\ UNCHANGED <<cores_online, resume, i, uc_quit, err, mapped, left, turns>>

OneMore(n) == IF n = 2 THEN 2 ELSE n + 1

CountTurn(d) ==
  turns' = [c \in Cores |->
              IF c = d \/ ~Runnable(c) THEN NoTurns
                                       ELSE [turns[c] EXCEPT ![d] = OneMore(@)]]

\* Core i gets its slice: its DRAM is mapped and uc_emu_start begins at its pc.
\* (The call of mmio_gicd_handle_interrupts before it is module Emulator's.)
BeginSlice ==
  /\ phase = "for"
  /\ GoesOn
  /\ phase'  = "slice"
  /\ mapped' = mapped \cup {i}
  /\ left'   = SliceInsns
  /\ resume' = [resume EXCEPT ![i] = Running]
  /\ CountTurn(i)
  /\ UNCHANGED <<cores_online, i, uc_quit, err>>

Unmap_ForgottenOnError(failed) == mapped' = IF failed THEN mapped ELSE mapped \ {i}

Unmap(failed) == mapped' = mapped \ {i}

\* uc_emu_start returns: the budget is used up, WFE stopped the core, or it
\* failed, which asks the emulator to quit.  uc_core_run_slice has no return
\* statement, so err gets either value whatever happened; when it is an error
\* the for loop is left.
EndSlice ==
  /\ phase = "slice"
  /\ \E failed \in BOOLEAN :
       /\ uc_quit' = (uc_quit \/ failed)
       /\ Unmap(failed)
  /\ err' \in BOOLEAN
  /\ left' = 0
  /\ IF err' THEN phase' = AfterPass(uc_quit') /\ UNCHANGED i
             ELSE phase' = "for" /\ i' = i + 1
  /\ UNCHANGED <<cores_online, resume, turns>>

-----------------------------------------------------------------------------
Executes_PastEnd ==
  /\ phase = "slice"
  /\ left >= 0
  /\ left' = left - 1
  /\ UNCHANGED <<i, err, mapped, turns>>

Executes_Unlimited ==
  /\ phase = "slice"
  /\ left > 0
  /\ UNCHANGED <<left, i, err, mapped, turns>>

\* The guest on core i executes one instruction.
Executes ==
  /\ phase = "slice"
  /\ left > 0
  /\ left' = left - 1
  /\ UNCHANGED <<i, err, mapped, turns>>

\* An instruction that does not concern the scheduler.
PlainInsn ==
  /\ Executes
  /\ UNCHANGED <<cores_online, resume, phase, uc_quit>>

CpuOn_NoEntry(c, e) ==
  /\ Executes
  /\ cores_online' = [cores_online EXCEPT ![c] = TRUE]
  /\ resume' = resume
  /\ UNCHANGED <<phase, uc_quit>>

\* smcCpuOn: c's X0 and PC are written and it is online.  When c is the caller
\* itself, the end of hook_exception writes X0 and PC again, so it just goes on;
\* a core already online is sent to the new entry point.
CpuOn(c, e) ==
  /\ Executes
  /\ cores_online' = [cores_online EXCEPT ![c] = TRUE]
  /\ resume' = IF c = i THEN resume ELSE [resume EXCEPT ![c] = e]
  /\ UNCHANGED <<phase, uc_quit>>

\* svc 7, or an instruction that makes the hang detector fire: the request to
\* quit is noted and the slice goes on.
RequestQuit ==
  /\ Executes
  /\ uc_quit' = TRUE
  /\ UNCHANGED <<cores_online, resume, phase>>

\* smcGetConfig of an item the emulator does not know never returns.
HangInGetConfig ==
  /\ Executes
  /\ phase' = "hung"
  /\ UNCHANGED <<cores_online, resume, uc_quit>>

-----------------------------------------------------------------------------
\* main has initialised all cores and put core 0 online at KADDRESS_800.
SchedInit ==
  /\ cores_online = [c \in Cores |-> c = 0]
  /\ resume \in {[c \in Cores |-> IF c = 0 THEN e ELSE Reset] : e \in Entries}
  /\ phase   = "while"
  /\ i       = 0
  /\ uc_quit = FALSE
  /\ err     = FALSE
  /\ mapped  = {}
  /\ left    = 0
  /\ turns   = [c \in Cores |-> NoTurns]

GuestStep ==
  \/ PlainInsn
  \/ \E c \in Cores, e \in Entries : CpuOn(c, e)
  \/ RequestQuit
  \/ HangInGetConfig

SchedNext == WhileTest \/ EndPass \/ BeginSlice \/ EndSlice \/ GuestStep

SchedSafety == SchedInit /\ [][SchedNext]_schedVars

\* The host thread keeps running.
SchedSpec == SchedSafety /\ WF_schedVars(SchedNext)

-----------------------------------------------------------------------------
\* Every variable has its type.
SchedTypeOK ==
  /\ cores_online \in [Cores -> BOOLEAN]
  /\ resume \in [Cores -> Entries \cup {Reset, Running}]
  /\ phase \in Phases
  /\ i \in 0 .. NCores
  /\ uc_quit \in BOOLEAN
  /\ err \in BOOLEAN
  /\ mapped \in SUBSET Cores
  /\ left \in 0 .. SliceInsns
  /\ turns \in [Cores -> [Cores -> 0 .. 2]]

Stopped == phase \in {"done", "hung"}

\* No two cores have the DRAM mapped at once, and none keeps it when its slice
\* is over, failed or not: "uc cores cannot share mappings, otherwise cores can
\* flush bad data, so just unmap after each slice has run" (main.cpp:729).
MappingExclusive ==
  mapped = IF phase \in {"slice", "hung"} THEN {i} ELSE {}

\* A core never starts at the reset state of its registers: it has been given
\* an entry point before it is found online, also when it was put online above
\* an offline core, by several callers, or by itself (main.cpp:420-423).
StartsWhereTold ==
  \A c \in Cores : cores_online[c] => resume[c] # Reset

\* From the moment a core can be run until it is, no other core gets a second
\* slice; the passes are cut short by offline cores, by cores coming online in
\* the middle of a pass and by errors (main.cpp:756-770).
FairTurns == \A c, d \in Cores : turns[c][d] <= 1

\* The strengthening of FairTurns that is inductive.  The cores below Passed
\* have had their slice in this pass.
Passed == IF phase = "for" THEN i ELSE i + 1

\* Which turns of others core c may have seen since its own: of the later cores
\* of this pass when c has had its slice in it, else of the later cores of the
\* last pass and the earlier ones of this.
MayHaveSeen(c, d) ==
  CASE phase \in {"for", "slice"} -> IF c < Passed THEN c < d /\ d < Passed
                                                   ELSE c < d \/ d < Passed
    [] phase = "while" /\ ~err    -> c < d
    [] OTHER                      -> TRUE

TurnsByPosition ==
  \A c, d \in Cores :
    turns[c][d] # 0 => turns[c][d] = 1 /\ Runnable(c) /\ MayHaveSeen(c, d)

\* Once the emulator is asked to quit, no core is given another slice: at most
\* the instructions left of the running one are executed (main.cpp:761, 769).
QuitEndsSlices == [][uc_quit => left' <= left /\ mapped' \subseteq mapped]_schedVars

\* A core that can be run gets a slice, unless the emulator stops first: a
\* guest cannot keep the emulator from the other cores.
RunnableRuns ==
  \A c \in Cores : Runnable(c) ~> ((phase = "slice" /\ i = c) \/ Stopped)

\* A request to quit stops the emulator, unless smcGetConfig has hung it.
QuitStops == uc_quit ~> Stopped
=============================================================================
