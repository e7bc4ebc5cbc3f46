------------------------------- MODULE HookCode -------------------------------
(***************************************************************************)
(* hook_code of main.cpp, called before every guest instruction: it ends a *)
(* core's slice after a WFE that has no event to consume, and asks the     *)
(* emulator to quit when it believes that a core hangs.                    *)
(*                                                                         *)
(* All cores are online.  A guest program is a set of addresses, what is   *)
(* at each of them and where each may lead.                                *)
(***************************************************************************)
EXTENDS GuestCores

CONSTANTS
  Addrs,       \* the addresses of the guest's code
  Insn,        \* Insn[a]: "SEVL", "WFE" or "other"
  Succ,        \* Succ[a]: where the instruction at a may lead
  Starts,      \* where cores begin
  SliceInsns,  \* instructions of a slice (the code's 0x10000)
  NoAddr       \* last_pc before the first instruction

ASSUME HookAssumption ==
  /\ Insn \in [Addrs -> {"SEVL", "WFE", "other"}]
  /\ Succ \in [Addrs -> (SUBSET Addrs) \ {{}}]
  /\ Starts \subseteq Addrs
  /\ SliceInsns \in Nat \ {0}
  /\ NoAddr \notin Addrs

VARIABLES
  pc,             \* pc[c]: the next instruction of core c
  running,        \* the core whose slice it is
  left,           \* instructions left in the slice
  g_has_sevl,     \* g_has_sevl[c]: an event waits for core c's next WFE
  g_should_stop,  \* g_should_stop[c]: core c is to stop at its next instruction
  last_pc,        \* the last two addresses hooked, newest first, of any core
  uc_quit,
  \* History, read by properties only:
  owes,           \* the running core has executed a WFE without an event in
                  \* this slice
  blamed,         \* the address hook_code reported as a hang
  last_core,      \* the cores of the last two hooks, newest first
  alone           \* the report was made of three hooks of one core

hookVars == <<pc, running, left, g_has_sevl, g_should_stop, last_pc, uc_quit,
              owes, blamed, last_core, alone>>

-----------------------------------------------------------------------------
\* SEVL leaves an event, WFE consumes it.
HasSevl(core, insn) ==
  IF insn = "other" THEN g_has_sevl[core] ELSE insn = "SEVL"

ShouldStop_SharedFlag(core, insn) ==
  insn = "WFE" /\ ~\E c \in Cores : g_has_sevl[c]

ShouldStop_NotReset(core, insn) ==
  g_should_stop[core] \/ (insn = "WFE" /\ ~g_has_sevl[core])

\* A WFE without an event: the core is to stop at the next instruction.  (The
\* flag was cleared at the top of the hook, whatever it was.)
ShouldStop(core, insn) == insn = "WFE" /\ ~g_has_sevl[core]

LooksHung_OneApart(address) == last_pc[2] = address

\* The same address three times in a row, on whichever cores.
LooksHung(address) == last_pc[1] = address /\ last_pc[1] = last_pc[2]

Remember_NoShift(address) == <<address, last_pc[2]>>

Remember(address) == <<address, last_pc[1]>>

\* hook_code at address, on core.
Hook(core, address) ==
  /\ g_has_sevl'    = [g_has_sevl EXCEPT ![core] = HasSevl(core, Insn[address])]
  /\ g_should_stop' = [g_should_stop EXCEPT ![core] = ShouldStop(core, Insn[address])]
  /\ IF LooksHung(address) /\ ~uc_quit
       THEN /\ uc_quit' = TRUE
            /\ blamed' = address
            /\ alone' = (last_core = <<core, core>>)
       ELSE UNCHANGED <<uc_quit, blamed, alone>>
  /\ last_pc' = Remember(address)
  /\ last_core' = <<core, last_core[1]>>

\* The hook finds the core told to stop: uc_emu_stop keeps the instruction from
\* being executed and ends the slice.  The rest of the hook runs all the same.
StopAtInsn ==
  /\ left > 0
  /\ g_should_stop[running]
  /\ Hook(running, pc[running])
  /\ left' = 0
  /\ UNCHANGED <<pc, running, owes>>

\* The hook is followed by the instruction.
ExecuteInsn ==
  /\ left > 0
  /\ ~g_should_stop[running]
  /\ Hook(running, pc[running])
  /\ \E a \in Succ[pc[running]] : pc' = [pc EXCEPT ![running] = a]
  /\ left' = left - 1
  /\ owes' = (owes \/ (Insn[pc[running]] = "WFE" /\ ~g_has_sevl[running]))
  /\ UNCHANGED running

NextSlice_NoWrap ==
  /\ left = 0
  /\ ~uc_quit
  /\ running' = running + 1
  /\ left' = SliceInsns
  /\ owes' = FALSE
  /\ UNCHANGED <<pc, g_has_sevl, g_should_stop, last_pc, uc_quit, blamed,
                 last_core, alone>>

\* uc_run_stuff gives the next core a slice, until uc_quit is found set.
NextSlice ==
  /\ left = 0
  /\ ~uc_quit
  /\ running' = (running + 1) % NCores
  /\ left' = SliceInsns
  /\ owes' = FALSE
  /\ UNCHANGED <<pc, g_has_sevl, g_should_stop, last_pc, uc_quit, blamed,
                 last_core, alone>>

HookInit ==
  /\ pc \in [Cores -> Starts]
  /\ running = 0
  /\ left = SliceInsns
  /\ g_has_sevl    = [c \in Cores |-> FALSE]
  /\ g_should_stop = [c \in Cores |-> FALSE]
  /\ last_pc = <<NoAddr, NoAddr>>
  /\ uc_quit = FALSE
  /\ owes    = FALSE
  /\ blamed  = NoAddr
  /\ last_core = <<0, 0>>
  /\ alone = FALSE

HookNext == StopAtInsn \/ ExecuteInsn \/ NextSlice

HookSafety == HookInit /\ [][HookNext]_hookVars

\* The host thread keeps running.
HookSpec == HookSafety /\ WF_hookVars(HookNext)

-----------------------------------------------------------------------------
\* Every variable has its type.
HookTypeOK ==
  /\ pc \in [Cores -> Addrs]
  /\ running \in Cores
  /\ left \in 0 .. SliceInsns
  /\ g_has_sevl \in [Cores -> BOOLEAN]
  /\ g_should_stop \in [Cores -> BOOLEAN]
  /\ last_pc \in (Addrs \cup {NoAddr}) \X (Addrs \cup {NoAddr})
  /\ uc_quit \in BOOLEAN
  /\ owes \in BOOLEAN
  /\ blamed \in Addrs \cup {NoAddr}
  /\ last_core \in Cores \X Cores
  /\ alone \in BOOLEAN

\* A core that executed a WFE with no event of its own executes nothing more in
\* that slice: the stop is delayed to the next instruction's hook and still
\* neither missed nor given to another core (main.cpp:559-563, 569-572).
WfeEndsSlice ==
  [][owes => UNCHANGED pc]_hookVars

\* When the emulator quits for a hang, the instruction it names can indeed
\* follow itself: "Core %u: Hang at" (main.cpp:579).
HangIsReal == uc_quit => blamed \in Succ[blamed]

\* So it is when three hooks of one core led to the report, whatever became of
\* its slices between them: a stop that hooks an instruction a second time does
\* not count as the instruction having followed itself (main.cpp:559-563,
\* 577-581, 599-600).
OwnHangIsReal == uc_quit /\ alone => blamed \in Succ[blamed]

\* The address of an endless loop of one instruction that is not a WFE.
Spins(a) == Succ[a] = {a} /\ Insn[a] # "WFE"

\* A core that spins on one instruction is found out (main.cpp:577-581).
SpinIsCaught ==
  \A c \in Cores : (\E a \in Addrs : Spins(a) /\ pc[c] = a) ~> uc_quit

\* A WFE that may be reached from a WFE: the hook that stops the core before it
\* tells the core to stop again.
BehindWfe(a) == Insn[a] = "WFE" /\ \E b \in Addrs : Insn[b] = "WFE" /\ a \in Succ[b]

\* No core stays at an instruction that leads elsewhere, unless the emulator
\* quits: a stop costs the slice and no more, except before the second of two
\* WFEs in a row (main.cpp:559-572).
CoresProgress ==
  \A c \in Cores : \A a \in Addrs :
    pc[c] = a /\ a \notin Succ[a] /\ ~BehindWfe(a) ~> pc[c] # a \/ uc_quit
=============================================================================
