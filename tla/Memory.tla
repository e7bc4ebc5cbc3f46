------------------------------- MODULE Memory -------------------------------
(***************************************************************************)
(* The two sides of physical memory: the emulator's life, which allocates, *)
(* loads and maps it, and the walks over it.  They share no state, only    *)
(* the addresses of PhysMap; a behaviour exercises one of them, side, and  *)
(* leaves the other alone.                                                 *)
(***************************************************************************)
EXTENDS Lifetime, Walker

VARIABLE side

lifetimeVars == <<lifeVars, schedVars>>
memVars == <<side, lifetimeVars, walkVars>>

MemInit ==
  /\ side \in {"lifetime", "walker"}
  /\ LifeInit
  /\ WalkInit
  /\ side = "lifetime" => /\ memory = CHOOSE m \in Memories : TRUE
                          /\ ttbr = [c \in Cores |-> CHOOSE pair \in Ttbrs : TRUE]

LifetimeStep == side = "lifetime" /\ LifeNext /\ UNCHANGED <<side, walkVars>>
WalkerStep   == side = "walker" /\ WalkNext /\ UNCHANGED <<side, lifetimeVars>>

MemSafety == MemInit /\ [][LifetimeStep \/ WalkerStep]_memVars

\* The host thread keeps running.
MemSpec ==
  /\ MemSafety
  /\ WF_memVars(LifetimeStep)
  /\ WF_memVars(side = "walker" /\ WalkStep /\ UNCHANGED <<side, lifetimeVars>>)

\* Every variable of either side has its type.
MemTypeOK == LifeTypeOK /\ WalkTypeOK
=============================================================================
