------------------------------- MODULE Walker -------------------------------
(***************************************************************************)
(* The report of an access to memory that is not there: hook_mem_invalid,  *)
(* and hook_exception's prefetch abort, walk the guest's translation       *)
(* tables (uc_mmu_walk, uc_mmu_level_iterate) and print the entries that   *)
(* concern the address.                                                    *)
(*                                                                         *)
(* Physical addresses are in units of a table entry (8 bytes).  The guest  *)
(* does not run while the emulator walks.                                  *)
(***************************************************************************)
EXTENDS GuestCores, PhysMap, Sequences

CONSTANTS
  E,         \* entries of a table (TTB_ENTRIES, 512)
  Page,      \* bytes of a page (0x1000), in any unit that divides it
  Memories,  \* what dram may hold: functions on the indices of its entries
             \* that are not 0
  Garbage,   \* what may be read beside dram
  Ttbrs,     \* what a core's TTBR0_EL1 and TTBR1_EL1 may hold: pairs
  Checks     \* the addresses that are missing

\* ttb_vaddr_sizes: what an entry of each level covers.
ttb_vaddr_sizes == [level \in 0 .. 2 |-> CASE level = 0 -> Page * E * E
                                           [] level = 1 -> Page * E
                                           [] level = 2 -> Page]

Space == Page * E * E * E  \* what three levels cover, 2^39
Full  == 4 * Space         \* stands for 2^64
Top   == Full - Space      \* 0xffffff8000000000

\* An entry of a table.  The walk does nothing with its attributes but to print
\* them; an entry is 0 when nothing is in it.
Entry(type, addr) == [type |-> type, addr |-> addr]
Zero == Entry(0, 0)

ASSUME WalkerAssumption ==
  /\ E \in Nat \ {0} /\ Page \in Nat \ {0}
  /\ \A m \in Memories : /\ DOMAIN m \subseteq 0 .. DRAM_SIZE - 1
                         /\ \A o \in DOMAIN m : m[o].addr \in Nat
  /\ \A val \in Garbage : val.addr \in Nat
  /\ Ttbrs \subseteq Nat \X Nat
  /\ Checks \subseteq 0 .. Full - 1

\* The numbers of unicorn's uc_mem_type and uc_err that hook_mem_invalid mixes.
UC_MEM_READ_UNMAPPED  == 19
UC_MEM_WRITE_UNMAPPED == 20
UC_MEM_FETCH_UNMAPPED == 21
UC_ERR_FETCH_UNMAPPED == 8

PrefetchAbort == 3  \* an exception, not a uc_mem_type

VARIABLES
  memory,   \* what dram holds
  ttbr,     \* TTBR0_EL1 and TTBR1_EL1 of each core
  walker,   \* "guest", "walk", "stopped" or "crashed"
  core,     \* the core whose access it is,
  cause,    \* why,
  check,    \* and to where
  todo,     \* the roots that are still to be walked
  stack,    \* the calls of uc_mmu_level_iterate, innermost first
  printed,  \* the entries printed in this walk
  message   \* the last line of the report

walkVars ==
  <<memory, ttbr, walker, core, cause, check, todo, stack, printed, message>>

-----------------------------------------------------------------------------
Bad_Signed(addr) == addr > DRAM + DRAM_SIZE

\* addr - DRAM > DRAM_SIZE, of uint64_t.
Bad(addr) == addr < DRAM \/ addr - DRAM > DRAM_SIZE

\* Where entry k of the table at addr is read: only the table's first byte is
\* looked up.
Location(addr, k) ==
  LET loc == paddr_to_alloc(addr) IN [loc EXCEPT !.at = @ + k]

InDram(loc) == loc.block = "dram" /\ loc.at \in 0 .. DRAM_SIZE - 1

Dram(o) == IF o \in DOMAIN memory THEN memory[o] ELSE Zero

\* What may be read there.
Found(loc) == IF InDram(loc) THEN {Dram(loc.at)} ELSE Garbage

\* A call of uc_mmu_level_iterate.
Frame(addr, base, level) ==
  [addr |-> addr, base |-> base, level |-> level, k |-> 0]

\* The calls when one more is made; for a bad address it returns at once.
Call(frame, calls) == IF Bad(frame.addr) THEN calls ELSE <<frame>> \o calls

\* base + size * k | 0xffffff8000000000
Vaddr_NoBase(frame) == Top + ((ttb_vaddr_sizes[frame.level] * frame.k) % Space)

Vaddr(frame) ==
  Top + ((frame.base + ttb_vaddr_sizes[frame.level] * frame.k) % Space)

\* Address 0 asks for every entry; else those whose first page, or the byte
\* after it, is the missing address.  The end of the last page wraps to 0.
Concerns(vaddr) == check = 0 \/ (check >= vaddr /\ check <= (vaddr + Page) % Full)

Descends_AnyLevel(frame, val) == val.type = 3

Descends(frame, val) == val.type = 3 /\ frame.level < 2

Advance_Forgets(frame) == frame

Advance(frame) == [frame EXCEPT !.k = @ + 1]

Walking == walker = "walk" /\ stack # <<>>

\* The loop of uc_mmu_level_iterate looks at one entry, val.
Examine(val) ==
  LET frame == Head(stack)
      rest  == <<Advance(frame)>> \o Tail(stack)
      vaddr == Vaddr(frame)
      line  == [level |-> frame.level, vaddr |-> vaddr, val |-> val]
  IN  IF val = Zero
        THEN stack' = rest /\ UNCHANGED printed
        ELSE /\ printed' = IF Concerns(vaddr) THEN printed \cup {line} ELSE printed
             /\ stack' = IF Descends(frame, val)
                         THEN Call(Frame(val.addr, vaddr, frame.level + 1), rest)
                         ELSE rest

ExamineEntry ==
  /\ Walking
  /\ Head(stack).k < E
  /\ \E val \in Found(Location(Head(stack).addr, Head(stack).k)) : Examine(val)
  /\ UNCHANGED <<memory, ttbr, walker, core, cause, check, todo, message>>

\* A read beside dram may also end the process.
CrashAtEntry ==
  /\ Walking
  /\ Head(stack).k < E
  /\ ~InDram(Location(Head(stack).addr, Head(stack).k))
  /\ walker' = "crashed"
  /\ UNCHANGED <<memory, ttbr, core, cause, check, todo, stack, printed, message>>

\* uc_mmu_level_iterate returns.
TableDone ==
  /\ Walking
  /\ Head(stack).k = E
  /\ stack' = Tail(stack)
  /\ UNCHANGED <<memory, ttbr, walker, core, cause, check, todo, printed, message>>

\* uc_mmu_walk goes on with the next root.
NextRoot ==
  /\ walker = "walk" /\ stack = <<>> /\ todo # <<>>
  /\ stack' = Call(Frame(Head(todo), 0, 0), <<>>)
  /\ todo'  = Tail(todo)
  /\ UNCHANGED <<memory, ttbr, walker, core, cause, check, printed, message>>

-----------------------------------------------------------------------------
Low32(reg) == reg % Word

\* The roots uc_mmu_walk uses for core c, without what lies above 32 bits.
Roots(c) == <<Low32(ttbr[c][1]), Low32(ttbr[c][2])>>

\* Those of all cores, in turn.
AllRoots ==
  [k \in 1 .. 2 * NCores |-> Roots((k - 1) \div 2)[1 + ((k - 1) % 2)]]

StartWalk(roots) ==
  /\ walker' = "walk"
  /\ todo'  = roots
  /\ UNCHANGED message

GiveUp ==
  /\ walker' = "stopped"
  /\ UNCHANGED <<todo, message>>

\* The switch of hook_mem_invalid; a fetch has a label of another enumeration.
Dispatch(c, type) ==
  CASE type \in {UC_MEM_READ_UNMAPPED, UC_ERR_FETCH_UNMAPPED, PrefetchAbort} ->
         StartWalk(Roots(c))
    [] type = UC_MEM_WRITE_UNMAPPED -> StartWalk(AllRoots)
    [] OTHER -> GiveUp

\* unicorn calls hook_mem_invalid, or hook_exception for a prefetch abort.
MissingMemory(c, type, address) ==
  /\ walker = "guest"
  /\ core' = c /\ cause' = type /\ check' = address
  /\ Dispatch(c, type)
  /\ printed' = {}
  /\ UNCHANGED <<memory, ttbr, stack>>

ReportOf ==
  [type \in {UC_MEM_READ_UNMAPPED, UC_MEM_WRITE_UNMAPPED, UC_ERR_FETCH_UNMAPPED} |->
     CASE type = UC_MEM_READ_UNMAPPED  -> "READ"
       [] type = UC_MEM_WRITE_UNMAPPED -> "WRITE"
       [] type = UC_ERR_FETCH_UNMAPPED -> "EXEC"]

WalkDone == walker = "walk" /\ stack = <<>> /\ todo = <<>>

\* After a prefetch abort the guest goes on; else false is returned and
\* uc_emu_start fails.
EndReport ==
  /\ WalkDone
  /\ IF cause = PrefetchAbort
       THEN walker' = "guest" /\ UNCHANGED message
       ELSE walker' = "stopped" /\ message' = ReportOf[cause]
  /\ UNCHANGED <<memory, ttbr, core, cause, check, todo, stack, printed>>

WalkInit ==
  /\ memory \in Memories
  /\ ttbr \in [Cores -> Ttbrs]
  /\ walker   = "guest"
  /\ core    = 0
  /\ cause   = PrefetchAbort
  /\ check   = 0
  /\ todo    = <<>>
  /\ stack   = <<>>
  /\ printed = {}
  /\ message = "none"

WalkStep == ExamineEntry \/ CrashAtEntry \/ TableDone \/ NextRoot \/ EndReport

Causes == {UC_MEM_READ_UNMAPPED, UC_MEM_WRITE_UNMAPPED, UC_MEM_FETCH_UNMAPPED,
           PrefetchAbort}

WalkNext ==
  \/ WalkStep
  \/ \E c \in Cores, type \in Causes, address \in Checks :
       MissingMemory(c, type, address)

WalkSafety == WalkInit /\ [][WalkNext]_walkVars

\* The host thread keeps running.
WalkSpec == WalkSafety /\ WF_walkVars(WalkStep)

-----------------------------------------------------------------------------
\* Every variable has its type; the calls are nested three deep at most, so
\* that ttb_vaddr_sizes is read where it is defined.
WalkTypeOK ==
  /\ walker \in {"guest", "walk", "stopped", "crashed"}
  /\ core \in Cores /\ cause \in Causes /\ check \in Checks \cup {0}
  /\ Len(todo) <= 2 * NCores
  /\ Len(stack) <= 3
  /\ \A d \in DOMAIN stack :
       stack[d].level = Len(stack) - d /\ stack[d].k \in 0 .. E
  /\ message \in {"none", "READ", "WRITE", "EXEC"}

\* A table that lies within the first bank, its first byte excepted.
WellInside(addr) == DRAM < addr /\ addr + E <= DRAM + DRAM_SIZE

\* The test at the top of uc_mmu_level_iterate lets no address through, however
\* far from DRAM, but of tables in the bank, and what the emulator reads of them
\* is what the guest has there, found by different arithmetic; excepted are the
\* two at the ends of the bank: a table at its first byte, and tables that begin
\* in it and end beyond (main.cpp:72-75, 127, 135, 731).
TablesAsGuestSees ==
  \A d \in DOMAIN stack :
    \/ /\ WellInside(stack[d].addr)
       /\ \A k \in 0 .. E - 1 :
            Location(stack[d].addr, k) = GuestSees(DramRegions, stack[d].addr + k)
    \/ stack[d].addr = DRAM
    \/ stack[d].addr > DRAM + DRAM_SIZE - E

\* The guest's own translation: the entries it uses for a page of its upper
\* half, as long as they are tables within the first bank.
Index(va, level) == (va % (ttb_vaddr_sizes[level] * E)) \div ttb_vaddr_sizes[level]

EntryOf(table, va, level) == Dram(table + Index(va, level) - DRAM)

IsTable(val) == val.type = 3 /\ WellInside(val.addr)

PageOf(va) == va - (va % Page)

Translates(root, va, val) ==
  /\ va >= Top
  /\ WellInside(root)
  /\ LET first  == EntryOf(root, va, 0)
         second == EntryOf(first.addr, va, 1)
     IN  /\ IsTable(first)
         /\ IsTable(second)
         /\ val = EntryOf(second.addr, va, 2)
         /\ val # Zero

\* When a walk for an address is over, the entry of its page is among those
\* printed, if there is one in the tables of TTBR1: whatever else those tables
\* hold, cycles and bad addresses included, and whatever TTBR0's hold.  Not so
\* for the last page of all, whose end wraps (main.cpp:140-153).
PageIsFound ==
  WalkDone /\ check < Full - Page =>
    \A val \in {memory[o] : o \in DOMAIN memory} :
      Translates(Roots(core)[2], check, val) =>
        [level |-> 2, vaddr |-> PageOf(check), val |-> val] \in printed

\* A walk ends, also of tables that point at themselves (main.cpp:149).
WalkEnds == (walker = "walk") ~> (walker # "walk")

\* "Missing memory is being EXEC" is reported when it is (main.cpp:654).
FetchReported ==
  walker = "stopped" /\ cause = UC_MEM_FETCH_UNMAPPED => message = "EXEC"
=============================================================================
