------------------------------- MODULE PhysMap -------------------------------
(***************************************************************************)
(* Physical memory of the guest in memory of the host, from both sides:    *)
(* paddr_to_alloc, by which the emulator itself finds a physical address   *)
(* of the guest, and the map uc_core_run_slice gives to a core.            *)
(*                                                                         *)
(* Both compute the start of a bank as DRAM + (DRAM_SIZE * k).  DRAM_SIZE  *)
(* is an int, so the product overflows from k = 2 on (compilers fold it    *)
(* modulo 2^32); DRAM is an unsigned int, so the sum wraps at 2^32.        *)
(***************************************************************************)
EXTENDS Integers

CONSTANT DRAM_SIZE  \* 0x40000000, in any unit that divides it

ASSUME PhysMapAssumption == DRAM_SIZE \in Nat \ {0}

DRAM == 2 * DRAM_SIZE  \* 0x80000000
Word == 4 * DRAM_SIZE  \* 2^32

\* The host's memory behind the banks.
Banks == 0 .. 3
Block == [k \in Banks |-> CASE k = 0 -> "dram"   [] k = 1 -> "dram_2"
                            [] k = 2 -> "dram_3" [] k = 3 -> "dram_4"]

\* DRAM_SIZE * k as an int.
BankOffset(k) ==
  LET low == (DRAM_SIZE * k) % Word IN IF low < DRAM THEN low ELSE low - Word

\* DRAM + (DRAM_SIZE * k) as an unsigned int.
BankStart(k) == (DRAM + BankOffset(k)) % Word

\* No host memory is known for an address.
Nowhere == [block |-> "nullptr", at |-> 0]

\* The k-th test of paddr_to_alloc.  It excludes the start of the bank and
\* includes its end.
InBank(k, addr) == addr > BankStart(k) /\ addr <= BankStart(k + 1)

\* Where the emulator looks for physical address addr.
paddr_to_alloc(addr) ==
  IF \E k \in Banks : InBank(k, addr)
  THEN LET k == CHOOSE k \in Banks : InBank(k, addr)
       IN  [block |-> Block[k], at |-> addr - DRAM - BankOffset(k)]
  ELSE Nowhere

\* size units of the guest's physical memory from start on are those of block.
Region(block, start, size) == [block |-> block, start |-> start, size |-> size]

DramRegions_AllFour == {Region(Block[k], BankStart(k), DRAM_SIZE) : k \in Banks}

\* What uc_core_run_slice maps; the fourth bank is commented out.
DramRegions == {Region(Block[k], BankStart(k), DRAM_SIZE) : k \in 0 .. 2}

Inside(region, addr) ==
  addr >= region.start /\ addr < region.start + region.size

RegionAt(regions, addr) == CHOOSE r \in regions : Inside(r, addr)

\* What the guest finds at addr when regions are mapped.
GuestSees(regions, addr) ==
  IF \E r \in regions : Inside(r, addr)
  THEN LET r == RegionAt(regions, addr)
       IN  [block |-> r.block, at |-> addr - r.start]
  ELSE Nowhere
=============================================================================
