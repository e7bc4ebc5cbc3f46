------------------------------ MODULE MCWalker ------------------------------
(* Tables of two entries: one table at T and one behind it, at U, that may    *)
(* point at themselves, at each other or at a block, and one that reaches     *)
(* past the end of the bank.                                                  *)
EXTENDS Walker

T == DRAM + 1
U == T + E
AtTheEnd == DRAM + DRAM_SIZE - 1

A == Entry(3, T)
B == Entry(3, U)
C == Entry(3, AtTheEnd)
Block2MB == Entry(1, T)

\* What may be in the entries of the two tables.
MCMemories ==
  {m \in [1 .. 4 -> {Zero, A, B, C, Block2MB}] :
     /\ m[1] \in {A, B}
     /\ m[2] \in {B, C}
     /\ m[3] \in {A, Block2MB}
     /\ m[4] \in {Zero, A}}

MCGarbage == {Zero, A}

\* TTBR0 not set up, and TTBR1 with an ASID above 32 bits; TTBR0 at either end of
\* the bank.
MCTtbrs == {<<0, T + Word>>, <<DRAM, T>>, <<AtTheEnd, U>>}

\* Address 0; the first byte of the second page of the upper half; the last page
\* but one; and the last.
MCChecks == {0, Top + Page, Full - (2 * Page), Full - 1}
=============================================================================
