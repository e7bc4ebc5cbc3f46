----------------------------- MODULE MCLifetime -----------------------------
(* Two entry points, and images that end before the process image begins,   *)
(* reach into it, or are as long as mem_init reads.                         *)
EXTENDS Lifetime

CONSTANTS e1, e2

MCEntries == {e1, e2}

MCFileSizes == {KiB(\h10000), KiB(\h1000000)}
=============================================================================
