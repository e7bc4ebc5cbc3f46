----------------------------- MODULE MCRegisters -----------------------------
(* Offsets at and around both ends of every array, and inside a word.        *)
EXTENDS Registers

Ends(layout) ==
  UNION {{r.first, r.first + 1, r.final, r.final + 1} : r \in layout}

MCGicdAddrs == {\h4, \h8, \hF00} \cup Ends(GicdLayout)

\* Without NSAPR, whose elements are not where gicc.cpp:24 says.
MCGiccAddrs == Ends(GiccLayout) \ (\hE0 .. \hFB)

MCMcAddrs == {\h50} \cup Ends(McLayout)

MCAddrs == [dev \in Devices |-> CASE dev = "gicd" -> MCGicdAddrs
                                  [] dev = "gicc" -> MCGiccAddrs
                                  [] dev = "mc"   -> MCMcAddrs
                                  [] OTHER        -> {0}]

MCNsaprAddrs ==
  [dev \in Devices |-> IF dev = "gicc" THEN Ends(GiccLayout) \cup (\hE0 .. \hFF) ELSE {}]
=============================================================================
