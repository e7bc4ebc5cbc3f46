------------------------------ MODULE MCHookCode ------------------------------
(* The kernel's spin lock: 0: SEVL, 1: WFE, 2: load and test, back to 1 while  *)
(* it is taken, else on to 3, which starts again, falls into 4: b . or, in one  *)
(* of the programs, goes to 5 and 6, two WFEs in a row, and back.             *)
EXTENDS HookCode

MCAddrs  == 0 .. 6
MCInsn   == [a \in MCAddrs |-> CASE a = 0 -> "SEVL" [] a \in {1, 5, 6} -> "WFE"
                                 [] OTHER -> "other"]
MCSucc   == [a \in MCAddrs |-> CASE a = 0 -> {1}
                                 [] a = 1 -> {2}
                                 [] a = 2 -> {1, 3}
                                 [] a = 3 -> {0, 4}
                                 [] a = 4 -> {4}
                                 [] a = 5 -> {0}
                                 [] a = 6 -> {0}]
MCStarts == 0 .. 3

\* With the two WFEs.
MCSuccWfes == [MCSucc EXCEPT ![3] = {0, 4, 5}, ![5] = {6}]

\* Without the b . at the end.
MCSuccNoSpin == [MCSucc EXCEPT ![3] = {0}]
=============================================================================
