----------------------------- MODULE MCExceptions -----------------------------
(* One set of argument registers for every branch of the monitor call switch. *)
EXTENDS Exceptions

Args(x0, x1, x2, x3) ==
  [n \in X |-> CASE n = 0 -> x0 [] n = 1 -> x1 [] n = 2 -> x2 [] n = 3 -> x3
                 [] OTHER -> 90 + n]

MCGuestRegs ==
  {Args(GetRandomBytes, 16, 0, 0),
   Args(ReadWriteRegister, 50, 0, 0),    \* read a register
   Args(ReadWriteRegister, 51, 0, 0),    \* read where there is none
   Args(ReadWriteRegister, 50, 1, 77),   \* write it, truncated
   Args(GetConfig, 10, 0, 0),
   Args(GetConfig, 99, 0, 0),            \* unknown: hangs
   Args(Panic, 1, 0, 0),
   Args(99, 1, 2, 3)}                    \* unknown function
    \cup {Args(CpuOn, t, e, e + 1) : t \in Cores, e \in {200, 300}}

MCGuestPcs    == {100}
MCRegAddrs    == {50}
MCRandomWords == {41, 42}
=============================================================================
