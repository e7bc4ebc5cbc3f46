------------------------------- MODULE MCUart -------------------------------
(* A letter with bits above the low byte, a newline, a NUL, and a byte above *)
(* 0x7F.                                                                     *)
EXTENDS Uart

MCWords == {\h161, \hA, 0, \hDD}
=============================================================================
