----------------------------- MODULE MCDevices -----------------------------
(* The constants of the register files, the UARTs and the timer.              *)
EXTENDS Devices, MCRegisters, MCUart, MCTimer
=============================================================================
