----------------------------- MODULE MCEmulator -----------------------------
(* Two GICD_SGIR words, one to the other core and one to the writer, are      *)
(* enough to fill any queue; MCGic has every branch of the target test.       *)
EXTENDS Emulator

CONSTANT e1

MCEntries == {e1}

WordOthers == 65536 + 32768 + 3  \* with the NSATT bit
WordSelf   == 2 * 65536 + 5
MCWords    == {WordOthers, WordSelf}
=============================================================================
