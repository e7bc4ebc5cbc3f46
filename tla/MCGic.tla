-------------------------------- MODULE MCGic --------------------------------
(* One GICD_SGIR word for each branch of the target test of mmio_gicd_write, *)
(* with different interrupt numbers.                                         *)
EXTENDS Gic

WordOthers == 65536 + 3        \* bits 16-23 = 1: the "others" branch
WordSelf   == 2 * 65536 + 5    \* bits 16-23 = 2: the "self" branch
WordList   == 8 * 65536 + 32768 + 15  \* other target (broadcast), NSATT bit set
MCWords    == {WordOthers, WordSelf, WordList}

FilterOthers == 16777216 + 4      \* GICD_SGIR_TARGET_OTHERS | 4, target list empty
FilterSelf   == 2 * 16777216 + 6  \* GICD_SGIR_TARGET_SELF | 6
MCFilterWords == {FilterOthers, FilterSelf}
=============================================================================
