----------------------------- MODULE MCGbaClock -----------------------------
(***************************************************************************)
(* Constants for TLC: the sets of interrupts a guest enables.              *)
(***************************************************************************)
EXTENDS GbaClock

NoIrqs == {{}}
IrqSets == {{}, {VBlankIrq, <<"dma", 0>>}, {VCountIrq, <<"timer", 0>>}}
DisplayIrqSets == {{}, {VBlankIrq, VCountIrq}}
=============================================================================
