------------------------------- MODULE MCCpu -------------------------------
(* Instance of CpuRun for TLC: operands at the edges of a byte and of its   *)
(* sign, and decimal operands that carry.                                   *)
EXTENDS CpuRun
=============================================================================
