----------------------------- MODULE MCBlocks -----------------------------
(* Instance of Blocks for TLC. *)
EXTENDS Blocks
=============================================================================
