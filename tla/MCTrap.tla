------------------------------ MODULE MCTrap ------------------------------
(* Instance of Trap: init and one more process, two frames to look at.     *)
EXTENDS Trap
=============================================================================
