------------------------------- MODULE MCPlic -------------------------------
(* Instances of Plic for TLC. *)
EXTENDS Plic
AllDevices == <<"timer", "uart", "disk">>
=============================================================================
