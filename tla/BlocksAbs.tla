----------------------------- MODULE BlocksAbs -----------------------------
(***************************************************************************)
(* What the block allocator promises: a block is free or has one holder,   *)
(* or was left behind by a holder that the power failed.                   *)
(***************************************************************************)
EXTENDS Integers

CONSTANTS Clients, Blocks

VARIABLES free, held

vars == <<free, held>>

Init == free \subseteq Blocks /\ held = [c \in Clients |-> {}]

Take(c, b) == /\ b \in free
              /\ free' = free \ {b}
              /\ held' = [held EXCEPT ![c] = @ \cup {b}]

Give(c, b) == /\ b \in held[c]
              /\ free' = free \cup {b}
              /\ held' = [held EXCEPT ![c] = @ \ {b}]

PowerOff == held' = [c \in Clients |-> {}] /\ UNCHANGED free

Next == (\E c \in Clients, b \in Blocks : Take(c, b) \/ Give(c, b)) \/ PowerOff

Spec == Init /\ [][Next]_vars
=============================================================================
