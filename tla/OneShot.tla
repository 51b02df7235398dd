-------------------------------- MODULE OneShot --------------------------------
(***************************************************************************)
(* What replay protection promises: every token is good for one use.       *)
(***************************************************************************)
CONSTANT Tokens

VARIABLE uses   \* how many times each token has been used

Init == uses = [t \in Tokens |-> 0]

Use(t) == uses[t] = 0 /\ uses' = [uses EXCEPT ![t] = 1]

Next == \E t \in Tokens : Use(t)

Spec == Init /\ [][Next]_uses
================================================================================
