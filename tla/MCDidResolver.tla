---------------------------- MODULE MCDidResolver -----------------------------
(* Instances of DidResolver for TLC: did_resolution.cfg.                       *)
EXTENDS DidResolver, TLC

Names == Permutations(Callers) \cup Permutations(Keys)
===============================================================================
