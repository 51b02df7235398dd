---------------------------- MODULE MCRateLimiter ----------------------------
(* Instances of RateRestarts for TLC: see rate_window.cfg.                    *)
EXTENDS RateRestarts, TLC

CallNames == Permutations(Calls)
==============================================================================
