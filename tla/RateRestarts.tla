------------------------------ MODULE RateRestarts ------------------------------
(***************************************************************************)
(* The rate limiter over several lives of its process.  _requests is in    *)
(* memory only (dzt_proxy/rate_limiter.py:22), so that a restart, which    *)
(* the menu does between its options and a crash at any time, forgets what *)
(* every agent has used of its window.  The history of what was let        *)
(* through goes on, and so shows what the restarts cost.                   *)
(***************************************************************************)
EXTENDS RateLimiter, Sequences

CONSTANT MaxRestarts   \* bound on the number of restarts

ASSUME RestartsAssumption == MaxRestarts \in Nat

VARIABLE restarts      \* history: the moment of each restart, in order

restartsVars == << vars, restarts >>

\* The process dies and starts again, with an empty _requests.
Dies ==
    /\ Len(restarts) < MaxRestarts
    /\ Restart
    /\ restarts' = Append(restarts, clock)
    /\ UNCHANGED << clock, granted, refused >>

RestartsInit == Init /\ restarts = << >>

RestartsNext == (Next /\ UNCHANGED restarts) \/ Dies

RestartsSpec == RestartsInit /\ [][RestartsNext]_restartsVars
-------------------------------------------------------------------------------
\* The restarts in the window that ends with t.
RestartsIn(t) ==
    {i \in 1 .. Len(restarts) : restarts[i] > t - WindowSeconds /\ restarts[i] <= t}

\* No window of WindowSeconds, wherever it starts, lets more than
\* MaxRequestsPerWindow calls of one DID through in one life of the process: the
\* limit slides, so a burst across the border of two fixed windows is refused as
\* well.  A restart costs one more quota, in the windows it falls in, and no more: it
\* weighs on no window that begins after it.  All this wherever calls, cleanups and
\* restarts fall, those at one instant included (rate_limiter.py:21-24, 51-66).
WindowBound ==
    \A did \in Dids, t \in Epoch .. MaxClock :
        Cardinality(GrantedIn(did, t))
            <= MaxRequestsPerWindow * (1 + Cardinality(RestartsIn(t)))
===============================================================================
