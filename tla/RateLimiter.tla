------------------------------ MODULE RateLimiter ------------------------------
(***************************************************************************)
(* dzt_proxy/rate_limiter.py: at most MaxRequestsPerWindow calls of one    *)
(* DID are let through in any WindowSeconds.  check_rate_limit runs under  *)
(* _lock and, in the proxy, between two awaits: one step, at one instant.  *)
(* A timestamp of the list of a DID is a record of the call that appended  *)
(* it and the moment, so that equal moments of two calls stay two entries. *)
(*                                                                         *)
(* Proxy takes CheckRateLimit and Restart from here; Next is the component *)
(* alone, called by whoever wants, at any time, in one life of the process.*)
(* RateRestarts puts several lives together.                               *)
(***************************************************************************)
EXTENDS Integers, FiniteSets

CONSTANTS
    Calls,                 \* names of the calls of check_rate_limit
    Dids,
    MaxRequestsPerWindow,  \* MAX_REQUESTS_PER_WINDOW
    WindowSeconds,         \* WINDOW_SECONDS, in ticks
    CleanupInterval,       \* CLEANUP_INTERVAL, in ticks
    Epoch,                 \* the time at which the process starts
    MaxClock               \* bound on the clock

ASSUME RateAssumption ==
    /\ MaxRequestsPerWindow \in Nat \ {0}
    /\ WindowSeconds \in Nat \ {0}
    /\ CleanupInterval \in Nat \ {0}
    /\ Epoch \in Nat
    /\ MaxClock \in Nat

VARIABLES
    clock,
    requests,     \* _requests: the entries [call, at] of every DID
    lastCleanup,  \* _last_cleanup
    granted,      \* history: the calls of every DID let through, and when
    refused       \* history: the calls of every DID refused, and when

vars == << clock, requests, lastCleanup, granted, refused >>

\* [t for t in timestamps if t > cutoff]
Recent(entries) == {e \in entries : e.at > clock - WindowSeconds}

CleanupDue == clock - lastCleanup >= CleanupInterval

\* Faulty variant: no cleanup.
SweptNever == requests

\* _requests once _cleanup has run.  A DID without a timestamp is left out of
\* the dictionary by the code; here it has the empty set, as defaultdict says.
Swept == [d \in Dids |-> IF CleanupDue THEN Recent(requests[d]) ELSE requests[d]]

Timestamps(did) == Recent(Swept[did])

\* Faulty variant: <= for <.
AllowedOnceMore(did) == Cardinality(Timestamps(did)) <= MaxRequestsPerWindow

Allowed(did) == Cardinality(Timestamps(did)) < MaxRequestsPerWindow

\* Faulty variant: refused calls are recorded too.
CheckRateLimitCountingAll(call, did) ==
    /\ lastCleanup' = IF CleanupDue THEN clock ELSE lastCleanup
    /\ requests' = [Swept EXCEPT ![did] =
           Timestamps(did) \cup {[call |-> call, at |-> clock]}]

CheckRateLimit(call, did) ==
    /\ lastCleanup' = IF CleanupDue THEN clock ELSE lastCleanup
    /\ requests' = [Swept EXCEPT ![did] =
           IF Allowed(did)
           THEN Timestamps(did) \cup {[call |-> call, at |-> clock]}
           ELSE Timestamps(did)]

\* Faulty variant: a dict in place of the defaultdict.
EmptyPlainDict == [d \in {} |-> {}]

\* The module's globals when the process starts.
Empty == [d \in Dids |-> {}]
Restart == requests' = Empty /\ lastCleanup' = 0
-------------------------------------------------------------------------------
Init ==
    /\ clock = Epoch
    /\ requests = Empty
    /\ lastCleanup = 0
    /\ granted = Empty
    /\ refused = Empty

Made(c) == \E d \in Dids : \E e \in granted[d] \cup refused[d] : e.call = c

Call(c, did) ==
    /\ ~ Made(c)
    /\ CheckRateLimit(c, did)
    /\ LET record(log) == [log EXCEPT ![did] = @ \cup {[call |-> c, at |-> clock]}]
       IN  \/ Allowed(did) /\ granted' = record(granted) /\ UNCHANGED refused
           \/ ~ Allowed(did) /\ refused' = record(refused) /\ UNCHANGED granted
    /\ UNCHANGED clock

Tick ==
    /\ clock < MaxClock
    /\ clock' = clock + 1
    /\ UNCHANGED << requests, lastCleanup, granted, refused >>

Next == Tick \/ \E c \in Calls, did \in Dids : Call(c, did)
-------------------------------------------------------------------------------
Entries == [call : Calls, at : Nat]

\* Types.
TypeOK ==
    /\ clock \in Nat
    /\ lastCleanup \in Nat
    /\ requests \in [Dids -> SUBSET Entries]
    /\ granted \in [Dids -> SUBSET Entries]
    /\ refused \in [Dids -> SUBSET Entries]

\* The calls of a DID let through in the window that ends with t: those the
\* code would keep at t, t > cutoff being strict.
GrantedIn(did, t) ==
    {e \in granted[did] : e.at > t - WindowSeconds /\ e.at <= t}

\* A call is refused only when the window before it was full of calls let
\* through: refused calls do not count, so an agent that keeps retrying gets in
\* as soon as its old calls leave the window (rate_limiter.py:61-66), and the
\* calls of one DID never use up the window of another.
RefusalIsDeserved ==
    \A did \in Dids : \A e \in refused[did] :
        Cardinality(GrantedIn(did, e.at)) >= MaxRequestsPerWindow

\* The dictionary stays small however many DIDs come and go: a DID has at most
\* MaxRequestsPerWindow timestamps, and after any call, of any DID, no timestamp
\* is older than a window and the time between two cleanups together
\* (rate_limiter.py:27-41, 58-59).
MemoryBounded ==
    \A did \in Dids :
        /\ Cardinality(requests[did]) <= MaxRequestsPerWindow
        /\ \A old \in requests[did], d \in Dids :
               \A e \in granted[d] \cup refused[d] :
                   e.at - old.at < WindowSeconds + CleanupInterval
===============================================================================
