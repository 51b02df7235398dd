-------------------------- MODULE RateLimiterProofs ---------------------------
(***************************************************************************)
(* The invariants of RateRestarts, for every set of calls and agents,      *)
(* every limit, window and cleanup interval, and any number of restarts.   *)
(*                                                                         *)
(* In one life of the process the list of a DID holds all that was let     *)
(* through in the window, and its length is the count.  Over several lives *)
(* it does not; but what it lacks was let through before a restart of the  *)
(* window, and was no more than one quota for each (LostToRestarts).       *)
(***************************************************************************)
EXTENDS RateRestarts, FiniteSetTheorems, TLAPS

\* Nothing is recorded in the future.
NothingAhead == \A d \in Dids : \A e \in granted[d] \cup refused[d] : e.at <= clock

HistoryFinite == \A d \in Dids : IsFiniteSet(granted[d])

\* The process knows no call that it did not let through, and not too many of them.
ListsAreShort ==
    \A d \in Dids : /\ requests[d] \subseteq granted[d]
                    /\ Cardinality(requests[d]) <= MaxRequestsPerWindow

\* What was let through in a window that is not over, and is not in the list.
Unlisted(d, t) == GrantedIn(d, t) \ requests[d]

\* What is not in the list was lost in the restarts of the window.
LostToRestarts ==
    \A d \in Dids, t \in Nat :
        t >= clock => Cardinality(Unlisted(d, t))
                          <= MaxRequestsPerWindow * Cardinality(RestartsIn(t))

\* The bound, at every instant there will be.
WindowAlways ==
    \A d \in Dids, t \in Nat :
        Cardinality(GrantedIn(d, t))
            <= MaxRequestsPerWindow * (1 + Cardinality(RestartsIn(t)))

IInv ==
    /\ TypeOK /\ NothingAhead /\ HistoryFinite
    /\ restarts \in Seq(Nat)
    /\ ListsAreShort /\ LostToRestarts /\ WindowAlways

-------------------------------------------------------------------------------
\* A finite set with room for one more element.
LEMMA RoomForOne ==
    ASSUME NEW S, IsFiniteSet(S), NEW x, NEW T \in SUBSET (S \cup {x}),
           NEW n \in Nat, Cardinality(S) < n
    PROVE  IsFiniteSet(T) /\ Cardinality(T) <= n
<1>1. Cardinality(S) \in Nat
  BY FS_CardinalityType
<1>2. /\ IsFiniteSet(S \cup {x})
      /\ Cardinality(S \cup {x}) = Cardinality(S)
         \/ Cardinality(S \cup {x}) = Cardinality(S) + 1
  BY FS_AddElement
<1>3. /\ IsFiniteSet(T)
      /\ Cardinality(T) \in Nat
      /\ Cardinality(T) <= Cardinality(S \cup {x})
  BY <1>2, FS_Subset, FS_CardinalityType
<1> QED BY <1>1, <1>2, <1>3

\* A limit for each of the lives.
LEMMA OneQuotaMore ==
    ASSUME NEW n \in Nat
    PROVE  /\ MaxRequestsPerWindow * n \in Nat
           /\ MaxRequestsPerWindow * (n + 1) = MaxRequestsPerWindow * n + MaxRequestsPerWindow
  BY RateAssumption

LEMMA SetsAreFinite ==
    ASSUME TypeOK, HistoryFinite, ListsAreShort, restarts \in Seq(Nat), NEW d \in Dids, NEW t
    PROVE  /\ IsFiniteSet(requests[d]) /\ Cardinality(requests[d]) \in Nat
           /\ IsFiniteSet(GrantedIn(d, t)) /\ Cardinality(GrantedIn(d, t)) \in Nat
           /\ IsFiniteSet(Unlisted(d, t)) /\ Cardinality(Unlisted(d, t)) \in Nat
           /\ IsFiniteSet(RestartsIn(t)) /\ Cardinality(RestartsIn(t)) \in Nat
<1>1. IsFiniteSet(granted[d])
  BY DEF HistoryFinite
<1>2. /\ requests[d] \in SUBSET granted[d] /\ GrantedIn(d, t) \in SUBSET granted[d]
      /\ Unlisted(d, t) \in SUBSET granted[d]
  BY DEF ListsAreShort, GrantedIn, Unlisted
<1>3. IsFiniteSet(1 .. Len(restarts))
  <2>1. Len(restarts) \in Int
    OBVIOUS
  <2> QED BY <2>1, FS_Interval
<1>4. RestartsIn(t) \in SUBSET (1 .. Len(restarts))
  BY DEF RestartsIn
<1>5. IsFiniteSet(RestartsIn(t))
  BY <1>3, <1>4, FS_Subset
<1>6. /\ IsFiniteSet(requests[d]) /\ IsFiniteSet(GrantedIn(d, t))
      /\ IsFiniteSet(Unlisted(d, t))
  BY <1>1, <1>2, FS_Subset
<1> QED BY <1>5, <1>6, FS_CardinalityType

\* Two finite sets that cover a third.
LEMMA CoverCounts ==
    ASSUME NEW S, IsFiniteSet(S), NEW T, IsFiniteSet(T), NEW U, U \subseteq S \cup T
    PROVE  /\ IsFiniteSet(U) /\ Cardinality(U) \in Nat
           /\ Cardinality(U) <= Cardinality(S) + Cardinality(T)
<1>1. /\ IsFiniteSet(S \cup T)
      /\ Cardinality(S \cup T) = Cardinality(S) + Cardinality(T) - Cardinality(S \cap T)
  BY FS_Union
<1>2. IsFiniteSet(S \cap T)
  <2>1. S \cap T \in SUBSET S
    OBVIOUS
  <2> QED BY <2>1, FS_Subset
<1>3. /\ Cardinality(S) \in Nat /\ Cardinality(T) \in Nat /\ Cardinality(S \cap T) \in Nat
  BY <1>2, FS_CardinalityType
<1>4. U \in SUBSET (S \cup T)
  OBVIOUS
<1>5. IsFiniteSet(U) /\ Cardinality(U) <= Cardinality(S \cup T)
  BY <1>1, <1>4, FS_Subset
<1>6. Cardinality(U) \in Nat /\ Cardinality(S \cup T) \in Nat
  BY <1>1, <1>5, FS_CardinalityType
<1> QED BY <1>1, <1>3, <1>5, <1>6

-------------------------------------------------------------------------------
LEMMA InitEstablishes == RestartsInit => IInv
<1> SUFFICES ASSUME RestartsInit PROVE IInv
  OBVIOUS
<1>1. /\ clock = Epoch /\ lastCleanup = 0 /\ restarts = << >>
      /\ requests = [d \in Dids |-> {}] /\ granted = [d \in Dids |-> {}]
      /\ refused = [d \in Dids |-> {}]
  BY DEF RestartsInit, Init, Empty
<1>2. TypeOK /\ NothingAhead /\ HistoryFinite
  BY <1>1, FS_EmptySet, RateAssumption DEF TypeOK, NothingAhead, HistoryFinite
<1>3. \A d \in Dids : requests[d] = {} /\ granted[d] = {}
  BY <1>1
<1>4. ListsAreShort
  BY <1>3, FS_EmptySet, RateAssumption DEF ListsAreShort
<1>5. \A d \in Dids : \A t : GrantedIn(d, t) = {} /\ Unlisted(d, t) = {}
  BY <1>3 DEF GrantedIn, Unlisted
<1>6. \A d \in Dids, t \in Nat :
          /\ 0 <= MaxRequestsPerWindow * Cardinality(RestartsIn(t))
          /\ 0 <= MaxRequestsPerWindow * (1 + Cardinality(RestartsIn(t)))
  BY <1>1, <1>2, <1>4, SetsAreFinite, RateAssumption
<1>7. LostToRestarts /\ WindowAlways
  BY <1>5, <1>6, FS_EmptySet DEF LostToRestarts, WindowAlways
<1> QED BY <1>1, <1>2, <1>4, <1>7 DEF IInv

LEMMA TickKeeps == IInv /\ Tick /\ UNCHANGED restarts => IInv'
<1> SUFFICES ASSUME IInv, Tick, UNCHANGED restarts PROVE IInv'
  OBVIOUS
<1>1. /\ clock \in Nat /\ clock' = clock + 1
      /\ UNCHANGED << requests, lastCleanup, granted, refused, restarts >>
  BY DEF Tick, IInv, TypeOK
<1>2. TypeOK' /\ NothingAhead' /\ HistoryFinite' /\ ListsAreShort' /\ (restarts \in Seq(Nat))'
  BY <1>1 DEF IInv, TypeOK, NothingAhead, HistoryFinite, ListsAreShort, Entries
<1>3. \A d, t : /\ Unlisted(d, t)' = Unlisted(d, t) /\ GrantedIn(d, t)' = GrantedIn(d, t)
               /\ RestartsIn(t)' = RestartsIn(t)
  BY <1>1 DEF Unlisted, GrantedIn, RestartsIn
<1>4. \A t \in Nat : t >= clock' => t >= clock
  BY <1>1
<1>5. LostToRestarts'
  BY <1>3, <1>4 DEF IInv, LostToRestarts
<1>6. WindowAlways'
  BY <1>3 DEF IInv, WindowAlways
<1> QED BY <1>2, <1>5, <1>6 DEF IInv

\* A call drops from the list what is too old for any window that is not over, and
\* puts in what it lets through.
LEMMA CallLoses ==
    ASSUME TypeOK, ListsAreShort, NEW c \in Calls, NEW did \in Dids, Call(c, did),
           NEW new, new = [call |-> c, at |-> clock]
    PROVE  /\ TypeOK' /\ new \in Entries /\ clock' = clock
           /\ \A d \in Dids :
                  /\ requests'[d] \subseteq granted'[d]
                  /\ requests'[d] \subseteq
                         IF d = did /\ Allowed(did) THEN Timestamps(did) \cup {new}
                         ELSE requests[d]
                  /\ granted'[d] = IF d = did /\ Allowed(did) THEN granted[d] \cup {new}
                                   ELSE granted[d]
                  /\ d = did /\ Allowed(did) => new \in requests'[d]
                  /\ Recent(requests[d]) \subseteq requests'[d]
                  /\ refused'[d] \subseteq refused[d] \cup {new}
           /\ Timestamps(did) \subseteq requests[did]
           /\ Recent(requests[did]) \subseteq Timestamps(did)
<1>1. /\ clock \in Nat /\ clock' = clock /\ lastCleanup' \in Nat /\ new \in Entries
      /\ requests \in [Dids -> SUBSET Entries]
      /\ granted \in [Dids -> SUBSET Entries] /\ refused \in [Dids -> SUBSET Entries]
  BY DEF Call, CheckRateLimit, TypeOK, Entries
<1>2. /\ Swept \in [Dids -> SUBSET Entries]
      /\ \A d \in Dids : /\ Swept[d] \subseteq requests[d]
                        /\ Recent(requests[d]) \subseteq Swept[d]
  BY <1>1 DEF Swept, Recent
<1>3. /\ Timestamps(did) \subseteq requests[did]
      /\ Recent(requests[did]) \subseteq Timestamps(did)
  BY <1>2 DEF Timestamps, Recent
<1>4. \A d \in Dids : requests[d] \subseteq granted[d]
  BY DEF ListsAreShort
<1>5. CASE Allowed(did)
  <2>1. /\ granted' = [granted EXCEPT ![did] = @ \cup {new}] /\ refused' = refused
        /\ requests' = [Swept EXCEPT ![did] = Timestamps(did) \cup {new}]
    BY <1>5 DEF Call, CheckRateLimit
  <2>2. TypeOK'
    BY <1>1, <1>2, <1>3, <2>1 DEF TypeOK
  <2>3. \A d \in Dids :
            /\ requests'[d] = IF d = did THEN Timestamps(did) \cup {new} ELSE Swept[d]
            /\ granted'[d] = IF d = did THEN granted[d] \cup {new} ELSE granted[d]
            /\ refused'[d] = refused[d]
    BY <1>1, <1>2, <2>1
  <2>4. \A d \in Dids :
            /\ requests'[d] \subseteq granted'[d]
            /\ Recent(requests[d]) \subseteq requests'[d]
    BY <1>2, <1>3, <1>4, <2>3
  <2> QED BY <1>1, <1>2, <1>3, <1>5, <2>2, <2>3, <2>4
<1>6. CASE ~ Allowed(did)
  <2>1. /\ granted' = granted /\ refused' = [refused EXCEPT ![did] = @ \cup {new}]
        /\ requests' = [Swept EXCEPT ![did] = Timestamps(did)]
    BY <1>6 DEF Call, CheckRateLimit
  <2>2. TypeOK'
    BY <1>1, <1>2, <1>3, <2>1 DEF TypeOK
  <2>3. \A d \in Dids :
            /\ requests'[d] = IF d = did THEN Timestamps(did) ELSE Swept[d]
            /\ granted'[d] = granted[d]
            /\ refused'[d] \subseteq refused[d] \cup {new}
    BY <1>1, <1>2, <2>1
  <2>4. \A d \in Dids :
            /\ requests'[d] \subseteq requests[d]
            /\ Recent(requests[d]) \subseteq requests'[d]
    BY <1>2, <1>3, <2>3
  <2> QED BY <1>1, <1>3, <1>4, <1>6, <2>2, <2>3, <2>4
<1> QED BY <1>5, <1>6

LEMMA CallKeeps ==
    ASSUME IInv, NEW c \in Calls, NEW did \in Dids, Call(c, did), UNCHANGED restarts
    PROVE  IInv'
<1> DEFINE new == [call |-> c, at |-> clock]
<1>1. /\ TypeOK /\ NothingAhead /\ HistoryFinite /\ restarts \in Seq(Nat)
      /\ ListsAreShort /\ LostToRestarts /\ WindowAlways
      /\ clock \in Nat /\ MaxRequestsPerWindow \in Nat /\ WindowSeconds \in Nat
      /\ granted \in [Dids -> SUBSET Entries]
  BY RateAssumption DEF IInv, TypeOK
<1>2. /\ TypeOK' /\ new \in Entries /\ clock' = clock
      /\ \A d \in Dids :
             /\ requests'[d] \subseteq granted'[d]
             /\ requests'[d] \subseteq
                    IF d = did /\ Allowed(did) THEN Timestamps(did) \cup {new}
                    ELSE requests[d]
             /\ granted'[d] = IF d = did /\ Allowed(did) THEN granted[d] \cup {new}
                              ELSE granted[d]
             /\ d = did /\ Allowed(did) => new \in requests'[d]
             /\ Recent(requests[d]) \subseteq requests'[d]
             /\ refused'[d] \subseteq refused[d] \cup {new}
      /\ Timestamps(did) \subseteq requests[did]
      /\ Recent(requests[did]) \subseteq Timestamps(did)
  BY <1>1, CallLoses
<1>3. new.at = clock /\ \A t : RestartsIn(t)' = RestartsIn(t)
  BY DEF RestartsIn
<1> HIDE DEF new
<1>4. NothingAhead'
  <2> SUFFICES ASSUME NEW d \in Dids, NEW e \in granted'[d] \cup refused'[d]
               PROVE  e.at <= clock
    BY <1>2 DEF NothingAhead
  <2>1. granted'[d] = granted[d] \/ granted'[d] = granted[d] \cup {new}
    BY <1>2
  <2>2. refused'[d] \subseteq refused[d] \cup {new}
    BY <1>2
  <2>3. e \in granted[d] \cup refused[d] \/ e = new
    BY <2>1, <2>2
  <2> QED BY <1>1, <1>3, <2>3 DEF NothingAhead
<1>5. HistoryFinite'
  <2> SUFFICES ASSUME NEW d \in Dids PROVE IsFiniteSet(granted'[d])
    BY DEF HistoryFinite
  <2>1. IsFiniteSet(granted[d]) /\ IsFiniteSet(granted[d] \cup {new})
    BY <1>1, FS_AddElement DEF HistoryFinite
  <2>2. granted'[d] = granted[d] \/ granted'[d] = granted[d] \cup {new}
    BY <1>2
  <2> QED BY <2>1, <2>2
<1>6. \A d \in Dids : \A t :
          /\ IsFiniteSet(requests[d]) /\ Cardinality(requests[d]) \in Nat
          /\ IsFiniteSet(Unlisted(d, t)) /\ Cardinality(Unlisted(d, t)) \in Nat
          /\ Cardinality(RestartsIn(t)) \in Nat
  BY <1>1, SetsAreFinite
<1>7. Allowed(did) => /\ IsFiniteSet(Timestamps(did) \cup {new})
                      /\ Cardinality(Timestamps(did) \cup {new}) \in Nat
                      /\ Cardinality(Timestamps(did) \cup {new}) <= MaxRequestsPerWindow
  <2> SUFFICES ASSUME Allowed(did)
               PROVE  /\ IsFiniteSet(Timestamps(did) \cup {new})
                      /\ Cardinality(Timestamps(did) \cup {new}) <= MaxRequestsPerWindow
    BY FS_CardinalityType
  <2>1. IsFiniteSet(Timestamps(did)) /\ Cardinality(Timestamps(did)) < MaxRequestsPerWindow
    BY <1>2, <1>6, FS_Subset DEF Allowed
  <2> QED BY <1>1, <2>1, RoomForOne
<1>8. ListsAreShort'
  <2> SUFFICES ASSUME NEW d \in Dids
               PROVE  Cardinality(requests'[d]) <= MaxRequestsPerWindow
    BY <1>2 DEF ListsAreShort
  <2>1. ASSUME NEW S, IsFiniteSet(S), Cardinality(S) <= MaxRequestsPerWindow,
               requests'[d] \subseteq S
        PROVE  Cardinality(requests'[d]) <= MaxRequestsPerWindow
    <3>1. /\ Cardinality(S) \in Nat /\ Cardinality(requests'[d]) \in Nat
          /\ Cardinality(requests'[d]) <= Cardinality(S)
      BY <2>1, FS_Subset, FS_CardinalityType
    <3> QED BY <1>1, <2>1, <3>1
  <2>2. CASE d = did /\ Allowed(did)
    BY <1>2, <1>7, <2>1, <2>2
  <2>3. CASE ~ (d = did /\ Allowed(did))
    BY <1>1, <1>2, <1>6, <2>1, <2>3 DEF ListsAreShort
  <2> QED BY <2>2, <2>3
<1>9. ASSUME NEW d \in Dids, NEW t \in Nat, t >= clock
      PROVE  /\ Unlisted(d, t)' \subseteq Unlisted(d, t)
             /\ d = did /\ Allowed(did) =>
                    GrantedIn(d, t)' \subseteq Unlisted(d, t) \cup (Timestamps(did) \cup {new})
  <2>1. \A e \in granted[d] : e.at \in Nat
    BY <1>1 DEF Entries
  <2>2. GrantedIn(d, t) \cap requests[d] \subseteq Recent(requests[d])
    BY <1>1, <1>9, <2>1 DEF GrantedIn, Recent
  <2>3. GrantedIn(d, t)' \subseteq
            GrantedIn(d, t) \cup (IF d = did /\ Allowed(did) THEN {new} ELSE {})
    BY <1>2 DEF GrantedIn
  <2> QED BY <1>2, <2>2, <2>3 DEF Unlisted
<1>10. LostToRestarts'
  <2> SUFFICES ASSUME NEW d \in Dids, NEW t \in Nat, t >= clock
               PROVE  Cardinality(Unlisted(d, t)')
                          <= MaxRequestsPerWindow * Cardinality(RestartsIn(t))
    BY <1>2, <1>3 DEF LostToRestarts
  <2>1. /\ Cardinality(Unlisted(d, t)') \in Nat
        /\ Cardinality(Unlisted(d, t)') <= Cardinality(Unlisted(d, t))
    BY <1>6, <1>9, FS_Subset, FS_CardinalityType
  <2>2. Cardinality(Unlisted(d, t)) <= MaxRequestsPerWindow * Cardinality(RestartsIn(t))
    BY <1>1 DEF LostToRestarts
  <2>3. MaxRequestsPerWindow * Cardinality(RestartsIn(t)) \in Nat
    BY <1>6, OneQuotaMore
  <2> QED BY <1>6, <2>1, <2>2, <2>3
<1>11. WindowAlways'
  <2> SUFFICES ASSUME NEW d \in Dids, NEW t \in Nat
               PROVE  Cardinality(GrantedIn(d, t)')
                          <= MaxRequestsPerWindow * (1 + Cardinality(RestartsIn(t)))
    BY <1>3 DEF WindowAlways
  <2>1. CASE d = did /\ Allowed(did) /\ t >= clock
    <3> DEFINE n == Cardinality(RestartsIn(t))
    <3>1. Cardinality(GrantedIn(d, t)') \in Nat
          /\ Cardinality(GrantedIn(d, t)')
                 <= Cardinality(Unlisted(d, t)) + Cardinality(Timestamps(did) \cup {new})
      BY <1>6, <1>7, <1>9, <2>1, CoverCounts
    <3>2. Cardinality(Unlisted(d, t)) <= MaxRequestsPerWindow * n
      BY <1>1, <2>1 DEF LostToRestarts
    <3>3. /\ MaxRequestsPerWindow * n \in Nat /\ n \in Nat
          /\ MaxRequestsPerWindow * (n + 1)
                 = MaxRequestsPerWindow * n + MaxRequestsPerWindow
      BY <1>6, OneQuotaMore
    <3>4. n + 1 = 1 + n
      BY <3>3
    <3> HIDE DEF n
    <3>5. Cardinality(GrantedIn(d, t)') <= MaxRequestsPerWindow * (n + 1)
      BY <1>1, <1>6, <1>7, <2>1, <3>1, <3>2, <3>3
    <3> QED BY <3>4, <3>5 DEF n
  <2>2. CASE ~ (d = did /\ Allowed(did) /\ t >= clock)
    <3>1. GrantedIn(d, t)' = GrantedIn(d, t)
      BY <1>1, <1>2, <1>3, <2>2 DEF GrantedIn
    <3> QED BY <1>1, <3>1 DEF WindowAlways
  <2> QED BY <2>1, <2>2
<1> QED BY <1>1, <1>2, <1>4, <1>5, <1>8, <1>10, <1>11 DEF IInv

\* A restart empties the lists: what they held is now lost, and counts against the
\* new restart, which is in every window that is not over.
LEMMA DiesKeeps == IInv /\ Dies => IInv'
<1> SUFFICES ASSUME IInv, Dies PROVE IInv'
  OBVIOUS
<1>1. /\ TypeOK /\ NothingAhead /\ HistoryFinite /\ restarts \in Seq(Nat)
      /\ ListsAreShort /\ LostToRestarts /\ WindowAlways
      /\ clock \in Nat /\ MaxRequestsPerWindow \in Nat /\ WindowSeconds \in Nat \ {0}
      /\ granted \in [Dids -> SUBSET Entries]
  BY RateAssumption DEF IInv, TypeOK
<1>2. /\ requests' = [d \in Dids |-> {}] /\ lastCleanup' = 0
      /\ restarts' = Append(restarts, clock)
      /\ UNCHANGED << clock, granted, refused >>
  BY DEF Dies, Restart, Empty
<1> DEFINE k == Len(restarts) + 1
<1>3. /\ restarts' \in Seq(Nat) /\ Len(restarts') = k /\ k \in Nat \ {0}
      /\ restarts'[k] = clock
      /\ \A i \in 1 .. Len(restarts) : restarts'[i] = restarts[i]
      /\ 1 .. k = 1 .. Len(restarts) \cup {k} /\ k \notin 1 .. Len(restarts)
  BY <1>1, <1>2
<1> HIDE DEF k
<1>4. TypeOK' /\ NothingAhead' /\ HistoryFinite'
  BY <1>1, <1>2 DEF TypeOK, NothingAhead, HistoryFinite
<1>5. ListsAreShort'
  <2>1. Cardinality({}) = 0
    BY FS_EmptySet
  <2> SUFFICES ASSUME NEW d \in Dids
               PROVE  /\ requests'[d] \subseteq granted'[d]
                      /\ Cardinality(requests'[d]) <= MaxRequestsPerWindow
    BY DEF ListsAreShort
  <2>2. requests'[d] = {}
    BY <1>2
  <2> QED BY <1>1, <2>1, <2>2
<1>6. \A t \in Nat : RestartsIn(t)' = RestartsIn(t) \cup
                          (IF clock > t - WindowSeconds /\ clock <= t THEN {k} ELSE {})
  <2> SUFFICES ASSUME NEW t \in Nat
               PROVE  RestartsIn(t)' = RestartsIn(t) \cup
                          (IF clock > t - WindowSeconds /\ clock <= t THEN {k} ELSE {})
    OBVIOUS
  <2>1. RestartsIn(t)' = {i \in 1 .. k : restarts'[i] > t - WindowSeconds /\ restarts'[i] <= t}
    BY <1>3 DEF RestartsIn
  <2> QED BY <1>3, <2>1 DEF RestartsIn
<1>7. \A d \in Dids : \A t :
          /\ IsFiniteSet(requests[d]) /\ Cardinality(requests[d]) \in Nat
          /\ IsFiniteSet(Unlisted(d, t)) /\ Cardinality(Unlisted(d, t)) \in Nat
          /\ Cardinality(GrantedIn(d, t)) \in Nat
          /\ IsFiniteSet(RestartsIn(t)) /\ Cardinality(RestartsIn(t)) \in Nat
  BY <1>1, SetsAreFinite
<1>8. ASSUME NEW d \in Dids, NEW t \in Nat
      PROVE  /\ Cardinality(RestartsIn(t)') = Cardinality(RestartsIn(t))
                \/ Cardinality(RestartsIn(t)') = Cardinality(RestartsIn(t)) + 1
             /\ clock > t - WindowSeconds /\ clock <= t =>
                    Cardinality(RestartsIn(t)') = Cardinality(RestartsIn(t)) + 1
  <2>1. k \notin RestartsIn(t)
    BY <1>3 DEF RestartsIn
  <2>2. Cardinality(RestartsIn(t) \cup {k}) = Cardinality(RestartsIn(t)) + 1
    BY <1>7, <2>1, FS_AddElement
  <2> QED BY <1>6, <2>2
<1>9. \A d, t : /\ GrantedIn(d, t)' = GrantedIn(d, t)
               /\ Unlisted(d, t)' = GrantedIn(d, t) \ requests'[d]
  BY <1>2 DEF GrantedIn, Unlisted
<1>10. LostToRestarts'
  <2> SUFFICES ASSUME NEW d \in Dids, NEW t \in Nat, t >= clock
               PROVE  Cardinality(Unlisted(d, t)')
                          <= MaxRequestsPerWindow * Cardinality(RestartsIn(t)')
    BY <1>2 DEF LostToRestarts
  <2> DEFINE n == Cardinality(RestartsIn(t))
  <2>1. Unlisted(d, t)' = GrantedIn(d, t)
    BY <1>2, <1>9
  <2>2. /\ MaxRequestsPerWindow * n \in Nat /\ n \in Nat
        /\ MaxRequestsPerWindow * (n + 1) = MaxRequestsPerWindow * n + MaxRequestsPerWindow
    BY <1>7, OneQuotaMore
  <2>3. CASE clock > t - WindowSeconds
    <3>1. GrantedIn(d, t) \subseteq Unlisted(d, t) \cup requests[d]
      BY DEF Unlisted
    <3>2. Cardinality(GrantedIn(d, t))
              <= Cardinality(Unlisted(d, t)) + Cardinality(requests[d])
      BY <1>7, <3>1, CoverCounts
    <3>3. /\ Cardinality(Unlisted(d, t)) <= MaxRequestsPerWindow * n
          /\ Cardinality(requests[d]) <= MaxRequestsPerWindow
      BY <1>1 DEF LostToRestarts, ListsAreShort
    <3>4. Cardinality(RestartsIn(t)') = n + 1
      BY <1>1, <1>8, <2>3
    <3> HIDE DEF n
    <3>5. Cardinality(GrantedIn(d, t)) <= MaxRequestsPerWindow * (n + 1)
      BY <1>1, <1>7, <2>2, <3>2, <3>3
    <3> QED BY <2>1, <3>4, <3>5
  <2>4. CASE ~ (clock > t - WindowSeconds)
    <3>1. ASSUME NEW e \in granted[d] PROVE ~ (e.at > t - WindowSeconds)
      <4>1. e.at <= clock /\ e.at \in Nat
        BY <1>1 DEF NothingAhead, Entries
      <4> QED BY <1>1, <2>4, <4>1
    <3>2. GrantedIn(d, t) = {}
      BY <3>1 DEF GrantedIn
    <3>3. Cardinality(GrantedIn(d, t)) = 0
      BY <3>2, FS_EmptySet
    <3>4. MaxRequestsPerWindow * Cardinality(RestartsIn(t)') \in Nat
      <4>1. Cardinality(RestartsIn(t)') \in Nat
        BY <1>8, <2>2
      <4> QED BY <4>1, OneQuotaMore
    <3> QED BY <2>1, <3>3, <3>4
  <2> QED BY <2>3, <2>4
<1>11. WindowAlways'
  <2> SUFFICES ASSUME NEW d \in Dids, NEW t \in Nat
               PROVE  Cardinality(GrantedIn(d, t))
                          <= MaxRequestsPerWindow * (1 + Cardinality(RestartsIn(t)'))
    BY <1>9 DEF WindowAlways
  <2> DEFINE n == Cardinality(RestartsIn(t))
             m == Cardinality(RestartsIn(t)')
  <2>1. Cardinality(GrantedIn(d, t)) <= MaxRequestsPerWindow * (1 + n)
    BY <1>1 DEF WindowAlways
  <2>2. n \in Nat /\ (m = n \/ m = n + 1) /\ Cardinality(GrantedIn(d, t)) \in Nat
    BY <1>7, <1>8
  <2> HIDE DEF n, m
  <2>3. CASE m = n
    BY <2>1, <2>3 DEF m
  <2>4. CASE m = n + 1
    <3>1. /\ MaxRequestsPerWindow * (1 + n) \in Nat
          /\ MaxRequestsPerWindow * ((1 + n) + 1)
                 = MaxRequestsPerWindow * (1 + n) + MaxRequestsPerWindow
      BY <2>2, OneQuotaMore
    <3>2. (1 + n) + 1 = 1 + m
      BY <2>2, <2>4
    <3>3. Cardinality(GrantedIn(d, t)) <= MaxRequestsPerWindow * (1 + m)
      BY <1>1, <2>1, <2>2, <3>1, <3>2
    <3> QED BY <3>3 DEF m
  <2> QED BY <2>2, <2>3, <2>4
<1> QED BY <1>3, <1>4, <1>5, <1>10, <1>11 DEF IInv

LEMMA InvariantHolds == RestartsSpec => []IInv
<1>1. IInv /\ [RestartsNext]_restartsVars => IInv'
  <2> SUFFICES ASSUME IInv, [RestartsNext]_restartsVars PROVE IInv'
    OBVIOUS
  <2>1. CASE Tick /\ UNCHANGED restarts
    BY <2>1, TickKeeps
  <2>2. ASSUME NEW c \in Calls, NEW did \in Dids, Call(c, did), UNCHANGED restarts
        PROVE  IInv'
    BY <2>2, CallKeeps
  <2>3. CASE Dies
    BY <2>3, DiesKeeps
  <2>4. CASE UNCHANGED restartsVars
    BY <2>4 DEF restartsVars, vars, IInv, TypeOK, NothingAhead, HistoryFinite, ListsAreShort,
                LostToRestarts, WindowAlways, Unlisted, GrantedIn, RestartsIn
  <2> QED BY <2>1, <2>2, <2>3, <2>4 DEF RestartsNext, Next
<1> QED BY <1>1, InitEstablishes, PTL DEF RestartsSpec

\* The process's list and the histories keep their types, in all its lives
\* (rate_limiter.py:21-66).
THEOREM RateTypeCorrect == RestartsSpec => []TypeOK
<1>1. IInv => TypeOK
  BY DEF IInv
<1> QED BY <1>1, InvariantHolds, PTL

\* The sliding window bound holds in every behaviour: with _cleanup run late or not
\* at all, calls of any number of agents interleaved, and any number of calls at one
\* instant; a restart costs one quota in the windows it is in and nothing in those
\* that begin after it (rate_limiter.py:21-24, 51-66).
THEOREM RateWindowBound == RestartsSpec => []WindowBound
<1>1. IInv => WindowBound
  BY RateAssumption DEF IInv, WindowAlways, WindowBound
<1> QED BY <1>1, InvariantHolds, PTL
-------------------------------------------------------------------------------
\* What a call that is refused finds, and what a later one does to the histories.
LEMMA RefusalStep ==
    ASSUME IInv, IInv', RefusalIsDeserved, NEW c \in Calls, NEW did \in Dids,
           Call(c, did)
    PROVE  RefusalIsDeserved'
<1> DEFINE new == [call |-> c, at |-> clock]
<1> USE RateAssumption
<1>0. /\ clock \in Nat /\ clock' = clock
      /\ granted \in [Dids -> SUBSET Entries] /\ refused \in [Dids -> SUBSET Entries]
      /\ new \in Entries /\ new.at = clock
  BY DEF IInv, TypeOK, Entries, Call
<1>1. \A d \in Dids : granted[d] \subseteq granted'[d]
  BY <1>0 DEF Call
<1>2. \A d \in Dids : refused'[d] \subseteq refused[d]
                      \/ (d = did /\ ~ Allowed(did) /\ granted' = granted
                          /\ refused'[d] \subseteq refused[d] \cup {new})
  BY <1>0 DEF Call
<1>3. ASSUME NEW d \in Dids, NEW t
      PROVE  /\ Cardinality(GrantedIn(d, t)) \in Nat
             /\ Cardinality(GrantedIn(d, t)') \in Nat
             /\ Cardinality(GrantedIn(d, t)') >= Cardinality(GrantedIn(d, t))
  <2>1. GrantedIn(d, t) \subseteq GrantedIn(d, t)'
    BY <1>1 DEF GrantedIn
  <2>2. IsFiniteSet(granted'[d])
    BY DEF IInv, HistoryFinite
  <2>3. IsFiniteSet(GrantedIn(d, t)')
    BY <2>2, FS_Subset DEF GrantedIn
  <2> QED BY <2>1, <2>3, FS_Subset, FS_CardinalityType
<1>4. ASSUME ~ Allowed(did)
      PROVE  Cardinality(GrantedIn(did, clock)) >= MaxRequestsPerWindow
  <2>1. Timestamps(did) \subseteq requests[did] /\ requests[did] \subseteq granted[did]
    BY <1>0, CallLoses DEF IInv, ListsAreShort
  <2>2. Timestamps(did) \subseteq GrantedIn(did, clock)
    BY <2>1 DEF Timestamps, Recent, GrantedIn, IInv, NothingAhead
  <2>3. IsFiniteSet(GrantedIn(did, clock))
    BY SetsAreFinite DEF IInv
  <2>4. /\ Cardinality(Timestamps(did)) \in Nat
        /\ Cardinality(Timestamps(did)) <= Cardinality(GrantedIn(did, clock))
    BY <2>2, <2>3, FS_Subset, FS_CardinalityType
  <2>5. Cardinality(Timestamps(did)) >= MaxRequestsPerWindow
    BY <1>4, <2>4 DEF Allowed
  <2> QED BY <1>3, <2>4, <2>5
<1> SUFFICES ASSUME NEW d \in Dids, NEW e \in refused'[d]
             PROVE  Cardinality(GrantedIn(d, e.at)') >= MaxRequestsPerWindow
  BY DEF RefusalIsDeserved, GrantedIn
<1>5. CASE e \in refused[d]
  <2>1. Cardinality(GrantedIn(d, e.at)) >= MaxRequestsPerWindow
    BY <1>5 DEF RefusalIsDeserved
  <2> DEFINE t == e.at
             before == Cardinality(GrantedIn(d, t))
             after == Cardinality(GrantedIn(d, t)')
  <2>2. before \in Nat /\ after \in Nat /\ after >= before
    BY <1>3
  <2>3. before >= MaxRequestsPerWindow
    BY <2>1
  <2> HIDE DEF before, after
  <2>4. after >= MaxRequestsPerWindow
    BY <2>2, <2>3
  <2> QED BY <2>4 DEF after
<1>6. CASE e \notin refused[d]
  <2>1. d = did /\ e = new /\ ~ Allowed(did) /\ granted' = granted
    BY <1>2, <1>6
  <2>2. GrantedIn(d, e.at)' = GrantedIn(did, clock)
    BY <1>0, <2>1 DEF GrantedIn
  <2> QED BY <1>4, <2>1, <2>2
<1> QED BY <1>5, <1>6

\* A refused call had a full window before it, and refused calls do not count:
\* whatever other agents do, whenever _cleanup runs and the process restarts
\* (rate_limiter.py:61-66).
THEOREM RateRefusalIsDeserved == RestartsSpec => []RefusalIsDeserved
<1>1. RestartsInit => RefusalIsDeserved
  BY DEF RestartsInit, Init, Empty, RefusalIsDeserved
<1>2. IInv /\ IInv' /\ RefusalIsDeserved /\ [RestartsNext]_restartsVars => RefusalIsDeserved'
  <2> SUFFICES ASSUME IInv, IInv', RefusalIsDeserved, [RestartsNext]_restartsVars
               PROVE  RefusalIsDeserved'
    OBVIOUS
  <2>1. CASE Tick \/ Dies \/ UNCHANGED restartsVars
    BY <2>1 DEF Tick, Dies, restartsVars, vars, RefusalIsDeserved, GrantedIn
  <2> QED BY <2>1, RefusalStep DEF RestartsNext, Next
<1> QED BY <1>1, <1>2, InvariantHolds, PTL DEF RestartsSpec
-------------------------------------------------------------------------------
\* What the sweeps see to: no timestamp is a window older than the last sweep, and
\* as long as there is one, no call came more than a CleanupInterval after it.
SweptInTime ==
    /\ lastCleanup <= clock
    /\ \A d \in Dids : \A old \in requests[d] : old.at > lastCleanup - WindowSeconds
    /\ (\E d \in Dids : requests[d] # {}) =>
           \A d \in Dids : \A e \in granted[d] \cup refused[d] :
               e.at < lastCleanup + CleanupInterval

LEMMA SweepStep ==
    ASSUME IInv, SweptInTime, NEW c \in Calls, NEW did \in Dids, Call(c, did)
    PROVE  SweptInTime'
<1> DEFINE new == [call |-> c, at |-> clock]
<1> USE RateAssumption
<1>0. /\ clock \in Nat /\ clock' = clock /\ lastCleanup \in Nat /\ lastCleanup <= clock
      /\ requests \in [Dids -> SUBSET Entries]
      /\ granted \in [Dids -> SUBSET Entries] /\ refused \in [Dids -> SUBSET Entries]
      /\ new \in Entries /\ new.at = clock
  BY DEF IInv, TypeOK, Entries, Call, SweptInTime
<1>1. /\ lastCleanup' = IF CleanupDue THEN clock ELSE lastCleanup
      /\ requests' = [Swept EXCEPT ![did] =
             IF Allowed(did) THEN Timestamps(did) \cup {new} ELSE Timestamps(did)]
      /\ \A d \in Dids : granted'[d] \cup refused'[d]
                             \subseteq granted[d] \cup refused[d] \cup {new}
  BY <1>0 DEF Call, CheckRateLimit
<1>2. /\ lastCleanup' \in Nat /\ lastCleanup <= lastCleanup' /\ lastCleanup' <= clock
      /\ clock < lastCleanup' + CleanupInterval
  BY <1>0, <1>1 DEF CleanupDue
<1>3. /\ Swept \in [Dids -> SUBSET Entries]
      /\ \A d \in Dids : Swept[d] \subseteq requests[d]
      /\ \A d \in Dids : \A old \in Swept[d] : old.at > lastCleanup' - WindowSeconds
  BY <1>0, <1>1 DEF Swept, Recent, SweptInTime, Entries
<1>4. \A d \in Dids : \A old \in requests'[d] : old \in Swept[d] \/ old = new
  BY <1>1, <1>3 DEF Timestamps, Recent
<1>5. \A d \in Dids : \A old \in requests'[d] : old.at > lastCleanup' - WindowSeconds
  BY <1>0, <1>2, <1>3, <1>4
<1>6. ASSUME NEW d \in Dids, NEW e \in granted'[d] \cup refused'[d]
      PROVE  e.at < lastCleanup' + CleanupInterval
  <2>1. CASE e = new
    BY <2>1, <1>0, <1>2
  <2>2. CASE e \in granted[d] \cup refused[d]
    <3>1. e.at <= clock /\ e.at \in Nat
      BY <2>2, <1>0 DEF IInv, NothingAhead, Entries
    <3> QED BY <3>1, <1>0, <1>2
  <2> QED BY <1>1, <2>1, <2>2
<1> QED BY <1>0, <1>2, <1>5, <1>6 DEF SweptInTime

\* The dictionary stays small in number and in age, whichever DID calls
\* (rate_limiter.py:27-41, 58-59).
THEOREM RateMemoryBounded == RestartsSpec => []MemoryBounded
<1> USE RateAssumption
<1>1. RestartsInit => SweptInTime
  BY RateAssumption DEF RestartsInit, Init, Empty, SweptInTime
<1>2. IInv /\ SweptInTime /\ [RestartsNext]_restartsVars => SweptInTime'
  <2> SUFFICES ASSUME IInv, SweptInTime, [RestartsNext]_restartsVars PROVE SweptInTime'
    OBVIOUS
  <2>1. CASE Tick
    BY <2>1 DEF Tick, SweptInTime, IInv, TypeOK
  <2>2. CASE Dies
    <3>1. /\ requests' = [d \in Dids |-> {}] /\ lastCleanup' = 0
          /\ clock' = clock /\ clock \in Nat
      BY <2>2 DEF Dies, Restart, Empty, IInv, TypeOK
    <3> QED BY <3>1 DEF SweptInTime
  <2>3. CASE UNCHANGED restartsVars
    BY <2>3 DEF restartsVars, vars, SweptInTime
  <2> QED BY <2>1, <2>2, <2>3, SweepStep DEF RestartsNext, Next
<1>3. IInv /\ SweptInTime => MemoryBounded
  <2> SUFFICES ASSUME IInv, SweptInTime, NEW did \in Dids, NEW old \in requests[did],
                      NEW d \in Dids, NEW e \in granted[d] \cup refused[d]
               PROVE  e.at - old.at < WindowSeconds + CleanupInterval
    BY DEF MemoryBounded, IInv, ListsAreShort
  <2>1. /\ e.at \in Nat /\ old.at \in Nat /\ lastCleanup \in Nat
        /\ old.at > lastCleanup - WindowSeconds
        /\ e.at < lastCleanup + CleanupInterval
    BY DEF IInv, TypeOK, Entries, SweptInTime
  <2> QED BY <2>1
<1> QED BY <1>1, <1>2, <1>3, InvariantHolds, PTL DEF RestartsSpec
===============================================================================
