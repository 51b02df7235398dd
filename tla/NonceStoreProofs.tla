--------------------------- MODULE NonceStoreProofs ----------------------------
(***************************************************************************)
(* What the steps of NonceStore preserve: the lemmas on which the replay   *)
(* protection of the proxy and of the secured server both rest.            *)
(***************************************************************************)
EXTENDS NonceStore, TLAPS

StoreTypeOK ==
    /\ rows \in [Jtis -> Nat]
    /\ lastCleanup \in Nat

\* A row that no cleanup may remove now.
Alive(jti) == rows[jti] > 0 /\ rows[jti] >= IntNow

\* Whole seconds never run ahead of the clock, and never run back.
LEMMA SecondsBelowClock ==
    ASSUME NEW n \in Nat \ {0}, NEW t \in Nat
    PROVE  /\ t \div n \in Nat
           /\ (t \div n) * n <= t
           /\ t \div n <= (t + 1) \div n
  OBVIOUS

\* A token that is accepted has not even reached the second of its expiry.
LEMMA UnexpiredIsAhead ==
    ASSUME TicksPerSecond \in Nat \ {0}, clock \in Nat, NEW exp \in Int,
           Unexpired(exp)
    PROVE  exp > 0 /\ exp >= IntNow
<1>1. IntNow \in Nat /\ IntNow * TicksPerSecond <= clock
  BY SecondsBelowClock DEF IntNow
<1>2. exp * TicksPerSecond > clock
  BY DEF Unexpired
<1> QED BY <1>1, <1>2

\* The state in which a store is used.
StoreInUse ==
    /\ TicksPerSecond \in Nat \ {0} /\ DefaultTtl \in Nat \ {0}
    /\ clock \in Nat
    /\ StoreTypeOK

\* The cleanup leaves alive rows alone.
LEMMA CleanupKeepsAlive ==
    ASSUME StoreInUse
    PROVE  /\ Kept \in [Jtis -> Nat]
           /\ \A j \in Jtis : Alive(j) => Kept[j] = rows[j]
<1>1. IntNow \in Nat
  BY SecondsBelowClock DEF IntNow, StoreInUse
<1> QED BY <1>1 DEF StoreInUse, StoreTypeOK, Kept, Purged, Alive, NoRow

\* A jti that is found leaves the alive rows as they are.
LEMMA RecogniseKeeps ==
    ASSUME StoreInUse, NEW jti \in Jtis, Recognise(jti), clock' = clock
    PROVE  /\ StoreTypeOK'
           /\ \A j \in Jtis : Alive(j) => rows'[j] = rows[j]
  BY CleanupKeepsAlive DEF Recognise, MaybeCleanup, StoreInUse, StoreTypeOK

\* A jti that is not found has no alive row; it gets the row of its token, and
\* the alive rows stay as they are.
LEMMA RememberKeeps ==
    ASSUME StoreInUse, NEW jti \in Jtis, NEW exp \in Int, Remember(jti, exp),
           clock' = clock
    PROVE  /\ StoreTypeOK'
           /\ ~ Alive(jti)
           /\ exp > 0 => rows'[jti] = exp
           /\ \A j \in Jtis : Alive(j) => rows'[j] = rows[j]
<1>1. IntNow \in Nat
  BY SecondsBelowClock DEF IntNow, StoreInUse
<1>2. /\ Kept \in [Jtis -> Nat]
      /\ \A j \in Jtis : Alive(j) => Kept[j] = rows[j]
  BY CleanupKeepsAlive
<1>3. Kept[jti] = 0
  BY DEF Remember, SeenBefore, NoRow
<1>4. ~ Alive(jti)
  BY <1>2, <1>3 DEF Alive
<1>5. StoredExp(exp) \in Nat /\ (exp > 0 => StoredExp(exp) = exp)
  BY <1>1 DEF StoredExp, StoreInUse
<1>6. rows' = [Kept EXCEPT ![jti] = StoredExp(exp)]
  BY DEF Remember
<1>7. lastCleanup' \in Nat
  BY DEF Remember, MaybeCleanup, StoreInUse, StoreTypeOK
<1> QED BY <1>2, <1>4, <1>5, <1>6, <1>7 DEF StoreTypeOK
================================================================================
