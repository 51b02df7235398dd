-------------------------- MODULE SecuredServerProofs --------------------------
(***************************************************************************)
(* The secured server implements OneShot, for any tokens, agents and keys, *)
(* any cleanup interval and any resolution of the clock.                   *)
(***************************************************************************)
EXTENDS SecuredServer, NonceStoreProofs

\* A token that was accepted carries a jti and an expiry that make it a row.
AcceptedHasRow ==
    \A t \in Tokens : uses[t] > 0 \/ t \in running => t.jti \in Jtis /\ t.exp > 0

IInv == TypeOK /\ AcceptedIsRemembered /\ RunningIsUnused /\ AcceptedHasRow

LEMMA StoreIsInUse == TypeOK => StoreInUse
  BY ServerAssumption DEF TypeOK, StoreInUse, StoreTypeOK

\* A step of the clock makes rows older, never tokens younger.
LEMMA SecondsGrow ==
    ASSUME TypeOK, clock' = clock + 1
    PROVE  IntNow \in Nat /\ IntNow' \in Nat /\ IntNow <= IntNow'
<1>1. clock \in Nat /\ clock + 1 \in Nat /\ TicksPerSecond \in Nat \ {0}
  BY ServerAssumption DEF TypeOK
<1>2. /\ clock \div TicksPerSecond \in Nat
      /\ (clock + 1) \div TicksPerSecond \in Nat
      /\ clock \div TicksPerSecond <= (clock + 1) \div TicksPerSecond
  BY <1>1, SecondsBelowClock
<1> QED BY <1>2 DEF IntNow

\* A token that was accepted, and could be again, has its row alive.
LEMMA AcceptedIsAlive ==
    ASSUME IInv, NEW t \in Tokens, uses[t] > 0 \/ t \in running, t.exp >= IntNow
    PROVE  Alive(t.jti)
  BY DEF IInv, AcceptedIsRemembered, AcceptedHasRow, Alive

LEMMA InitEstablishes == Init => IInv
  BY ServerAssumption DEF Init, StoreInit, NoRow, IInv, TypeOK,
     AcceptedIsRemembered, RunningIsUnused, AcceptedHasRow

LEMMA ReplayKeeps ==
    ASSUME IInv, NEW t \in Tokens, NEW asked \in Asked, RefuseReplay(t, asked)
    PROVE  IInv'
<1>1. /\ t.jti \in Jtis /\ Recognise(t.jti) /\ answer' = 401
      /\ clock' = clock /\ keyOnDisk' = keyOnDisk
      /\ running' = running /\ uses' = uses
  BY ServerAssumption DEF RefuseReplay
<1>2. StoreTypeOK' /\ \A j \in Jtis : Alive(j) => rows'[j] = rows[j]
  BY <1>1, StoreIsInUse, RecogniseKeeps DEF IInv
<1>3. TypeOK'
  BY <1>1, <1>2 DEF IInv, TypeOK, StoreTypeOK
<1>4. AcceptedIsRemembered'
  <2> SUFFICES ASSUME NEW u \in Tokens, uses[u] > 0 \/ u \in running,
                      u.exp >= IntNow
               PROVE  rows'[u.jti] = u.exp
    BY <1>1 DEF AcceptedIsRemembered, IntNow
  <2> QED BY <1>2, AcceptedIsAlive DEF IInv, AcceptedIsRemembered, AcceptedHasRow
<1> QED BY <1>1, <1>3, <1>4 DEF IInv, RunningIsUnused, AcceptedHasRow

\* A token that is accepted was never used: its row would be alive.
LEMMA AcceptIsFirst ==
    ASSUME IInv, NEW t \in Tokens, NEW asked \in Asked, Accept(t, asked)
    PROVE  uses[t] = 0
<1>1. t.jti \in Jtis /\ t.exp \in Int /\ Remember(t.jti, t.exp) /\ clock' = clock
  BY ServerAssumption DEF Accept
<1>2. ~ Alive(t.jti)
  BY <1>1, StoreIsInUse, RememberKeeps DEF IInv
<1>3. t.exp >= IntNow
  BY <1>1, StoreIsInUse, UnexpiredIsAhead DEF IInv, StoreInUse, Accept, Verified
<1>4. uses[t] \in Nat
  BY DEF IInv, TypeOK
<1> QED BY <1>2, <1>3, <1>4, AcceptedIsAlive

LEMMA AcceptKeeps ==
    ASSUME IInv, NEW t \in Tokens, NEW asked \in Asked, Accept(t, asked)
    PROVE  IInv'
<1>1. /\ t.jti \in Jtis /\ t.exp \in Int /\ Remember(t.jti, t.exp)
      /\ clock' = clock /\ keyOnDisk' = keyOnDisk /\ answer' = answer
      /\ running' = {t} /\ uses' = uses /\ Unexpired(t.exp)
  BY ServerAssumption DEF Accept, Verified
<1>2. /\ StoreTypeOK' /\ ~ Alive(t.jti)
      /\ t.exp > 0 => rows'[t.jti] = t.exp
      /\ \A j \in Jtis : Alive(j) => rows'[j] = rows[j]
  BY <1>1, StoreIsInUse, RememberKeeps DEF IInv
<1>3. t.exp > 0
  BY <1>1, StoreIsInUse, UnexpiredIsAhead DEF IInv, StoreInUse
<1>4. TypeOK'
  BY <1>1, <1>2 DEF IInv, TypeOK, StoreTypeOK
<1>5. AcceptedIsRemembered'
  <2> SUFFICES ASSUME NEW u \in Tokens, uses[u] > 0 \/ u = t, u.exp >= IntNow
               PROVE  rows'[u.jti] = u.exp
    BY <1>1 DEF AcceptedIsRemembered, IntNow
  <2>1. CASE u = t
    BY <2>1, <1>2, <1>3
  <2>2. CASE uses[u] > 0
    BY <2>2, <1>2, AcceptedIsAlive DEF IInv, AcceptedIsRemembered, AcceptedHasRow
  <2> QED BY <2>1, <2>2
<1>6. RunningIsUnused'
  BY <1>1, AcceptIsFirst DEF RunningIsUnused
<1>7. AcceptedHasRow'
  BY <1>1, <1>3 DEF IInv, AcceptedHasRow
<1> QED BY <1>4, <1>5, <1>6, <1>7 DEF IInv

LEMMA NextKeeps == IInv /\ [Next]_vars => IInv'
<1> SUFFICES ASSUME IInv, [Next]_vars PROVE IInv'
  OBVIOUS
<1> USE DEF IInv
<1>1. ASSUME NEW t \in Tokens, NEW asked \in Asked,
             Refuse(t, asked) \/ RefuseReplay(t, asked) \/ Accept(t, asked)
      PROVE  IInv'
  <2>1. CASE Refuse(t, asked)
    BY <2>1 DEF Refuse, nonceVars, TypeOK, AcceptedIsRemembered, RunningIsUnused,
                AcceptedHasRow, IntNow
  <2> QED BY <1>1, <2>1, ReplayKeeps, AcceptKeeps
<1>2. ASSUME NEW t \in Tokens, Execute(t) PROVE IInv'
  BY <1>2 DEF Execute, nonceVars, TypeOK, AcceptedIsRemembered, RunningIsUnused,
              AcceptedHasRow, IntNow
<1>3. CASE Crash
  BY <1>3 DEF Crash, ReopenStore, TypeOK, AcceptedIsRemembered, RunningIsUnused,
              AcceptedHasRow, IntNow
<1>4. ASSUME NEW did \in Dids, NEW key \in Keys \cup {NoKey}, Rotate(did, key)
      PROVE  IInv'
  BY <1>4 DEF Rotate, nonceVars, TypeOK, AcceptedIsRemembered, RunningIsUnused,
              AcceptedHasRow, IntNow
<1>5. CASE Tick
  <2>1. IntNow \in Nat /\ IntNow' \in Nat /\ IntNow <= IntNow'
    BY <1>5, SecondsGrow DEF Tick
  <2>2. AcceptedIsRemembered'
    BY <1>5, <2>1, ServerAssumption DEF Tick, nonceVars, AcceptedIsRemembered
  <2> QED BY <1>5, <2>2 DEF Tick, nonceVars, TypeOK, RunningIsUnused, AcceptedHasRow
<1>6. CASE UNCHANGED vars
  BY <1>6 DEF vars, nonceVars, TypeOK, AcceptedIsRemembered, RunningIsUnused,
              AcceptedHasRow, IntNow
<1> QED BY <1>1, <1>2, <1>3, <1>4, <1>5, <1>6 DEF Next

LEMMA InvariantHolds == Spec => []IInv
  BY InitEstablishes, NextKeeps, PTL DEF Spec

\* The state of the server keeps its types.
THEOREM ServerTypeCorrect == Spec => []TypeOK
<1>1. IInv => TypeOK
  BY DEF IInv
<1> QED BY <1>1, InvariantHolds, PTL

\* The row of an accepted token outlives the token, across cleanups and crashes.
THEOREM ServerRemembers == Spec => []AcceptedIsRemembered
<1>1. IInv => AcceptedIsRemembered
  BY DEF IInv
<1> QED BY <1>1, InvariantHolds, PTL

\* The token that runs was never used, and it runs alone.
THEOREM ServerRunningIsUnused == Spec => []RunningIsUnused
<1>1. IInv => RunningIsUnused
  BY DEF IInv
<1> QED BY <1>1, InvariantHolds, PTL

\* A step of the server is the one use of a token, or none.
LEMMA StepImplementsPromise ==
    IInv /\ [Next]_vars => [Promise!Next]_uses
<1> SUFFICES ASSUME IInv, Next PROVE Promise!Next \/ uses' = uses
  BY DEF vars
<1>1. ASSUME NEW t \in Tokens, Execute(t) PROVE Promise!Next
  <2>1. uses[t] = 0 /\ uses' = [uses EXCEPT ![t] = 1]
    <3>1. uses[t] = 0
      BY <1>1 DEF Execute, IInv, RunningIsUnused
    <3> QED BY <1>1, <3>1 DEF Execute
  <2> QED BY <2>1 DEF Promise!Next, Promise!Use
<1> QED BY <1>1 DEF Next, Refuse, RefuseReplay, Accept, Crash, Rotate, Tick

\* The secured server implements OneShot: whoever calls it, in whatever order, it
\* executes one tool per token at most.
THEOREM ServerKeepsPromise == Spec => KeepsPromise
<1>1. Init => Promise!Init
  BY DEF Init, Promise!Init
<1> QED BY <1>1, InvariantHolds, StepImplementsPromise, PTL
        DEF Spec, KeepsPromise, Promise!Spec
================================================================================
