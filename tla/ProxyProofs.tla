------------------------------ MODULE ProxyProofs ------------------------------
(***************************************************************************)
(* The proxy, for any number of requests, any messages, keys, catalogues,  *)
(* rotations, limits and cleanup intervals, and any number of crashes: no  *)
(* token gets in twice while it is valid (IInv), nothing reaches the       *)
(* upstream server without the consent of every check, nobody is refused   *)
(* for what others did and the audit file agrees with the answers (MInv),  *)
(* and an honest request is served (HInv).  Last, the proxy uses the       *)
(* registry and the resolver as they are specified alone.                  *)
(***************************************************************************)
EXTENDS Proxy, NonceStoreProofs, FiniteSetTheorems, SequenceTheorems

\* What a request that passed step 4, and what one that spent its jti, has.
BodyHasExpiry == \A r \in Requests : pc[r] = "body" => msg[r].exp > 0

SpentHasRow ==
    \A r \in Requests : Spent(r) => msg[r].jti \in Jtis /\ msg[r].exp > 0

IInv ==
    /\ TypeOK
    /\ clock > 0
    /\ BodyHasExpiry
    /\ SpentHasRow
    /\ SpentIsRemembered
    /\ NoReplayInLifetime
-------------------------------------------------------------------------------
\* The steps of a handler, but for step 7.
Quiet(r) ==
    \/ PassThrough(r) \/ Receive(r) \/ KeyArrives(r)
    \/ RefuseBody(r) \/ SpecsArrive(r) \/ ForwardEnds(r)

\* What the handler of r does to pc, outcome and trail keeps their types, and it
\* comes to read the body only with a token that has not expired.
Progress(r) ==
    /\ pc' \in [Requests -> Places]
    /\ outcome' \in [Requests -> [status : Nat, stage : Stages]]
    /\ trail' \in [Requests -> Seq(Records)]
    /\ \A q \in Requests :
           pc'[q] = "body" => pc[q] = "body" \/ Unexpired(msg[q].exp)

LEMMA AnswerProgresses ==
    ASSUME TypeOK, NEW r \in Requests, NEW status \in Nat, NEW stage \in Stages,
           NEW records \in Seq(Records), Answer(r, status, stage, records)
    PROVE  Progress(r)
<1>1. trail[r] \o records \in Seq(Records)
  BY DEF TypeOK
<1> QED BY <1>1 DEF TypeOK, Answer, Progress, Places

LEMMA AwaitProgresses ==
    ASSUME TypeOK, NEW r \in Requests, NEW place \in Places,
           NEW records \in Seq(Records), Await(r, place, records),
           place = "body" => Unexpired(msg[r].exp)
    PROVE  Progress(r)
<1>1. trail[r] \o records \in Seq(Records)
  BY DEF TypeOK
<1> QED BY <1>1 DEF TypeOK, Await, Progress

LEMMA RecordsAreRecords ==
    /\ << >> \in Seq(Records)
    /\ << "VERIFICATION_FAILED" >> \in Seq(Records)
    /\ << "VERIFICATION_PASSED" >> \in Seq(Records)
    /\ << "POLICY_DECISION" >> \in Seq(Records)
    /\ << "REQUEST_FORWARDED" >> \in Seq(Records)
    /\ << "BASELINE_PASSTHROUGH" >> \in Seq(Records)
    /\ << "POLICY_DECISION", "VERIFICATION_FAILED" >> \in Seq(Records)
  BY DEF Records

LEMMA RecordsConcatenate ==
    \A a, b \in Seq(Records) : a \o b \in Seq(Records)
  OBVIOUS

LEMMA AnswersAreAnswers ==
    /\ 200 \in Nat /\ 400 \in Nat /\ 401 \in Nat /\ 403 \in Nat /\ 429 \in Nat
    /\ 500 \in Nat /\ 502 \in Nat
    /\ "token_presence" \in Stages /\ "jwt_decode" \in Stages
    /\ "did_resolution" \in Stages /\ "request" \in Stages
    /\ "request_parse" \in Stages /\ "tool_binding" \in Stages
    /\ "replay_protection" \in Stages /\ "rate_limit" \in Stages
    /\ "policy_enforcement" \in Stages /\ "tool_integrity" \in Stages
    /\ "upstream" \in Stages /\ "exception" \in Stages /\ "forwarded" \in Stages
  BY DEF Stages

LEMMA DenyProgresses ==
    ASSUME TypeOK, NEW r \in Requests, NEW status \in Nat, NEW stage \in Stages,
           _deny(r, status, stage)
    PROVE  Progress(r)
  BY AnswerProgresses, RecordsAreRecords DEF _deny

LEMMA RaiseProgresses ==
    ASSUME TypeOK, NEW r \in Requests, NEW records \in Seq(Records),
           Raise(r, records)
    PROVE  Progress(r)
  BY AnswerProgresses DEF Raise, Stages

LEMMA ForwardProgresses ==
    ASSUME TypeOK, NEW r \in Requests, NEW records \in Seq(Records),
           Forward(r, records)
    PROVE  Progress(r)
  BY AnswerProgresses, AwaitProgresses DEF Forward, Stages, Places

LEMMA VerifyProgresses ==
    ASSUME TypeOK, NEW r \in Requests, NEW key, Verify(r, key)
    PROVE  Progress(r)
<1>1. CASE Stage(msg[r], key) = "ok"
  BY <1>1, AwaitProgresses, RecordsAreRecords DEF Verify, Stage, Places
<1>2. CASE Stage(msg[r], key) # "ok"
  BY <1>2, DenyProgresses DEF Verify, Stage, Stages
<1> QED BY <1>1, <1>2

LEMMA CheckHashProgresses ==
    ASSUME TypeOK, NEW r \in Requests, NEW specs, NEW records \in Seq(Records),
           CheckHash(r, specs, records)
    PROVE  Progress(r)
<1>1. /\ records \o << "VERIFICATION_FAILED" >> \in Seq(Records)
      /\ records \o << "VERIFICATION_PASSED" >> \in Seq(Records)
  BY RecordsAreRecords, RecordsConcatenate, Zenon
<1>2. CASE Answer(r, 403, "tool_integrity", records \o << "VERIFICATION_FAILED" >>)
  BY <1>1, <1>2, AnswerProgresses, AnswersAreAnswers, Zenon
<1>3. CASE Answer(r, 401, "tool_integrity", records \o << "VERIFICATION_FAILED" >>)
  BY <1>1, <1>3, AnswerProgresses, AnswersAreAnswers, Zenon
<1>4. CASE Forward(r, records \o << "VERIFICATION_PASSED" >>)
  BY <1>1, <1>4, ForwardProgresses
<1> QED BY <1>2, <1>3, <1>4 DEF CheckHash

LEMMA AuthoriseProgresses ==
    ASSUME TypeOK, NEW r \in Requests, Authorise(r)
    PROVE  Progress(r)
<1>1. \/ Raise(r, << >>)
      \/ Answer(r, 403, "policy_enforcement",
                << "POLICY_DECISION", "VERIFICATION_FAILED" >>)
      \/ Answer(r, 401, "tool_integrity",
                << "POLICY_DECISION", "VERIFICATION_FAILED" >>)
      \/ CheckHash(r, Registry!Current, << "POLICY_DECISION" >>)
      \/ Await(r, "registry", << "POLICY_DECISION" >>)
  BY DEF Authorise
<1>2. CASE Raise(r, << >>)
  BY <1>2, RaiseProgresses, RecordsAreRecords
<1>3. CASE Answer(r, 403, "policy_enforcement",
                  << "POLICY_DECISION", "VERIFICATION_FAILED" >>)
  BY <1>3, AnswerProgresses, RecordsAreRecords, AnswersAreAnswers, Zenon
<1>4. CASE Answer(r, 401, "tool_integrity",
                  << "POLICY_DECISION", "VERIFICATION_FAILED" >>)
  BY <1>4, AnswerProgresses, RecordsAreRecords, AnswersAreAnswers, Zenon
<1>5. CASE CheckHash(r, Registry!Current, << "POLICY_DECISION" >>)
  BY <1>5, CheckHashProgresses, RecordsAreRecords
<1>6. CASE Await(r, "registry", << "POLICY_DECISION" >>)
  BY <1>6, AwaitProgresses, RecordsAreRecords DEF Places
<1> QED BY <1>1, <1>2, <1>3, <1>4, <1>5, <1>6

LEMMA QuietProgresses ==
    ASSUME TypeOK, NEW r \in Requests, Quiet(r)
    PROVE  /\ Progress(r)
           /\ UNCHANGED << clock, dztMode, nonceVars, msg, spentAt >>
<1>1. CASE PassThrough(r)
  <2>1. \/ Raise(r, << >>)
        \/ Answer(r, 400, "request", << >>)
        \/ Forward(r, << "BASELINE_PASSTHROUGH" >>)
    BY <1>1 DEF PassThrough
  <2>2. Progress(r)
    BY <2>1, RecordsAreRecords, AnswersAreAnswers, RaiseProgresses,
       AnswerProgresses, ForwardProgresses, Zenon
  <2> QED BY <1>1, <2>2 DEF PassThrough
<1>2. CASE Receive(r)
  <2>1. \/ _deny(r, 401, "token_presence")
        \/ _deny(r, 401, "jwt_decode")
        \/ _deny(r, 401, "did_resolution")
        \/ \E key : Verify(r, key)
        \/ Await(r, "resolving", << >>)
    BY <1>2, Zenon DEF Receive
  <2>2. ASSUME Await(r, "resolving", << >>) PROVE Progress(r)
    BY <2>2, RecordsAreRecords, AwaitProgresses DEF Places
  <2>3. Progress(r)
    BY <2>1, <2>2, AnswersAreAnswers, DenyProgresses, VerifyProgresses, Zenon
  <2> QED BY <1>2, <2>3 DEF Receive
<1>3. CASE KeyArrives(r)
  <2>1. _deny(r, 401, "did_resolution") \/ \E key : Verify(r, key)
    BY <1>3 DEF KeyArrives
  <2>2. Progress(r)
    BY <2>1, DenyProgresses, VerifyProgresses DEF Stages
  <2> QED BY <1>3, <2>2 DEF KeyArrives
<1>4. CASE RefuseBody(r)
  <2>1. \/ Raise(r, << >>)
        \/ _deny(r, 400, "request_parse")
        \/ _deny(r, 401, "tool_binding")
        \/ _deny(r, 401, "replay_protection")
    BY <1>4 DEF RefuseBody
  <2>2. Progress(r)
    BY <2>1, RecordsAreRecords, AnswersAreAnswers, DenyProgresses,
       RaiseProgresses, Zenon
  <2> QED BY <1>4, <2>2 DEF RefuseBody
<1>5. CASE SpecsArrive(r)
  <2>1. Raise(r, << >>) \/ \E specs : CheckHash(r, specs, << >>)
    BY <1>5 DEF SpecsArrive
  <2>2. Progress(r)
    BY <2>1, RecordsAreRecords, CheckHashProgresses, RaiseProgresses
  <2> QED BY <1>5, <2>2 DEF SpecsArrive
<1>6. CASE ForwardEnds(r)
  <2>1. \/ Raise(r, << >>)
        \/ Answer(r, 200, "forwarded", << "REQUEST_FORWARDED" >>)
        \/ Answer(r, 502, "upstream", << >>)
    BY <1>6 DEF ForwardEnds
  <2>2. Progress(r)
    BY <2>1, RecordsAreRecords, AnswersAreAnswers, AnswerProgresses,
       RaiseProgresses, Zenon
  <2> QED BY <1>6, <2>2 DEF ForwardEnds
<1> QED BY <1>1, <1>2, <1>3, <1>4, <1>5, <1>6 DEF Quiet
-------------------------------------------------------------------------------
LEMMA StoreIsInUse == TypeOK => StoreInUse
  BY ProxyAssumption DEF TypeOK, StoreInUse, StoreTypeOK

LEMMA MessagesAreTyped ==
    ASSUME TypeOK, NEW r \in Requests
    PROVE  msg[r].exp \in Int /\ msg[r].jti \in Jtis \cup {NoJti}
  BY ProxyAssumption DEF TypeOK

\* A token that got in, and could again, has its row alive.
LEMMA SpentIsAlive ==
    ASSUME IInv, NEW r \in Requests, Spent(r), msg[r].exp >= IntNow
    PROVE  Alive(msg[r].jti)
  BY DEF IInv, SpentIsRemembered, SpentHasRow, Alive

LEMMA InitEstablishes == Init => IInv
<1> SUFFICES ASSUME Init PROVE IInv
  OBVIOUS
<1>1. clock \in Nat /\ clock > 0
  BY ProxyAssumption DEF Init, Start
<1>2. TypeOK
  BY <1>1 DEF Init, Start, StoreInit, NoRow, TypeOK, Places, Stages
<1> QED BY <1>1, <1>2 DEF Init, Start, IInv, BodyHasExpiry, SpentHasRow, Spent,
                          SpentIsRemembered, NoReplayInLifetime

\* A handler that does not touch the table.
LEMMA QuietKeeps ==
    ASSUME IInv, NEW r \in Requests, Quiet(r)
    PROVE  IInv'
<1>1. /\ Progress(r)
      /\ clock' = clock /\ dztMode' = dztMode /\ msg' = msg /\ spentAt' = spentAt
      /\ rows' = rows /\ lastCleanup' = lastCleanup
  BY QuietProgresses DEF IInv, nonceVars
<1>2. TypeOK'
  BY <1>1 DEF IInv, TypeOK, Progress
<1>3. BodyHasExpiry'
  <2> SUFFICES ASSUME NEW q \in Requests, pc'[q] = "body" PROVE msg[q].exp > 0
    BY <1>1 DEF BodyHasExpiry
  <2>1. CASE pc[q] = "body"
    BY <2>1 DEF IInv, BodyHasExpiry
  <2>2. CASE Unexpired(msg[q].exp)
    BY <2>2, StoreIsInUse, MessagesAreTyped, UnexpiredIsAhead DEF IInv, StoreInUse
  <2> QED BY <1>1, <2>1, <2>2 DEF Progress
<1>4. SpentHasRow' /\ SpentIsRemembered' /\ NoReplayInLifetime'
  BY <1>1 DEF IInv, SpentHasRow, SpentIsRemembered, NoReplayInLifetime, Spent, IntNow
<1> QED BY <1>1, <1>2, <1>3, <1>4 DEF IInv

LEMMA RefuseReplayKeeps ==
    ASSUME IInv, NEW r \in Requests, RefuseReplay(r)
    PROVE  IInv'
<1>1. /\ Recognise(msg[r].jti) /\ msg[r].jti \in Jtis
      /\ _deny(r, 401, "replay_protection")
      /\ clock' = clock /\ dztMode' = dztMode /\ msg' = msg /\ spentAt' = spentAt
  BY MessagesAreTyped DEF RefuseReplay, Bound, IInv
<1>2. StoreTypeOK' /\ \A j \in Jtis : Alive(j) => rows'[j] = rows[j]
  BY <1>1, StoreIsInUse, RecogniseKeeps DEF IInv
<1>3. Progress(r)
  BY <1>1, DenyProgresses, AnswersAreAnswers, Zenon DEF IInv
<1>4. TypeOK'
  BY <1>1, <1>2, <1>3 DEF IInv, TypeOK, StoreTypeOK, Progress
<1>5. BodyHasExpiry'
  BY <1>1 DEF IInv, TypeOK, BodyHasExpiry, _deny, Answer
<1>6. SpentIsRemembered'
  <2> SUFFICES ASSUME NEW q \in Requests, Spent(q), msg[q].exp >= IntNow
               PROVE  rows'[msg[q].jti] = msg[q].exp
    BY <1>1 DEF SpentIsRemembered, Spent, IntNow
  <2> QED BY <1>2, SpentIsAlive DEF IInv, SpentIsRemembered, SpentHasRow
<1> QED BY <1>1, <1>4, <1>5, <1>6 DEF IInv, SpentHasRow, NoReplayInLifetime, Spent

\* The second of an expiry that is past is past on the clock.
LEMMA PastSecond ==
    ASSUME TypeOK, NEW exp \in Int, exp < IntNow
    PROVE  exp * TicksPerSecond <= clock
<1>1. IntNow \in Nat /\ IntNow * TicksPerSecond <= clock
  BY StoreIsInUse, SecondsBelowClock DEF StoreInUse, IntNow
<1>2. TicksPerSecond \in Nat \ {0} /\ clock \in Nat
  BY StoreIsInUse DEF StoreInUse
<1>3. exp * TicksPerSecond <= IntNow * TicksPerSecond
  BY <1>1, <1>2
<1> QED BY <1>1, <1>2, <1>3

\* Step 7 lets a request in: had another one spent the same token before, its row
\* would be alive unless the token has expired.
LEMMA AdmitKeeps ==
    ASSUME IInv, NEW r \in Requests, Admit(r)
    PROVE  IInv'
<1>1. /\ pc[r] = "body"
      /\ Remember(msg[r].jti, msg[r].exp) /\ msg[r].jti \in Jtis
      /\ msg[r].exp \in Int /\ msg[r].exp > 0
      /\ spentAt' = [spentAt EXCEPT ![r] = clock]
      /\ _deny(r, 429, "rate_limit") \/ Authorise(r)
      /\ clock' = clock /\ dztMode' = dztMode /\ msg' = msg
  BY MessagesAreTyped DEF Admit, Bound, IInv, BodyHasExpiry
<1>2. /\ StoreTypeOK' /\ ~ Alive(msg[r].jti)
      /\ rows'[msg[r].jti] = msg[r].exp
      /\ \A j \in Jtis : Alive(j) => rows'[j] = rows[j]
  BY <1>1, StoreIsInUse, RememberKeeps DEF IInv
<1>3. Progress(r)
  BY <1>1, DenyProgresses, AuthoriseProgresses, AnswersAreAnswers, Zenon DEF IInv
<1>4. TypeOK'
  BY <1>1, <1>2, <1>3 DEF IInv, TypeOK, StoreTypeOK, Progress
<1>5. BodyHasExpiry'
  <2> SUFFICES ASSUME NEW q \in Requests, pc'[q] = "body" PROVE msg[q].exp > 0
    BY <1>1 DEF BodyHasExpiry
  <2>1. CASE pc[q] = "body"
    BY <2>1 DEF IInv, BodyHasExpiry
  <2>2. CASE Unexpired(msg[q].exp)
    BY <2>2, StoreIsInUse, MessagesAreTyped, UnexpiredIsAhead DEF IInv, StoreInUse
  <2> QED BY <1>3, <2>1, <2>2 DEF Progress
<1>6. \A q \in Requests : q # r => spentAt'[q] = spentAt[q]
  BY <1>1 DEF IInv, TypeOK
<1>7. spentAt'[r] = clock /\ clock > 0
  BY <1>1 DEF IInv, TypeOK
<1>8. SpentHasRow'
  BY <1>1, <1>6 DEF IInv, SpentHasRow, Spent
<1>9. SpentIsRemembered'
  <2> SUFFICES ASSUME NEW q \in Requests, q = r \/ Spent(q), msg[q].exp >= IntNow
               PROVE  rows'[msg[q].jti] = msg[q].exp
    BY <1>1, <1>6 DEF SpentIsRemembered, Spent, IntNow
  <2>1. CASE q = r
    BY <2>1, <1>2
  <2>2. CASE Spent(q)
    BY <2>2, <1>2, SpentIsAlive DEF IInv, SpentIsRemembered, SpentHasRow
  <2> QED BY <2>1, <2>2
<1>10. ASSUME NEW q \in Requests, Spent(q),
              msg[q].jti = msg[r].jti, msg[q].exp = msg[r].exp
       PROVE  clock >= msg[r].exp * TicksPerSecond
  <2>1. ~ Alive(msg[q].jti)
    BY <1>2, <1>10
  <2>2. IntNow \in Nat
    BY StoreIsInUse, SecondsBelowClock DEF IInv, StoreInUse, IntNow
  <2>3. msg[r].exp < IntNow
    BY <1>1, <1>10, <2>1, <2>2, SpentIsAlive
  <2>4. msg[r].exp * TicksPerSecond \in Int /\ clock \in Nat
    BY <1>1, StoreIsInUse DEF IInv, StoreInUse
  <2> QED BY <1>1, <2>3, <2>4, PastSecond DEF IInv
<1>11. NoReplayInLifetime'
  <2> SUFFICES ASSUME NEW p \in Requests, NEW q \in Requests, p # q,
                      spentAt'[p] > 0, spentAt'[q] > 0,
                      msg[p].jti = msg[q].jti, msg[p].exp = msg[q].exp
               PROVE  \/ spentAt'[p] >= msg[p].exp * TicksPerSecond
                      \/ spentAt'[q] >= msg[q].exp * TicksPerSecond
    BY <1>1 DEF NoReplayInLifetime, Spent
  <2>1. CASE p = r
    BY <2>1, <1>6, <1>7, <1>10 DEF Spent
  <2>2. CASE q = r
    BY <2>2, <1>6, <1>7, <1>10 DEF Spent
  <2>3. CASE p # r /\ q # r
    BY <2>3, <1>6 DEF IInv, NoReplayInLifetime, Spent
  <2> QED BY <2>1, <2>2, <2>3
<1> QED BY <1>1, <1>4, <1>5, <1>8, <1>9, <1>11 DEF IInv

LEMMA TickKeeps == IInv /\ Tick => IInv'
<1> SUFFICES ASSUME IInv, Tick PROVE IInv'
  OBVIOUS
<1>1. /\ clock \in Nat /\ clock' = clock + 1
      /\ dztMode' = dztMode /\ msg' = msg /\ spentAt' = spentAt /\ pc' = pc
      /\ outcome' = outcome /\ trail' = trail
      /\ rows' = rows /\ lastCleanup' = lastCleanup
  BY DEF IInv, TypeOK, Tick, nonceVars, requestVars
<1>2. IntNow \in Nat /\ IntNow' \in Nat /\ IntNow <= IntNow'
  <2>1. TicksPerSecond \in Nat \ {0} /\ clock + 1 \in Nat
    BY <1>1, ProxyAssumption
  <2>2. /\ clock \div TicksPerSecond \in Nat
        /\ (clock + 1) \div TicksPerSecond \in Nat
        /\ clock \div TicksPerSecond <= (clock + 1) \div TicksPerSecond
    BY <1>1, <2>1, SecondsBelowClock
  <2> QED BY <1>1, <2>2 DEF IntNow
<1>3. TypeOK' /\ clock' > 0
  BY <1>1 DEF IInv, TypeOK
<1>4. SpentIsRemembered'
  <2> SUFFICES ASSUME NEW q \in Requests, Spent(q), msg[q].exp >= IntNow'
               PROVE  rows[msg[q].jti] = msg[q].exp
    BY <1>1 DEF SpentIsRemembered, Spent
  <2> QED BY <1>2, MessagesAreTyped DEF IInv, SpentIsRemembered
<1> QED BY <1>1, <1>3, <1>4
        DEF IInv, BodyHasExpiry, SpentHasRow, NoReplayInLifetime, Spent

LEMMA CrashKeeps == IInv /\ Crash => IInv'
<1> SUFFICES ASSUME IInv, Crash PROVE IInv'
  OBVIOUS
<1>1. /\ clock' = clock /\ dztMode' \in DztModes
      /\ msg' = msg /\ spentAt' = spentAt /\ outcome' = outcome /\ trail' = trail
      /\ rows' = rows /\ lastCleanup' = 0
      /\ pc' = [r \in Requests |->
                   IF pc[r] \in {"idle", "answered"} THEN pc[r] ELSE "lost"]
  BY DEF Crash, ReopenStore
<1>2. TypeOK'
  BY <1>1 DEF IInv, TypeOK, Places
<1>3. BodyHasExpiry'
  BY <1>1 DEF BodyHasExpiry
<1> QED BY <1>1, <1>2, <1>3
        DEF IInv, SpentHasRow, SpentIsRemembered, NoReplayInLifetime, Spent, IntNow

LEMMA NextKeeps == IInv /\ [Next]_vars => IInv'
<1> SUFFICES ASSUME IInv, [Next]_vars PROVE IInv'
  OBVIOUS
<1>1. ASSUME NEW r \in Requests, Handler(r) PROVE IInv'
  BY <1>1, QuietKeeps, RefuseReplayKeeps, AdmitKeeps DEF Handler, Quiet
<1>2. ASSUME UNCHANGED << clock, dztMode, nonceVars, msg, requestVars >>
      PROVE  IInv'
  BY <1>2 DEF nonceVars, requestVars, IInv, TypeOK, BodyHasExpiry, SpentHasRow,
              SpentIsRemembered, NoReplayInLifetime, Spent, IntNow
<1>3. ASSUME NEW r \in Requests, Serve(r) PROVE IInv'
  BY <1>2, <1>3 DEF Serve
<1>4. CASE Publish
  BY <1>2, <1>4 DEF Publish
<1>5. CASE UNCHANGED vars
  BY <1>2, <1>5 DEF vars
<1> QED BY <1>1, <1>3, <1>4, <1>5, TickKeeps, CrashKeeps DEF Next

LEMMA InvariantHolds == Spec => []IInv
  BY InitEstablishes, NextKeeps, PTL DEF Spec

\* The table, the handlers' places, the answers and the audit trails keep their
\* types.
THEOREM ProxyTypeCorrect == Spec => []TypeOK
<1>1. IInv => TypeOK
  BY DEF IInv
<1> QED BY <1>1, InvariantHolds, PTL

\* A token that got in keeps its row while it could be accepted again, across
\* cleanups and crashes.
THEOREM ProxyRemembers == Spec => []SpentIsRemembered
<1>1. IInv => SpentIsRemembered
  BY DEF IInv
<1> QED BY <1>1, InvariantHolds, PTL

\* No token gets in twice while it is valid.
THEOREM ProxyNoReplay == Spec => []NoReplayInLifetime
<1>1. IInv => NoReplayInLifetime
  BY DEF IInv
<1> QED BY <1>1, InvariantHolds, PTL
-------------------------------------------------------------------------------
\* A token that passed step 4.
Verified(m) ==
    /\ m.form = "jwt" /\ m.claims = "good" /\ m.iss \in Dids
    /\ m.key \in KeysOf(m.iss)

\* Before step 7.
Untried(r) == pc[r] \in {"idle", "resolving", "body"}

\* What a handler knows at each of its awaits, and an answer says.
PlaceInv(r) ==
    /\ outcome[r].stage # "none" => pc[r] = "answered"
    /\ Untried(r) => ~ Spent(r)
    /\ pc[r] = "resolving" => msg[r].form = "jwt"
    /\ pc[r] = "body" => Verified(msg[r])
    /\ pc[r] = "registry" => Consented(r) /\ msg[r].asked # NoTool
    /\ Spent(r) => Genuine(msg[r]) /\ spentAt[r] <= clock

\* Complete mediation of r.
Mediated(r) ==
    Reached(r) /\ ~ InBaseline(r) =>
        Consented(r) /\ msg[r].hash \in HashesOf(msg[r].asked)

Decided == << "POLICY_DECISION" >>
Passed == << "POLICY_DECISION", "VERIFICATION_PASSED" >>
Failed == << "POLICY_DECISION", "VERIFICATION_FAILED" >>
Forwarded ==
    << "POLICY_DECISION", "VERIFICATION_PASSED", "REQUEST_FORWARDED" >>

\* The answers, with the trails they may have.
AnsweredAs(r) ==
    \/ /\ outcome[r].status \in {400, 401, 403, 429}
       /\ trail[r] \in {<< "VERIFICATION_FAILED" >>, Failed}
    \/ outcome[r].status \in {500, 502} /\ trail[r] \in {<< >>, Decided, Passed}
    \/ outcome[r].status = 200 /\ trail[r] = Forwarded

\* The trail of r at each of its awaits and at the end.
Trailed(r) ==
    \/ Untried(r) /\ outcome[r].status = 0 /\ trail[r] = << >>
    \/ pc[r] = "registry" /\ outcome[r].status = 0 /\ trail[r] = Decided
    \/ pc[r] = "forwarding" /\ outcome[r].status = 0 /\ trail[r] = Passed
    \/ /\ pc[r] = "lost" /\ outcome[r].status = 0
       /\ trail[r] \in {<< >>, Decided, Passed}
    \/ pc[r] = "answered" /\ AnsweredAs(r)
    \/ pc[r] \in {"forwarding", "answered", "lost"} /\ InBaseline(r)

RequestInv(r) == PlaceInv(r) /\ Mediated(r) /\ Trailed(r)

\* A lookup is for the issuer of its request, and finds a key that it published.
LookupInv(r) ==
    /\ lookup[r].phase # "none" =>
           lookup[r].did = msg[r].iss /\ lookup[r].did \in Dids
    /\ lookup[r].phase = "answered" /\ lookup[r].doc \in Keys =>
           lookup[r].doc \in KeysOf(lookup[r].did)

\* The keys of a DID anywhere in the resolver are keys that the DID published.
KeysInv ==
    /\ \A d \in Dids : /\ published[d] \in KeysOf(d)
                       /\ keyCache[d] # NoKey => keyCache[d] \in KeysOf(d)
    /\ \A d \in LocalDids : docCache[d] # NoKey => docCache[d] \in KeysOf(d)
    /\ \A r \in Requests : LookupInv(r)

\* The specifications anywhere in the registry are those of a catalogue.
SpecsInv ==
    \A r \in Requests : fetch[r].phase = "answered" => fetch[r].specs \in Catalogues

\* A row in the table was put there by a request that got in.
RowsAreSpent ==
    \A j \in Jtis : rows[j] # NoRow => \E s \in Requests : Spent(s) /\ msg[s].jti = j

\* The limiter counts nothing but requests that it let through.
RateLogIsHistory == \A d \in Dids : rateLog[d] \subseteq RateHistory(FALSE)[d]

RateTypeOK == rateLog \in [Dids -> SUBSET [call : Requests, at : Nat]]

SharedInv ==
    /\ Resolver!TypeOK /\ KeysInv
    /\ Registry!TypeOK /\ SpecsInv
    /\ RowsAreSpent
    /\ RateTypeOK /\ RateLogIsHistory

MInv ==
    /\ SharedInv
    /\ \A r \in Requests : RequestInv(r)
    /\ OnlyGenuineTokensCost
-------------------------------------------------------------------------------
\* What the ways a stretch of the handler may end do to a request, and leave of
\* the others.
OthersStay(r) ==
    \A q \in Requests \ {r} :
        pc'[q] = pc[q] /\ outcome'[q] = outcome[q] /\ trail'[q] = trail[q]

LEMMA AnswerEffect ==
    ASSUME TypeOK, NEW r \in Requests, NEW status, NEW stage, NEW records,
           Answer(r, status, stage, records)
    PROVE  /\ pc'[r] = "answered"
           /\ outcome'[r].status = status /\ outcome'[r].stage = stage
           /\ trail'[r] = trail[r] \o records
           /\ OthersStay(r)
  BY DEF TypeOK, Answer, OthersStay

LEMMA AwaitEffect ==
    ASSUME TypeOK, NEW r \in Requests, NEW place, NEW records,
           Await(r, place, records)
    PROVE  /\ pc'[r] = place /\ outcome'[r] = outcome[r]
           /\ trail'[r] = trail[r] \o records
           /\ OthersStay(r)
  BY DEF TypeOK, Await, OthersStay

LEMMA PairOfRecords ==
    ASSUME NEW S, NEW a \in S, NEW b \in S
    PROVE  << a >> \o << b >> = << a, b >>
<1>1. << a >> \in Seq(S) /\ << b >> \in Seq(S) /\ << a, b >> \in Seq(S)
  OBVIOUS
<1>2. << a >> \o << b >> \in Seq(S) /\ Len(<< a >> \o << b >>) = 2 /\ Len(<< a, b >>) = 2
  BY <1>1
<1>3. \A i \in 1 .. 2 : (<< a >> \o << b >>)[i] = << a, b >>[i]
  BY <1>1
<1> QED BY <1>1, <1>2, <1>3, SeqEqual, Zenon

LEMMA TripleOfRecords ==
    ASSUME NEW S, NEW a \in S, NEW b \in S, NEW c \in S
    PROVE  << a, b >> \o << c >> = << a, b, c >>
<1>1. << a, b >> \in Seq(S) /\ << c >> \in Seq(S) /\ << a, b, c >> \in Seq(S)
  OBVIOUS
<1>2. /\ << a, b >> \o << c >> \in Seq(S)
      /\ Len(<< a, b >> \o << c >>) = 3 /\ Len(<< a, b, c >>) = 3
  BY <1>1
<1>3. \A i \in 1 .. 3 : (<< a, b >> \o << c >>)[i] = << a, b, c >>[i]
  BY <1>1
<1> QED BY <1>1, <1>2, <1>3, SeqEqual

LEMMA TrailsAreTrails ==
    /\ Decided \in Seq(Records) /\ Passed \in Seq(Records)
    /\ Failed \in Seq(Records) /\ Forwarded \in Seq(Records)
  BY DEF Decided, Passed, Failed, Forwarded, Records

\* The trails that the stretches put together.
LEMMA TrailsGrow ==
    /\ \A t \in Seq(Records) : << >> \o t = t /\ t \o << >> = t
    /\ Decided \o << "VERIFICATION_FAILED" >> = Failed
    /\ Decided \o << "VERIFICATION_PASSED" >> = Passed
    /\ Passed \o << "REQUEST_FORWARDED" >> = Forwarded
<1>1. /\ "POLICY_DECISION" \in Records /\ "VERIFICATION_FAILED" \in Records
      /\ "VERIFICATION_PASSED" \in Records /\ "REQUEST_FORWARDED" \in Records
  BY DEF Records
<1>2. \A t \in Seq(Records) : << >> \o t = t /\ t \o << >> = t
  OBVIOUS
<1> QED BY <1>1, <1>2, PairOfRecords, TripleOfRecords, Zenon
        DEF Decided, Passed, Failed, Forwarded

\* A record stays in the trail.
LEMMA RecordsStay ==
    ASSUME TypeOK, NEW r \in Requests, NEW records \in Seq(Records), NEW record,
           trail'[r] = trail[r] \o records,
           WrittenFor(r, record)
    PROVE  WrittenFor(r, record)'
<1>1. trail[r] \in Seq(Records)
  BY DEF TypeOK
<1> QED BY <1>1 DEF WrittenFor

LEMMA BaselineIsWritten ==
    ASSUME TypeOK, NEW r \in Requests,
           trail'[r] = trail[r] \o << "BASELINE_PASSTHROUGH" >>
    PROVE  WrittenFor(r, "BASELINE_PASSTHROUGH")'
<1>1. trail[r] \in Seq(Records) /\ << "BASELINE_PASSTHROUGH" >> \in Seq(Records)
  BY RecordsAreRecords DEF TypeOK
<1>2. /\ Len(trail'[r]) = Len(trail[r]) + 1
      /\ trail'[r][Len(trail[r]) + 1] = "BASELINE_PASSTHROUGH"
  BY <1>1
<1> QED BY <1>1, <1>2 DEF WrittenFor
-------------------------------------------------------------------------------
\* What the handler of r leaves of r besides its place, answer and trail.
Charged(r) == Spent(r)' => Genuine(msg[r]) /\ spentAt'[r] <= clock'

\* What a stretch of the handler of r has to do for the requests.
InOrder(r) == RequestInv(r)' /\ OthersStay(r)

\* Other requests do not notice.
LEMMA OthersKeep ==
    ASSUME NEW r \in Requests, NEW q \in Requests \ {r}, RequestInv(q),
           OthersStay(r), msg' = msg, clock' = clock, spentAt'[q] = spentAt[q]
    PROVE  RequestInv(q)'
  BY DEF OthersStay, RequestInv, PlaceInv, Mediated, Trailed, AnsweredAs, Untried,
         Spent, Reached, Consented, InBaseline, WrittenFor

\* An answer that is not about the upstream server.
LEMMA RefusalKeeps ==
    ASSUME TypeOK, NEW r \in Requests, NEW status, NEW stage, NEW records,
           Answer(r, status, stage, records), stage \notin {"forwarded", "upstream"},
           msg' = msg, Charged(r),
           \/ /\ status \in {400, 401, 403, 429}
              /\ trail[r] \o records \in {<< "VERIFICATION_FAILED" >>, Failed}
           \/ status = 500 /\ trail[r] \o records \in {<< >>, Decided, Passed}
           \/ stage = "request"
    PROVE  InOrder(r)
<1>1. /\ pc'[r] = "answered"
      /\ outcome'[r].status = status /\ outcome'[r].stage = stage
      /\ trail'[r] = trail[r] \o records /\ OthersStay(r)
  BY AnswerEffect
<1>2. PlaceInv(r)'
  BY <1>1 DEF PlaceInv, Untried, Charged, Spent
<1>3. Mediated(r)'
  BY <1>1 DEF Mediated, Reached
<1>4. Trailed(r)'
  BY <1>1 DEF Trailed, AnsweredAs, InBaseline
<1> QED BY <1>1, <1>2, <1>3, <1>4 DEF RequestInv, InOrder

\* A request that waits on, before it is forwarded.
LEMMA AwaitKeeps ==
    ASSUME TypeOK, NEW r \in Requests, NEW place, NEW records,
           Await(r, place, records), outcome[r].status = 0, outcome[r].stage = "none",
           msg' = msg, Charged(r),
           \/ /\ place = "resolving" /\ msg[r].form = "jwt" /\ ~ Spent(r)'
              /\ trail[r] \o records = << >>
           \/ /\ place = "body" /\ Verified(msg[r]) /\ ~ Spent(r)'
              /\ trail[r] \o records = << >>
           \/ /\ place = "registry" /\ Consented(r)' /\ msg[r].asked # NoTool
              /\ trail[r] \o records = Decided
           \/ /\ place = "forwarding" /\ Mediated(r)'
              /\ trail[r] \o records = Passed \/ WrittenFor(r, "BASELINE_PASSTHROUGH")'
    PROVE  InOrder(r)
<1>1. /\ pc'[r] = place /\ outcome'[r] = outcome[r]
      /\ trail'[r] = trail[r] \o records /\ OthersStay(r)
  BY AwaitEffect
<1>2. PlaceInv(r)'
  BY <1>1 DEF PlaceInv, Untried, Charged, Spent
<1>3. Mediated(r)'
  BY <1>1 DEF Mediated, Reached
<1>4. Trailed(r)'
  BY <1>1 DEF Trailed, Untried, InBaseline
<1> QED BY <1>1, <1>2, <1>3, <1>4 DEF RequestInv, InOrder

\* An answer after the forwarding began.
LEMMA ForwardedKeeps ==
    ASSUME TypeOK, NEW r \in Requests, NEW status, NEW stage, NEW records,
           Answer(r, status, stage, records), msg' = msg, Charged(r), Mediated(r)',
           \/ status \in {500, 502} /\ trail[r] \o records = Passed
           \/ status = 200 /\ trail[r] \o records = Forwarded
           \/ WrittenFor(r, "BASELINE_PASSTHROUGH")'
    PROVE  InOrder(r)
<1>1. /\ pc'[r] = "answered"
      /\ outcome'[r].status = status /\ outcome'[r].stage = stage
      /\ trail'[r] = trail[r] \o records /\ OthersStay(r)
  BY AnswerEffect
<1>2. PlaceInv(r)'
  BY <1>1 DEF PlaceInv, Untried, Charged, Spent
<1>3. Trailed(r)'
  BY <1>1 DEF Trailed, AnsweredAs, InBaseline
<1> QED BY <1>1, <1>2, <1>3 DEF RequestInv, InOrder

LEMMA ForwardKeeps ==
    ASSUME TypeOK, NEW r \in Requests, NEW records, Forward(r, records),
           outcome[r].status = 0, outcome[r].stage = "none",
           msg' = msg, Charged(r), Mediated(r)',
           trail[r] \o records = Passed \/ WrittenFor(r, "BASELINE_PASSTHROUGH")'
    PROVE  InOrder(r)
<1>1. CASE Answer(r, 502, "upstream", records)
  BY <1>1, ForwardedKeeps
<1>2. CASE Await(r, "forwarding", records)
  BY <1>2, AwaitKeeps
<1> QED BY <1>1, <1>2 DEF Forward

LEMMA VerifyKeeps ==
    ASSUME TypeOK, NEW r \in Requests, NEW key, Verify(r, key),
           outcome[r].status = 0, outcome[r].stage = "none", trail[r] = << >>,
           msg' = msg, ~ Spent(r)', msg[r].form = "jwt", msg[r].iss \in Dids,
           key \in KeysOf(msg[r].iss)
    PROVE  InOrder(r)
<1>1. Charged(r)
  BY DEF Charged
<1>2. CASE Stage(msg[r], key) = "ok"
  <2>1. Await(r, "body", << >>)
    BY <1>2 DEF Verify
  <2>2. msg[r].claims \in {"good", "rejected", "elsewhere"}
    BY ProxyAssumption DEF TypeOK
  <2>3. Verified(msg[r])
    BY <1>2, <2>2 DEF Verified, Stage
  <2> QED BY <1>1, <2>1, <2>3, AwaitKeeps, TrailsGrow
<1>3. CASE Stage(msg[r], key) # "ok"
  <2>1. /\ Answer(r, 401, Stage(msg[r], key), << "VERIFICATION_FAILED" >>)
        /\ Stage(msg[r], key) \notin {"forwarded", "upstream"}
    BY <1>3 DEF Verify, _deny, Stage
  <2> HIDE DEF Stage
  <2> QED BY <1>1, <2>1, RefusalKeeps, TrailsGrow, RecordsAreRecords
<1> QED BY <1>2, <1>3

LEMMA LateRefusalKeeps ==
    ASSUME TypeOK, NEW r \in Requests, NEW status, status = 401 \/ status = 403,
           NEW stage, stage \notin {"forwarded", "upstream"}, NEW records,
           Answer(r, status, stage, records), msg' = msg, Charged(r),
           trail[r] \o records = Failed
    PROVE  InOrder(r)
  BY RefusalKeeps

LEMMA RaiseKeeps ==
    ASSUME TypeOK, NEW r \in Requests, Raise(r, << >>), msg' = msg, Charged(r),
           trail[r] = << >> \/ trail[r] = Decided
    PROVE  InOrder(r)
<1>1. trail[r] \o << >> = trail[r]
  BY TrailsGrow, TrailsAreTrails, RecordsAreRecords, Zenon
<1>2. /\ pc'[r] = "answered"
      /\ outcome'[r].status = 500 /\ outcome'[r].stage = "exception"
      /\ trail'[r] = trail[r] /\ OthersStay(r)
  <2>1. Answer(r, 500, "exception", << >>)
    BY DEF Raise
  <2>2. /\ pc'[r] = "answered"
        /\ outcome'[r].status = 500 /\ outcome'[r].stage = "exception"
        /\ trail'[r] = trail[r] \o << >> /\ OthersStay(r)
    BY <2>1 DEF Answer, TypeOK, OthersStay
  <2> QED BY <1>1, <2>2, Zenon
<1>3. PlaceInv(r)'
  BY <1>2 DEF PlaceInv, Untried, Charged, Spent
<1>4. Mediated(r)'
  BY <1>2 DEF Mediated, Reached
<1>5. Trailed(r)'
  BY <1>2 DEF Trailed, AnsweredAs, InBaseline
<1> QED BY <1>2, <1>3, <1>4, <1>5 DEF RequestInv, InOrder

LEMMA CheckHashKeeps ==
    ASSUME TypeOK, NEW r \in Requests, NEW specs, NEW records,
           CheckHash(r, specs, records),
           outcome[r].status = 0, outcome[r].stage = "none",
           trail[r] \o (records \o << "VERIFICATION_FAILED" >>) = Failed,
           trail[r] \o (records \o << "VERIFICATION_PASSED" >>) = Passed,
           msg' = msg, Charged(r), Consented(r)',
           specs[msg[r].asked] # NoHash =>
               specs[msg[r].asked] \in HashesOf(msg[r].asked)
    PROVE  InOrder(r)
<1>1. CASE Answer(r, 403, "tool_integrity", records \o << "VERIFICATION_FAILED" >>)
  BY <1>1, LateRefusalKeeps
<1>2. CASE Answer(r, 401, "tool_integrity", records \o << "VERIFICATION_FAILED" >>)
  BY <1>2, LateRefusalKeeps
<1>3. CASE /\ specs[msg[r].asked] # NoHash /\ specs[msg[r].asked] = msg[r].hash
           /\ Forward(r, records \o << "VERIFICATION_PASSED" >>)
  <2>1. Mediated(r)'
    BY <1>3 DEF Mediated
  <2> QED BY <1>3, <2>1, ForwardKeeps
<1> QED BY <1>1, <1>2, <1>3 DEF CheckHash
-------------------------------------------------------------------------------
\* What a place says about a request.
LEMMA AtPlace ==
    ASSUME NEW r \in Requests, RequestInv(r)
    PROVE  /\ Untried(r) => /\ outcome[r].status = 0 /\ outcome[r].stage = "none"
                            /\ trail[r] = << >> /\ ~ Spent(r)
           /\ pc[r] = "registry" => /\ outcome[r].status = 0
                                    /\ outcome[r].stage = "none"
                                    /\ trail[r] = Decided /\ Consented(r)
           /\ pc[r] = "forwarding" =>
                  \/ trail[r] = Passed
                  \/ WrittenFor(r, "BASELINE_PASSTHROUGH")
  BY DEF RequestInv, PlaceInv, Trailed, Untried, InBaseline

LEMMA ChargedBefore ==
    ASSUME NEW r \in Requests, RequestInv(r),
           msg' = msg, clock' = clock, spentAt' = spentAt
    PROVE  Charged(r)
  BY DEF Charged, RequestInv, PlaceInv, Spent

LEMMA PassThroughKeeps ==
    ASSUME TypeOK, NEW r \in Requests, RequestInv(r), PassThrough(r)
    PROVE  InOrder(r)
<1>1. /\ msg' = msg /\ Charged(r)
      /\ outcome[r].status = 0 /\ outcome[r].stage = "none" /\ trail[r] = << >>
  BY AtPlace, ChargedBefore DEF PassThrough, Untried
<1>2. CASE Raise(r, << >>)
  BY <1>1, <1>2, RaiseKeeps
<1>3. CASE Answer(r, 400, "request", << >>)
  BY <1>1, <1>3, RefusalKeeps
<1>4. CASE Forward(r, << "BASELINE_PASSTHROUGH" >>)
  <2>1. trail'[r] = trail[r] \o << "BASELINE_PASSTHROUGH" >>
    BY <1>4 DEF Forward, Answer, Await, TypeOK
  <2>2. WrittenFor(r, "BASELINE_PASSTHROUGH")'
    BY <2>1, BaselineIsWritten
  <2>3. Mediated(r)'
    BY <2>2 DEF Mediated, InBaseline
  <2> QED BY <1>1, <1>4, <2>2, <2>3, ForwardKeeps
<1> QED BY <1>2, <1>3, <1>4 DEF PassThrough

\* The refusals before step 7.
LEMMA DenyKeeps ==
    ASSUME TypeOK, NEW r \in Requests, RequestInv(r), Untried(r),
           NEW status, NEW stage, _deny(r, status, stage),
           status \in {400, 401, 403, 429}, stage \notin {"forwarded", "upstream"},
           msg' = msg, Charged(r)
    PROVE  InOrder(r)
<1>1. trail[r] = << >>
  BY AtPlace
<1>2. trail[r] \o << "VERIFICATION_FAILED" >> = << "VERIFICATION_FAILED" >>
  BY <1>1, TrailsGrow, RecordsAreRecords
<1> QED BY <1>2, RefusalKeeps DEF _deny

\* A key of the resolver is a key that the DID published.
LEMMA ReceiveKeeps ==
    ASSUME TypeOK, SharedInv, NEW r \in Requests, RequestInv(r), Receive(r)
    PROVE  InOrder(r)
<1>1. /\ msg' = msg /\ Charged(r) /\ Untried(r) /\ ~ Spent(r)'
      /\ outcome[r].status = 0 /\ outcome[r].stage = "none" /\ trail[r] = << >>
  BY AtPlace, ChargedBefore DEF Receive, Untried, Spent
<1>2. ASSUME NEW stage \in {"token_presence", "jwt_decode", "did_resolution"},
             _deny(r, 401, stage)
      PROVE  InOrder(r)
  BY <1>1, <1>2, DenyKeeps
<1>3. CASE /\ msg[r].form = "jwt" /\ Resolver!Cached(msg[r].iss)
           /\ Verify(r, keyCache[msg[r].iss])
  <2>1. msg[r].iss \in Dids /\ keyCache[msg[r].iss] \in KeysOf(msg[r].iss)
    BY <1>3 DEF Resolver!Cached, SharedInv, KeysInv
  <2> QED BY <1>1, <1>3, <2>1, VerifyKeeps
<1>4. CASE /\ msg[r].form = "jwt" /\ Resolver!ReadFile(msg[r].iss)
           /\ Verify(r, Resolver!LocalDocument(msg[r].iss))
  <2>1. msg[r].iss \in LocalDids /\ msg[r].iss \in Dids
    BY <1>4, SurroundingsAssumption DEF Resolver!ReadFile, Resolver!FromFile
  <2>2. Resolver!LocalDocument(msg[r].iss) \in KeysOf(msg[r].iss)
    BY <2>1 DEF Resolver!LocalDocument, SharedInv, KeysInv
  <2> QED BY <1>1, <1>4, <2>1, <2>2, VerifyKeeps
<1>5. CASE msg[r].form = "jwt" /\ Await(r, "resolving", << >>)
  BY <1>1, <1>5, AwaitKeeps, TrailsGrow, RecordsAreRecords
<1> QED BY <1>2, <1>3, <1>4, <1>5 DEF Receive

LEMMA KeyArrivesKeeps ==
    ASSUME TypeOK, SharedInv, NEW r \in Requests, RequestInv(r), KeyArrives(r)
    PROVE  InOrder(r)
<1>1. /\ msg' = msg /\ Charged(r) /\ Untried(r) /\ ~ Spent(r)'
      /\ outcome[r].status = 0 /\ outcome[r].stage = "none" /\ trail[r] = << >>
      /\ msg[r].form = "jwt"
  BY AtPlace, ChargedBefore DEF KeyArrives, Untried, Spent, RequestInv, PlaceInv
<1>2. CASE Resolver!Deliver(r) /\ Verify(r, lookup[r].doc)
  <2>1. msg[r].iss \in Dids /\ lookup[r].doc \in KeysOf(msg[r].iss)
    BY <1>2 DEF Resolver!Deliver, SharedInv, KeysInv, LookupInv
  <2> QED BY <1>1, <1>2, <2>1, VerifyKeeps
<1>3. CASE _deny(r, 401, "did_resolution")
  BY <1>1, <1>3, DenyKeeps
<1> QED BY <1>2, <1>3 DEF KeyArrives

LEMMA RefuseBodyKeeps ==
    ASSUME TypeOK, NEW r \in Requests, RequestInv(r), RefuseBody(r)
    PROVE  InOrder(r)
<1>1. /\ msg' = msg /\ Charged(r) /\ Untried(r) /\ trail[r] = << >>
  BY AtPlace, ChargedBefore DEF RefuseBody, Untried
<1>2. CASE Raise(r, << >>)
  BY <1>1, <1>2, RaiseKeeps
<1>3. CASE _deny(r, 400, "request_parse")
  BY <1>1, <1>3, DenyKeeps
<1>4. ASSUME NEW stage \in {"tool_binding", "replay_protection"}, _deny(r, 401, stage)
      PROVE  InOrder(r)
  BY <1>1, <1>4, DenyKeeps
<1> QED BY <1>2, <1>3, <1>4 DEF RefuseBody

LEMMA RefuseReplayKeepsRequest ==
    ASSUME TypeOK, NEW r \in Requests, RequestInv(r), RefuseReplay(r)
    PROVE  InOrder(r)
<1>1. msg' = msg /\ Charged(r) /\ Untried(r) /\ _deny(r, 401, "replay_protection")
  BY ChargedBefore DEF RefuseReplay, Bound, Untried
<1> QED BY <1>1, DenyKeeps

\* The hashes that the registry gives are those of published specifications.
LEMMA SpecsArePublished ==
    ASSUME SharedInv, NEW r \in Requests, NEW specs, NEW tool \in Tools,
           \/ specs = Registry!Current /\ Registry!Ready
           \/ specs = Registry!Fetched(r) /\ Registry!Deliver(r)
           \/ specs = LocalToolSpecs /\ UpstreamMode = "github",
           specs[tool] # NoHash
    PROVE  specs[tool] \in HashesOf(tool)
<1>1. \A cat \in Catalogues : cat[tool] \in HashesOf(tool)
  BY DEF HashesOf
<1>2. UpstreamMode = "github" => LocalToolSpecs[tool] \in HashesOf(tool)
  BY DEF HashesOf
<1>3. UpstreamMode \in {"local", "github"}
  BY DEF UpstreamMode
<1>4. ASSUME NEW remote \in Catalogues \cup {Registry!NoTools},
             UpstreamMode = "github"
      PROVE  Registry!Merged(remote)[tool] \in HashesOf(tool)
  <2>1. CASE remote[tool] = NoHash
    BY <1>2, <1>4, <2>1 DEF Registry!Merged, NoHash
  <2>2. CASE remote[tool] # NoHash
    <3>1. remote \in Catalogues
      BY <2>2 DEF Registry!NoTools, NoHash
    <3> QED BY <1>1, <2>2, <3>1 DEF Registry!Merged, NoHash
  <2> QED BY <2>1, <2>2
<1>5. CASE specs = Registry!Current /\ Registry!Ready
  <2>1. CASE UpstreamMode = "local"
    BY <1>1, <1>5, <2>1 DEF Registry!Current, Registry!Ready, SharedInv, Registry!TypeOK
  <2>2. CASE UpstreamMode = "github" /\ HasPat
    <3>1. cacheRemote \in Catalogues \cup {Registry!NoTools}
      BY <1>5, <2>2 DEF Registry!Ready, SharedInv, Registry!TypeOK
    <3> QED BY <1>4, <1>5, <2>2, <3>1 DEF Registry!Current
  <2>3. CASE UpstreamMode = "github" /\ ~ HasPat
    BY <1>2, <1>5, <2>3 DEF Registry!Current
  <2> QED BY <1>3, <2>1, <2>2, <2>3
<1>6. CASE specs = Registry!Fetched(r) /\ Registry!Deliver(r)
  <2>1. fetch[r].specs \in Catalogues
    BY <1>6 DEF Registry!Deliver, SharedInv, SpecsInv
  <2> QED BY <1>1, <1>3, <1>4, <1>6, <2>1 DEF Registry!Fetched
<1> QED BY <1>2, <1>5, <1>6

LEMMA AskedIsTool ==
    ASSUME TypeOK, NEW r \in Requests, msg[r].asked # NoTool
    PROVE  msg[r].asked \in Tools
  BY ProxyAssumption DEF TypeOK

LEMMA SpecsArriveKeeps ==
    ASSUME TypeOK, SharedInv, NEW r \in Requests, RequestInv(r), SpecsArrive(r)
    PROVE  InOrder(r)
<1>1. /\ msg' = msg /\ Charged(r) /\ Consented(r)' /\ msg[r].asked \in Tools
      /\ outcome[r].status = 0 /\ outcome[r].stage = "none" /\ trail[r] = Decided
  BY AtPlace, ChargedBefore, AskedIsTool
     DEF SpecsArrive, RequestInv, PlaceInv, Consented, Spent
<1>2. ASSUME NEW specs, CheckHash(r, specs, << >>),
             \/ specs = Registry!Fetched(r) /\ Registry!Deliver(r)
             \/ specs = LocalToolSpecs /\ UpstreamMode = "github"
      PROVE  InOrder(r)
  <2>1. /\ trail[r] \o (<< >> \o << "VERIFICATION_FAILED" >>) = Failed
        /\ trail[r] \o (<< >> \o << "VERIFICATION_PASSED" >>) = Passed
    BY <1>1, TrailsGrow, RecordsAreRecords
  <2>2. specs[msg[r].asked] # NoHash =>
            specs[msg[r].asked] \in HashesOf(msg[r].asked)
    BY <1>1, <1>2, SpecsArePublished
  <2> QED BY <1>1, <1>2, <2>1, <2>2, CheckHashKeeps
<1>3. CASE Raise(r, << >>)
  BY <1>1, <1>3, RaiseKeeps
<1> QED BY <1>2, <1>3 DEF SpecsArrive

LEMMA ForwardEndsKeeps ==
    ASSUME TypeOK, NEW r \in Requests, RequestInv(r), ForwardEnds(r)
    PROVE  InOrder(r)
<1>1. /\ pc[r] = "forwarding" /\ msg' = msg /\ Charged(r)
      /\ outcome[r].stage = "none" /\ spentAt' = spentAt
  BY ChargedBefore DEF ForwardEnds, RequestInv, PlaceInv
<1>2. PICK records \in Seq(Records) : trail'[r] = trail[r] \o records
  BY RecordsAreRecords DEF ForwardEnds, Raise, Answer, TypeOK
<1>3. WrittenFor(r, "BASELINE_PASSTHROUGH") => WrittenFor(r, "BASELINE_PASSTHROUGH")'
  BY <1>2, RecordsStay
<1>4. Mediated(r)'
  <2>1. ~ InBaseline(r)' => ~ InBaseline(r)
    BY <1>1, <1>3 DEF InBaseline
  <2>2. ~ InBaseline(r) => Consented(r) /\ msg[r].hash \in HashesOf(msg[r].asked)
    BY <1>1 DEF RequestInv, Mediated, Reached
  <2> QED BY <1>1, <2>1, <2>2 DEF Mediated, Consented, Spent
<1>5. trail[r] = Passed \/ WrittenFor(r, "BASELINE_PASSTHROUGH")'
  BY <1>1, <1>3, AtPlace
<1>6. /\ Passed \o << "REQUEST_FORWARDED" >> = Forwarded /\ Passed \o << >> = Passed
  BY TrailsGrow, TrailsAreTrails
<1>7. CASE Answer(r, 200, "forwarded", << "REQUEST_FORWARDED" >>)
  BY <1>1, <1>4, <1>5, <1>6, <1>7, ForwardedKeeps
<1>8. CASE Answer(r, 502, "upstream", << >>)
  BY <1>1, <1>4, <1>5, <1>6, <1>8, ForwardedKeeps
<1>9. CASE Answer(r, 500, "exception", << >>)
  BY <1>1, <1>4, <1>5, <1>6, <1>9, ForwardedKeeps
<1> QED BY <1>7, <1>8, <1>9 DEF ForwardEnds, Raise

\* Steps 7 to 10: the request is charged with a genuine token.
LEMMA AuthoriseKeeps ==
    ASSUME TypeOK, SharedInv, NEW r \in Requests, RequestInv(r), Untried(r),
           msg' = msg, Charged(r), Spent(r)', Genuine(msg[r]),
           msg[r].asked # NoTool, Authorise(r)
    PROVE  InOrder(r)
<1>1. /\ outcome[r].status = 0 /\ outcome[r].stage = "none" /\ trail[r] = << >>
  BY AtPlace
<1>2. CASE Raise(r, << >>)
  BY <1>1, <1>2, RaiseKeeps
<1>3. ASSUME NEW status, NEW stage, status = 401 \/ status = 403,
             stage \notin {"forwarded", "upstream"}, Answer(r, status, stage, Failed)
      PROVE  InOrder(r)
  <2>1. trail[r] \o Failed = Failed
    BY <1>1, TrailsGrow, TrailsAreTrails
  <2>2. Answer(r, status, stage, Failed)
    BY <1>3
  <2> QED BY <1>3, <2>1, <2>2, LateRefusalKeeps
<1> DEFINE allowed == /\ is_allowed(msg[r].iss, msg[r].asked, msg[r].params) = "allow"
                      /\ msg[r].hash # NoHash
<1>4. allowed => Consented(r)'
  BY DEF Consented
<1>5. CASE /\ allowed /\ Registry!Ready
           /\ CheckHash(r, Registry!Current, << "POLICY_DECISION" >>)
  <2>1. /\ Decided \o << "VERIFICATION_FAILED" >> = Failed
        /\ Decided \o << "VERIFICATION_PASSED" >> = Passed
        /\ << >> \o Failed = Failed /\ << >> \o Passed = Passed
    BY TrailsGrow, TrailsAreTrails
  <2>2. msg[r].asked \in Tools
    BY AskedIsTool
  <2>3. Registry!Current[msg[r].asked] # NoHash =>
            Registry!Current[msg[r].asked] \in HashesOf(msg[r].asked)
    BY <1>5, <2>2, SpecsArePublished
  <2>4. Consented(r)'
    BY <1>4, <1>5
  <2> QED BY <1>1, <1>5, <2>1, <2>3, <2>4, CheckHashKeeps DEF Decided
<1>6. CASE allowed /\ Await(r, "registry", << "POLICY_DECISION" >>)
  <2>1. << >> \o << "POLICY_DECISION" >> = Decided
    BY TrailsGrow, TrailsAreTrails DEF Decided
  <2> QED BY <1>1, <1>4, <1>6, <2>1, AwaitKeeps
<1> QED BY <1>2, <1>3, <1>5, <1>6 DEF Authorise, Failed

LEMMA AdmitKeepsRequest ==
    ASSUME TypeOK, SharedInv, NEW r \in Requests, RequestInv(r), Admit(r), clock > 0
    PROVE  InOrder(r)
<1>1. /\ msg' = msg /\ clock' = clock /\ spentAt'[r] = clock /\ Untried(r)
      /\ msg[r].asked # NoTool
  BY DEF Admit, Bound, TypeOK, Untried
<1>2. Genuine(msg[r])
  BY DEF Admit, Bound, RequestInv, PlaceInv, Verified, Genuine
<1>3. Charged(r) /\ Spent(r)'
  BY <1>1, <1>2 DEF Charged, Spent, TypeOK
<1>4. CASE _deny(r, 429, "rate_limit")
  BY <1>1, <1>3, <1>4, DenyKeeps
<1>5. CASE Authorise(r)
  BY <1>1, <1>2, <1>3, <1>5, AuthoriseKeeps
<1> QED BY <1>4, <1>5 DEF Admit
-------------------------------------------------------------------------------
\* The stages that blame other requests.
Blaming == {"replay_protection", "rate_limit"}

LEMMA CheckHashBlamesNobody ==
    ASSUME TypeOK, NEW r \in Requests, outcome[r].stage = "none",
           NEW specs, NEW records, CheckHash(r, specs, records)
    PROVE  outcome'[r].stage \notin Blaming
<1>1. ASSUME NEW rs, Forward(r, rs) PROVE outcome'[r].stage \notin Blaming
  BY <1>1 DEF TypeOK, Forward, Answer, Await, Blaming
<1>2. ASSUME NEW status, NEW rs, Answer(r, status, "tool_integrity", rs)
      PROVE  outcome'[r].stage \notin Blaming
  BY <1>2 DEF TypeOK, Answer, Blaming
<1> QED BY <1>1, <1>2 DEF CheckHash

LEMMA VerifyBlamesNobody ==
    ASSUME TypeOK, NEW r \in Requests, outcome[r].stage = "none",
           NEW key, Verify(r, key)
    PROVE  outcome'[r].stage \notin Blaming
<1>1. CASE Await(r, "body", << >>)
  BY <1>1 DEF TypeOK, Await, Blaming
<1>2. CASE Answer(r, 401, Stage(msg[r], key), << "VERIFICATION_FAILED" >>)
  BY <1>2 DEF TypeOK, Answer, Stage, Blaming
<1> QED BY <1>1, <1>2 DEF Verify, _deny

LEMMA AuthoriseBlamesNobody ==
    ASSUME TypeOK, NEW r \in Requests, outcome[r].stage = "none", Authorise(r)
    PROVE  outcome'[r].stage \notin Blaming
<1>1. CASE CheckHash(r, Registry!Current, << "POLICY_DECISION" >>)
  BY <1>1, CheckHashBlamesNobody
<1>2. CASE Await(r, "registry", << "POLICY_DECISION" >>)
  BY <1>2 DEF TypeOK, Await, Blaming
<1>3. ASSUME NEW status, NEW records,
             NEW stage \in {"exception", "policy_enforcement", "tool_integrity"},
             Answer(r, status, stage, records)
      PROVE  outcome'[r].stage \notin Blaming
  BY <1>3 DEF TypeOK, Answer, Blaming
<1> QED BY <1>1, <1>2, <1>3 DEF Authorise, Raise

LEMMA QuietBlamesNobody ==
    ASSUME TypeOK, NEW r \in Requests, outcome[r].stage = "none",
           \/ PassThrough(r) \/ Receive(r) \/ KeyArrives(r)
           \/ SpecsArrive(r) \/ ForwardEnds(r)
    PROVE  outcome'[r].stage \notin Blaming
<1>1. ASSUME NEW status, NEW records, NEW stage,
             stage \in {"exception", "request", "token_presence", "jwt_decode",
                        "did_resolution", "upstream", "forwarded"},
             Answer(r, status, stage, records)
      PROVE  outcome'[r].stage \notin Blaming
  BY <1>1 DEF TypeOK, Answer, Blaming
<1>2. ASSUME NEW place, NEW records, Await(r, place, records)
      PROVE  outcome'[r].stage \notin Blaming
  BY <1>2 DEF TypeOK, Await, Blaming
<1>3. CASE PassThrough(r)
  BY <1>1, <1>2, <1>3 DEF PassThrough, Raise, Forward
<1>4. CASE Receive(r)
  BY <1>1, <1>2, <1>4, VerifyBlamesNobody DEF Receive, _deny
<1>5. CASE KeyArrives(r)
  BY <1>1, <1>5, VerifyBlamesNobody DEF KeyArrives, _deny
<1>6. CASE SpecsArrive(r)
  BY <1>1, <1>6, CheckHashBlamesNobody DEF SpecsArrive, Raise
<1>7. CASE ForwardEnds(r)
  BY <1>1, <1>7 DEF ForwardEnds, Raise
<1> QED BY <1>3, <1>4, <1>5, <1>6, <1>7
-------------------------------------------------------------------------------
\* RateLimiter counts as this module does.
LEMMA SameCardinality == ASSUME NEW S PROVE Rate!Cardinality(S) = Cardinality(S)
  BY DEF Rate!Cardinality, Cardinality

\* The rate limiter.  All histories are finite: requests are.
LEMMA EntriesAreFinite ==
    ASSUME NEW Q \in SUBSET Requests, NEW at
    PROVE  IsFiniteSet({[call |-> q, at |-> at[q]] : q \in Q})
<1> DEFINE f == [q \in Q |-> [call |-> q, at |-> at[q]]]
           T == {f[q] : q \in Q}
<1>1. T = {[call |-> q, at |-> at[q]] : q \in Q}
  OBVIOUS
<1>2. IsFiniteSet(Q)
  BY FS_Subset, SurroundingsAssumption
<1>3. f \in Surjection(Q, T)
  BY DEF Surjection
<1> HIDE DEF f, T
<1>4. IsFiniteSet(T)
  BY <1>2, <1>3, FS_Surjection
<1> QED BY <1>1, <1>4

LEMMA HistoryIsFinite ==
    ASSUME NEW d \in Dids, NEW refused \in BOOLEAN
    PROVE  /\ IsFiniteSet(RateHistory(refused)[d])
           /\ IsFiniteSet(RateHistory(refused)'[d])
<1>1. {q \in Requests : /\ spentAt[q] > 0 /\ msg[q].iss = d
                        /\ (outcome[q].stage = "rate_limit") = refused}
          \in SUBSET Requests
  OBVIOUS
<1>2. {q \in Requests : /\ spentAt'[q] > 0 /\ msg'[q].iss = d
                        /\ (outcome'[q].stage = "rate_limit") = refused}
          \in SUBSET Requests
  OBVIOUS
<1> QED BY <1>1, <1>2, EntriesAreFinite DEF RateHistory

\* Steps that neither charge a request nor answer one that was charged.
LEMMA HistoryStays ==
    ASSUME msg' = msg, spentAt' = spentAt,
           \A q \in Requests :
               (outcome'[q].stage = "rate_limit") = (outcome[q].stage = "rate_limit"),
           NEW refused
    PROVE  RateHistory(refused)' = RateHistory(refused)
  BY DEF RateHistory

LEMMA RefusalsStay ==
    ASSUME Rate!RefusalIsDeserved, RateLogIsHistory, rateLog' = rateLog,
           \A refused \in BOOLEAN : RateHistory(refused)' = RateHistory(refused)
    PROVE  Rate!RefusalIsDeserved' /\ RateLogIsHistory'
  BY DEF Rate!RefusalIsDeserved, Rate!GrantedIn, RateLogIsHistory

\* What was full stays full.
LEMMA LongerHistoryKeepsRefusals ==
    ASSUME NEW d \in Dids, NEW t,
           RateHistory(FALSE)[d] \subseteq RateHistory(FALSE)'[d],
           Cardinality({e \in RateHistory(FALSE)[d] :
                            e.at > t - WindowSeconds /\ e.at <= t})
               >= MaxRequestsPerWindow
    PROVE  Cardinality({e \in RateHistory(FALSE)'[d] :
                            e.at > t - WindowSeconds /\ e.at <= t})
               >= MaxRequestsPerWindow
<1> DEFINE before == {e \in RateHistory(FALSE)[d] :
                          e.at > t - WindowSeconds /\ e.at <= t}
           after == {e \in RateHistory(FALSE)'[d] :
                         e.at > t - WindowSeconds /\ e.at <= t}
<1>1. IsFiniteSet(RateHistory(FALSE)'[d])
  BY HistoryIsFinite
<1>2. after \in SUBSET (RateHistory(FALSE)'[d]) /\ before \in SUBSET after
  OBVIOUS
<1> HIDE DEF before, after
<1>3. IsFiniteSet(after)
  BY <1>1, <1>2, FS_Subset
<1>4. IsFiniteSet(before) /\ Cardinality(before) <= Cardinality(after)
  BY <1>2, <1>3, FS_Subset
<1>5. Cardinality(before) \in Nat /\ Cardinality(after) \in Nat
  BY <1>3, <1>4, FS_CardinalityType
<1> QED BY <1>4, <1>5, ProxyAssumption DEF before, after

\* A request that the limiter refuses finds the window of its agent full.
LEMMA RefusedWindowIsFull ==
    ASSUME TypeOK, SharedInv, NEW d \in Dids, ~ Rate!Allowed(d),
           \A q \in Requests : Spent(q) => spentAt[q] <= clock
    PROVE  Cardinality({e \in RateHistory(FALSE)[d] :
                            e.at > clock - WindowSeconds /\ e.at <= clock})
               >= MaxRequestsPerWindow
<1> DEFINE full == {e \in RateHistory(FALSE)[d] :
                        e.at > clock - WindowSeconds /\ e.at <= clock}
           kept == Rate!Timestamps(d)
<1>1. \A e \in RateHistory(FALSE)[d] : e.at <= clock
  BY DEF RateHistory, Spent
<1>2. rateLog[d] \subseteq RateHistory(FALSE)[d]
  BY DEF SharedInv, RateLogIsHistory
<1>3. kept \in SUBSET full
  BY <1>1, <1>2 DEF Rate!Timestamps, Rate!Recent, Rate!Swept
<1>4. full \in SUBSET (RateHistory(FALSE)[d]) /\ IsFiniteSet(RateHistory(FALSE)[d])
  BY HistoryIsFinite
<1>5. ~ (Cardinality(kept) < MaxRequestsPerWindow)
  BY SameCardinality DEF Rate!Allowed
<1> HIDE DEF full, kept
<1>6. IsFiniteSet(full)
  BY <1>4, FS_Subset
<1>7. IsFiniteSet(kept) /\ Cardinality(kept) <= Cardinality(full)
  BY <1>3, <1>6, FS_Subset
<1>8. Cardinality(kept) \in Nat /\ Cardinality(full) \in Nat
  BY <1>6, <1>7, FS_CardinalityType
<1> QED BY <1>5, <1>7, <1>8, ProxyAssumption DEF full
-------------------------------------------------------------------------------
\* The components that the requests share, one at a time.
ResolverInv == Resolver!TypeOK /\ KeysInv
RegistryInv == Registry!TypeOK /\ SpecsInv
LimiterInv == RateTypeOK /\ RateLogIsHistory

LEMMA ResolverStays ==
    ASSUME ResolverInv, UNCHANGED << resolverVars, ownerVars, msg >>
    PROVE  ResolverInv'
  BY DEF ResolverInv, KeysInv, LookupInv, Resolver!TypeOK, resolverVars, ownerVars

LEMMA ResolverSteps ==
    ASSUME ResolverInv, NEW r \in Requests, msg' = msg, UNCHANGED ownerVars,
           \/ Resolver!ReadFile(msg[r].iss) \/ Resolver!Ask(r, msg[r].iss)
           \/ Resolver!Serve(r) \/ Resolver!Deliver(r) \/ Resolver!Fail(r)
    PROVE  ResolverInv'
<1>0. /\ Resolver!TypeOK /\ KeysInv
      /\ published' = published /\ everSince' = everSince
  BY DEF ResolverInv, ownerVars
<1>1. CASE Resolver!ReadFile(msg[r].iss)
  <2>1. msg[r].iss \in LocalDids /\ msg[r].iss \in Dids
    BY <1>1, SurroundingsAssumption DEF Resolver!ReadFile, Resolver!FromFile
  <2>2. /\ Resolver!LocalDocument(msg[r].iss) \in KeysOf(msg[r].iss)
        /\ Resolver!LocalDocument(msg[r].iss) \in Resolver!Documents
    BY <1>0, <2>1 DEF Resolver!LocalDocument, Resolver!TypeOK, KeysInv
  <2>3. Resolver!TypeOK'
    BY <1>0, <1>1, <2>1, <2>2
       DEF Resolver!ReadFile, Resolver!KeyOrNone, Resolver!TypeOK, Resolver!Documents
  <2>4. KeysInv'
    BY <1>0, <1>1, <2>1, <2>2
       DEF Resolver!ReadFile, Resolver!KeyOrNone, Resolver!TypeOK, KeysInv, LookupInv
  <2> QED BY <2>3, <2>4 DEF ResolverInv
<1>2. CASE Resolver!Ask(r, msg[r].iss)
  BY <1>0, <1>2, SurroundingsAssumption
     DEF Resolver!Ask, Resolver!FromWeb, Resolver!TypeOK, Resolver!Documents, KeysInv,
         LookupInv, ResolverInv
<1>3. CASE Resolver!Serve(r)
  <2> DEFINE doc == IF lookup[r].did \in LocalDids THEN NoDocument
                    ELSE published[lookup[r].did]
  <2>1. /\ lookup[r].did = msg[r].iss /\ msg[r].iss \in Dids
        /\ lookup' = [lookup EXCEPT ![r].phase = "answered", ![r].doc = doc]
        /\ docCache' = docCache /\ keyCache' = keyCache
    BY <1>0, <1>3 DEF Resolver!Serve, KeysInv, LookupInv
  <2>2. doc \in Resolver!Documents
    BY <1>0, <2>1 DEF Resolver!TypeOK, Resolver!Documents
  <2>3. doc \in Keys => doc \in KeysOf(lookup[r].did)
    BY <1>0, <2>1, SurroundingsAssumption DEF KeysInv, LookupInv
  <2> HIDE DEF doc
  <2>4. /\ lookup'[r].did = lookup[r].did /\ lookup'[r].doc = doc
        /\ \A q \in Requests \ {r} : lookup'[q] = lookup[q]
    BY <1>0, <2>1 DEF Resolver!TypeOK
  <2>5. Resolver!TypeOK'
    BY <1>0, <2>1, <2>2 DEF Resolver!TypeOK
  <2>6. KeysInv'
    <3>1. \A d \in Dids : /\ published'[d] \in KeysOf(d)
                          /\ keyCache'[d] # NoKey => keyCache'[d] \in KeysOf(d)
      BY <1>0, <2>1 DEF KeysInv
    <3>2. \A d \in LocalDids : docCache'[d] # NoKey => docCache'[d] \in KeysOf(d)
      BY <1>0, <2>1 DEF KeysInv
    <3>3. LookupInv(r)'
      BY <2>1, <2>3, <2>4 DEF LookupInv
    <3>4. ASSUME NEW q \in Requests \ {r} PROVE LookupInv(q)'
      BY <1>0, <2>4 DEF KeysInv, LookupInv
    <3> QED BY <3>1, <3>2, <3>3, <3>4 DEF KeysInv
  <2> QED BY <2>5, <2>6 DEF ResolverInv
<1>4. CASE Resolver!Deliver(r)
  BY <1>0, <1>4, SurroundingsAssumption
     DEF Resolver!Deliver, Resolver!NoLookup, Resolver!TypeOK, Resolver!Documents,
         KeysInv, LookupInv, ResolverInv
<1>5. CASE Resolver!Fail(r)
  BY <1>0, <1>5, SurroundingsAssumption
     DEF Resolver!Fail, Resolver!NoLookup, Resolver!TypeOK, Resolver!Documents,
         KeysInv, LookupInv, ResolverInv
<1> QED BY <1>1, <1>2, <1>3, <1>4, <1>5

LEMMA RegistryStays ==
    ASSUME RegistryInv, UNCHANGED << registryVars, catalogue >>
    PROVE  RegistryInv'
  BY DEF RegistryInv, SpecsInv, Registry!TypeOK, registryVars

LEMMA RegistrySteps ==
    ASSUME TypeOK, RegistryInv, NEW r \in Requests, catalogue' = catalogue,
           Registry!Ask(r) \/ Registry!Serve(r) \/ Registry!Deliver(r) \/ Registry!Fail(r)
    PROVE  RegistryInv'
<1> USE DEF RegistryInv, SpecsInv, Registry!TypeOK, TypeOK
<1>1. CASE Registry!Ask(r)
  BY <1>1 DEF Registry!Ask
<1>2. CASE Registry!Serve(r)
  BY <1>2 DEF Registry!Serve
<1>3. CASE Registry!Deliver(r)
  BY <1>3 DEF Registry!Deliver, Registry!NoFetch
<1>4. CASE Registry!Fail(r)
  BY <1>4 DEF Registry!Fail, Registry!NoFetch
<1> QED BY <1>1, <1>2, <1>3, <1>4

\* The rows after a step were there before, or are of the request that got in.
LEMMA RowsStaySpent ==
    ASSUME RowsAreSpent, msg' = msg, NEW j \in Jtis,
           rows'[j] = NoRow \/ rows'[j] = rows[j],
           \A q \in Requests : Spent(q) => Spent(q)'
    PROVE  rows'[j] # NoRow => \E s \in Requests : Spent(s)' /\ msg'[s].jti = j
  BY DEF RowsAreSpent
-------------------------------------------------------------------------------
\* The invariant after a stretch of the handler of r, from its parts.
LEMMA Together ==
    ASSUME MInv, NEW r \in Requests, InOrder(r), msg' = msg, clock' = clock,
           \A q \in Requests \ {r} : spentAt'[q] = spentAt[q],
           Spent(r) => Spent(r)',
           SharedInv', ReplayIsReal(r)', Rate!RefusalIsDeserved'
    PROVE  MInv'
<1>1. OthersStay(r) /\ RequestInv(r)' /\ \A q \in Requests : RequestInv(q)
  BY DEF InOrder, MInv
<1>2. \A q \in Requests \ {r} : RequestInv(q)'
  BY <1>1, OthersKeep
<1>3. \A q \in Requests : RequestInv(q)'
  BY <1>1, <1>2
<1>4. \A q \in Requests : Spent(q)' => Genuine(msg'[q])
  BY <1>3 DEF RequestInv, PlaceInv
<1>5. \A q \in Requests : Spent(q) => Spent(q)'
  BY DEF Spent
<1>6. \A q \in Requests \ {r} : ReplayIsReal(q)'
  BY <1>1, <1>5 DEF MInv, OnlyGenuineTokensCost, ReplayIsReal, OthersStay
<1>7. \A q \in Requests : ReplayIsReal(q)'
  BY <1>6
<1>8. OnlyGenuineTokensCost'
  BY <1>4, <1>7 DEF OnlyGenuineTokensCost
<1> QED BY <1>3, <1>8 DEF MInv

\* A request that has no answer yet.
LEMMA NoStageYet ==
    ASSUME NEW r \in Requests, RequestInv(r), pc[r] # "answered"
    PROVE  outcome[r].stage = "none"
  BY DEF RequestInv, PlaceInv

LEMMA LimiterStays ==
    ASSUME MInv, NEW r \in Requests, pc[r] # "answered", OthersStay(r),
           outcome'[r].stage # "rate_limit",
           UNCHANGED << msg, spentAt, rateLog >>
    PROVE  Rate!RefusalIsDeserved' /\ RateLogIsHistory' /\ RateTypeOK'
<1>1. outcome[r].stage = "none"
  BY NoStageYet DEF MInv
<1>2. \A q \in Requests :
          (outcome'[q].stage = "rate_limit") = (outcome[q].stage = "rate_limit")
  BY <1>1 DEF OthersStay
<1>3. \A refused \in BOOLEAN : RateHistory(refused)' = RateHistory(refused)
  BY <1>2, HistoryStays
<1>4. RateTypeOK'
  BY DEF MInv, SharedInv, RateTypeOK
<1> QED BY <1>3, <1>4, RefusalsStay DEF MInv, SharedInv, OnlyGenuineTokensCost

LEMMA RefuseBodyBlamesNobody ==
    ASSUME TypeOK, NEW r \in Requests, outcome[r].stage = "none", RefuseBody(r)
    PROVE  /\ outcome'[r].stage # "rate_limit"
           /\ outcome'[r].stage = "replay_protection" => msg[r].jti = NoJti
<1>1. ASSUME NEW status, NEW records,
             NEW stage \in {"exception", "request_parse", "tool_binding"},
             Answer(r, status, stage, records)
      PROVE  outcome'[r].stage \notin Blaming
  BY <1>1 DEF TypeOK, Answer, Blaming
<1>2. CASE Answer(r, 401, "replay_protection", << "VERIFICATION_FAILED" >>)
           /\ msg[r].jti = NoJti
  BY <1>2 DEF TypeOK, Answer
<1> QED BY <1>1, <1>2 DEF RefuseBody, _deny, Raise, Blaming

\* The handlers before and after step 7.
LEMMA QuietMediates ==
    ASSUME IInv, MInv, NEW r \in Requests, Quiet(r)
    PROVE  MInv'
<1>1. TypeOK /\ SharedInv /\ RequestInv(r)
  BY DEF IInv, MInv
<1>2. InOrder(r) /\ OthersStay(r)
  BY <1>1, PassThroughKeeps, ReceiveKeeps, KeyArrivesKeeps, RefuseBodyKeeps,
     SpecsArriveKeeps, ForwardEndsKeeps DEF Quiet, InOrder
<1>3. /\ UNCHANGED << clock, nonceVars, msg, spentAt, rateVars, ownerVars, upstreamVars >>
      /\ pc[r] # "answered"
  BY DEF Quiet, PassThrough, Receive, KeyArrives, RefuseBody, SpecsArrive, ForwardEnds
<1>4. /\ outcome'[r].stage # "rate_limit"
      /\ outcome'[r].stage = "replay_protection" => msg[r].jti = NoJti
  <2>1. outcome[r].stage = "none"
    BY <1>1, <1>3, NoStageYet
  <2> QED BY <1>1, <2>1, QuietBlamesNobody, RefuseBodyBlamesNobody DEF Quiet, Blaming
<1>5. ReplayIsReal(r)'
  BY <1>3, <1>4 DEF ReplayIsReal
<1>6. Rate!RefusalIsDeserved' /\ RateLogIsHistory' /\ RateTypeOK'
  BY <1>2, <1>3, <1>4, LimiterStays DEF rateVars
<1>7. ResolverInv' /\ RegistryInv'
  <2>1. ResolverInv /\ RegistryInv
    BY <1>1 DEF SharedInv, ResolverInv, RegistryInv
  <2>2. \/ UNCHANGED resolverVars
        \/ Resolver!ReadFile(msg[r].iss) \/ Resolver!Ask(r, msg[r].iss)
        \/ Resolver!Deliver(r) \/ Resolver!Fail(r)
    BY DEF Quiet, PassThrough, Receive, KeyArrives, RefuseBody, SpecsArrive, ForwardEnds
  <2>3. UNCHANGED registryVars \/ Registry!Deliver(r) \/ Registry!Fail(r)
    BY DEF Quiet, PassThrough, Receive, KeyArrives, RefuseBody, SpecsArrive, ForwardEnds
  <2>4. ResolverInv'
    BY <1>3, <2>1, <2>2, ResolverStays, ResolverSteps
  <2>5. RegistryInv'
    BY <1>1, <1>3, <2>1, <2>3, RegistryStays, RegistrySteps DEF upstreamVars
  <2> QED BY <2>4, <2>5
<1>8. RowsAreSpent'
  BY <1>1, <1>3 DEF SharedInv, RowsAreSpent, nonceVars, Spent
<1>9. SharedInv'
  BY <1>6, <1>7, <1>8 DEF SharedInv, ResolverInv, RegistryInv
<1> QED BY <1>2, <1>3, <1>5, <1>6, <1>9, Together DEF Spent

\* Step 7 finds a row: another request got in with this jti.
LEMMA RefuseReplayMediates ==
    ASSUME IInv, MInv, NEW r \in Requests, RefuseReplay(r)
    PROVE  MInv'
<1>1. TypeOK /\ SharedInv /\ RequestInv(r)
  BY DEF IInv, MInv
<1>2. InOrder(r) /\ OthersStay(r)
  BY <1>1, RefuseReplayKeepsRequest DEF InOrder
<1>3. /\ clock' = clock /\ msg' = msg /\ spentAt' = spentAt
      /\ UNCHANGED << rateVars, resolverVars, ownerVars, registryVars, upstreamVars >>
      /\ pc[r] = "body" /\ Recognise(msg[r].jti) /\ msg[r].jti \in Jtis
  BY <1>1, MessagesAreTyped DEF RefuseReplay, Bound
<1>4. outcome'[r].stage = "replay_protection"
  BY <1>1 DEF RefuseReplay, _deny, Answer, TypeOK
<1>5. \A j \in Jtis : rows'[j] = NoRow \/ rows'[j] = rows[j]
  BY <1>3 DEF Recognise, Kept, Purged
<1>6. ReplayIsReal(r)'
  <2>1. rows[msg[r].jti] # NoRow
    BY <1>3 DEF Recognise, SeenBefore, Kept, Purged
  <2>2. PICK s \in Requests : Spent(s) /\ msg[s].jti = msg[r].jti
    BY <1>1, <1>3, <2>1 DEF SharedInv, RowsAreSpent
  <2>3. ~ Spent(r)
    BY <1>1, <1>3 DEF RequestInv, PlaceInv, Untried
  <2>4. Genuine(msg[s])
    BY <2>2 DEF MInv, OnlyGenuineTokensCost
  <2> QED BY <1>3, <2>2, <2>3, <2>4 DEF ReplayIsReal, Spent
<1>7. Rate!RefusalIsDeserved' /\ RateLogIsHistory' /\ RateTypeOK'
  BY <1>2, <1>3, <1>4, LimiterStays DEF rateVars
<1>8. RowsAreSpent'
  <2>1. \A q \in Requests : Spent(q) => Spent(q)'
    BY <1>3 DEF Spent
  <2> QED BY <1>1, <1>3, <1>5, <2>1, RowsStaySpent DEF SharedInv, RowsAreSpent
<1>9. ResolverInv' /\ RegistryInv'
  BY <1>1, <1>3, ResolverStays, RegistryStays
     DEF SharedInv, ResolverInv, RegistryInv, upstreamVars
<1>10. SharedInv'
  BY <1>7, <1>8, <1>9 DEF SharedInv, ResolverInv, RegistryInv
<1> QED BY <1>2, <1>3, <1>6, <1>7, <1>10, Together DEF Spent

\* Steps 7 and 8 charge the jti and the rate of the agent that signed the token.
LEMMA AdmitChargesRate ==
    ASSUME IInv, MInv, NEW r \in Requests, Admit(r), OthersStay(r)
    PROVE  Rate!RefusalIsDeserved' /\ RateLogIsHistory' /\ RateTypeOK'
<1> DEFINE did == msg[r].iss
           new == [call |-> r, at |-> clock]
<1>1. /\ TypeOK /\ SharedInv /\ Rate!RefusalIsDeserved /\ clock \in Nat /\ clock > 0
      /\ RequestInv(r) /\ \A q \in Requests : RequestInv(q)
  BY DEF IInv, MInv, OnlyGenuineTokensCost, TypeOK
<1>2. /\ pc[r] = "body" /\ did \in Dids /\ ~ Spent(r) /\ outcome[r].stage = "none"
  BY <1>1 DEF Admit, Bound, RequestInv, PlaceInv, Verified, Untried
<1>3. /\ msg' = msg /\ clock' = clock /\ spentAt'[r] = clock
      /\ \A q \in Requests \ {r} :
             spentAt'[q] = spentAt[q] /\ outcome'[q].stage = outcome[q].stage
      /\ Rate!CheckRateLimit(r, did)
  BY <1>1 DEF Admit, TypeOK, OthersStay
<1>4. \A q \in Requests : Spent(q) => spentAt[q] <= clock
  BY <1>1 DEF RequestInv, PlaceInv
<1>5. \A d \in Dids : Rate!Recent(rateLog[d]) \subseteq rateLog[d]
                      /\ Rate!Swept[d] \subseteq rateLog[d]
                      /\ Rate!Timestamps(d) \subseteq rateLog[d]
  BY DEF Rate!Recent, Rate!Swept, Rate!Timestamps
<1>6. \A d \in Dids : \A e \in RateHistory(FALSE)[d] : e \in RateHistory(FALSE)'[d]
  BY <1>2, <1>3 DEF RateHistory, Spent
<1>7. \A d \in Dids : rateLog[d] \subseteq RateHistory(FALSE)'[d]
  BY <1>1, <1>6 DEF SharedInv, RateLogIsHistory
<1>8. \A d \in Dids : rateLog[d] \subseteq [call : Requests, at : Nat]
  BY <1>1 DEF SharedInv, RateTypeOK
<1>9. CASE Rate!Allowed(did) /\ Authorise(r)
  <2>1. outcome'[r].stage # "rate_limit"
    BY <1>1, <1>2, <1>9, AuthoriseBlamesNobody DEF Blaming
  <2>2. new \in RateHistory(FALSE)'[did]
    BY <1>1, <1>2, <1>3, <2>1 DEF RateHistory
  <2>3. \A d \in Dids : RateHistory(TRUE)'[d] = RateHistory(TRUE)[d]
    BY <1>2, <1>3, <2>1 DEF RateHistory, Spent
  <2>4. rateLog' = [Rate!Swept EXCEPT ![did] = Rate!Timestamps(did) \cup {new}]
    BY <1>3, <1>9 DEF Rate!CheckRateLimit
  <2>5. rateLog' = [d \in Dids |-> IF d = did THEN Rate!Timestamps(did) \cup {new}
                                   ELSE Rate!Swept[d]]
    BY <1>2, <2>4 DEF Rate!Swept
  <2>6. RateLogIsHistory'
    BY <1>2, <1>5, <1>7, <2>2, <2>5 DEF RateLogIsHistory
  <2>7. RateTypeOK'
    BY <1>1, <1>2, <1>5, <1>8, <2>5 DEF RateTypeOK
  <2>8. Rate!RefusalIsDeserved'
    BY <1>1, <1>6, <2>3, LongerHistoryKeepsRefusals, SameCardinality
       DEF Rate!RefusalIsDeserved, Rate!GrantedIn
  <2> QED BY <2>6, <2>7, <2>8
<1>10. CASE ~ Rate!Allowed(did) /\ _deny(r, 429, "rate_limit")
  <2>1. outcome'[r].stage = "rate_limit"
    BY <1>1, <1>10 DEF _deny, Answer, TypeOK
  <2>2. \A d \in Dids : RateHistory(TRUE)'[d] =
            IF d = did THEN RateHistory(TRUE)[d] \cup {new} ELSE RateHistory(TRUE)[d]
    BY <1>1, <1>2, <1>3, <2>1 DEF RateHistory, Spent
  <2>3. rateLog' = [Rate!Swept EXCEPT ![did] = Rate!Timestamps(did)]
    BY <1>3, <1>10 DEF Rate!CheckRateLimit
  <2>4. rateLog' = [d \in Dids |-> IF d = did THEN Rate!Timestamps(did)
                                   ELSE Rate!Swept[d]]
    BY <1>2, <2>3 DEF Rate!Swept
  <2>5. RateLogIsHistory'
    BY <1>2, <1>5, <1>7, <2>4 DEF RateLogIsHistory
  <2>6. RateTypeOK'
    BY <1>2, <1>5, <1>8, <2>4 DEF RateTypeOK
  <2>7. Cardinality({e \in RateHistory(FALSE)[did] :
                         e.at > clock - WindowSeconds /\ e.at <= clock})
            >= MaxRequestsPerWindow
    BY <1>1, <1>2, <1>4, <1>10, RefusedWindowIsFull
  <2>8. Rate!RefusalIsDeserved'
    <3> SUFFICES ASSUME NEW d \in Dids, NEW e \in RateHistory(TRUE)'[d]
                 PROVE  Cardinality({g \in RateHistory(FALSE)'[d] :
                                         g.at > e.at - WindowSeconds /\ g.at <= e.at})
                            >= MaxRequestsPerWindow
      BY SameCardinality DEF Rate!RefusalIsDeserved, Rate!GrantedIn
    <3>1. Cardinality({g \in RateHistory(FALSE)[d] :
                           g.at > e.at - WindowSeconds /\ g.at <= e.at})
              >= MaxRequestsPerWindow
      <4>1. CASE e \in RateHistory(TRUE)[d]
        BY <1>1, <4>1, SameCardinality DEF Rate!RefusalIsDeserved, Rate!GrantedIn
      <4>2. CASE d = did /\ e = new
        BY <2>7, <4>2
      <4> QED BY <2>2, <4>1, <4>2
    <3>2. RateHistory(FALSE)[d] \subseteq RateHistory(FALSE)'[d]
      BY <1>6
    <3> QED BY <3>1, <3>2, LongerHistoryKeepsRefusals
  <2> QED BY <2>5, <2>6, <2>8
<1> QED BY <1>9, <1>10 DEF Admit

LEMMA AdmitMediates ==
    ASSUME IInv, MInv, NEW r \in Requests, Admit(r)
    PROVE  MInv'
<1>1. TypeOK /\ SharedInv /\ RequestInv(r) /\ clock \in Nat /\ clock > 0
  BY DEF IInv, MInv, TypeOK
<1>2. InOrder(r) /\ OthersStay(r)
  BY <1>1, AdmitKeepsRequest DEF InOrder
<1>3. /\ clock' = clock /\ msg' = msg /\ spentAt'[r] = clock
      /\ \A q \in Requests \ {r} : spentAt'[q] = spentAt[q]
      /\ UNCHANGED << resolverVars, ownerVars, upstreamVars >>
      /\ pc[r] = "body" /\ Remember(msg[r].jti, msg[r].exp) /\ msg[r].jti \in Jtis
      /\ _deny(r, 429, "rate_limit") \/ Authorise(r)
  BY <1>1, MessagesAreTyped DEF Admit, Bound, TypeOK
<1>4. Spent(r)' /\ \A q \in Requests : Spent(q) => Spent(q)'
  BY <1>1, <1>3 DEF Spent
<1>5. outcome'[r].stage # "replay_protection"
  <2>1. CASE _deny(r, 429, "rate_limit")
    BY <1>1, <2>1 DEF _deny, Answer, TypeOK
  <2>2. CASE Authorise(r)
    BY <1>1, <1>3, <2>2, NoStageYet, AuthoriseBlamesNobody DEF Blaming
  <2> QED BY <1>3, <2>1, <2>2
<1>6. ReplayIsReal(r)'
  BY <1>5 DEF ReplayIsReal
<1>7. Rate!RefusalIsDeserved' /\ RateLogIsHistory' /\ RateTypeOK'
  BY <1>2, AdmitChargesRate
<1>8. RowsAreSpent'
  <2>1. \A j \in Jtis \ {msg[r].jti} : rows'[j] = NoRow \/ rows'[j] = rows[j]
    BY <1>3 DEF Remember, Kept, Purged
  <2>2. \A j \in Jtis \ {msg[r].jti} :
            rows'[j] # NoRow => \E s \in Requests : Spent(s)' /\ msg'[s].jti = j
    BY <1>1, <1>3, <1>4, <2>1, RowsStaySpent DEF SharedInv
  <2>3. \E s \in Requests : Spent(s)' /\ msg'[s].jti = msg[r].jti
    BY <1>3, <1>4
  <2> QED BY <2>2, <2>3 DEF RowsAreSpent
<1>9. ResolverInv' /\ RegistryInv'
  <2>1. ResolverInv /\ RegistryInv
    BY <1>1 DEF SharedInv, ResolverInv, RegistryInv
  <2>2. UNCHANGED registryVars \/ Registry!Ask(r)
    BY DEF Admit, Authorise
  <2> QED BY <1>1, <1>3, <2>1, <2>2, ResolverStays, RegistryStays, RegistrySteps
          DEF upstreamVars
<1>10. SharedInv'
  BY <1>7, <1>8, <1>9 DEF SharedInv, ResolverInv, RegistryInv
<1> QED BY <1>2, <1>3, <1>4, <1>6, <1>7, <1>10, Together
-------------------------------------------------------------------------------
\* Steps that give no request an answer or a charge.
LEMMA AnswersStay ==
    ASSUME MInv, UNCHANGED << msg, outcome, spentAt >>,
           rateLog' = rateLog \/ rateLog' = Rate!Empty
    PROVE  OnlyGenuineTokensCost' /\ RateLogIsHistory' /\ RateTypeOK'
<1>1. \A refused \in BOOLEAN : RateHistory(refused)' = RateHistory(refused)
  BY HistoryStays
<1>2. Rate!RefusalIsDeserved'
  BY <1>1 DEF MInv, OnlyGenuineTokensCost, Rate!RefusalIsDeserved, Rate!GrantedIn
<1>3. (\A r \in Requests : Spent(r) => Genuine(msg[r]))'
      /\ (\A r \in Requests : ReplayIsReal(r))'
  BY DEF MInv, OnlyGenuineTokensCost, ReplayIsReal, Spent
<1>4. RateLogIsHistory' /\ RateTypeOK'
  BY <1>1 DEF MInv, SharedInv, RateLogIsHistory, RateTypeOK, Rate!Empty
<1> QED BY <1>2, <1>3, <1>4 DEF OnlyGenuineTokensCost

\* Nothing happens to the requests, but that time passes.
LEMMA RequestsStay ==
    ASSUME TypeOK, NEW r \in Requests, RequestInv(r), UNCHANGED << msg, requestVars >>,
           clock' \in Nat, clock' >= clock
    PROVE  RequestInv(r)'
  BY DEF RequestInv, PlaceInv, Mediated, Trailed, AnsweredAs, Untried, Spent, Reached,
         Consented, InBaseline, WrittenFor, TypeOK, requestVars

LEMMA CrashMediates == ASSUME IInv, MInv, Crash PROVE MInv'
<1>1. TypeOK /\ SharedInv
  BY DEF IInv, MInv
<1>2. /\ UNCHANGED << clock, upstreamVars, msg, outcome, trail, spentAt >>
      /\ rows' = rows /\ rateLog' = Rate!Empty
      /\ pc' = [r \in Requests |->
                   IF pc[r] \in {"idle", "answered"} THEN pc[r] ELSE "lost"]
      /\ Resolver!Restart /\ Registry!InvalidateCache
  BY DEF Crash, ReopenStore, Rate!Restart
<1>3. OnlyGenuineTokensCost' /\ RateLogIsHistory' /\ RateTypeOK'
  BY <1>2, AnswersStay
<1>4. ResolverInv'
  BY <1>1, <1>2, SurroundingsAssumption
     DEF SharedInv, ResolverInv, KeysInv, LookupInv, Resolver!TypeOK,
         Resolver!Documents, Resolver!Restart, Resolver!NoLookup
<1>5. RegistryInv'
  BY <1>1, <1>2 DEF SharedInv, RegistryInv, SpecsInv, Registry!TypeOK,
         Registry!InvalidateCache, Registry!NoFetch, upstreamVars
<1>6. RowsAreSpent'
  BY <1>1, <1>2 DEF SharedInv, RowsAreSpent, Spent
<1>7. ASSUME NEW r \in Requests PROVE RequestInv(r)'
  <2>1. RequestInv(r)
    BY DEF MInv
  <2>2. PlaceInv(r)'
    BY <1>2, <2>1 DEF RequestInv, PlaceInv, Untried, Spent
  <2>3. Mediated(r)'
    BY <1>2, <2>1 DEF RequestInv, Mediated, Reached, Consented, InBaseline, WrittenFor,
       Spent
  <2>4. Trailed(r)'
    BY <1>2, <2>1 DEF RequestInv, Trailed, AnsweredAs, Untried, InBaseline, WrittenFor
  <2> QED BY <2>2, <2>3, <2>4 DEF RequestInv
<1> QED BY <1>3, <1>4, <1>5, <1>6, <1>7 DEF MInv, SharedInv, ResolverInv, RegistryInv

LEMMA SurroundingsMediate ==
    ASSUME IInv, IInv', MInv,
           Publish \/ Tick \/ UNCHANGED vars \/ \E r \in Requests : Serve(r)
    PROVE  MInv'
<1>1. TypeOK /\ SharedInv /\ clock \in Nat
  BY DEF IInv, MInv, TypeOK
<1>2. /\ UNCHANGED << msg, requestVars, rows, rateLog >>
      /\ clock' \in Nat /\ clock' >= clock
  BY <1>1 DEF Publish, Tick, vars, Serve, nonceVars, rateVars
<1>3. OnlyGenuineTokensCost' /\ RateLogIsHistory' /\ RateTypeOK'
  BY <1>2, AnswersStay DEF requestVars
<1>4. \A r \in Requests : RequestInv(r)'
  BY <1>1, <1>2, RequestsStay DEF MInv
<1>5. RowsAreSpent'
  BY <1>1, <1>2 DEF SharedInv, RowsAreSpent, Spent, requestVars
<1>6. ResolverInv /\ RegistryInv /\ msg' = msg
  BY <1>1, <1>2 DEF SharedInv, ResolverInv, RegistryInv
<1>7. ResolverInv'
  <2>1. ASSUME NEW change \in Rotations, Resolver!Publish(change[1], change[2]),
               UNCHANGED resolverVars
        PROVE  ResolverInv'
    <3>1. /\ change[1] \in Dids /\ change[2] \in Resolver!Documents
          /\ change[2] \in KeysOf(change[1])
      BY SurroundingsAssumption DEF KeysOf, Resolver!Documents
    <3>2. KeysInv'
      BY <1>6, <2>1, <3>1
         DEF ResolverInv, KeysInv, LookupInv, Resolver!TypeOK, Resolver!Publish,
             resolverVars
    <3>3. Resolver!TypeOK'
      BY <1>6, <2>1, <3>1
         DEF ResolverInv, Resolver!TypeOK, Resolver!Publish, resolverVars
    <3> QED BY <3>2, <3>3 DEF ResolverInv
  <2>2. ASSUME NEW r \in Requests, Resolver!Serve(r), UNCHANGED ownerVars
        PROVE  ResolverInv'
    BY <1>6, <2>2, ResolverSteps
  <2> QED BY <1>6, <2>1, <2>2, ResolverStays DEF Publish, Tick, vars, Serve
<1>8. RegistryInv'
  <2>1. ASSUME NEW cat \in Catalogues, Registry!Publish(cat), UNCHANGED registryVars
        PROVE  RegistryInv'
    BY <1>6, <2>1
       DEF RegistryInv, SpecsInv, Registry!TypeOK, Registry!Publish, registryVars
  <2>2. ASSUME NEW r \in Requests, Registry!Serve(r), catalogue' = catalogue
        PROVE  RegistryInv'
    BY <1>1, <1>6, <2>2, RegistrySteps
  <2> QED BY <1>6, <2>1, <2>2, RegistryStays DEF Publish, Tick, vars, Serve, upstreamVars
<1> QED BY <1>3, <1>4, <1>5, <1>7, <1>8 DEF MInv, SharedInv, ResolverInv, RegistryInv
-------------------------------------------------------------------------------
LEMMA InitMediates == Init => MInv
<1> SUFFICES ASSUME Init PROVE MInv
  OBVIOUS
<1> USE DEF Init, Start
<1>1. \A r \in Requests : ~ Spent(r)
  BY DEF Spent
<1>2. ResolverInv
  BY SurroundingsAssumption
     DEF ResolverInv, KeysInv, LookupInv, KeysOf, Resolver!TypeOK, Resolver!Documents,
         Resolver!ResolverInit, Resolver!NoLookup
<1>3. RegistryInv
  BY DEF RegistryInv, SpecsInv, Registry!TypeOK, Registry!RegistryInit, Registry!NoFetch
<1>4. RowsAreSpent
  BY DEF RowsAreSpent, StoreInit
<1>5. RateTypeOK /\ RateLogIsHistory
  BY DEF RateTypeOK, RateLogIsHistory, Rate!Empty
<1>6. \A r \in Requests : RequestInv(r)
  BY <1>1 DEF RequestInv, PlaceInv, Mediated, Trailed, Untried, Reached
<1>7. OnlyGenuineTokensCost
  <2>1. \A d \in Dids : RateHistory(TRUE)[d] = {}
    BY DEF RateHistory
  <2>2. Rate!RefusalIsDeserved
    BY <2>1 DEF Rate!RefusalIsDeserved
  <2> QED BY <1>1, <2>2 DEF OnlyGenuineTokensCost, ReplayIsReal
<1> QED BY <1>2, <1>3, <1>4, <1>5, <1>6, <1>7
        DEF MInv, SharedInv, ResolverInv, RegistryInv

LEMMA NextMediates == IInv /\ IInv' /\ MInv /\ [Next]_vars => MInv'
<1> SUFFICES ASSUME IInv, IInv', MInv, [Next]_vars PROVE MInv'
  OBVIOUS
<1>1. ASSUME NEW r \in Requests, Handler(r) PROVE MInv'
  BY <1>1, QuietMediates, RefuseReplayMediates, AdmitMediates DEF Handler, Quiet
<1> QED BY <1>1, CrashMediates, SurroundingsMediate DEF Next

LEMMA MediationHolds == Spec => []MInv
  BY InvariantHolds, InitMediates, NextMediates, PTL DEF Spec
-------------------------------------------------------------------------------
\* In secure mode nothing reaches the upstream server that has not a genuine
\* token, a jti spent by this very request, the policy's consent and the hash of
\* a published specification (app.py:177-308).
THEOREM ProxyMediation == Spec => []Mediation
<1>1. MInv => Mediation
  BY DEF MInv, RequestInv, Mediated, Mediation
<1> QED BY <1>1, MediationHolds, PTL

\* A jti is stored and a rate charged only for a token that its agent signed and
\* that fits its request; a replay is refused only because another request with a
\* genuine token of that jti, of whichever agent, got in, and a request over the
\* rate only because requests of its own agent filled the window (app.py:228-275).
THEOREM ProxyRefusals == Spec => []OnlyGenuineTokensCost
<1>1. MInv => OnlyGenuineTokensCost
  BY DEF MInv
<1> QED BY <1>1, MediationHolds, PTL

\* What is in the trails.
LEMMA TrailsTell ==
    ASSUME NEW r \in Requests, Trailed(r), ~ InBaseline(r)
    PROVE  /\ outcome[r].status \in {400, 401, 403, 429} <=>
                  WrittenFor(r, "VERIFICATION_FAILED")
           /\ WrittenFor(r, "VERIFICATION_FAILED") =>
                  ~ WrittenFor(r, "VERIFICATION_PASSED")
           /\ outcome[r].status = 200 <=> WrittenFor(r, "REQUEST_FORWARDED")
           /\ outcome[r].status = 200 => trail[r] = Forwarded
<1>1. CASE trail[r] = << >>
  <2>1. \A record : ~ WrittenFor(r, record)
    BY <1>1 DEF WrittenFor
  <2> QED BY <1>1, <2>1 DEF Trailed, AnsweredAs, Failed, Forwarded
<1>2. CASE trail[r] = << "VERIFICATION_FAILED" >>
  <2>1. \A record : WrittenFor(r, record) <=> record = "VERIFICATION_FAILED"
    BY <1>2 DEF WrittenFor
  <2> QED BY <1>2, <2>1 DEF Trailed, AnsweredAs, Decided, Passed, Forwarded
<1>3. CASE trail[r] = Decided
  <2>1. \A record : WrittenFor(r, record) <=> record = "POLICY_DECISION"
    BY <1>3 DEF WrittenFor, Decided
  <2> QED BY <1>3, <2>1 DEF Trailed, AnsweredAs, Decided, Failed, Forwarded
<1>4. CASE trail[r] = Passed
  <2>1. \A record : WrittenFor(r, record) <=>
            record \in {"POLICY_DECISION", "VERIFICATION_PASSED"}
    BY <1>4 DEF WrittenFor, Passed
  <2> QED BY <1>4, <2>1 DEF Trailed, AnsweredAs, Passed, Failed, Forwarded
<1>5. CASE trail[r] = Failed
  <2>1. \A record : WrittenFor(r, record) <=>
            record \in {"POLICY_DECISION", "VERIFICATION_FAILED"}
    BY <1>5 DEF WrittenFor, Failed
  <2> QED BY <1>5, <2>1 DEF Trailed, AnsweredAs, Decided, Passed, Failed, Forwarded
<1>6. CASE trail[r] = Forwarded
  <2>1. \A record : WrittenFor(r, record) <=>
            record \in {"POLICY_DECISION", "VERIFICATION_PASSED", "REQUEST_FORWARDED"}
    BY <1>6 DEF WrittenFor, Forwarded
  <2> QED BY <1>6, <2>1 DEF Trailed, AnsweredAs, Decided, Passed, Failed, Forwarded
<1> QED BY <1>1, <1>2, <1>3, <1>4, <1>5, <1>6 DEF Trailed, AnsweredAs

\* A request refused with a status below 500 has its VERIFICATION_FAILED and no
\* VERIFICATION_PASSED, and exactly the requests that were answered 200 have
\* REQUEST_FORWARDED (app.py:91-97, 278-312).
THEOREM ProxyAudit == Spec => []AuditMatchesAnswers
<1>1. MInv => AuditMatchesAnswers
  BY TrailsTell DEF MInv, RequestInv, AuditMatchesAnswers, Forwarded
<1> QED BY <1>1, MediationHolds, PTL
-------------------------------------------------------------------------------
\* What an honest request may be answered, and that it never waits for the web.
Earned ==
    {"none", "token_expiry", "rate_limit", "forwarded", "upstream", "exception"}
Served(r) == pc[r] # "resolving" /\ outcome[r].stage \in Earned

\* Without GITHUB_PAT there is nothing to fetch from GitHub.
FetchesAreMeant ==
    \A r \in Requests : fetch[r].phase # "none" => UpstreamMode = "local" \/ HasPat

HInv == FetchesAreMeant /\ \A r \in Requests : Honest(r) => Served(r)

LEMMA AnswerServes ==
    ASSUME TypeOK, NEW r \in Requests, NEW status, NEW stage \in Earned, NEW records,
           Answer(r, status, stage, records)
    PROVE  Served(r)'
  BY AnswerEffect DEF Served

LEMMA AwaitServes ==
    ASSUME TypeOK, NEW r \in Requests, Served(r), NEW place, NEW records,
           place # "resolving", Await(r, place, records)
    PROVE  Served(r)'
  BY AwaitEffect DEF Served

LEMMA ForwardServes ==
    ASSUME TypeOK, NEW r \in Requests, Served(r), NEW records, Forward(r, records)
    PROVE  Served(r)'
<1>1. CASE Answer(r, 502, "upstream", records)
  BY <1>1, AnswerServes DEF Earned
<1>2. CASE Await(r, "forwarding", records)
  BY <1>2, AwaitServes
<1> QED BY <1>1, <1>2 DEF Forward

\* The token of an honest request fails for its age only.
LEMMA VerifyServes ==
    ASSUME TypeOK, NEW r \in Requests, Honest(r), Served(r), Verify(r, msg[r].key)
    PROVE  Served(r)'
<1>1. Stage(msg[r], msg[r].key) \in {"ok", "token_expiry"}
  BY DEF Honest, Genuine, Stage
<1>2. CASE Await(r, "body", << >>)
  BY <1>2, AwaitServes
<1>3. CASE _deny(r, 401, "token_expiry")
  BY <1>3, AnswerServes DEF _deny, Earned
<1> QED BY <1>1, <1>2, <1>3 DEF Verify

\* The hash of an honest request is the one expected, wherever the
\* specifications come from.
LEMMA HonestHash ==
    ASSUME TypeOK, SharedInv, FetchesAreMeant, NEW r \in Requests, Honest(r), NEW specs,
           \/ specs = Registry!Current /\ Registry!Ready
           \/ specs = Registry!Fetched(r) /\ Registry!Deliver(r)
           \/ specs = LocalToolSpecs /\ UpstreamMode = "github"
    PROVE  specs[msg[r].asked] = msg[r].hash
<1> DEFINE tool == msg[r].asked
<1>1. tool \in Tools /\ \A s \in Specifications : s[tool] = msg[r].hash
  BY AskedIsTool DEF Honest
<1>2. UpstreamMode \in {"local", "github"}
  BY DEF UpstreamMode
<1>3. UpstreamMode = "local" => \A cat \in Catalogues : cat[tool] = msg[r].hash
  BY <1>1 DEF Specifications
<1>4. UpstreamMode = "github" => LocalToolSpecs[tool] = msg[r].hash
  BY <1>1 DEF Specifications
<1>5. ASSUME UpstreamMode = "github", HasPat, NEW cat \in Catalogues \cup {Registry!NoTools}
      PROVE  Registry!Merged(cat)[tool] = msg[r].hash
  <2>1. CASE cat \in Catalogues
    BY <1>1, <1>5, <2>1 DEF Specifications
  <2>2. CASE cat = Registry!NoTools
    BY <1>1, <1>4, <1>5, <2>2 DEF Registry!Merged, Registry!NoTools
  <2> QED BY <1>5, <2>1, <2>2
<1> HIDE DEF tool
<1>6. CASE specs = Registry!Current /\ Registry!Ready
  <2>1. CASE UpstreamMode = "local"
    BY <1>3, <1>6, <2>1
       DEF Registry!Current, Registry!Ready, SharedInv, Registry!TypeOK, tool
  <2>2. CASE UpstreamMode = "github" /\ HasPat
    <3>1. cacheRemote \in Catalogues \cup {Registry!NoTools}
      BY <1>6, <2>2 DEF Registry!Ready, SharedInv, Registry!TypeOK
    <3> QED BY <1>5, <1>6, <2>2, <3>1 DEF Registry!Current, tool
  <2>3. CASE UpstreamMode = "github" /\ ~ HasPat
    BY <1>4, <1>6, <2>3 DEF Registry!Current, tool
  <2> QED BY <1>2, <2>1, <2>2, <2>3
<1>7. CASE specs = Registry!Fetched(r) /\ Registry!Deliver(r)
  <2>1. fetch[r].specs \in Catalogues /\ (UpstreamMode = "local" \/ HasPat)
    BY <1>7 DEF Registry!Deliver, SharedInv, SpecsInv, FetchesAreMeant
  <2> QED BY <1>2, <1>3, <1>5, <1>7, <2>1 DEF Registry!Fetched, tool
<1> QED BY <1>4, <1>6, <1>7 DEF tool

LEMMA CheckHashServes ==
    ASSUME TypeOK, NEW r \in Requests, Honest(r), Served(r), NEW specs, NEW records,
           specs[msg[r].asked] = msg[r].hash, CheckHash(r, specs, records)
    PROVE  Served(r)'
<1>1. Forward(r, records \o << "VERIFICATION_PASSED" >>)
  BY DEF CheckHash, Honest
<1> QED BY <1>1, ForwardServes
-------------------------------------------------------------------------------
\* One stretch of the handler of an honest request after the other.
LEMMA PassThroughServes ==
    ASSUME TypeOK, NEW r \in Requests, Honest(r), Served(r), PassThrough(r)
    PROVE  Served(r)'
<1>1. CASE Raise(r, << >>)
  BY <1>1, AnswerServes DEF Raise, Earned
<1>2. CASE Forward(r, << "BASELINE_PASSTHROUGH" >>)
  BY <1>2, ForwardServes
<1> QED BY <1>1, <1>2 DEF PassThrough, Honest

\* The key of an honest agent is in a cache or in its file, and it is the key of
\* the token.
LEMMA ReceiveServes ==
    ASSUME TypeOK, SharedInv, NEW r \in Requests, Honest(r), Served(r), Receive(r)
    PROVE  Served(r)'
<1>1. /\ msg[r].form = "jwt" /\ msg[r].iss \in Dids /\ msg[r].iss \in LocalDids
      /\ msg[r].key \in Keys /\ \A key \in KeysOf(msg[r].iss) : key = msg[r].key
  BY DEF Honest, Genuine
<1>2. CASE Resolver!Cached(msg[r].iss) /\ Verify(r, keyCache[msg[r].iss])
  <2>1. keyCache[msg[r].iss] = msg[r].key
    BY <1>1, <1>2 DEF Resolver!Cached, SharedInv, KeysInv
  <2> QED BY <1>2, <2>1, VerifyServes
<1>3. CASE /\ Resolver!ReadFile(msg[r].iss)
           /\ IF Resolver!LocalDocument(msg[r].iss) \in Keys
              THEN Verify(r, Resolver!LocalDocument(msg[r].iss))
              ELSE _deny(r, 401, "did_resolution")
  <2>1. Resolver!LocalDocument(msg[r].iss) = msg[r].key
    BY <1>1 DEF Resolver!LocalDocument, SharedInv, KeysInv
  <2>2. Verify(r, msg[r].key)
    BY <1>1, <1>3, <2>1
  <2> QED BY <2>2, VerifyServes
<1>4. CASE Resolver!Ask(r, msg[r].iss)
  <2>1. published[msg[r].iss] # NoDocument
    BY <1>1, SurroundingsAssumption DEF SharedInv, KeysInv
  <2> QED BY <1>1, <1>4, <2>1 DEF Resolver!Ask, Resolver!FromWeb, Resolver!FromFile
<1> QED BY <1>1, <1>2, <1>3, <1>4 DEF Receive

LEMMA RefuseBodyServes ==
    ASSUME TypeOK, NEW r \in Requests, Honest(r), Served(r), RefuseBody(r)
    PROVE  Served(r)'
<1>1. /\ msg[r].body = "json" /\ msg[r].asked # NoTool
      /\ msg[r].tool = msg[r].asked /\ msg[r].jti # NoJti
  BY DEF Honest, Genuine
<1> QED BY <1>1 DEF RefuseBody

\* The request that spent the jti of another one has a genuine token.
LEMMA NoReplayOfHonest ==
    ASSUME TypeOK, NEW r \in Requests, Honest(r), RefuseReplay(r), MInv'
    PROVE  FALSE
<1>1. msg' = msg /\ outcome'[r].stage = "replay_protection" /\ msg[r].jti # NoJti
  BY AnswerEffect DEF RefuseReplay, _deny, Honest
<1>2. PICK s \in Requests \ {r} : Spent(s)' /\ msg'[s].jti = msg'[r].jti
  BY <1>1 DEF MInv, OnlyGenuineTokensCost, ReplayIsReal
<1>3. Genuine(msg[s])
  BY <1>1, <1>2 DEF MInv, OnlyGenuineTokensCost
<1> QED BY <1>1, <1>2, <1>3 DEF Honest

LEMMA AdmitServes ==
    ASSUME TypeOK, SharedInv, FetchesAreMeant, NEW r \in Requests, Honest(r), Served(r),
           Admit(r)
    PROVE  Served(r)'
<1>1. CASE _deny(r, 429, "rate_limit")
  BY <1>1, AnswerServes DEF _deny, Earned
<1>2. CASE Authorise(r)
  <2>1. /\ is_allowed(msg[r].iss, msg[r].asked, msg[r].params) = "allow"
        /\ msg[r].hash # NoHash
    BY DEF Honest
  <2>2. CASE Registry!Ready /\ CheckHash(r, Registry!Current, << "POLICY_DECISION" >>)
    <3>1. Registry!Current[msg[r].asked] = msg[r].hash
      BY <2>2, HonestHash
    <3> QED BY <2>2, <3>1, CheckHashServes
  <2>3. CASE Await(r, "registry", << "POLICY_DECISION" >>)
    BY <2>3, AwaitServes
  <2> QED BY <1>2, <2>1, <2>2, <2>3 DEF Authorise
<1> QED BY <1>1, <1>2 DEF Admit

LEMMA SpecsArriveServes ==
    ASSUME TypeOK, SharedInv, FetchesAreMeant, NEW r \in Requests, Honest(r), Served(r),
           SpecsArrive(r)
    PROVE  Served(r)'
<1>1. ASSUME NEW specs, CheckHash(r, specs, << >>),
             \/ specs = Registry!Fetched(r) /\ Registry!Deliver(r)
             \/ specs = LocalToolSpecs /\ UpstreamMode = "github"
      PROVE  Served(r)'
  <2>1. specs[msg[r].asked] = msg[r].hash
    BY <1>1, HonestHash
  <2> QED BY <1>1, <2>1, CheckHashServes
<1>2. CASE Raise(r, << >>)
  BY <1>2, AnswerServes DEF Raise, Earned
<1> QED BY <1>1, <1>2 DEF SpecsArrive

LEMMA ForwardEndsServes ==
    ASSUME TypeOK, NEW r \in Requests, Honest(r), Served(r), ForwardEnds(r)
    PROVE  Served(r)'
<1>1. ASSUME NEW status, NEW stage \in Earned, NEW records,
             Answer(r, status, stage, records)
      PROVE  Served(r)'
  BY <1>1, AnswerServes
<1> QED BY <1>1 DEF ForwardEnds, Raise, Earned

LEMMA HandlerServes ==
    ASSUME IInv, MInv, MInv', FetchesAreMeant, NEW r \in Requests, Honest(r), Served(r),
           Handler(r)
    PROVE  Served(r)'
<1>1. TypeOK /\ SharedInv
  BY DEF IInv, MInv
<1>2. ~ KeyArrives(r)
  BY DEF KeyArrives, Served
<1> QED BY <1>1, <1>2, PassThroughServes, ReceiveServes, RefuseBodyServes,
           NoReplayOfHonest, AdmitServes, SpecsArriveServes, ForwardEndsServes
        DEF Handler
-------------------------------------------------------------------------------
\* The handler of one request leaves the others as they are.
LEMMA HandlerIsLocal ==
    ASSUME IInv, MInv, NEW r \in Requests, Handler(r)
    PROVE  OthersStay(r) /\ msg' = msg
<1>1. TypeOK /\ SharedInv /\ RequestInv(r) /\ clock > 0
  BY DEF IInv, MInv
<1>2. InOrder(r)
  BY <1>1, PassThroughKeeps, ReceiveKeeps, KeyArrivesKeeps, RefuseBodyKeeps,
     RefuseReplayKeepsRequest, AdmitKeepsRequest, SpecsArriveKeeps, ForwardEndsKeeps
     DEF Handler
<1>3. msg' = msg
  BY DEF Handler, PassThrough, Receive, KeyArrives, RefuseBody, RefuseReplay, Admit,
         SpecsArrive, ForwardEnds
<1> QED BY <1>2, <1>3 DEF InOrder

LEMMA FetchesStayMeant ==
    ASSUME Registry!TypeOK, FetchesAreMeant, [Next]_vars
    PROVE  FetchesAreMeant'
<1>1. ASSUME NEW r \in Requests, Registry!Ask(r)
      PROVE  FetchesAreMeant'
  <2>1. UpstreamMode = "local" \/ HasPat
    BY <1>1 DEF Registry!Ask, Registry!Ready
  <2> QED BY <2>1 DEF FetchesAreMeant
<1>2. ASSUME NEW r \in Requests, Registry!Serve(r)
      PROVE  FetchesAreMeant'
  BY <1>2 DEF Registry!Serve, Registry!TypeOK, FetchesAreMeant
<1>3. ASSUME NEW r \in Requests, Registry!Deliver(r) \/ Registry!Fail(r)
      PROVE  FetchesAreMeant'
  BY <1>3 DEF Registry!Deliver, Registry!Fail, Registry!NoFetch, Registry!TypeOK,
              FetchesAreMeant
<1>4. CASE Registry!InvalidateCache
  BY <1>4 DEF Registry!InvalidateCache, Registry!NoFetch, FetchesAreMeant
<1>5. CASE UNCHANGED registryVars
  BY <1>5 DEF registryVars, FetchesAreMeant
<1>6. CASE \E r \in Requests : Handler(r)
  BY <1>1, <1>3, <1>5, <1>6
     DEF Handler, PassThrough, Receive, KeyArrives, RefuseBody, RefuseReplay, Admit,
         Authorise, SpecsArrive, ForwardEnds
<1>7. CASE \E r \in Requests : Serve(r)
  BY <1>2, <1>5, <1>7 DEF Serve
<1>8. CASE Crash \/ Publish \/ Tick \/ UNCHANGED vars
  BY <1>4, <1>5, <1>8 DEF Crash, Publish, Tick, vars, registryVars
<1> QED BY <1>6, <1>7, <1>8 DEF Next

LEMMA NextServes == IInv /\ MInv /\ MInv' /\ HInv /\ [Next]_vars => HInv'
<1> SUFFICES ASSUME IInv, MInv, MInv', HInv, [Next]_vars PROVE HInv'
  OBVIOUS
<1>1. FetchesAreMeant'
  BY FetchesStayMeant DEF MInv, SharedInv, HInv
<1>2. msg' = msg
  BY HandlerIsLocal DEF Next, Serve, Crash, Publish, Tick, vars
<1>3. \A r \in Requests : Honest(r)' => Honest(r)
  BY <1>2 DEF Honest
<1>4. ASSUME NEW r \in Requests, Honest(r) PROVE Served(r)'
  <2>1. Served(r) /\ FetchesAreMeant
    BY <1>4 DEF HInv
  <2>2. ASSUME NEW q \in Requests, Handler(q) PROVE Served(r)'
    <3>1. CASE q = r
      BY <1>4, <2>1, <2>2, <3>1, HandlerServes
    <3>2. CASE q # r
      BY <2>1, <2>2, <3>2, HandlerIsLocal DEF OthersStay, Served
    <3> QED BY <3>1, <3>2
  <2>3. CASE Crash
    BY <2>1, <2>3 DEF Crash, Served
  <2>4. CASE Publish \/ Tick \/ UNCHANGED vars \/ \E q \in Requests : Serve(q)
    BY <2>1, <2>4 DEF Publish, Tick, Serve, vars, requestVars, Served
  <2> QED BY <2>2, <2>3, <2>4 DEF Next
<1> QED BY <1>1, <1>3, <1>4 DEF HInv

LEMMA InitServes == Init => HInv
  BY DEF Init, Start, HInv, Served, Earned, FetchesAreMeant, Registry!RegistryInit,
         Registry!NoFetch

LEMMA ServiceHolds == Spec => []HInv
  BY InvariantHolds, MediationHolds, InitServes, NextServes, PTL DEF Spec

\* An honest request is refused for its age or its rate only: forged tokens that
\* carry its jti, bodies that do not parse, crashes, failures of other requests
\* and of GitHub, and what others publish never make the pipeline turn it down
\* (app.py:177-300).
THEOREM ProxyServesHonest == Spec => []HonestIsServed
<1>1. HInv => HonestIsServed
  BY DEF HInv, Served, Earned, HonestIsServed
<1> QED BY <1>1, ServiceHolds, PTL
-------------------------------------------------------------------------------
\* The components, with what is proved of them.
RegistryFacts == INSTANCE ToolRegistryProofs WITH Callers <- Requests
ResolverFacts == INSTANCE DidResolverProofs WITH Callers <- Requests

LEMMA RegistryIsAsAssumed == RegistryFacts!RegistryAssumption
  BY ProxyAssumption, SurroundingsAssumption, CachesAssumption, ComponentsAssumption
     DEF RegistryFacts!RegistryAssumption, RegistryFacts!NoTools, RegistryFacts!NoHash,
         Registry!NoTools, Registry!NoHash

LEMMA ResolverIsAsAssumed == ResolverFacts!ResolverAssumption
  BY SurroundingsAssumption, ComponentsAssumption DEF ResolverFacts!ResolverAssumption

\* What a step of the proxy does to the registry is a step of the registry, or none.
LEMMA RegistryIsUsed == [Next]_vars => [Registry!Next]_(Registry!vars)
<1> SUFFICES ASSUME [Next]_vars PROVE [Registry!Next]_(Registry!vars)
  OBVIOUS
<1> DEFINE Elsewhere == UNCHANGED << clock, upstreamVars >>
           Same == UNCHANGED << clock, upstreamVars, registryVars >>
<1>1. ASSUME NEW r \in Requests, Elsewhere,
             Registry!Ask(r) \/ Registry!Serve(r) \/ Registry!Deliver(r) \/ Registry!Fail(r)
      PROVE  Registry!Next
  BY <1>1 DEF Registry!Next, Registry!OneLife, Registry!Lookup, upstreamVars,
              Registry!upstreamVars
<1>2. CASE Same
  BY <1>2 DEF registryVars, upstreamVars, Registry!vars, Registry!registryVars,
              Registry!upstreamVars
<1>3. ASSUME NEW r \in Requests, Handler(r) PROVE [Registry!Next]_(Registry!vars)
  <2>1. Same \/ (Elsewhere /\ (Registry!Ask(r) \/ Registry!Deliver(r) \/ Registry!Fail(r)))
    BY <1>3 DEF Handler, PassThrough, Receive, KeyArrives, RefuseBody, RefuseReplay, Admit,
                Authorise, SpecsArrive, ForwardEnds
  <2> HIDE DEF Same, Elsewhere
  <2> QED BY <1>1, <1>2, <2>1
<1>4. ASSUME NEW r \in Requests, Serve(r) PROVE [Registry!Next]_(Registry!vars)
  <2>1. Same \/ (Elsewhere /\ Registry!Serve(r))
    BY <1>4 DEF Serve
  <2> HIDE DEF Same, Elsewhere
  <2> QED BY <1>1, <1>2, <2>1
<1>5. CASE Crash
  BY <1>5 DEF Crash, Registry!Next, upstreamVars, Registry!upstreamVars
<1>6. CASE Publish
  <2>1. \/ Same
        \/ /\ \E cat \in Catalogues : Registry!Publish(cat)
           /\ UNCHANGED << clock, registryVars >>
    BY <1>6 DEF Publish
  <2>2. CASE /\ \E cat \in Catalogues : Registry!Publish(cat)
             /\ UNCHANGED << clock, registryVars >>
    BY <2>2 DEF Registry!Next, Registry!OneLife, Registry!Upstream, registryVars,
                Registry!registryVars
  <2> HIDE DEF Same
  <2> QED BY <1>2, <2>1, <2>2
<1>7. CASE Tick
  BY <1>7 DEF Tick, Registry!Next, Registry!OneLife, Registry!Tick, registryVars,
              upstreamVars, Registry!registryVars, Registry!upstreamVars
<1>8. CASE UNCHANGED vars
  BY <1>2, <1>8 DEF vars
<1> QED BY <1>3, <1>4, <1>5, <1>6, <1>7, <1>8 DEF Next

\* The proxy asks the registry for specifications as its specification allows: one
\* fetch of a request at a time, delivered or failed once, and all of them dropped
\* when the process dies, so that what is proved of the registry holds in the proxy
\* (app.py:288-291, tool_registry.py:102-164).
THEOREM ProxyUsesRegistry == Spec => Registry!Spec
<1>1. Init => Registry!Init
  BY DEF Init, Start, Registry!Init
<1> QED BY <1>1, RegistryIsUsed, PTL DEF Spec, Registry!Spec

\* ... and what it does to the resolver is a step of the resolver, or none.
LEMMA ResolverIsUsed == [Next]_vars => [Resolver!Next]_(Resolver!vars)
<1> SUFFICES ASSUME [Next]_vars PROVE [Resolver!Next]_(Resolver!vars)
  OBVIOUS
<1> DEFINE Same == UNCHANGED << ownerVars, resolverVars >>
<1>1. ASSUME NEW r \in Requests, UNCHANGED ownerVars,
             \/ \E did \in Dids : Resolver!ReadFile(did) \/ Resolver!Ask(r, did)
             \/ Resolver!Serve(r) \/ Resolver!Deliver(r) \/ Resolver!Fail(r)
      PROVE  Resolver!Next
  BY <1>1 DEF Resolver!Next, Resolver!Resolve, ownerVars, Resolver!ownerVars
<1>2. CASE Same
  BY <1>2 DEF resolverVars, ownerVars, Resolver!vars, Resolver!resolverVars,
              Resolver!ownerVars
<1>3. ASSUME NEW r \in Requests, Handler(r) PROVE [Resolver!Next]_(Resolver!vars)
  <2>1. \/ Same
        \/ /\ UNCHANGED ownerVars
           /\ \/ Resolver!ReadFile(msg[r].iss) \/ Resolver!Ask(r, msg[r].iss)
              \/ Resolver!Deliver(r) \/ Resolver!Fail(r)
    BY <1>3 DEF Handler, PassThrough, Receive, KeyArrives, RefuseBody, RefuseReplay, Admit,
                SpecsArrive, ForwardEnds
  <2>2. Resolver!ReadFile(msg[r].iss) \/ Resolver!Ask(r, msg[r].iss) => msg[r].iss \in Dids
    BY SurroundingsAssumption
       DEF Resolver!ReadFile, Resolver!FromFile, Resolver!Ask, Resolver!FromWeb
  <2> HIDE DEF Same
  <2> QED BY <1>1, <1>2, <2>1, <2>2
<1>4. ASSUME NEW r \in Requests, Serve(r) PROVE [Resolver!Next]_(Resolver!vars)
  <2>1. Same \/ (UNCHANGED ownerVars /\ Resolver!Serve(r))
    BY <1>4 DEF Serve
  <2> HIDE DEF Same
  <2> QED BY <1>1, <1>2, <2>1
<1>5. CASE Crash
  BY <1>5 DEF Crash, Resolver!Next
<1>6. CASE Publish
  <2>1. \/ Same
        \/ /\ \E change \in Rotations : Resolver!Publish(change[1], change[2])
           /\ UNCHANGED resolverVars
    BY <1>6 DEF Publish
  <2>2. CASE /\ \E change \in Rotations : Resolver!Publish(change[1], change[2])
             /\ UNCHANGED resolverVars
    <3>1. \E did \in Dids, doc \in Resolver!Documents : Resolver!Publish(did, doc)
      BY <2>2, SurroundingsAssumption DEF Resolver!Documents
    <3> QED BY <2>2, <3>1 DEF Resolver!Next, resolverVars, Resolver!resolverVars
  <2> HIDE DEF Same
  <2> QED BY <1>2, <2>1, <2>2
<1>7. CASE Tick \/ UNCHANGED vars
  BY <1>2, <1>7 DEF Tick, vars
<1> QED BY <1>3, <1>4, <1>5, <1>6, <1>7 DEF Next

\* The proxy resolves DIDs as the specification of the resolver allows: a request
\* waits for one document at a time, and no answer outlives the process that asked
\* (app.py:211-216, did_resolver.py:52-110).
THEOREM ProxyUsesResolver == Spec => Resolver!Spec
<1>1. Init => Resolver!Init
  BY SurroundingsAssumption DEF Init, Start, Resolver!Init, Resolver!Documents
<1> QED BY <1>1, ResolverIsUsed, PTL DEF Spec, Resolver!Spec

\* In the proxy, too, a change of the upstream's tools is noticed within the TTL,
\* however the queries of its requests overlap and whenever it crashes
\* (tool_registry.py:111-124).
THEOREM ProxyNoticesWithinTtl == Spec => []Registry!NoticedWithinTtl
<1>1. Init => RegistryFacts!IInv
  <2>1. Init => RegistryFacts!Init
    BY DEF Init, Start, Registry!RegistryInit, Registry!NoFetch, RegistryFacts!Init,
           RegistryFacts!RegistryInit, RegistryFacts!NoFetch
  <2> QED BY <2>1, RegistryIsAsAssumed, RegistryFacts!InitEstablishes
<1>2. RegistryFacts!IInv /\ [Next]_vars => RegistryFacts!IInv'
  <2>1. [Registry!Next]_(Registry!vars) <=> [RegistryFacts!Next]_(RegistryFacts!vars)
    BY DEF Registry!Next, RegistryFacts!Next, Registry!OneLife, RegistryFacts!OneLife,
          Registry!Lookup, RegistryFacts!Lookup, Registry!Ask, RegistryFacts!Ask,
          Registry!Serve, RegistryFacts!Serve, Registry!Deliver, RegistryFacts!Deliver,
          Registry!Fail, RegistryFacts!Fail, Registry!Upstream, RegistryFacts!Upstream,
          Registry!Publish, RegistryFacts!Publish, Registry!Tick, RegistryFacts!Tick,
          Registry!InvalidateCache, RegistryFacts!InvalidateCache, Registry!Ready,
          RegistryFacts!Ready, Registry!NoFetch, RegistryFacts!NoFetch, Registry!NoTools,
          RegistryFacts!NoTools, Registry!NoHash, RegistryFacts!NoHash, Registry!vars,
          RegistryFacts!vars, Registry!upstreamVars, RegistryFacts!upstreamVars,
          Registry!registryVars, RegistryFacts!registryVars
  <2> QED BY <2>1, RegistryIsUsed, RegistryIsAsAssumed, RegistryFacts!NextKeeps
<1>3. RegistryFacts!IInv => Registry!NoticedWithinTtl
  <2>1. RegistryFacts!NoticedWithinTtl <=> Registry!NoticedWithinTtl
    BY DEF RegistryFacts!NoticedWithinTtl, Registry!NoticedWithinTtl, RegistryFacts!Ready,
           Registry!Ready
  <2> QED BY <2>1, RegistryIsAsAssumed, RegistryFacts!FreshIsNoticed
<1> QED BY <1>1, <1>2, <1>3, PTL DEF Spec

LEMMA ResolverKeeps ==
    /\ Init => ResolverFacts!IInv
    /\ ResolverFacts!IInv /\ [Next]_vars => ResolverFacts!IInv'
    /\ [Next]_vars => [ResolverFacts!Next]_(ResolverFacts!vars)
<1>1. Init => ResolverFacts!Init
  BY SurroundingsAssumption
     DEF Init, Start, Resolver!ResolverInit, Resolver!NoLookup, ResolverFacts!Init,
         ResolverFacts!ResolverInit, ResolverFacts!NoLookup, ResolverFacts!Documents
<1>2. [Resolver!Next]_(Resolver!vars) <=> [ResolverFacts!Next]_(ResolverFacts!vars)
  BY
    DEF Resolver!Next, ResolverFacts!Next, Resolver!Resolve, ResolverFacts!Resolve,
        Resolver!ReadFile, ResolverFacts!ReadFile, Resolver!Ask, ResolverFacts!Ask,
        Resolver!Serve, ResolverFacts!Serve, Resolver!Deliver, ResolverFacts!Deliver,
        Resolver!Fail, ResolverFacts!Fail, Resolver!Publish, ResolverFacts!Publish,
        Resolver!Restart, ResolverFacts!Restart, Resolver!Cached, ResolverFacts!Cached,
        Resolver!FromFile, ResolverFacts!FromFile, Resolver!FromWeb, ResolverFacts!FromWeb,
        Resolver!LocalDocument, ResolverFacts!LocalDocument, Resolver!KeyOrNone,
        ResolverFacts!KeyOrNone, Resolver!NoLookup, ResolverFacts!NoLookup,
        Resolver!Documents, ResolverFacts!Documents, Resolver!vars, ResolverFacts!vars,
        Resolver!ownerVars, ResolverFacts!ownerVars, Resolver!resolverVars,
        ResolverFacts!resolverVars
<1> QED BY <1>1, <1>2, ResolverIsUsed, ResolverIsAsAssumed, ResolverFacts!InitEstablishes,
           ResolverFacts!NextKeeps

\* The proxy verifies tokens with keys that their issuers published during its life,
\* however resolutions of its requests overlap (did_resolver.py:100-110).
THEOREM ProxyKeyWasPublished == Spec => []Resolver!CachedKeyWasPublished
<1>1. ResolverFacts!IInv => Resolver!CachedKeyWasPublished
  BY DEF ResolverFacts!IInv, ResolverFacts!CachedKeyWasPublished,
         Resolver!CachedKeyWasPublished
<1> QED BY <1>1, ResolverKeeps, PTL DEF Spec

\* The key of a local DID, once the proxy has it, is the key of that DID until the
\* proxy restarts, whatever its owner does with the file
\* (did_resolver.py:59-61, 90-91, 100-102).
THEOREM ProxyKeyIsPinned == Spec => Resolver!LocalKeyIsPinned
<1> DEFINE Pins == \A d \in LocalDids :
               keyCache[d] # NoKey /\ keyCache'[d] # NoKey => keyCache'[d] = keyCache[d]
<1>1. ResolverFacts!IInv /\ [Next]_vars => Pins
  BY ResolverKeeps, ResolverIsAsAssumed, ResolverFacts!StepPins
<1>2. ResolverFacts!IInv /\ [Next]_vars => [Pins]_(Resolver!vars)
  BY <1>1
<1> QED BY <1>2, ResolverKeeps, PTL DEF Spec, Resolver!LocalKeyIsPinned
===============================================================================
