--------------------------- MODULE ToolRegistryProofs ---------------------------
(***************************************************************************)
(* The cache of the local mode in ToolRegistry is never staler than its    *)
(* TTL, for any callers, catalogues and TTL, and for ever.                 *)
(***************************************************************************)
EXTENDS ToolRegistry, TLAPS

Clocks ==
    /\ clock \in Nat
    /\ lastCurrent \in [Catalogues -> Nat]

\* These specifications are published now, or were at moment t or later.
PublishedSince(specs, t) == specs = catalogue \/ lastCurrent[specs] >= t

\* A query reads the clock before the server reads its tools.
AnswersAreFresh ==
    \A c \in Callers :
        /\ fetch[c].now <= clock
        /\ fetch[c].phase = "answered" =>
               /\ fetch[c].specs \in Catalogues
               /\ PublishedSince(fetch[c].specs, fetch[c].now)

\* The cache is dated with the moment its query was sent.
CacheIsDated ==
    /\ cacheLocalAt <= clock
    /\ cacheLocal # NoSpecs => PublishedSince(cacheLocal, cacheLocalAt)

IInv == TypeOK /\ Clocks /\ AnswersAreFresh /\ CacheIsDated
-------------------------------------------------------------------------------
LEMMA InitEstablishes == Init => IInv
  BY RegistryAssumption
     DEF Init, RegistryInit, NoFetch, IInv, TypeOK, Clocks, AnswersAreFresh, CacheIsDated

\* What holds of a caller keeps holding as long as neither the catalogue nor the
\* clock changes.
LEMMA AskKeeps ==
    ASSUME IInv, NEW c \in Callers, Ask(c), UNCHANGED << clock, upstreamVars >>
    PROVE  IInv'
<1>1. /\ fetch' = [fetch EXCEPT ![c] =
                     [phase |-> "asked", now |-> clock, specs |-> NoSpecs]]
      /\ cacheLocal' = cacheLocal /\ cacheLocalAt' = cacheLocalAt
      /\ cacheRemote' = cacheRemote /\ clock' = clock
      /\ catalogue' = catalogue /\ lastCurrent' = lastCurrent
  BY DEF Ask, upstreamVars
<1>2. TypeOK' /\ Clocks'
  BY <1>1 DEF IInv, TypeOK, Clocks
<1>3. AnswersAreFresh'
  BY <1>1 DEF IInv, TypeOK, Clocks, AnswersAreFresh, PublishedSince
<1> QED BY <1>1, <1>2, <1>3 DEF IInv, CacheIsDated, PublishedSince

LEMMA ServeKeeps ==
    ASSUME IInv, NEW c \in Callers, Serve(c), UNCHANGED << clock, upstreamVars >>
    PROVE  IInv'
<1>1. /\ fetch' = [fetch EXCEPT ![c].phase = "answered", ![c].specs = catalogue]
      /\ cacheLocal' = cacheLocal /\ cacheLocalAt' = cacheLocalAt
      /\ cacheRemote' = cacheRemote /\ clock' = clock
      /\ catalogue' = catalogue /\ lastCurrent' = lastCurrent
  BY DEF Serve, upstreamVars
<1>2. /\ fetch'[c].now = fetch[c].now /\ fetch'[c].specs = catalogue
      /\ \A q \in Callers \ {c} : fetch'[q] = fetch[q]
      /\ catalogue \in Catalogues
  BY <1>1 DEF IInv, TypeOK
<1>3. TypeOK' /\ Clocks'
  BY <1>1 DEF IInv, TypeOK, Clocks
<1>4. AnswersAreFresh'
  BY <1>1, <1>2 DEF IInv, AnswersAreFresh, PublishedSince
<1> QED BY <1>1, <1>3, <1>4 DEF IInv, CacheIsDated, PublishedSince

\* The cache takes over the date and the specifications of the answer.
LEMMA DeliverKeeps ==
    ASSUME IInv, NEW c \in Callers, Deliver(c), UNCHANGED << clock, upstreamVars >>
    PROVE  IInv'
<1>1. /\ fetch' = [fetch EXCEPT ![c] = NoFetch]
      /\ clock' = clock /\ catalogue' = catalogue /\ lastCurrent' = lastCurrent
  BY DEF Deliver, upstreamVars
<1>2. /\ fetch[c].specs \in Catalogues /\ fetch[c].now \in Nat
      /\ PublishedSince(fetch[c].specs, fetch[c].now) /\ fetch[c].now <= clock
  BY DEF Deliver, IInv, TypeOK, AnswersAreFresh
<1>3. \/ /\ cacheLocal' = fetch[c].specs /\ cacheLocalAt' = fetch[c].now
         /\ cacheRemote' = cacheRemote
      \/ /\ cacheLocal' = cacheLocal /\ cacheLocalAt' = cacheLocalAt
         /\ cacheRemote' = fetch[c].specs
  BY DEF Deliver
<1>4. TypeOK' /\ Clocks'
  BY <1>1, <1>2, <1>3 DEF IInv, TypeOK, Clocks, NoFetch
<1>5. AnswersAreFresh'
  BY <1>1 DEF IInv, TypeOK, Clocks, AnswersAreFresh, PublishedSince, NoFetch
<1>6. CacheIsDated'
  BY <1>1, <1>2, <1>3 DEF IInv, CacheIsDated, PublishedSince
<1> QED BY <1>4, <1>5, <1>6 DEF IInv

LEMMA FailKeeps ==
    ASSUME IInv, NEW c \in Callers, Fail(c), UNCHANGED << clock, upstreamVars >>
    PROVE  IInv'
<1>1. /\ fetch' = [fetch EXCEPT ![c] = NoFetch]
      /\ clock' = clock /\ catalogue' = catalogue /\ lastCurrent' = lastCurrent
      /\ cacheLocal' = cacheLocal /\ cacheLocalAt' = cacheLocalAt
      /\ cacheRemote' \in {cacheRemote, NoTools}
  BY DEF Fail, upstreamVars
<1>2. TypeOK' /\ Clocks'
  BY <1>1 DEF IInv, TypeOK, Clocks, NoFetch
<1>3. AnswersAreFresh'
  BY <1>1 DEF IInv, TypeOK, Clocks, AnswersAreFresh, PublishedSince, NoFetch
<1> QED BY <1>1, <1>2, <1>3 DEF IInv, CacheIsDated, PublishedSince

\* A catalogue that is withdrawn was published until now.
LEMMA PublishKeeps ==
    ASSUME IInv, NEW cat \in Catalogues, Publish(cat),
           UNCHANGED << clock, registryVars >>
    PROVE  IInv'
<1>1. /\ catalogue' = cat
      /\ lastCurrent' = [lastCurrent EXCEPT ![catalogue] = clock]
      /\ clock' = clock /\ fetch' = fetch /\ cacheLocal' = cacheLocal
      /\ cacheLocalAt' = cacheLocalAt /\ cacheRemote' = cacheRemote
  BY DEF Publish, registryVars
<1>2. TypeOK' /\ Clocks'
  BY <1>1 DEF IInv, TypeOK, Clocks
<1>3. ASSUME NEW specs \in Catalogues, NEW t \in Nat, t <= clock,
             PublishedSince(specs, t)
      PROVE  PublishedSince(specs, t)'
  BY <1>1, <1>3 DEF IInv, TypeOK, Clocks, PublishedSince
<1>4. AnswersAreFresh'
  BY <1>1, <1>3 DEF IInv, TypeOK, AnswersAreFresh
<1>5. CacheIsDated'
  <2> SUFFICES ASSUME cacheLocal # NoSpecs PROVE PublishedSince(cacheLocal, cacheLocalAt)'
    BY <1>1 DEF IInv, CacheIsDated
  <2>1. /\ cacheLocal \in Catalogues /\ PublishedSince(cacheLocal, cacheLocalAt)
        /\ cacheLocalAt \in Nat /\ cacheLocalAt <= clock
    BY DEF IInv, TypeOK, CacheIsDated
  <2> QED BY <2>1, <1>1, <1>3 DEF IInv, TypeOK, PublishedSince
<1> QED BY <1>2, <1>4, <1>5 DEF IInv

LEMMA TickKeeps ==
    ASSUME IInv, Tick, UNCHANGED << upstreamVars, registryVars >>
    PROVE  IInv'
  BY DEF Tick, upstreamVars, registryVars, IInv, TypeOK, Clocks, AnswersAreFresh,
     CacheIsDated, PublishedSince

LEMMA InvalidateCacheKeeps ==
    ASSUME IInv, InvalidateCache, UNCHANGED << clock, upstreamVars >>
    PROVE  IInv'
  BY DEF InvalidateCache, upstreamVars, NoFetch, IInv, TypeOK, Clocks,
     AnswersAreFresh, CacheIsDated

LEMMA NextKeeps == IInv /\ [Next]_vars => IInv'
<1> SUFFICES ASSUME IInv, [Next]_vars PROVE IInv'
  OBVIOUS
<1>1. ASSUME NEW c \in Callers, Lookup(c), UNCHANGED << clock, upstreamVars >>
      PROVE  IInv'
  BY <1>1, AskKeeps, ServeKeeps, DeliverKeeps, FailKeeps DEF Lookup
<1>2. ASSUME UNCHANGED vars PROVE IInv'
  BY <1>2 DEF vars, upstreamVars, registryVars, IInv, TypeOK, Clocks, AnswersAreFresh,
     CacheIsDated, PublishedSince
<1> QED BY <1>1, <1>2, PublishKeeps, TickKeeps, InvalidateCacheKeeps
        DEF Next, OneLife, Upstream
-------------------------------------------------------------------------------
\* The state of the registry keeps its type (tool_registry.py:67-70).
THEOREM RegistryTypeCorrect == Spec => []TypeOK
<1>1. IInv => TypeOK
  BY DEF IInv
<1> QED BY <1>1, InitEstablishes, NextKeeps, PTL DEF Spec

LEMMA FreshIsNoticed == IInv => NoticedWithinTtl
<1> SUFFICES ASSUME IInv, UpstreamMode = "local", Ready, cacheLocal # catalogue
             PROVE  lastCurrent[cacheLocal] > clock - CacheTtl
  BY DEF NoticedWithinTtl
<1>1. cacheLocal \in Catalogues /\ clock - cacheLocalAt < CacheTtl
  BY DEF Ready, IInv, TypeOK
<1>2. lastCurrent[cacheLocal] >= cacheLocalAt
  BY <1>1, RegistryAssumption DEF IInv, TypeOK, CacheIsDated, PublishedSince
<1> QED BY <1>1, <1>2, RegistryAssumption DEF IInv, TypeOK, Clocks

\* The local cache answers with what the server publishes, or published less than
\* the TTL ago, whichever of several fetches ends last (tool_registry.py:113-123).
THEOREM RegistryNotices == Spec => []NoticedWithinTtl
  BY InitEstablishes, NextKeeps, FreshIsNoticed, PTL DEF Spec
===============================================================================
