--------------------------- MODULE DidResolverProofs ---------------------------
(***************************************************************************)
(* The two caches of DidResolver, for any DIDs, keys and callers, and any  *)
(* number of changes of documents, lookups and restarts.                   *)
(***************************************************************************)
EXTENDS DidResolver, TLAPS

\* A document is known from the moment it is published.
PublishedIsKnown == \A d \in Dids : published[d] \in everSince[d]

\* What a file gave is one of its documents.
FilesAreKnown ==
    \A d \in LocalDids : docCache[d] # NoKey => docCache[d] \in everSince[d]

\* The answers that are under way carry documents of the DID they are about,
\* and none for a local DID.
AnswersAreKnown ==
    \A c \in Callers :
        lookup[c].phase = "answered" /\ lookup[c].doc \in Keys =>
            /\ lookup[c].did \in Dids \ LocalDids
            /\ lookup[c].doc \in everSince[lookup[c].did]

\* A lookup that has begun is about a DID.
LookupsHaveDid ==
    \A c \in Callers : lookup[c].phase = "asked" => lookup[c].did \in Dids

IInv ==
    /\ TypeOK
    /\ PublishedIsKnown
    /\ FilesAreKnown
    /\ LookupsHaveDid
    /\ AnswersAreKnown
    /\ CachedKeyWasPublished
-------------------------------------------------------------------------------
LEMMA InitEstablishes == Init => IInv
  BY ResolverAssumption
     DEF Init, ResolverInit, NoLookup, IInv, TypeOK, Documents, PublishedIsKnown,
         FilesAreKnown, LookupsHaveDid, AnswersAreKnown, CachedKeyWasPublished

LEMMA ReadFileKeeps ==
    ASSUME IInv, NEW did \in Dids, ReadFile(did), UNCHANGED ownerVars
    PROVE  IInv'
<1> DEFINE doc == LocalDocument(did)
<1>1. did \in LocalDids /\ doc \in Documents /\ doc \in everSince[did]
  BY ResolverAssumption DEF ReadFile, FromFile, LocalDocument, IInv, TypeOK,
     PublishedIsKnown, FilesAreKnown, Documents
<1>2. KeyOrNone(doc) \in Keys \cup {NoKey}
      /\ (KeyOrNone(doc) # NoKey => KeyOrNone(doc) = doc)
  BY DEF KeyOrNone
<1> HIDE DEF doc
<1>3. /\ docCache' = [docCache EXCEPT ![did] = doc]
      /\ keyCache' = [keyCache EXCEPT ![did] = KeyOrNone(doc)]
      /\ lookup' = lookup /\ published' = published /\ everSince' = everSince
  BY DEF ReadFile, ownerVars, doc
<1>4. TypeOK'
  BY <1>1, <1>2, <1>3 DEF IInv, TypeOK, Documents
<1>5. PublishedIsKnown' /\ LookupsHaveDid' /\ AnswersAreKnown'
  BY <1>3 DEF IInv, PublishedIsKnown, LookupsHaveDid, AnswersAreKnown
<1>6. FilesAreKnown'
  BY <1>1, <1>3 DEF IInv, TypeOK, FilesAreKnown
<1>7. CachedKeyWasPublished'
  BY <1>1, <1>2, <1>3 DEF IInv, TypeOK, CachedKeyWasPublished
<1> QED BY <1>4, <1>5, <1>6, <1>7 DEF IInv

LEMMA AskKeeps ==
    ASSUME IInv, NEW c \in Callers, NEW did \in Dids, Ask(c, did),
           UNCHANGED ownerVars
    PROVE  IInv'
<1>1. /\ lookup' = [lookup EXCEPT ![c] =
                      [phase |-> "asked", did |-> did, doc |-> NoDocument]]
      /\ docCache' = docCache /\ keyCache' = keyCache
      /\ published' = published /\ everSince' = everSince
  BY DEF Ask, ownerVars
<1>2. TypeOK'
  BY <1>1 DEF IInv, TypeOK, Documents
<1>3. LookupsHaveDid' /\ AnswersAreKnown'
  BY <1>1 DEF IInv, TypeOK, LookupsHaveDid, AnswersAreKnown
<1> QED BY <1>1, <1>2, <1>3 DEF IInv, PublishedIsKnown, FilesAreKnown,
           CachedKeyWasPublished

\* The web server answers with a document that is published, and with none for
\* a local DID.
LEMMA ServeKeeps ==
    ASSUME IInv, NEW c \in Callers, Serve(c), UNCHANGED ownerVars
    PROVE  IInv'
<1> DEFINE did == lookup[c].did
           doc == IF did \in LocalDids THEN NoDocument ELSE published[did]
<1>1. did \in Dids /\ doc \in Documents
  BY DEF Serve, IInv, TypeOK, LookupsHaveDid, Documents
<1>2. doc \in Keys => did \in Dids \ LocalDids /\ doc \in everSince[did]
  BY <1>1, ResolverAssumption DEF IInv, PublishedIsKnown
<1>3. /\ lookup' = [lookup EXCEPT ![c].phase = "answered", ![c].doc = doc]
      /\ docCache' = docCache /\ keyCache' = keyCache
      /\ published' = published /\ everSince' = everSince
  BY DEF Serve, ownerVars
<1>4. \A q \in Callers \ {c} : lookup'[q] = lookup[q]
  BY <1>3 DEF IInv, TypeOK
<1>5. lookup'[c].phase = "answered" /\ lookup'[c].did = did /\ lookup'[c].doc = doc
  BY <1>3 DEF IInv, TypeOK
<1> HIDE DEF doc
<1>6. TypeOK'
  BY <1>1, <1>3 DEF IInv, TypeOK
<1>7. LookupsHaveDid'
  BY <1>4, <1>5 DEF IInv, LookupsHaveDid
<1>8. AnswersAreKnown'
  BY <1>2, <1>3, <1>4, <1>5 DEF IInv, AnswersAreKnown
<1> QED BY <1>3, <1>6, <1>7, <1>8 DEF IInv, PublishedIsKnown, FilesAreKnown,
           CachedKeyWasPublished

LEMMA DeliverKeeps ==
    ASSUME IInv, NEW c \in Callers, Deliver(c), UNCHANGED ownerVars
    PROVE  IInv'
<1> DEFINE did == lookup[c].did
           key == lookup[c].doc
<1>1. did \in Dids /\ key \in Keys /\ key \in everSince[did]
  BY DEF Deliver, IInv, AnswersAreKnown
<1>2. /\ keyCache' = [keyCache EXCEPT ![did] = key]
      /\ lookup' = [lookup EXCEPT ![c] = NoLookup]
      /\ docCache' = docCache
      /\ published' = published /\ everSince' = everSince
  BY DEF Deliver, ownerVars
<1> HIDE DEF did, key
<1>3. TypeOK'
  BY <1>1, <1>2 DEF IInv, TypeOK, NoLookup, Documents
<1>4. LookupsHaveDid' /\ AnswersAreKnown'
  BY <1>2 DEF IInv, TypeOK, LookupsHaveDid, AnswersAreKnown, NoLookup
<1>5. CachedKeyWasPublished'
  BY <1>1, <1>2 DEF IInv, TypeOK, CachedKeyWasPublished
<1> QED BY <1>2, <1>3, <1>4, <1>5 DEF IInv, PublishedIsKnown, FilesAreKnown

LEMMA FailKeeps ==
    ASSUME IInv, NEW c \in Callers, Fail(c), UNCHANGED ownerVars
    PROVE  IInv'
  BY DEF Fail, ownerVars, NoLookup, IInv, TypeOK, Documents, PublishedIsKnown,
     FilesAreKnown, LookupsHaveDid, AnswersAreKnown, CachedKeyWasPublished

LEMMA PublishKeeps ==
    ASSUME IInv, NEW did \in Dids, NEW doc \in Documents, Publish(did, doc),
           UNCHANGED resolverVars
    PROVE  IInv'
<1>1. /\ published' = [published EXCEPT ![did] = doc]
      /\ everSince' = [everSince EXCEPT ![did] = @ \cup {doc}]
      /\ docCache' = docCache /\ keyCache' = keyCache /\ lookup' = lookup
  BY DEF Publish, resolverVars
<1>2. TypeOK'
  BY <1>1 DEF IInv, TypeOK
<1>3. \A d \in Dids : everSince[d] \subseteq everSince'[d]
  BY <1>1 DEF IInv, TypeOK
<1>4. PublishedIsKnown'
  BY <1>1, <1>3 DEF IInv, TypeOK, PublishedIsKnown
<1> QED BY <1>1, <1>2, <1>3, <1>4, ResolverAssumption DEF IInv, FilesAreKnown,
           LookupsHaveDid, AnswersAreKnown, CachedKeyWasPublished

LEMMA RestartKeeps == IInv /\ Restart => IInv'
  BY ResolverAssumption
     DEF Restart, NoLookup, IInv, TypeOK, Documents, PublishedIsKnown,
         FilesAreKnown, LookupsHaveDid, AnswersAreKnown, CachedKeyWasPublished

LEMMA NextKeeps == IInv /\ [Next]_vars => IInv'
<1> SUFFICES ASSUME IInv, [Next]_vars PROVE IInv'
  OBVIOUS
<1>1. ASSUME NEW c \in Callers, Resolve(c), UNCHANGED ownerVars PROVE IInv'
  BY <1>1, ReadFileKeeps, AskKeeps, ServeKeeps, DeliverKeeps, FailKeeps DEF Resolve
<1>2. ASSUME UNCHANGED vars PROVE IInv'
  BY <1>2 DEF vars, ownerVars, resolverVars, IInv, TypeOK, PublishedIsKnown,
     FilesAreKnown, LookupsHaveDid, AnswersAreKnown, CachedKeyWasPublished
<1> QED BY <1>1, <1>2, PublishKeeps, RestartKeeps DEF Next

\* A key, once cached for a local DID, is only ever forgotten.
LEMMA StepPins ==
    ASSUME IInv, [Next]_vars, NEW d \in LocalDids,
           keyCache[d] # NoKey, keyCache'[d] # NoKey
    PROVE  keyCache'[d] = keyCache[d]
<1>1. d \in Dids
  BY ResolverAssumption
<1>2. ASSUME NEW did \in Dids, ReadFile(did) PROVE keyCache'[d] = keyCache[d]
  BY <1>1, <1>2 DEF ReadFile, Cached, IInv, TypeOK
<1>3. ASSUME NEW c \in Callers, Deliver(c) PROVE keyCache'[d] = keyCache[d]
  BY <1>1, <1>3 DEF Deliver, IInv, TypeOK, AnswersAreKnown
<1>4. Restart => keyCache'[d] = NoKey
  BY <1>1 DEF Restart
<1> QED BY <1>2, <1>3, <1>4 DEF Next, Resolve, Ask, Serve, Fail, resolverVars, vars
-------------------------------------------------------------------------------
\* The state of the resolver keeps its type (did_resolver.py:32-33).
THEOREM ResolverTypeCorrect == Spec => []TypeOK
<1>1. IInv => TypeOK
  BY DEF IInv
<1> QED BY <1>1, InitEstablishes, NextKeeps, PTL DEF Spec

\* A cached key is one that its own DID published during the life of the
\* process, in whatever order lookups end (did_resolver.py:100-110).
THEOREM ResolverKeyWasPublished == Spec => []CachedKeyWasPublished
<1>1. IInv => CachedKeyWasPublished
  BY DEF IInv
<1> QED BY <1>1, InitEstablishes, NextKeeps, PTL DEF Spec

\* The key of a local DID, once cached, does not change before the process
\* restarts (did_resolver.py:59-61, 90-91, 100-102).
THEOREM ResolverKeyIsPinned == Spec => LocalKeyIsPinned
<1>1. IInv /\ [Next]_vars =>
        [\A d \in LocalDids :
            keyCache[d] # NoKey /\ keyCache'[d] # NoKey => keyCache'[d] = keyCache[d]
        ]_vars
  BY StepPins
<1> QED BY <1>1, InitEstablishes, NextKeeps, PTL DEF Spec, LocalKeyIsPinned
===============================================================================
