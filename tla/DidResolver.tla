------------------------------ MODULE DidResolver ------------------------------
(***************************************************************************)
(* dzt_proxy/did_resolver.py: from the DID of an issuer to the public key  *)
(* of its DID document.  Documents of LocalDids are files, read at once;   *)
(* the document of another did:web identifier is fetched, so that several  *)
(* resolutions of one DID overlap and end in any order, while its owner    *)
(* publishes other keys.                                                   *)
(*                                                                         *)
(* A document is the first key it lists, NoMethod if its                   *)
(* verificationMethod is empty or missing, NoDocument if there is none.    *)
(***************************************************************************)
CONSTANTS
    Callers,     \* the requests that may be inside get_public_key_pem
    Dids,        \* the did:web identifiers, that did_web_to_url accepts
    LocalDids,   \* those of LOCAL_DID_DOCS, all under did:web:dzt.local
    Keys,
    NoKey,       \* None: nothing cached
    NoMethod,    \* a document without a key
    NoDocument   \* no document

ASSUME ResolverAssumption ==
    /\ LocalDids \subseteq Dids
    /\ NoMethod \notin Keys /\ NoDocument \notin Keys
    /\ NoKey \notin Keys \cup Dids \cup {NoMethod, NoDocument}

Documents == Keys \cup {NoMethod, NoDocument}

VARIABLES
    published,    \* the document at the file or at the URL of each DID
    everSince,    \* history: the documents of each DID since the process began
    docCache,     \* _LOCAL_DOC_CACHE
    keyCache,     \* _PUBLIC_KEY_CACHE
    lookup        \* the HTTP resolution of each caller that is suspended

resolverVars == << docCache, keyCache, lookup >>
ownerVars == << published, everSince >>
vars == << ownerVars, resolverVars >>

NoLookup == [phase |-> "none", did |-> NoKey, doc |-> NoDocument]

\* get_public_key_pem answers without reading anything.
Cached(did) == did \in Dids /\ keyCache[did] # NoKey

\* resolve_did takes the file of a local DID, or what it read there before, as
\* long as the file exists.
FromFile(did) == did \in LocalDids /\ published[did] # NoDocument
LocalDocument(did) == IF docCache[did] # NoKey THEN docCache[did] ELSE published[did]

\* What is left is fetched, unless did_web_to_url refuses the identifier.
FromWeb(did) == did \in Dids /\ ~ FromFile(did)

\* Faulty variant: a document without a key is cached as one.
KeyOfAny(doc) == doc

KeyOrNone(doc) == IF doc \in Keys THEN doc ELSE NoKey

\* Faulty variant: neither cache is looked at.
ReadFileAgain(did) ==
    /\ FromFile(did)
    /\ docCache' = [docCache EXCEPT ![did] = published[did]]
    /\ keyCache' = [keyCache EXCEPT ![did] = KeyOrNone(published[did])]
    /\ UNCHANGED lookup

\* A resolution that does not suspend: the key read from a file is kept, and so
\* is a document without one.
ReadFile(did) ==
    /\ ~ Cached(did) /\ FromFile(did)
    /\ docCache' = [docCache EXCEPT ![did] = LocalDocument(did)]
    /\ keyCache' = [keyCache EXCEPT ![did] = KeyOrNone(LocalDocument(did))]
    /\ UNCHANGED lookup

\* The query for the document leaves; the caller is suspended.
Ask(c, did) ==
    /\ ~ Cached(did) /\ FromWeb(did)
    /\ lookup[c] = NoLookup
    /\ lookup' = [lookup EXCEPT ![c] =
           [phase |-> "asked", did |-> did, doc |-> NoDocument]]
    /\ UNCHANGED << docCache, keyCache >>

\* The web server sends the document as it is at that moment, if there is one;
\* no server answers for dzt.local, the domain of the local DIDs.
Serve(c) ==
    /\ lookup[c].phase = "asked"
    /\ lookup' = [lookup EXCEPT ![c].phase = "answered",
           ![c].doc = IF lookup[c].did \in LocalDids THEN NoDocument
                      ELSE published[lookup[c].did]]
    /\ UNCHANGED << docCache, keyCache >>

\* The caller goes on with an answer that has a key, and caches it, whatever
\* the cache got from other callers in between ...
Deliver(c) ==
    /\ lookup[c].phase = "answered" /\ lookup[c].doc \in Keys
    /\ keyCache' = [keyCache EXCEPT ![lookup[c].did] = lookup[c].doc]
    /\ lookup' = [lookup EXCEPT ![c] = NoLookup]
    /\ UNCHANGED docCache

\* ... or gets a timeout, an error, or a document without a key.
Fail(c) ==
    /\ lookup[c] # NoLookup
    /\ lookup' = [lookup EXCEPT ![c] = NoLookup]
    /\ UNCHANGED << docCache, keyCache >>

\* Faulty variant: keys are kept across restarts.
RestartKeepingKeys ==
    /\ docCache' = [d \in LocalDids |-> NoKey]
    /\ lookup' = [c \in Callers |-> NoLookup]
    /\ everSince' = [d \in Dids |-> {published[d]}]
    /\ UNCHANGED << published, keyCache >>

\* The process starts: its caches are empty.
Restart ==
    /\ docCache' = [d \in LocalDids |-> NoKey]
    /\ keyCache' = [d \in Dids |-> NoKey]
    /\ lookup' = [c \in Callers |-> NoLookup]
    /\ everSince' = [d \in Dids |-> {published[d]}]
    /\ UNCHANGED published

\* The owner of a DID publishes another key, or withdraws its document.
Publish(did, doc) ==
    /\ doc # published[did]
    /\ published' = [published EXCEPT ![did] = doc]
    /\ everSince' = [everSince EXCEPT ![did] = @ \cup {doc}]

ResolverInit ==
    /\ docCache = [d \in LocalDids |-> NoKey]
    /\ keyCache = [d \in Dids |-> NoKey]
    /\ lookup = [c \in Callers |-> NoLookup]
-------------------------------------------------------------------------------
Init ==
    /\ ResolverInit
    /\ published \in [Dids -> Documents]
    /\ everSince = [d \in Dids |-> {published[d]}]

Resolve(c) ==
    \/ \E did \in Dids : ReadFile(did) \/ Ask(c, did)
    \/ Serve(c) \/ Deliver(c) \/ Fail(c)

Next ==
    \/ (\E c \in Callers : Resolve(c)) /\ UNCHANGED ownerVars
    \/ (\E did \in Dids, doc \in Documents : Publish(did, doc))
       /\ UNCHANGED resolverVars
    \/ Restart

Spec == Init /\ [][Next]_vars
-------------------------------------------------------------------------------
\* Types.
TypeOK ==
    /\ published \in [Dids -> Documents]
    /\ everSince \in [Dids -> SUBSET Documents]
    /\ docCache \in [LocalDids -> Documents \cup {NoKey}]
    /\ keyCache \in [Dids -> Keys \cup {NoKey}]
    /\ lookup \in [Callers -> [phase : {"none", "asked", "answered"},
                               did : Dids \cup {NoKey}, doc : Documents]]

\* A cached key is one that its own DID published during the life of the
\* process: late answers may bring an older key back, never the key of another
\* DID nor one withdrawn before the start (did_resolver.py:100-110).
CachedKeyWasPublished ==
    \A d \in Dids : keyCache[d] # NoKey => keyCache[d] \in everSince[d]

\* The key of a local DID, once used, is the key of that DID until the process
\* restarts: neither a rotation on disk nor a file that goes away and comes back
\* while lookups are under way changes it (did_resolver.py:59-61, 100-102).
LocalKeyIsPinned ==
    [][\A d \in LocalDids :
           keyCache[d] # NoKey /\ keyCache'[d] # NoKey => keyCache'[d] = keyCache[d]
      ]_vars
===============================================================================
