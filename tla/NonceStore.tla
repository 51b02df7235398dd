------------------------------ MODULE NonceStore ------------------------------
(***************************************************************************)
(* The table of used jti values kept in SQLite by dzt_proxy/nonce_store.py *)
(* and, in a database of its own, by mcp_server/nonce_store.py: the two    *)
(* files hold the same code.  This module has no behaviour of its own.  It *)
(* gives the steps of the store to the processes that own one, the proxy   *)
(* (Proxy) and the secured server (SecuredServer), which EXTEND it.        *)
(*                                                                         *)
(* Time is `clock`, a count of ticks, TicksPerSecond to the second:        *)
(* time.time() reads it whole, int(time.time()) only its seconds.  The exp *)
(* claim of a token, and the exp_at column, are in seconds.                *)
(***************************************************************************)
EXTENDS Integers

CONSTANTS
    Jtis,             \* the jti values of the tokens in play
    TicksPerSecond,   \* resolution of the clock
    CleanupInterval,  \* _CLEANUP_INTERVAL, in ticks
    DefaultTtl        \* the 600 s store_nonce gives a token without an exp

VARIABLES
    clock,            \* the wall clock, in ticks
    rows,             \* table nonces: the exp_at of every jti, NoRow if none
    lastCleanup       \* _last_cleanup, in ticks

nonceVars == << rows, lastCleanup >>

NoRow == 0

\* int(time.time())
IntNow == clock \div TicksPerSecond

\* What jwt.decode makes of exp: it wants a moment after the exact time.
Unexpired(exp) == exp * TicksPerSecond > clock

StoreInit == rows = [j \in Jtis |-> NoRow] /\ lastCleanup = 0

CleanupDue == clock - lastCleanup >= CleanupInterval

\* Faulty variant: ticks for seconds.
PurgedEarly == [j \in Jtis |-> IF rows[j] < clock THEN NoRow ELSE rows[j]]

\* DELETE FROM nonces WHERE exp_at < int(now)
Purged == [j \in Jtis |-> IF rows[j] < IntNow THEN NoRow ELSE rows[j]]

\* The table once _maybe_cleanup has run.
Kept == IF CleanupDue THEN Purged ELSE rows

MaybeCleanup == lastCleanup' = IF CleanupDue THEN clock ELSE lastCleanup

SeenBefore(jti) == Kept[jti] # NoRow

\* The exp_at that store_nonce writes.
StoredExp(exp) == IF exp <= 0 THEN IntNow + DefaultTtl ELSE exp

\* seen_before answers True; the row stays, the cleanup is kept.
Recognise(jti) ==
    /\ SeenBefore(jti)
    /\ MaybeCleanup
    /\ rows' = Kept

\* Faulty variant: the INSERT is missing.
RememberNothing(jti, exp) ==
    /\ ~ SeenBefore(jti)
    /\ MaybeCleanup
    /\ rows' = Kept

\* seen_before answers False, then store_nonce, with no await in between.
\* INSERT OR IGNORE inserts: SeenBefore just found no row with this key.
Remember(jti, exp) ==
    /\ ~ SeenBefore(jti)
    /\ MaybeCleanup
    /\ rows' = [Kept EXCEPT ![jti] = StoredExp(exp)]

\* Faulty variant: init_db drops the table.
ReopenEmptied ==
    /\ rows' = [j \in Jtis |-> NoRow]
    /\ lastCleanup' = 0

\* The process dies and init_db opens the database again: the rows are on
\* disk, _last_cleanup is back at 0.0.
ReopenStore == rows' = rows /\ lastCleanup' = 0
===============================================================================
