------------------------------ MODULE SyncLog ------------------------------
(***************************************************************************)
(* The server side of delta sync: the append-only table `sync_actions` of  *)
(* one organization, the Postgres transactions that write it, the hourly   *)
(* retention prune, and readers that catch up through                      *)
(*   GET /api/sync/delta      (SyncService.getDeltaSyncActions) and        *)
(*   GET /api/sync/bootstrap  (SyncService.getBootstrapData).              *)
(*                                                                         *)
(* A row carries the xid8 of its writing transaction (`xact_id`) and a     *)
(* BIGSERIAL `id`.  Xids are handed out at a transaction's first write,    *)
(* ids at each insert, and both become visible only at commit, so neither  *)
(* order is the commit order.  A reader's cursor is a pair (xact, id); the *)
(* fence `xact_id < pg_snapshot_xmin(pg_current_snapshot())` is what makes *)
(* advancing it safe.                                                      *)
(*                                                                         *)
(* Every SQL statement is one step (it has one snapshot); a handler that   *)
(* issues several statements is several steps, interleaved with            *)
(* everything else.                                                        *)
(***************************************************************************)
EXTENDS Integers, FiniteSets

CONSTANTS
    Tx,         \* the transactions that may run
    Reader,     \* the clients that catch up from the log
    PageSize,   \* DELTA_PAGE_SIZE
    MaxRows,    \* bound: SyncActions recorded in a behaviour
    MaxPrunes   \* bound: retention sweeps that delete something

ASSUME ConstantsAssumption ==
    /\ PageSize \in Nat \ {0}
    /\ MaxRows \in Nat
    /\ MaxPrunes \in Nat

VARIABLES
    status,     \* status[t]: the life of transaction t
    startedAt,  \* startedAt[t]: now() of t, the created_at of all its rows
    xid,        \* xid[t]: pg_current_xact_id() of t, 0 while it has none
    pending,    \* pending[t]: rows t has inserted and not yet committed
    clock,      \* the wall clock, one tick per transaction start
    nextXid,    \* the next xid8 the server will assign
    nextId,     \* the BIGSERIAL sequence of sync_actions
    log,        \* committed rows that the table holds
    gone,       \* committed rows that a prune has deleted (history)
    prunedThrough, \* organizations.sync_actions_pruned_through_xact_id, 0 = NULL
    prunes,     \* number of effective prunes so far
    pc,         \* pc[r]: what reader r does next
    cursor,     \* cursor[r]: the (xact, id) pair r resubmits
    anchor,     \* anchor[r]: the cursor of the bootstrap r is downloading
    known       \* known[r]: rows whose effect r's cache reflects

txVars  == <<status, startedAt, xid, pending, clock, nextXid, nextId>>
logVars == <<log, gone, prunedThrough, prunes>>
readVars == <<pc, cursor, anchor, known>>
vars == <<txVars, logVars, readVars>>

-----------------------------------------------------------------------------
\* Rows, cursors and the fence

Row    == [xact : Nat, id : Nat, at : Nat]
Cursor == [xact : Nat, id : Nat]

ZeroCursor == [xact |-> 0, id |-> 0]

CursorOf(row) == [xact |-> row.xact, id |-> row.id]

\* The tuple order of the delta query: (xact_id, id) strictly after the cursor.
After(row, c) == \/ row.xact > c.xact
                 \/ row.xact = c.xact /\ row.id > c.id

\* Transactions that pg_snapshot_xmin ranges over: running, with an xid.
InFlight == {t \in Tx : status[t] = "open" /\ xid[t] # 0}

\* Mutants: a fence that ignores transactions in flight, and one that waits for
\* rolled-back transactions too.
SettledUnfenced(x) == x < nextXid
SettledHeldByAborts(x) ==
    /\ x < nextXid
    /\ \A t \in Tx : xid[t] # 0 /\ status[t] # "committed" => x < xid[t]

\* xact_id < pg_snapshot_xmin(pg_current_snapshot())
Settled(x) == x < nextXid /\ \A t \in InFlight : x < xid[t]

\* m is pg_snapshot_xmin: the oldest xid in progress, or the next one.
IsXmin(m) == /\ m \in {xid[t] : t \in InFlight} \cup {nextXid}
             /\ m <= nextXid
             /\ \A t \in InFlight : m <= xid[t]

SettledRows == {row \in log : Settled(row.xact)}

-----------------------------------------------------------------------------
Init ==
    /\ status = [t \in Tx |-> "idle"]
    /\ startedAt = [t \in Tx |-> 0]
    /\ xid = [t \in Tx |-> 0]
    /\ pending = [t \in Tx |-> {}]
    /\ clock = 1
    /\ nextXid = 1
    /\ nextId = 1
    /\ log = {}
    /\ gone = {}
    /\ prunedThrough = 0
    /\ prunes = 0
    /\ pc = [r \in Reader |-> "boot"]
    /\ cursor = [r \in Reader |-> ZeroCursor]
    /\ anchor = [r \in Reader |-> ZeroCursor]
    /\ known = [r \in Reader |-> {}]

-----------------------------------------------------------------------------
\* Writers

\* prisma.$transaction(...) opens; now() is fixed here for every row it writes.
Begin(t) ==
    /\ status[t] = "idle"
    /\ status' = [status EXCEPT ![t] = "open"]
    /\ startedAt' = [startedAt EXCEPT ![t] = clock]
    /\ clock' = clock + 1
    /\ UNCHANGED <<xid, pending, nextXid, nextId, logVars, readVars>>

\* The business write that precedes the marker row: Postgres assigns the xid.
FirstWrite(t) ==
    /\ status[t] = "open"
    /\ xid[t] = 0
    /\ xid' = [xid EXCEPT ![t] = nextXid]
    /\ nextXid' = nextXid + 1
    /\ UNCHANGED <<status, startedAt, pending, clock, nextId, logVars, readVars>>

\* INSERT INTO sync_actions ... RETURNING, inside the business transaction.
RecordSyncAction(t) ==
    /\ status[t] = "open"
    /\ xid[t] # 0
    /\ nextId <= MaxRows
    /\ pending' = [pending EXCEPT ![t] =
            @ \cup {[xact |-> xid[t], id |-> nextId, at |-> startedAt[t]]}]
    /\ nextId' = nextId + 1
    /\ UNCHANGED <<status, startedAt, xid, clock, nextXid, logVars, readVars>>

Commit(t) ==
    /\ status[t] = "open"
    /\ status' = [status EXCEPT ![t] = "committed"]
    /\ log' = log \cup pending[t]
    /\ pending' = [pending EXCEPT ![t] = {}]
    /\ UNCHANGED <<startedAt, xid, clock, nextXid, nextId,
                   gone, prunedThrough, prunes, readVars>>

\* Rollback, or the crash of the server process that ran the transaction.
Abort(t) ==
    /\ status[t] = "open"
    /\ status' = [status EXCEPT ![t] = "aborted"]
    /\ pending' = [pending EXCEPT ![t] = {}]
    /\ UNCHANGED <<startedAt, xid, clock, nextXid, nextId, logVars, readVars>>

-----------------------------------------------------------------------------
\* Retention

Expired(cutoff) == {row \in log : row.at < cutoff}

(***************************************************************************)
(* One data-modifying CTE: delete the rows older than the cutoff and raise *)
(* the mark to the highest xact_id deleted, never lowering it.  The second *)
(* conjunct is the environment: retention (30 days) exceeds the life of a  *)
(* transaction, so nothing is in flight below a row that has expired.      *)
(***************************************************************************)
Prune(cutoff) ==
    /\ prunes < MaxPrunes
    /\ \A row \in Expired(cutoff) : Settled(row.xact)
    /\ \E top \in Expired(cutoff) :
          /\ \A row \in Expired(cutoff) : row.xact <= top.xact
          /\ prunedThrough' = IF top.xact > prunedThrough THEN top.xact ELSE prunedThrough
    /\ log' = log \ Expired(cutoff)
    /\ gone' = gone \cup Expired(cutoff)
    /\ prunes' = prunes + 1
    /\ UNCHANGED <<txVars, readVars>>

-----------------------------------------------------------------------------
\* Readers: delta

\* Mutant: the mark is compared off by one.
StaleCursorOffByOne(c) == prunedThrough # 0 /\ c.xact < prunedThrough - 1

StaleCursor(c) == prunedThrough # 0 /\ c.xact < prunedThrough

\* First statement of getDeltaSyncActions: the organization's mark.
ReadMark(r) ==
    /\ pc[r] = "ready"
    /\ pc' = [pc EXCEPT ![r] = IF StaleCursor(cursor[r]) THEN "boot" ELSE "page"]
    /\ UNCHANGED <<txVars, logVars, cursor, anchor, known>>

Available(r) == {row \in SettledRows : After(row, cursor[r])}

\* Mutant: LIMIT without ORDER BY.
IsPageUnordered(page, S) ==
    /\ page \subseteq S
    /\ Cardinality(page) = IF Cardinality(S) < PageSize THEN Cardinality(S) ELSE PageSize

\* page is what ORDER BY xact_id, id LIMIT PageSize keeps of the rows in S.
IsPage(page, S) ==
    /\ page \subseteq S
    /\ Cardinality(page) = IF Cardinality(S) < PageSize THEN Cardinality(S) ELSE PageSize
    /\ \A row \in page, other \in S \ page : After(other, CursorOf(row))

\* Second statement: the fenced page.  The client applies it and advances.
ReadPage(r) ==
    /\ pc[r] = "page"
    /\ pc' = [pc EXCEPT ![r] = "ready"]
    /\ \/ /\ Available(r) = {}
          /\ UNCHANGED <<cursor, known>>
       \/ \E page \in SUBSET Available(r) : \E last \in page :
             /\ IsPage(page, Available(r))
             /\ \A row \in page : ~ After(row, CursorOf(last))
             /\ cursor' = [cursor EXCEPT ![r] = CursorOf(last)]
             /\ known' = [known EXCEPT ![r] = @ \cup page]
    /\ UNCHANGED <<txVars, logVars, anchor>>

-----------------------------------------------------------------------------
\* Readers: bootstrap

\* A cold start, a workspace switch or a changed membership forces a reload.
Restart(r) ==
    /\ pc[r] = "ready"
    /\ pc' = [pc EXCEPT ![r] = "boot"]
    /\ UNCHANGED <<txVars, logVars, cursor, anchor, known>>

\* First statement of latestSettledCursor: the topmost settled row, if any.
BootTopRow(r) ==
    /\ pc[r] = "boot"
    /\ \/ /\ SettledRows = {}
          /\ pc' = [pc EXCEPT ![r] = "bootXmin"]
          /\ UNCHANGED anchor
       \/ \E top \in SettledRows :
             /\ \A row \in SettledRows : ~ After(row, CursorOf(top))
             /\ anchor' = [anchor EXCEPT ![r] = CursorOf(top)]
             /\ pc' = [pc EXCEPT ![r] = "bootRead"]
    /\ UNCHANGED <<txVars, logVars, cursor, known>>

\* Mutants: the empty log is anchored at the zero cursor; the frontier is one
\* too low.
BootXminZero(r) ==
    /\ pc[r] = "bootXmin"
    /\ anchor' = [anchor EXCEPT ![r] = ZeroCursor]
    /\ pc' = [pc EXCEPT ![r] = "bootRead"]
    /\ UNCHANGED <<txVars, logVars, cursor, known>>

BootXminTooLow(r) ==
    /\ pc[r] = "bootXmin"
    /\ \E m \in {xid[t] : t \in InFlight} \cup {nextXid} :
          /\ IsXmin(m)
          /\ anchor' = [anchor EXCEPT ![r] = [xact |-> m - 2, id |-> 0]]
    /\ pc' = [pc EXCEPT ![r] = "bootRead"]
    /\ UNCHANGED <<txVars, logVars, cursor, known>>

\* Second statement, for a log without settled rows: the frontier xmin - 1.
BootXmin(r) ==
    /\ pc[r] = "bootXmin"
    /\ \E m \in {xid[t] : t \in InFlight} \cup {nextXid} :
          /\ IsXmin(m)
          /\ anchor' = [anchor EXCEPT ![r] = [xact |-> m - 1, id |-> 0]]
    /\ pc' = [pc EXCEPT ![r] = "bootRead"]
    /\ UNCHANGED <<txVars, logVars, cursor, known>>

\* The entity reads, and the client's authoritative load of what they return.
BootRead(r) ==
    /\ pc[r] = "bootRead"
    /\ known' = [known EXCEPT ![r] = log \cup gone]
    /\ cursor' = [cursor EXCEPT ![r] = anchor[r]]
    /\ pc' = [pc EXCEPT ![r] = "ready"]
    /\ UNCHANGED <<txVars, logVars, anchor>>

-----------------------------------------------------------------------------
Writing(t) == Begin(t) \/ FirstWrite(t) \/ RecordSyncAction(t) \/ Commit(t) \/ Abort(t)

CatchUp(r) == ReadMark(r) \/ ReadPage(r) \/ BootTopRow(r) \/ BootXmin(r) \/ BootRead(r)

Next ==
    \/ \E t \in Tx : Writing(t)
    \/ \E cutoff \in 1 .. clock : Prune(cutoff)
    \/ \E r \in Reader : CatchUp(r) \/ Restart(r)

Spec == Init /\ [][Next]_vars

\* Every open transaction ends (Prisma's timeout aborts it otherwise), and a
\* client keeps polling: reconnects, drains, resync hints and follow-ups.
\* Restart stays unfair.
Fairness ==
    /\ \A t \in Tx : WF_vars(Commit(t) \/ Abort(t))
    /\ \A r \in Reader : WF_vars(ReadMark(r)) /\ WF_vars(ReadPage(r))
    /\ \A r \in Reader : WF_vars(BootTopRow(r)) /\ WF_vars(BootXmin(r)) /\ WF_vars(BootRead(r))

FairSpec == Spec /\ Fairness

-----------------------------------------------------------------------------
\* Properties

\* Every variable keeps the values the code can give it.
TypeOK ==
    /\ status \in [Tx -> {"idle", "open", "committed", "aborted"}]
    /\ startedAt \in [Tx -> Nat]
    /\ xid \in [Tx -> Nat]
    /\ pending \in [Tx -> SUBSET Row]
    /\ clock \in Nat
    /\ nextXid \in Nat \ {0}
    /\ nextId \in Nat \ {0}
    /\ log \in SUBSET Row
    /\ gone \in SUBSET Row
    /\ prunedThrough \in Nat
    /\ prunes \in Nat
    /\ pc \in [Reader -> {"ready", "page", "boot", "bootXmin", "bootRead"}]
    /\ cursor \in [Reader -> Cursor]
    /\ anchor \in [Reader -> Cursor]
    /\ known \in [Reader -> SUBSET Row]

(***************************************************************************)
(* The fence's promise ("a provably never-skip cursor"): a committed row   *)
(* the table still holds and that a reader's cursor has passed is in the   *)
(* reader's cache, however late its transaction committed.                 *)
(***************************************************************************)
NeverSkip ==
    \A r \in Reader : \A row \in log :
        ~ After(row, cursor[r]) => row \in known[r]

(***************************************************************************)
(* What the strict comparison with the retention mark still guarantees:    *)
(* when it lets a delta through, a pruned row that the reader lacks is one *)
(* of a transaction that the reader is in the middle of, its cursor being  *)
(* a row of that transaction which it has received.  That such rows exist  *)
(* is what AtMarkMissedNothing is about.                                   *)
(***************************************************************************)
MarkCatchesLostTransactions ==
    [][\A r \in Reader : pc[r] = "ready" /\ pc'[r] = "page" =>
          \A row \in gone \ known[r] : After(row, cursor[r]) =>
             /\ row.xact = cursor[r].xact
             /\ \E last \in known[r] : CursorOf(last) = cursor[r]]_vars

(***************************************************************************)
(* The test of the boundary: "everything up to and including the mark was  *)
(* deleted, and the cursor is exclusive - a client already past it missed  *)
(* nothing".  A delta from a cursor exactly at the mark is let through,    *)
(* so its reader should have every row that was deleted.                   *)
(***************************************************************************)
AtMarkMissedNothing ==
    [][\A r \in Reader :
          pc[r] = "ready" /\ pc'[r] = "page" /\ cursor[r].xact = prunedThrough =>
             \A row \in gone : After(row, cursor[r]) => row \in known[r]]_vars

(***************************************************************************)
(* The frontier xmin - 1 that a bootstrap of an empty log returns is never *)
(* behind the retention mark, so the next delta does not send the client   *)
(* straight back to bootstrap.                                             *)
(***************************************************************************)
EmptyLogAnchorServable ==
    [][\A r \in Reader : pc[r] = "bootXmin" /\ pc'[r] = "bootRead" =>
          ~ StaleCursor(anchor'[r])]_vars

(***************************************************************************)
(* Catch-up is live: a committed row reaches every reader, unless the      *)
(* retention prune deletes it first; a slow transaction holding the fence  *)
(* only delays it.                                                         *)
(***************************************************************************)
EventuallyDelivered ==
    \A r \in Reader : \A x \in 1 .. Cardinality(Tx), i \in 1 .. MaxRows :
        (\E row \in log : row.xact = x /\ row.id = i)
            ~> (\E row \in known[r] \cup gone : row.xact = x /\ row.id = i)

(***************************************************************************)
(* The comment on pruneSyncActions: "a concurrent delta sees either the    *)
(* whole prune or none of it", so that no page advances a cursor past rows *)
(* that no longer exist.                                                   *)
(***************************************************************************)
NoSilentlyIncompletePage ==
    [][\A r \in Reader : pc[r] = "page" /\ pc'[r] = "ready" =>
          \A row \in gone :
             After(row, cursor[r]) /\ ~ After(row, cursor'[r]) => row \in known'[r]]_vars

-----------------------------------------------------------------------------
\* SyncLog implements the change feed that its clients rely on.
Feed == INSTANCE ChangeFeed WITH published <- log \cup gone, expired <- gone,
                                 horizon <- cursor

FeedSpec == Feed!Spec
=============================================================================
