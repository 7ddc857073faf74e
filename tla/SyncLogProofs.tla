--------------------------- MODULE SyncLogProofs ---------------------------
(***************************************************************************)
(* Theorems about SyncLog, for every set of transactions and readers and   *)
(* every page size: type correctness, the never-skip property of the fence *)
(* and the refinement of the abstract change feed.                         *)
(*                                                                         *)
(* The argument.  NeverSkip is not inductive: a commit could add a row     *)
(* behind a cursor.  What forbids it is that a cursor always stays behind  *)
(* every transaction in flight (Behind), because pages and anchors are     *)
(* taken below the fence and xids are handed out in increasing order; and  *)
(* that an uncommitted row carries the xid of the transaction that holds   *)
(* it (PendingOwn), so the rows a commit publishes are ahead of it.        *)
(* The retention mark is above every pruned row and behind every           *)
(* transaction in flight (MarkOK), so it catches cursors behind what was   *)
(* pruned and lets the frontier of an empty log through.                   *)
(***************************************************************************)
EXTENDS SyncLog, TLAPS

\* A point of the log that no transaction in flight, nor a future one, can
\* write at or below.
Behind(c) == /\ c.xact < nextXid
             /\ \A t \in InFlight : c.xact < xid[t]

PendingOwn == \A t \in Tx :
    /\ status[t] = "idle" => xid[t] = 0
    /\ \A row \in pending[t] : status[t] = "open" /\ xid[t] # 0 /\ row.xact = xid[t]

\* A row is in one place only: still uncommitted, in the table, or pruned.
RowsApart ==
    /\ \A row \in log \cup gone : row.id < nextId
    /\ \A t \in Tx : \A row \in pending[t] : row.id < nextId /\ row \notin log \cup gone
    /\ \A t, u \in Tx : t # u => pending[t] \cap pending[u] = {}
    /\ log \cap gone = {}

CursorsBehind == \A r \in Reader : /\ Behind(cursor[r])
                                   /\ pc[r] = "bootRead" => Behind(anchor[r])

IInv == TypeOK /\ PendingOwn /\ RowsApart /\ CursorsBehind /\ NeverSkip

-----------------------------------------------------------------------------
\* The cursor of a row has the parts of a cursor.
LEMMA RowCursor ==
    ASSUME NEW row \in Row
    PROVE  CursorOf(row) \in Cursor
BY DEF Row, Cursor, CursorOf

\* The initial state satisfies the inductive invariant.
LEMMA InitIInv == Init => IInv
<1> SUFFICES ASSUME Init PROVE IInv
  OBVIOUS
<1>1. TypeOK
  BY DEF Init, TypeOK, ZeroCursor, Cursor
<1>2. PendingOwn
  BY DEF Init, PendingOwn
<1>3. CursorsBehind
  BY DEF Init, CursorsBehind, Behind, InFlight, ZeroCursor
<1>4. NeverSkip
  BY DEF Init, NeverSkip
<1>5. RowsApart
  BY DEF Init, RowsApart
<1> QED BY <1>1, <1>2, <1>3, <1>4, <1>5 DEF IInv

-----------------------------------------------------------------------------
\* Type correctness, one step per action.
LEMMA NextTypeOK == TypeOK /\ [Next]_vars => TypeOK'
<1> SUFFICES ASSUME TypeOK, [Next]_vars PROVE TypeOK'
  OBVIOUS
<1> USE DEF TypeOK, logVars, txVars, readVars
<1>1. ASSUME NEW t \in Tx, Begin(t) PROVE TypeOK'
  BY <1>1 DEF Begin
<1>2. ASSUME NEW t \in Tx, FirstWrite(t) PROVE TypeOK'
  BY <1>2 DEF FirstWrite
<1>3. ASSUME NEW t \in Tx, RecordSyncAction(t) PROVE TypeOK'
  <2> DEFINE row == [xact |-> xid[t], id |-> nextId, at |-> startedAt[t]]
  <2>1. row \in Row
    BY DEF Row
  <2>2. pending' \in [Tx -> SUBSET Row]
    BY <1>3, <2>1 DEF RecordSyncAction
  <2> QED BY <1>3, <2>2 DEF RecordSyncAction
<1>4. ASSUME NEW t \in Tx, Commit(t) PROVE TypeOK'
  BY <1>4 DEF Commit
<1>5. ASSUME NEW t \in Tx, Abort(t) PROVE TypeOK'
  BY <1>5 DEF Abort
<1>6. ASSUME NEW cutoff \in 1 .. clock, Prune(cutoff) PROVE TypeOK'
  <2>1. Expired(cutoff) \subseteq log
    BY DEF Expired
  <2>2. prunedThrough' \in Nat
    BY <1>6, <2>1 DEF Prune, Row
  <2> QED BY <1>6, <2>1, <2>2 DEF Prune
<1>7. ASSUME NEW r \in Reader, ReadMark(r) PROVE TypeOK'
  BY <1>7 DEF ReadMark
<1>8. ASSUME NEW r \in Reader, ReadPage(r) PROVE TypeOK'
  <2>1. Available(r) \subseteq Row
    BY DEF Available, SettledRows
  <2>2. cursor' \in [Reader -> Cursor] /\ known' \in [Reader -> SUBSET Row]
    BY <1>8, <2>1, RowCursor DEF ReadPage
  <2> QED BY <1>8, <2>2 DEF ReadPage
<1>9. ASSUME NEW r \in Reader, Restart(r) PROVE TypeOK'
  BY <1>9 DEF Restart
<1>10. ASSUME NEW r \in Reader, BootTopRow(r) PROVE TypeOK'
  <2>1. SettledRows \subseteq Row
    BY DEF SettledRows
  <2>2. anchor' \in [Reader -> Cursor]
    BY <1>10, <2>1, RowCursor DEF BootTopRow
  <2> QED BY <1>10, <2>2 DEF BootTopRow
<1>11. ASSUME NEW r \in Reader, BootXmin(r) PROVE TypeOK'
  <2>1. \A m \in {xid[t] : t \in InFlight} \cup {nextXid} : m - 1 \in Nat
    BY DEF InFlight
  <2>2. anchor' \in [Reader -> Cursor]
    BY <1>11, <2>1 DEF BootXmin, Cursor
  <2> QED BY <1>11, <2>2 DEF BootXmin
<1>12. ASSUME NEW r \in Reader, BootRead(r) PROVE TypeOK'
  BY <1>12 DEF BootRead
<1>13. CASE UNCHANGED vars
  BY <1>13 DEF vars
<1> QED
  BY <1>1, <1>2, <1>3, <1>4, <1>5, <1>6, <1>7, <1>8, <1>9, <1>10, <1>11, <1>12, <1>13
  DEF Next, Writing, CatchUp

\* Every variable always has its type.
THEOREM TypeCorrect == Spec => []TypeOK
<1>1. Init => TypeOK
  BY InitIInv DEF IInv
<1> QED BY <1>1, NextTypeOK, PTL DEF Spec

-----------------------------------------------------------------------------
\* A settled row is a point that Behind describes.
LEMMA SettledBehind ==
    ASSUME NEW row, Settled(row.xact)
    PROVE  Behind(CursorOf(row))
BY DEF Settled, Behind, CursorOf

\* Commits and aborts only shrink the set of transactions in flight.
LEMMA EndKeepsBehind ==
    ASSUME TypeOK, NEW t \in Tx, NEW c \in Cursor, Behind(c),
           status'[t] # "open", \A u \in Tx : u # t => status'[u] = status[u],
           UNCHANGED <<xid, nextXid>>
    PROVE  Behind(c)'
BY DEF Behind, InFlight

\* A new xid is above every point that was behind the old ones.
LEMMA FirstWriteKeepsBehind ==
    ASSUME TypeOK, NEW t \in Tx, FirstWrite(t), NEW c \in Cursor, Behind(c)
    PROVE  Behind(c)'
<1>1. nextXid' = nextXid + 1 /\ c.xact < nextXid
  BY DEF FirstWrite, Behind
<1>2. ASSUME NEW u \in InFlight' PROVE c.xact < xid'[u]
  <2>1. CASE u = t
    BY <1>1, <2>1 DEF FirstWrite, TypeOK, InFlight
  <2>2. CASE u # t
    <3>1. u \in InFlight /\ xid'[u] = xid[u]
      BY <2>2 DEF FirstWrite, TypeOK, InFlight
    <3> QED BY <3>1 DEF Behind
  <2> QED BY <2>1, <2>2
<1>3. c.xact < nextXid'
  BY <1>1 DEF TypeOK, Cursor
<1> QED BY <1>2, <1>3 DEF Behind

\* A step that leaves the transactions alone leaves Behind alone.
LEMMA SameTxKeepsBehind ==
    ASSUME UNCHANGED <<status, xid, nextXid>>, NEW c, Behind(c)
    PROVE  Behind(c)'
BY DEF Behind, InFlight

\* The rows that t commits are ahead of every cursor.
LEMMA CommitAhead ==
    ASSUME IInv, NEW t \in Tx, NEW row \in pending[t], NEW r \in Reader
    PROVE  After(row, cursor[r])
<1>1. t \in InFlight /\ row.xact = xid[t]
  BY DEF IInv, PendingOwn, InFlight
<1>2. Behind(cursor[r])
  BY DEF IInv, CursorsBehind
<1>3. cursor[r].xact < row.xact
  BY <1>1, <1>2 DEF Behind
<1> QED BY <1>1, <1>3 DEF After, IInv, TypeOK, Cursor

-----------------------------------------------------------------------------
\* Uncommitted rows carry the xid of the open transaction that wrote them.
LEMMA NextPendingOwn == TypeOK /\ PendingOwn /\ [Next]_vars => PendingOwn'
<1> SUFFICES ASSUME TypeOK, PendingOwn, [Next]_vars PROVE PendingOwn'
  OBVIOUS
<1> USE DEF PendingOwn, TypeOK, txVars
<1>1. ASSUME NEW t \in Tx, Begin(t) PROVE PendingOwn'
  BY <1>1 DEF Begin
<1>2. ASSUME NEW t \in Tx, FirstWrite(t) PROVE PendingOwn'
  BY <1>2 DEF FirstWrite
<1>3. ASSUME NEW t \in Tx, RecordSyncAction(t) PROVE PendingOwn'
  BY <1>3 DEF RecordSyncAction
<1>4. ASSUME NEW t \in Tx, Commit(t) PROVE PendingOwn'
  BY <1>4 DEF Commit
<1>5. ASSUME NEW t \in Tx, Abort(t) PROVE PendingOwn'
  BY <1>5 DEF Abort
<1>6. ASSUME UNCHANGED txVars PROVE PendingOwn'
  BY <1>6
<1>7. ASSUME NEW cutoff \in 1 .. clock, Prune(cutoff) PROVE UNCHANGED txVars
  BY <1>7 DEF Prune
<1>8. ASSUME NEW r \in Reader, CatchUp(r) \/ Restart(r) PROVE UNCHANGED txVars
  BY <1>8 DEF CatchUp, Restart, ReadMark, ReadPage, BootTopRow, BootXmin, BootRead
<1> QED
  BY <1>1, <1>2, <1>3, <1>4, <1>5, <1>6, <1>7, <1>8 DEF Next, Writing, vars

\* An insert takes a fresh id; commits and prunes move rows, never copy them.
LEMMA NextRowsApart == TypeOK /\ RowsApart /\ [Next]_vars => RowsApart'
<1> SUFFICES ASSUME TypeOK, RowsApart, [Next]_vars PROVE RowsApart'
  OBVIOUS
<1> USE DEF RowsApart, TypeOK
<1>1. ASSUME UNCHANGED <<pending, nextId, log, gone>> PROVE RowsApart'
  BY <1>1
<1>2. ASSUME NEW t \in Tx, RecordSyncAction(t) PROVE RowsApart'
  <2> DEFINE new == [xact |-> xid[t], id |-> nextId, at |-> startedAt[t]]
  <2>1. nextId' = nextId + 1 /\ log' = log /\ gone' = gone
    BY <1>2 DEF RecordSyncAction, logVars
  <2>2. pending' = [pending EXCEPT ![t] = @ \cup {new}]
    BY <1>2 DEF RecordSyncAction
  <2>3. \A row \in log \cup gone : row \in Row /\ row.id # nextId
    OBVIOUS
  <2>4. \A u \in Tx : \A row \in pending[u] : row \in Row /\ row.id # nextId
    OBVIOUS
  <2>5. new \notin log \cup gone /\ \A u \in Tx : new \notin pending[u]
    BY <2>3, <2>4
  <2>6. \A row \in log \cup gone : row.id < nextId'
    BY <2>1, <2>3 DEF Row
  <2>7. \A u \in Tx : \A row \in pending'[u] : row.id < nextId' /\ row \notin log \cup gone
    BY <2>1, <2>2, <2>4, <2>5 DEF Row
  <2>8. \A u, v \in Tx : u # v => pending'[u] \cap pending'[v] = {}
    BY <2>2, <2>5
  <2> QED BY <2>1, <2>6, <2>7, <2>8
<1>3. ASSUME NEW t \in Tx, Commit(t) PROVE RowsApart'
  BY <1>3 DEF Commit
<1>4. ASSUME NEW t \in Tx, Abort(t) PROVE RowsApart'
  BY <1>4 DEF Abort, logVars
<1>5. ASSUME NEW cutoff \in 1 .. clock, Prune(cutoff) PROVE RowsApart'
  BY <1>5 DEF Prune, Expired, txVars
<1>6. ASSUME NEW t \in Tx, Begin(t) \/ FirstWrite(t) PROVE RowsApart'
  BY <1>1, <1>6 DEF Begin, FirstWrite, logVars
<1>7. ASSUME NEW r \in Reader, CatchUp(r) \/ Restart(r) PROVE RowsApart'
  BY <1>1, <1>7 DEF CatchUp, Restart, ReadMark, ReadPage, BootTopRow, BootXmin, BootRead,
                    txVars, logVars
<1> QED
  BY <1>1, <1>2, <1>3, <1>4, <1>5, <1>6, <1>7 DEF Next, Writing, vars, txVars, logVars

\* No step moves a cursor or an anchor up to a transaction in flight.
LEMMA NextCursorsBehind ==
    TypeOK /\ PendingOwn /\ CursorsBehind /\ [Next]_vars => CursorsBehind'
<1> SUFFICES ASSUME TypeOK, PendingOwn, CursorsBehind, [Next]_vars PROVE CursorsBehind'
  OBVIOUS
<1>0. \A r \in Reader : cursor[r] \in Cursor /\ anchor[r] \in Cursor
  BY DEF TypeOK
<1>1. ASSUME NEW t \in Tx, Writing(t) PROVE CursorsBehind'
  <2>0. UNCHANGED <<pc, cursor, anchor>>
    BY <1>1 DEF Writing, Begin, FirstWrite, RecordSyncAction, Commit, Abort, readVars
  <2>1. ASSUME NEW c \in Cursor, Behind(c) PROVE Behind(c)'
    <3>1. CASE Begin(t)
      BY <2>1, <3>1 DEF Begin, Behind, InFlight, TypeOK, PendingOwn
    <3>2. CASE FirstWrite(t)
      BY <2>1, <3>2, FirstWriteKeepsBehind
    <3>3. CASE RecordSyncAction(t)
      BY <2>1, <3>3, SameTxKeepsBehind DEF RecordSyncAction
    <3>4. CASE Commit(t) \/ Abort(t)
      BY <2>1, <3>4, EndKeepsBehind DEF Commit, Abort, TypeOK
    <3> QED BY <1>1, <3>1, <3>2, <3>3, <3>4 DEF Writing
  <2> QED BY <1>0, <2>0, <2>1 DEF CursorsBehind
<1>2. ASSUME UNCHANGED <<status, xid, nextXid>>, UNCHANGED <<pc, cursor, anchor>>
      PROVE  CursorsBehind'
  BY <1>2, SameTxKeepsBehind DEF CursorsBehind
<1>3. ASSUME NEW cutoff \in 1 .. clock, Prune(cutoff) PROVE CursorsBehind'
  BY <1>2, <1>3 DEF Prune, txVars, readVars
<1>4. ASSUME NEW r \in Reader, CatchUp(r) \/ Restart(r) PROVE CursorsBehind'
  <2>0. UNCHANGED <<status, xid, nextXid>>
    BY <1>4 DEF CatchUp, Restart, ReadMark, ReadPage, BootTopRow, BootXmin, BootRead, txVars
  <2>1. \A c : Behind(c) => Behind(c)'
    BY <2>0 DEF Behind, InFlight
  <2>2. CASE ReadMark(r) \/ Restart(r)
    <3>1. UNCHANGED <<cursor, anchor>>
      BY <2>2 DEF ReadMark, Restart
    <3>2. \A q \in Reader : pc'[q] = "bootRead" => pc[q] = "bootRead"
      BY <2>2 DEF ReadMark, Restart, TypeOK
    <3>3. \A q \in Reader : Behind(cursor[q]) /\ (pc[q] = "bootRead" => Behind(anchor[q]))
      BY DEF CursorsBehind
    <3> QED BY <2>0, <3>1, <3>2, <3>3 DEF CursorsBehind, Behind, InFlight
  <2>3. CASE ReadPage(r)
    <3>0. \A row \in Available(r) : Behind(CursorOf(row))
      BY SettledBehind DEF Available, SettledRows
    <3>1. Behind(cursor'[r])
      <4>1. CASE UNCHANGED cursor
        BY <4>1 DEF CursorsBehind
      <4>2. CASE ~ UNCHANGED cursor
        <5>1. \E row \in Available(r) : cursor' = [cursor EXCEPT ![r] = CursorOf(row)]
          BY <2>3, <4>2 DEF ReadPage
        <5> QED BY <3>0, <5>1 DEF TypeOK
      <4> QED BY <4>1, <4>2
    <3>2. \A q \in Reader : q # r => cursor'[q] = cursor[q]
      BY <2>3 DEF ReadPage, TypeOK
    <3>3. anchor' = anchor /\ \A q \in Reader : pc'[q] = "bootRead" => pc[q] = "bootRead"
      BY <2>3 DEF ReadPage, TypeOK
    <3> QED BY <2>1, <3>1, <3>2, <3>3 DEF CursorsBehind
  <2>4. CASE BootTopRow(r)
    <3>1. pc'[r] = "bootRead" => Behind(anchor'[r])
      BY <2>4, SettledBehind DEF BootTopRow, SettledRows, TypeOK
    <3> QED BY <2>1, <2>4, <3>1 DEF BootTopRow, CursorsBehind, TypeOK
  <2>5. CASE BootXmin(r)
    <3>1. PICK m \in {xid[t] : t \in InFlight} \cup {nextXid} :
             IsXmin(m) /\ anchor' = [anchor EXCEPT ![r] = [xact |-> m - 1, id |-> 0]]
      BY <2>5 DEF BootXmin
    <3>2. m \in Nat
      BY DEF TypeOK, InFlight
    <3>3. Behind(anchor'[r])
      BY <3>1, <3>2 DEF IsXmin, Behind, TypeOK, InFlight
    <3> QED BY <2>1, <2>5, <3>1, <3>3 DEF BootXmin, CursorsBehind, TypeOK
  <2>6. CASE BootRead(r)
    BY <2>1, <2>6 DEF BootRead, CursorsBehind, TypeOK
  <2> QED BY <1>4, <2>2, <2>3, <2>4, <2>5, <2>6 DEF CatchUp
<1>5. CASE UNCHANGED vars
  BY <1>2, <1>5 DEF vars, txVars, readVars
<1> QED BY <1>1, <1>3, <1>4, <1>5 DEF Next

-----------------------------------------------------------------------------
\* A page holds every row of the log between the old cursor and the new one.
LEMMA PageComplete ==
    ASSUME IInv, NEW r \in Reader, ReadPage(r),
           NEW row \in log, ~ After(row, cursor'[r])
    PROVE  row \in known'[r]
<1>1. CASE ~ After(row, cursor[r])
  BY <1>1 DEF ReadPage, IInv, NeverSkip, TypeOK
<1>2. CASE After(row, cursor[r])
  <2>0. PICK page \in SUBSET Available(r) : \E last \in page :
           /\ IsPage(page, Available(r))
           /\ cursor'[r] = CursorOf(last)
           /\ known'[r] = known[r] \cup page
    BY <1>2 DEF ReadPage, IInv, TypeOK
  <2>1. PICK last \in page :
           /\ IsPage(page, Available(r))
           /\ cursor'[r] = CursorOf(last)
           /\ known'[r] = known[r] \cup page
    BY <2>0
  <2>2. last \in Row /\ row \in Row /\ Settled(last.xact)
    BY <2>1 DEF Available, SettledRows, IInv, TypeOK
  <2>3. row.xact <= last.xact
    BY <2>1, <2>2 DEF After, CursorOf, Row
  <2>4. Settled(row.xact)
    BY <2>2, <2>3 DEF Settled, InFlight, Row, IInv, TypeOK
  <2>5. row \in Available(r)
    BY <1>2, <2>4 DEF Available, SettledRows
  <2>6. row \in page
    BY <2>1, <2>5 DEF IsPage
  <2> QED BY <2>1, <2>6
<1> QED BY <1>1, <1>2

\* Every step of the log keeps NeverSkip: a delta by completeness of its page,
\* a bootstrap by reading below the oldest transaction in flight.
LEMMA NextNeverSkip == IInv /\ [Next]_vars => NeverSkip'
<1> SUFFICES ASSUME IInv, [Next]_vars PROVE NeverSkip'
  OBVIOUS
<1> USE DEF NeverSkip
<1>1. ASSUME log' \subseteq log, UNCHANGED <<cursor, known>> PROVE NeverSkip'
  BY <1>1 DEF IInv
<1>2. ASSUME NEW t \in Tx, Commit(t) PROVE NeverSkip'
  BY <1>2, CommitAhead DEF Commit, readVars, IInv
<1>3. ASSUME NEW t \in Tx, Begin(t) \/ FirstWrite(t) \/ RecordSyncAction(t) \/ Abort(t)
      PROVE  NeverSkip'
  BY <1>1, <1>3 DEF Begin, FirstWrite, RecordSyncAction, Abort, logVars, readVars
<1>4. ASSUME NEW cutoff \in 1 .. clock, Prune(cutoff) PROVE NeverSkip'
  BY <1>1, <1>4 DEF Prune, readVars
<1>5. ASSUME NEW r \in Reader, ReadPage(r) PROVE NeverSkip'
  <2>1. log' = log /\ \A q \in Reader : q # r => cursor'[q] = cursor[q] /\ known'[q] = known[q]
    BY <1>5 DEF ReadPage, logVars, IInv, TypeOK
  <2> QED BY <1>5, <2>1, PageComplete DEF IInv
<1>6. ASSUME NEW r \in Reader, BootRead(r) PROVE NeverSkip'
  BY <1>6 DEF BootRead, logVars, IInv, TypeOK
<1>7. ASSUME NEW r \in Reader, ReadMark(r) \/ BootTopRow(r) \/ BootXmin(r) \/ Restart(r)
      PROVE  NeverSkip'
  BY <1>1, <1>7 DEF ReadMark, BootTopRow, BootXmin, Restart, logVars
<1>8. CASE UNCHANGED vars
  BY <1>1, <1>8 DEF vars, logVars, readVars
<1> QED
  BY <1>2, <1>3, <1>4, <1>5, <1>6, <1>7, <1>8 DEF Next, Writing, CatchUp

\* The inductive invariant is preserved.
LEMMA NextIInv == IInv /\ [Next]_vars => IInv'
BY NextTypeOK, NextPendingOwn, NextRowsApart, NextCursorsBehind, NextNeverSkip DEF IInv

\* The inductive invariant always holds.
LEMMA Inductive == Spec => []IInv
BY InitIInv, NextIInv, PTL DEF Spec

\* The fence never skips: whatever the interleaving of transactions, prunes
\* and deltas, a reader holds every surviving row its cursor has passed.
THEOREM FenceNeverSkips == Spec => []NeverSkip
<1>1. IInv => NeverSkip
  BY DEF IInv
<1> QED BY <1>1, Inductive, PTL

-----------------------------------------------------------------------------
\* Every step of the log is a step of the change feed or a stutter.
LEMMA StepRefinesFeed == IInv /\ IInv' /\ [Next]_vars => [Feed!Next]_Feed!vars
<1> SUFFICES ASSUME IInv, IInv', [Next]_vars PROVE [Feed!Next]_Feed!vars
  OBVIOUS
<1> USE DEF Feed!vars
<1>1. ASSUME UNCHANGED <<log, gone, cursor, known>> PROVE UNCHANGED Feed!vars
  BY <1>1
<1>2. ASSUME NEW t \in Tx, Commit(t) PROVE Feed!Publish
  <2>1. \A row \in (log' \cup gone') \ (log \cup gone) : row \in pending[t]
    BY <1>2 DEF Commit
  <2>2. \A row \in pending[t] : \A r \in Reader : Feed!Ahead(row, cursor[r])
    BY CommitAhead DEF After, Feed!Ahead
  <2> QED BY <1>2, <2>1, <2>2 DEF Commit, readVars, Feed!Publish
<1>3. ASSUME NEW cutoff \in 1 .. clock, Prune(cutoff) PROVE Feed!Expire
  <2>1. Expired(cutoff) \subseteq log
    BY DEF Expired
  <2>2. log' \cup gone' = log \cup gone /\ gone' = gone \cup Expired(cutoff)
    BY <1>3, <2>1 DEF Prune
  <2> QED BY <1>3, <2>1, <2>2 DEF Prune, readVars, Feed!Expire
<1>4. ASSUME NEW r \in Reader, BootRead(r) PROVE Feed!Reload(r)
  BY <1>4 DEF BootRead, logVars, Feed!Reload, IInv, TypeOK
<1>5. ASSUME NEW t \in Tx, Begin(t) \/ FirstWrite(t) \/ RecordSyncAction(t) \/ Abort(t)
      PROVE  UNCHANGED Feed!vars
  BY <1>1, <1>5 DEF Begin, FirstWrite, RecordSyncAction, Abort, logVars, readVars
<1>6. ASSUME NEW r \in Reader, ReadMark(r) \/ BootTopRow(r) \/ BootXmin(r) \/ Restart(r)
      PROVE  UNCHANGED Feed!vars
  BY <1>1, <1>6 DEF ReadMark, BootTopRow, BootXmin, Restart, logVars
<1>7. ASSUME NEW r \in Reader, ReadPage(r) PROVE Feed!Deliver(r) \/ UNCHANGED Feed!vars
  <2>1. CASE Available(r) = {} /\ UNCHANGED <<cursor, known>>
    BY <1>1, <1>7, <2>1 DEF ReadPage, logVars
  <2>2. ASSUME NEW page \in SUBSET Available(r), NEW last \in page,
               IsPage(page, Available(r)),
               \A row \in page : ~ After(row, CursorOf(last)),
               cursor' = [cursor EXCEPT ![r] = CursorOf(last)],
               known' = [known EXCEPT ![r] = @ \cup page]
        PROVE  Feed!Deliver(r)
    <3>1. cursor'[r] = CursorOf(last) /\ UNCHANGED <<log, gone>>
      BY <1>7, <2>2 DEF ReadPage, logVars, IInv, TypeOK
    <3>2. last \in Row /\ Settled(last.xact)
      BY <2>2 DEF Available, SettledRows, IInv, TypeOK
    <3>3. ASSUME NEW row \in log \ gone
          PROVE  row \in page <=> After(row, cursor[r]) /\ ~ After(row, cursor'[r])
      <4>1. row \in page => After(row, cursor[r]) /\ ~ After(row, cursor'[r])
        BY <2>2, <3>1 DEF Available
      <4>2. ASSUME After(row, cursor[r]), ~ After(row, CursorOf(last))
            PROVE  row \in page
        <5>1. row \in Row
          BY DEF IInv, TypeOK
        <5>2. row.xact <= last.xact
          BY <3>2, <4>2, <5>1 DEF After, CursorOf, Row
        <5>3. Settled(row.xact)
          BY <3>2, <5>1, <5>2 DEF Settled, InFlight, Row, IInv, TypeOK
        <5>4. row \in Available(r)
          BY <4>2, <5>3 DEF Available, SettledRows
        <5> QED BY <2>2, <4>2, <5>4 DEF IsPage
      <4> QED BY <3>1, <4>1, <4>2
    <3>4. page \subseteq (log \cup gone) \ gone /\ (log \cup gone) \ gone = log \ gone
      BY <2>2 DEF Available, SettledRows, IInv, RowsApart
    <3> QED BY <2>2, <3>1, <3>3, <3>4 DEF Feed!Deliver, After, Feed!Ahead
  <2> QED BY <1>7, <2>1, <2>2 DEF ReadPage
<1> QED
  BY <1>1, <1>2, <1>3, <1>4, <1>5, <1>6, <1>7
  DEF Next, Writing, CatchUp, Feed!Next, vars, logVars, readVars

\* The server's log, its prune and its delta and bootstrap endpoints implement
\* the change feed: the never-skip promise, stated without transactions.
THEOREM LogImplementsFeed == Spec => FeedSpec
<1>1. Init => Feed!Init
  BY DEF Init, Feed!Init, Feed!Origin, ZeroCursor
<1> QED BY <1>1, Inductive, StepRefinesFeed, PTL DEF Spec, FeedSpec, Feed!Spec
-----------------------------------------------------------------------------
\* The retention mark

\* The mark is at or above every pruned row, and the point it stands for is
\* below every transaction in flight, since only settled rows expire.
MarkOK == /\ \A row \in gone : row.xact <= prunedThrough
          /\ prunedThrough < nextXid
          /\ \A t \in InFlight : prunedThrough < xid[t]

LEMMA MarkStep == IInv /\ MarkOK /\ [Next]_vars => MarkOK'
<1> SUFFICES ASSUME IInv, MarkOK, [Next]_vars PROVE MarkOK'
  OBVIOUS
<1> USE DEF IInv, TypeOK, MarkOK, InFlight
<1>1. ASSUME UNCHANGED <<gone, prunedThrough, nextXid, xid>>,
             \A t \in Tx : status'[t] = "open" => status[t] = "open" \/ xid[t] = 0
      PROVE  MarkOK'
  BY <1>1
<1>2. ASSUME NEW t \in Tx, Begin(t) PROVE MarkOK'
  BY <1>1, <1>2 DEF Begin, PendingOwn, logVars
<1>3. ASSUME NEW t \in Tx, FirstWrite(t) PROVE MarkOK'
  BY <1>3 DEF FirstWrite, logVars
<1>4. ASSUME NEW t \in Tx, RecordSyncAction(t) \/ Commit(t) \/ Abort(t) PROVE MarkOK'
  BY <1>1, <1>4 DEF RecordSyncAction, Commit, Abort, logVars
<1>5. ASSUME NEW cutoff \in 1 .. clock, Prune(cutoff) PROVE MarkOK'
  <2>1. Expired(cutoff) \subseteq Row
    BY DEF Expired
  <2>2. PICK top \in Expired(cutoff) :
           /\ \A row \in Expired(cutoff) : row.xact <= top.xact
           /\ prunedThrough' = IF top.xact > prunedThrough THEN top.xact ELSE prunedThrough
    BY <1>5 DEF Prune
  <2>3. Settled(top.xact) /\ top.xact \in Nat /\ gone' = gone \cup Expired(cutoff)
    BY <1>5, <2>1, <2>2 DEF Prune, Row
  <2>4. \A row \in gone' : row.xact \in Nat /\ row.xact <= prunedThrough'
    BY <2>1, <2>2, <2>3 DEF Row
  <2>5. prunedThrough' < nextXid /\ \A t \in InFlight : prunedThrough' < xid[t]
    BY <2>2, <2>3 DEF Settled
  <2> QED BY <1>5, <2>4, <2>5 DEF Prune, txVars
<1>6. ASSUME NEW r \in Reader, CatchUp(r) \/ Restart(r) PROVE MarkOK'
  BY <1>1, <1>6 DEF CatchUp, Restart, ReadMark, ReadPage, BootTopRow, BootXmin, BootRead,
                    txVars, logVars
<1>7. CASE UNCHANGED vars
  BY <1>1, <1>7 DEF vars, txVars, logVars
<1> QED BY <1>2, <1>3, <1>4, <1>5, <1>6, <1>7 DEF Next, Writing

\* The mark is never above the frontier.
LEMMA MarkInductive == Spec => [](IInv /\ MarkOK)
<1>1. Init => MarkOK
  BY DEF Init, MarkOK, InFlight
<1> QED BY <1>1, InitIInv, NextIInv, MarkStep, PTL DEF Spec

\* A reader at work stands at a row it has received, or has every row of the
\* transaction its cursor names.
Within == \A r \in Reader : pc[r] \in {"ready", "page"} =>
    \/ \E last \in known[r] : CursorOf(last) = cursor[r]
    \/ \A row \in log \cup gone : row.xact = cursor[r].xact => row \in known[r]

\* A commit adds no row to the transaction of a cursor: those are settled.
LEMMA WithinStep == IInv /\ Within /\ [Next]_vars => Within'
<1> SUFFICES ASSUME IInv, Within, [Next]_vars PROVE Within'
  OBVIOUS
<1> USE DEF IInv, TypeOK, Within
<1>1. ASSUME log' \cup gone' = log \cup gone, UNCHANGED <<cursor, known>>,
             \A r \in Reader : pc'[r] \in {"ready", "page"} => pc[r] \in {"ready", "page"}
      PROVE  Within'
  BY <1>1
<1>2. ASSUME NEW t \in Tx, Commit(t) PROVE Within'
  <2>1. ASSUME NEW r \in Reader, NEW row \in pending[t] PROVE row.xact # cursor[r].xact
    <3>1. t \in InFlight /\ row.xact = xid[t]
      BY DEF PendingOwn, InFlight
    <3>2. cursor[r].xact < xid[t] /\ cursor[r].xact \in Nat /\ xid[t] \in Nat
      BY <3>1 DEF CursorsBehind, Behind, Cursor
    <3> QED BY <3>1, <3>2
  <2> QED BY <1>2, <2>1 DEF Commit, readVars
<1>3. ASSUME NEW t \in Tx, Begin(t) \/ FirstWrite(t) \/ RecordSyncAction(t) \/ Abort(t)
      PROVE  Within'
  BY <1>1, <1>3 DEF Begin, FirstWrite, RecordSyncAction, Abort, logVars, readVars
<1>4. ASSUME NEW cutoff \in 1 .. clock, Prune(cutoff) PROVE Within'
  <2>1. log' \cup gone' = log \cup gone
    BY <1>4 DEF Prune, Expired
  <2> QED BY <1>1, <1>4, <2>1 DEF Prune, readVars
<1>5. ASSUME NEW r \in Reader, ReadPage(r) PROVE Within'
  <2>1. CASE UNCHANGED <<cursor, known>>
    BY <1>1, <1>5, <2>1 DEF ReadPage, logVars
  <2>2. ASSUME NEW page \in SUBSET Available(r), NEW last \in page,
               cursor' = [cursor EXCEPT ![r] = CursorOf(last)],
               known' = [known EXCEPT ![r] = @ \cup page]
        PROVE  Within'
    <3>1. last \in known'[r] /\ cursor'[r] = CursorOf(last)
      BY <2>2
    <3>2. \A q \in Reader : q # r =>
             cursor'[q] = cursor[q] /\ known'[q] = known[q] /\ pc'[q] = pc[q]
      BY <1>5, <2>2 DEF ReadPage
    <3> QED BY <1>5, <3>1, <3>2 DEF ReadPage, logVars
  <2> QED BY <1>5, <2>1, <2>2 DEF ReadPage
<1>6. ASSUME NEW r \in Reader, BootRead(r) PROVE Within'
  BY <1>6 DEF BootRead, logVars
<1>7. ASSUME NEW r \in Reader, ReadMark(r) \/ BootTopRow(r) \/ BootXmin(r) \/ Restart(r)
      PROVE  Within'
  BY <1>1, <1>7 DEF ReadMark, BootTopRow, BootXmin, Restart, logVars
<1>8. CASE UNCHANGED vars
  BY <1>1, <1>8 DEF vars, logVars, readVars
<1> QED
  BY <1>2, <1>3, <1>4, <1>5, <1>6, <1>7, <1>8 DEF Next, Writing, CatchUp

\* The retention check of a delta: a reader that is not sent to bootstrap lacks
\* no pruned row, but for rows of a transaction that it is in the middle of.
THEOREM MarkCatchesPruned == Spec => MarkCatchesLostTransactions
<1>1. ASSUME IInv, MarkOK, Within, [Next]_vars
      PROVE  \A r \in Reader : pc[r] = "ready" /\ pc'[r] = "page" =>
                \A row \in gone \ known[r] : After(row, cursor[r]) =>
                   /\ row.xact = cursor[r].xact
                   /\ \E last \in known[r] : CursorOf(last) = cursor[r]
  <2> SUFFICES ASSUME NEW r \in Reader, pc[r] = "ready", pc'[r] = "page",
                      NEW row \in gone \ known[r], After(row, cursor[r])
               PROVE  /\ row.xact = cursor[r].xact
                      /\ \E last \in known[r] : CursorOf(last) = cursor[r]
    OBVIOUS
  <2> USE <1>1 DEF IInv, TypeOK
  <2>1. ~ StaleCursor(cursor[r])
    <3>1. ASSUME NEW q \in Reader, ReadMark(q) PROVE ~ StaleCursor(cursor[r])
      BY <3>1 DEF ReadMark
    <3>2. ASSUME NEW q \in Reader,
                 ReadPage(q) \/ BootTopRow(q) \/ BootXmin(q) \/ BootRead(q) \/ Restart(q)
          PROVE  FALSE
      BY <3>2 DEF ReadPage, BootTopRow, BootXmin, BootRead, Restart
    <3>3. ASSUME pc' = pc PROVE FALSE
      BY <3>3
    <3>4. ASSUME NEW t \in Tx, Writing(t) PROVE pc' = pc
      BY <3>4 DEF Writing, Begin, FirstWrite, RecordSyncAction, Commit, Abort, readVars
    <3>5. ASSUME NEW cutoff \in 1 .. clock, Prune(cutoff) PROVE pc' = pc
      BY <3>5 DEF Prune, readVars
    <3> QED BY <1>1, <3>1, <3>2, <3>3, <3>4, <3>5 DEF Next, CatchUp, vars, readVars
  <2>2. row \in Row /\ row.xact <= prunedThrough /\ cursor[r] \in Cursor
    BY DEF MarkOK
  <2>3. row.xact <= cursor[r].xact
    <3>1. CASE prunedThrough = 0
      BY <2>2, <3>1 DEF Row, Cursor
    <3>2. CASE prunedThrough # 0
      BY <2>1, <2>2, <3>2 DEF StaleCursor, Row, Cursor
    <3> QED BY <3>1, <3>2
  <2>4. row.xact = cursor[r].xact
    BY <2>2, <2>3 DEF After, Row, Cursor
  <2> QED BY <2>4 DEF Within
<1>2. Init => Within
  BY DEF Init, Within
<1>3. Spec => []Within
  BY <1>2, WithinStep, Inductive, PTL DEF Spec
<1> QED BY <1>1, <1>3, MarkInductive, PTL DEF Spec, MarkCatchesLostTransactions

\* The frontier a bootstrap of a log without settled rows hands out is not
\* behind the mark: the next delta does not send the client to bootstrap again.
THEOREM FrontierIsServable == Spec => EmptyLogAnchorServable
<1>1. ASSUME IInv, MarkOK, [Next]_vars
      PROVE  \A r \in Reader : pc[r] = "bootXmin" /\ pc'[r] = "bootRead" =>
                ~ StaleCursor(anchor'[r])
  <2> SUFFICES ASSUME NEW r \in Reader, pc[r] = "bootXmin", pc'[r] = "bootRead"
               PROVE  ~ StaleCursor(anchor'[r])
    OBVIOUS
  <2> USE <1>1 DEF IInv, TypeOK
  <2>1. BootXmin(r)
    <3>1. ASSUME NEW q \in Reader, BootXmin(q) PROVE q = r
      BY <3>1 DEF BootXmin
    <3>2. ASSUME NEW q \in Reader,
                 ReadMark(q) \/ ReadPage(q) \/ BootTopRow(q) \/ BootRead(q) \/ Restart(q)
          PROVE  FALSE
      BY <3>2 DEF ReadMark, ReadPage, BootTopRow, BootRead, Restart
    <3>3. ASSUME pc' = pc PROVE FALSE
      BY <3>3
    <3>4. ASSUME NEW t \in Tx, Writing(t) PROVE pc' = pc
      BY <3>4 DEF Writing, Begin, FirstWrite, RecordSyncAction, Commit, Abort, readVars
    <3>5. ASSUME NEW cutoff \in 1 .. clock, Prune(cutoff) PROVE pc' = pc
      BY <3>5 DEF Prune, readVars
    <3> QED BY <1>1, <3>1, <3>2, <3>3, <3>4, <3>5 DEF Next, CatchUp, vars, readVars
  <2>2. PICK m \in {xid[t] : t \in InFlight} \cup {nextXid} :
           anchor' = [anchor EXCEPT ![r] = [xact |-> m - 1, id |-> 0]]
    BY <2>1 DEF BootXmin
  <2>3. m \in Nat /\ prunedThrough < m
    BY DEF MarkOK, InFlight
  <2>4. anchor'[r].xact = m - 1
    BY <2>2
  <2> QED BY <2>3, <2>4 DEF StaleCursor
<1> QED BY <1>1, MarkInductive, PTL DEF Spec, EmptyLogAnchorServable
=============================================================================
