---------------------------- MODULE IssuesProofs ----------------------------
(***************************************************************************)
(* Proofs about Issues, for any number of issues, requests and             *)
(* transactions and any settings of the team: types, what the log shows,   *)
(* the lifecycle stamps, and what a close does to parent and children.     *)
(***************************************************************************)
EXTENDS Issues, TLAPS

\* Stamps and state agree.
Match(r) ==
    /\ r.completedAt <=> r.st = "completed"
    /\ r.canceledAt <=> r.st = "canceled"
    /\ r.st = "started" => r.startedAt

\* A request for one issue has it.
JobOK == \A p \in Proc : pc[p] \notin {"idle", "bulk"} => job[p] \in Issue

\* Rows that are written are locked: they are not deleted.
LockOK == \A p \in Proc : held[p] \subseteq live

\* What a request has read still holds, but for what others have written since.
SnapOK ==
    \A p \in Proc :
        /\ pc[p] = "read" /\ job[p] \notin overlap[p] => snap[p][job[p]] = row[job[p]]
        /\ pc[p] \notin {"bulk", "committing"} => picked[p] = {}
        /\ \A i \in picked[p] \ overlap[p] : i \in live /\ snap[p][i] = row[i]
-----------------------------------------------------------------------------
\* Rows

LEMMA NewRowOK ==
    ASSUME NEW s \in State PROVE NewRow(s) \in Row /\ Match(NewRow(s))
BY DEF NewRow, Blank, Row, Match, State

LEMMA BlankOK == Blank \in Row /\ Match(Blank)
BY DEF Blank, Row, Match, State

LEMMA ClosedOK ==
    ASSUME NEW r \in Row, NEW s \in State
    PROVE  /\ Closed(r, s) \in Row
           /\ Match(r) /\ ~ Done(r) /\ s \in Terminal => Match(Closed(r, s))
           /\ Closed(r, s).st = s
BY DEF Closed, Row, Match, State, Terminal, Done

LEMMA StampedOK ==
    ASSUME NEW r \in Row, NEW old \in Row, NEW s \in State
    PROVE  /\ Stamped(r, old, s) \in Row
           /\ Match(r) => Match(Stamped(r, r, s))
           /\ Stamped(r, old, s).st = s
BY ZenonT(30) DEF Stamped, Row, Match, State

LEMMA BulkStampedOK ==
    ASSUME NEW r \in Row, NEW old \in Row, NEW s \in State
    PROVE  /\ BulkStamped(r, old, s) \in Row
           /\ Match(r) => Match(BulkStamped(r, r, s))
BY ZenonT(30) DEF BulkStamped, Row, Match, State

LEMMA ArchivedOK ==
    ASSUME NEW r \in Row, NEW b \in BOOLEAN
    PROVE  /\ [r EXCEPT !.archivedAt = b] \in Row
           /\ Match(r) => Match([r EXCEPT !.archivedAt = b])
BY DEF Row, Match
-----------------------------------------------------------------------------
\* Types: of the database and the log, of the requests, and the history.

DbTypes ==
    /\ live \subseteq Issue /\ shown \subseteq Issue
    /\ row \in [Issue -> Row] /\ feed \in [Issue -> Row]
    /\ parent \in [Issue -> live \cup {None}]

CallTypes ==
    /\ pc \in [Proc -> Step] /\ job \in [Proc -> Issue \cup {None}]
    /\ to \in [Proc -> State] /\ up \in [Proc -> Issue \cup {None}]
    /\ snap \in [Proc -> [Issue -> Row]] /\ dirty \in [Proc -> [Issue -> Row]]
    /\ picked \in [Proc -> SUBSET Issue] /\ held \in [Proc -> SUBSET Issue]

HistTypes ==
    /\ overlap \in [Proc -> SUBSET Issue] /\ raced \subseteq Issue
    /\ txs \in Nat

LEMMA TypesOK == TypeOK <=> DbTypes /\ CallTypes /\ HistTypes
BY DEF TypeOK, DbTypes, CallTypes, HistTypes

LEMMA TypeInit == Init => DbTypes /\ CallTypes /\ HistTypes
<1> SUFFICES ASSUME Init PROVE DbTypes /\ CallTypes /\ HistTypes
  OBVIOUS
<1>1. row \in [Issue -> Row]
  BY NewRowOK, BlankOK, IssuesAssumption DEF Init, State
<1>2. [i \in Issue |-> Blank] \in [Issue -> Row]
  BY BlankOK
<1>3. QED
  BY <1>1, <1>2 DEF Init, DbTypes, CallTypes, HistTypes, Step, State

LEMMA ViewType == ASSUME DbTypes, CallTypes, NEW p \in Proc PROVE View(p) \in [Issue -> Row]
BY DEF View, DbTypes, CallTypes

\* The steps of a request on its own memory.
LEMMA CallTypeStep == ASSUME DbTypes, CallTypes, JobOK, [Next]_vars PROVE CallTypes'
<1> USE DEF CallTypes
<1>1. ASSUME NEW p \in Proc, NEW i \in Issue, NEW s \in State, Read(p, i, s)
      PROVE  CallTypes'
  <2>1. Only({i}) \in [Issue -> Row]
    BY BlankOK DEF Only, DbTypes
  <2>2. QED
    BY <1>1, <2>1 DEF Read, Call, Step
<1>2. ASSUME NEW p \in Proc, NEW i \in Issue, NEW s \in State,
             NEW q \in (live \cup {None}) \ {i}, Ask(p, i, s, q)
      PROVE  CallTypes'
  <2>1. q \in Issue \cup {None}
    BY DEF DbTypes
  <2>2. QED
    BY <1>2, <2>1 DEF Ask, Call, Step
<1>3. ASSUME NEW p \in Proc, NEW S \in SUBSET Issue, NEW s \in State, ReadBulk(p, S, s)
      PROVE  CallTypes'
  <2>1. Only(S) \in [Issue -> Row]
    BY BlankOK DEF Only, DbTypes
  <2>2. QED
    BY <1>3, <2>1 DEF ReadBulk, Call, Step
<1>4. ASSUME NEW p \in Proc, End(p) PROVE CallTypes'
  <2>1. [i \in Issue |-> Blank] \in [Issue -> Row]
    BY BlankOK
  <2>2. QED
    BY <1>4, <2>1 DEF End, Step, State
<1>5. ASSUME NEW p \in Proc, Write(p) PROVE CallTypes'
  <2>1. job[p] \in Issue /\ parent[job[p]] \in Issue \cup {None}
    BY <1>5 DEF Write, JobOK, DbTypes
  <2>2. Stamped(row[job[p]], snap[p][job[p]], to[p]) \in Row
    BY <2>1, StampedOK DEF DbTypes
  <2>3. [j \in Issue |-> Blank] \in [Issue -> Row]
    BY BlankOK
  <2>4. pc' \in [Proc -> Step]
    BY <1>5 DEF Write, Step
  <2>5. dirty' \in [Proc -> [Issue -> Row]]
    BY <1>5, <2>1, <2>2 DEF Write
  <2>6. held' \in [Proc -> SUBSET Issue]
    BY <1>5, <2>1 DEF Write
  <2>7. snap' \in [Proc -> [Issue -> Row]] /\ up' \in [Proc -> Issue \cup {None}]
    BY <1>5, <2>1, <2>3 DEF Write
  <2>8. QED
    BY <1>5, <2>4, <2>5, <2>6, <2>7 DEF Write
<1>6. ASSUME NEW p \in Proc, ReadParent(p) PROVE CallTypes'
  BY <1>6 DEF ReadParent, Step
<1>7. ASSUME NEW p \in Proc, CloseParent(p) PROVE CallTypes'
  <2>1. up[p] \in Issue
    BY <1>7 DEF CloseParent, DbTypes
  <2>2. View(p)[up[p]] \in Row
    BY <2>1, ViewType
  <2>3. Closed(View(p)[up[p]], "completed") \in Row
    BY <2>2, ClosedOK DEF State
  <2>4. held' \in [Proc -> SUBSET Issue] /\ dirty' \in [Proc -> [Issue -> Row]]
    BY <1>7, <2>1, <2>3 DEF CloseParent
  <2>5. QED
    BY <1>7, <2>4 DEF CloseParent, Step
<1>8. ASSUME NEW p \in Proc, ReadChildren(p) PROVE CallTypes'
  <2>1. ToClose(p) \subseteq Issue
    BY DEF ToClose, Siblings, DbTypes
  <2>2. Only(ToClose(p)) \in [Issue -> Row]
    BY BlankOK DEF Only, DbTypes
  <2>3. QED
    BY <1>8, <2>1, <2>2 DEF ReadChildren, Step
<1>9. ASSUME UNCHANGED callVars PROVE CallTypes'
  BY <1>9 DEF callVars
<1>10. QED
  BY <1>1, <1>2, <1>3, <1>4, <1>5, <1>6, <1>7, <1>8, <1>9
     DEF Next, Insert, CommitUpdate, CommitBulk, Abort, Archive, Unarchive, Reparent, WriteOne,
         Delete, vars

\* The steps on rows and log.
LEMMA DbTypeStep == ASSUME DbTypes, CallTypes, JobOK, [Next]_vars PROVE DbTypes'
<1> USE DEF DbTypes
<1>1. ASSUME NEW p \in Proc, Insert(p) PROVE DbTypes'
  <2>1. job[p] \in Issue /\ NewRow(to[p]) \in Row
    BY <1>1, NewRowOK DEF Insert, JobOK, CallTypes
  <2>2. QED
    BY <1>1, <2>1 DEF Insert
<1>2. ASSUME NEW p \in Proc, CommitUpdate(p) PROVE DbTypes'
  <2>1. \A i \in Issue : Closed(row[i], to[p]) \in Row /\ Closed(snap[p][i], to[p]) \in Row
    BY ClosedOK DEF CallTypes
  <2>2. row' \in [Issue -> Row]
    BY <1>2, <2>1, ViewType DEF CommitUpdate
  <2>3. feed' \in [Issue -> Row]
    BY <1>2, <2>1 DEF CommitUpdate, CallTypes
  <2>4. shown' \subseteq Issue
    BY <1>2 DEF CommitUpdate, Recorded, CallTypes
  <2>5. QED
    BY <1>2, <2>2, <2>3, <2>4 DEF CommitUpdate
<1>3. ASSUME NEW p \in Proc, CommitBulk(p) PROVE DbTypes'
  <2>1. \A i \in Issue : BulkStamped(row[i], snap[p][i], to[p]) \in Row
    BY BulkStampedOK DEF CallTypes
  <2>2. row' \in [Issue -> Row] /\ feed' \in [Issue -> Row]
    BY <1>3, <2>1 DEF CommitBulk
  <2>3. QED
    BY <1>3, <2>2 DEF CommitBulk, CallTypes
<1>4. ASSUME NEW i \in Issue, NEW r \in Row, WriteOne(i, r),
             parent' \in [Issue -> live \cup {None}]
      PROVE  DbTypes'
  BY <1>4 DEF WriteOne
<1>5. ASSUME NEW i \in Issue, Archive(i) \/ Unarchive(i) PROVE DbTypes'
  <2>1. [row[i] EXCEPT !.archivedAt = TRUE] \in Row /\ [row[i] EXCEPT !.archivedAt = FALSE] \in Row
    BY ArchivedOK
  <2>2. QED
    BY <1>4, <1>5, <2>1 DEF Archive, Unarchive
<1>6. ASSUME NEW i \in Issue, NEW q \in Issue \cup {None}, Reparent(i, q) PROVE DbTypes'
  BY <1>4, <1>6 DEF Reparent
<1>7. ASSUME NEW i \in Issue, Delete(i) PROVE DbTypes'
  <2>1. parent' \in [Issue -> (live \ {i}) \cup {None}]
    BY <1>7 DEF Delete, Orphaned
  <2>2. QED
    BY <1>7, <2>1, BlankOK DEF Delete
<1>8. ASSUME UNCHANGED <<dbVars, logVars>> PROVE DbTypes'
  BY <1>8 DEF dbVars, logVars
<1>9. QED
  BY <1>1, <1>2, <1>3, <1>5, <1>6, <1>7, <1>8
     DEF Next, Read, Ask, ReadBulk, Write, ReadParent, CloseParent, ReadChildren, Abort, vars

\* The history.
LEMMA HistTypeStep == ASSUME DbTypes, CallTypes, HistTypes, JobOK, [Next]_vars PROVE HistTypes'
<1> USE DEF HistTypes
<1>1. ASSUME NEW W \in SUBSET Issue PROVE Committed(W) \in [Proc -> SUBSET Issue]
  BY DEF Committed
<1>2. ASSUME NEW p \in Proc, NEW W \in SUBSET Issue, CommitBy(p, W), txs' = txs PROVE HistTypes'
  BY <1>1, <1>2 DEF CommitBy
<1>3. ASSUME NEW p \in Proc, Insert(p) \/ CommitUpdate(p) \/ CommitBulk(p) PROVE HistTypes'
  <2>1. CASE Insert(p)
    <3>1. {job[p]} \in SUBSET Issue
      BY <2>1 DEF Insert, JobOK
    <3>2. QED
      BY <1>2, <2>1, <3>1 DEF Insert
  <2>2. CASE CommitUpdate(p)
    BY <1>2, <2>2 DEF CommitUpdate, CallTypes
  <2>3. CASE CommitBulk(p)
    BY <1>2, <2>3 DEF CommitBulk, CallTypes
  <2>4. QED
    BY <1>3, <2>1, <2>2, <2>3
<1>4. ASSUME NEW i \in Issue, NEW r, WriteOne(i, r) PROVE HistTypes'
  BY <1>1, <1>4 DEF WriteOne, Another
<1>5. ASSUME NEW i \in Issue, Delete(i) PROVE HistTypes'
  <2>1. {c \in live : c = i \/ parent[c] = i} \in SUBSET Issue
    BY DEF DbTypes
  <2>2. QED
    BY <1>1, <1>5, <2>1 DEF Delete, Another
<1>6. ASSUME NEW p \in Proc, Abort(p) PROVE HistTypes'
  BY <1>6, ZenonT(30) DEF Abort
<1>7. ASSUME UNCHANGED histVars, txs' = txs \/ Another PROVE HistTypes'
  BY <1>7 DEF histVars, Another
<1>8. QED
  BY <1>3, <1>4, <1>5, <1>6, <1>7
     DEF Next, Read, Ask, ReadBulk, Call, Write, ReadParent, CloseParent, ReadChildren, Archive,
         Unarchive, Reparent, vars

LEMMA JobStep == ASSUME CallTypes, JobOK, [Next]_vars PROVE JobOK'
<1> USE DEF CallTypes, JobOK
<1>1. ASSUME NEW p \in Proc, NEW i \in Issue, NEW s \in State, Read(p, i, s) PROVE JobOK'
  BY <1>1 DEF Read, Call
<1>2. ASSUME NEW p \in Proc, NEW i \in Issue, NEW s \in State,
             NEW q \in (live \cup {None}) \ {i}, Ask(p, i, s, q)
      PROVE  JobOK'
  BY <1>2 DEF Ask, Call
<1>3. ASSUME NEW p \in Proc, NEW S \in SUBSET Issue, NEW s \in State, ReadBulk(p, S, s)
      PROVE  JobOK'
  BY <1>3 DEF ReadBulk, Call
<1>4. ASSUME NEW p \in Proc, End(p) PROVE JobOK'
  BY <1>4 DEF End
<1>5. ASSUME NEW p \in Proc, Write(p) \/ ReadParent(p) \/ CloseParent(p) \/ ReadChildren(p)
      PROVE  JobOK'
  BY <1>5 DEF Write, ReadParent, CloseParent, ReadChildren
<1>6. ASSUME UNCHANGED <<pc, job>> PROVE JobOK'
  BY <1>6
<1>7. QED
  BY <1>1, <1>2, <1>3, <1>4, <1>5, <1>6
     DEF Next, Insert, CommitUpdate, CommitBulk, Abort, Archive, Unarchive, Reparent, WriteOne,
         Delete, callVars, vars
-----------------------------------------------------------------------------
\* Reads and locks

LEMMA LockStep == ASSUME CallTypes, JobOK, LockOK, [Next]_vars PROVE LockOK'
<1> USE DEF CallTypes, LockOK
<1>1. ASSUME NEW p \in Proc, Write(p) PROVE LockOK'
  BY <1>1 DEF Write, dbVars
<1>2. ASSUME NEW p \in Proc, CloseParent(p) PROVE LockOK'
  BY <1>2 DEF CloseParent, dbVars
<1>3. ASSUME NEW p \in Proc, End(p), live \subseteq live' PROVE LockOK'
  BY <1>3 DEF End
<1>4. ASSUME NEW i \in Issue, Delete(i) PROVE LockOK'
  BY <1>4 DEF Delete, Free, callVars
<1>5. ASSUME UNCHANGED <<live, held>> PROVE LockOK'
  BY <1>5
<1>6. QED
  BY <1>1, <1>2, <1>3, <1>4, <1>5
     DEF Next, Read, Ask, ReadBulk, Insert, ReadParent, ReadChildren, CommitUpdate, CommitBulk,
         Abort, Archive, Unarchive, Reparent, WriteOne, dbVars, callVars, vars

\* A commit of W, by p or outside any request, as the others see it.
LEMMA SnapForeign ==
    ASSUME CallTypes, HistTypes, JobOK, SnapOK, NEW W \in SUBSET Issue, NEW q \in Proc,
           \A i \in Issue \ W : row'[i] = row[i] /\ (i \in live => i \in live'),
           overlap'[q] = Committed(W)[q],
           pc'[q] = pc[q], job'[q] = job[q], snap'[q] = snap[q], picked'[q] = picked[q]
    PROVE  /\ pc'[q] = "read" /\ job'[q] \notin overlap'[q] => snap'[q][job'[q]] = row'[job'[q]]
           /\ pc'[q] \notin {"bulk", "committing"} => picked'[q] = {}
           /\ \A i \in picked'[q] \ overlap'[q] : i \in live' /\ snap'[q][i] = row'[i]
<1>1. pc[q] # "idle" => overlap'[q] = overlap[q] \cup W
  BY DEF Committed
<1>2. pc[q] = "idle" => picked[q] = {}
  BY DEF SnapOK
<1>3. pc[q] = "read" => job[q] \in Issue
  BY DEF JobOK
<1>4. picked[q] \subseteq Issue
  BY DEF CallTypes
<1>5. QED
  BY <1>1, <1>2, <1>3, <1>4 DEF SnapOK

LEMMA SnapCommit ==
    ASSUME CallTypes, HistTypes, JobOK, SnapOK, NEW W \in SUBSET Issue, NEW p \in Proc,
           \A i \in Issue \ W : row'[i] = row[i] /\ (i \in live => i \in live'),
           CommitBy(p, W), End(p)
    PROVE  SnapOK'
<1>1. ASSUME NEW q \in Proc \ {p}
      PROVE  /\ overlap'[q] = Committed(W)[q]
             /\ pc'[q] = pc[q] /\ job'[q] = job[q] /\ snap'[q] = snap[q] /\ picked'[q] = picked[q]
  BY DEF CommitBy, End, Committed, CallTypes
<1>2. pc'[p] = "idle" /\ picked'[p] = {}
  BY DEF End, CallTypes
<1>3. QED
  BY <1>1, <1>2, SnapForeign DEF SnapOK

LEMMA SnapOutside ==
    ASSUME CallTypes, HistTypes, JobOK, SnapOK, NEW W \in SUBSET Issue,
           \A i \in Issue \ W : row'[i] = row[i] /\ (i \in live => i \in live'),
           overlap' = Committed(W), UNCHANGED callVars
    PROVE  SnapOK'
BY SnapForeign DEF SnapOK, callVars

LEMMA SnapStep ==
    ASSUME DbTypes, CallTypes, HistTypes, JobOK, LockOK, SnapOK, [Next]_vars
    PROVE  SnapOK'
<1>1. ASSUME NEW p \in Proc, NEW i \in Issue, NEW s \in State, Read(p, i, s) PROVE SnapOK'
  BY <1>1 DEF Read, Call, Only, dbVars, histVars, SnapOK, CallTypes
<1>2. ASSUME NEW p \in Proc, NEW i \in Issue, NEW s \in State,
             NEW q \in (live \cup {None}) \ {i}, Ask(p, i, s, q)
      PROVE  SnapOK'
  BY <1>2 DEF Ask, Call, dbVars, histVars, SnapOK, CallTypes
<1>3. ASSUME NEW p \in Proc, NEW S \in SUBSET Issue, NEW s \in State, ReadBulk(p, S, s)
      PROVE  SnapOK'
  BY <1>3 DEF ReadBulk, Call, Only, dbVars, histVars, SnapOK, CallTypes
<1>4. ASSUME NEW p \in Proc, Write(p) PROVE SnapOK'
  BY <1>4 DEF Write, dbVars, histVars, SnapOK, CallTypes
<1>5. ASSUME NEW p \in Proc, ReadParent(p) \/ CloseParent(p) PROVE SnapOK'
  <2>1. UNCHANGED <<live, row, overlap, job, snap, picked>>
    BY <1>5 DEF ReadParent, CloseParent, dbVars, histVars
  <2>2. /\ pc[p] \notin {"read", "bulk", "committing"} /\ pc'[p] # "read"
        /\ \A q \in Proc \ {p} : pc'[q] = pc[q]
    BY <1>5 DEF ReadParent, CloseParent, CallTypes
  <2>3. QED
    BY <2>1, <2>2 DEF SnapOK
<1>6. ASSUME NEW p \in Proc, ReadChildren(p) PROVE SnapOK'
  <2>1. ToClose(p) \subseteq live /\ ToClose(p) \subseteq Issue
    BY DEF ToClose, Siblings, DbTypes
  <2>2. QED
    BY <1>6, <2>1 DEF ReadChildren, Only, dbVars, histVars, SnapOK, CallTypes
<1>7. ASSUME NEW p \in Proc, Insert(p) PROVE SnapOK'
  <2>1. {job[p]} \in SUBSET Issue
    BY <1>7 DEF Insert, JobOK
  <2>2. \A i \in Issue \ {job[p]} : row'[i] = row[i] /\ (i \in live => i \in live')
    BY <1>7 DEF Insert, DbTypes
  <2>3. QED
    BY <1>7, <2>1, <2>2, SnapCommit DEF Insert
<1>8. ASSUME NEW p \in Proc, CommitUpdate(p) PROVE SnapOK'
  <2>1. held[p] \cup picked[p] \in SUBSET Issue
    BY DEF CallTypes
  <2>2. \A i \in Issue \ (held[p] \cup picked[p]) : row'[i] = row[i] /\ (i \in live => i \in live')
    BY <1>8 DEF CommitUpdate, View
  <2>3. QED
    BY <1>8, <2>1, <2>2, SnapCommit DEF CommitUpdate
<1>9. ASSUME NEW p \in Proc, CommitBulk(p) PROVE SnapOK'
  <2>1. picked[p] \cap live \in SUBSET Issue
    BY DEF CallTypes
  <2>2. \A i \in Issue \ (picked[p] \cap live) : row'[i] = row[i] /\ (i \in live => i \in live')
    BY <1>9 DEF CommitBulk
  <2>3. QED
    BY <1>9, <2>1, <2>2, SnapCommit DEF CommitBulk
<1>10. ASSUME NEW i \in Issue, NEW r, WriteOne(i, r) PROVE SnapOK'
  <2>1. \A j \in Issue \ {i} : row'[j] = row[j] /\ (j \in live => j \in live')
    BY <1>10 DEF WriteOne, DbTypes
  <2>2. QED
    BY <1>10, <2>1, SnapOutside DEF WriteOne
<1>11. ASSUME NEW i \in Issue, Delete(i) PROVE SnapOK'
  <2>1. {c \in live : c = i \/ parent[c] = i} \in SUBSET Issue
    BY DEF DbTypes
  <2>2. \A j \in Issue \ {c \in live : c = i \/ parent[c] = i} :
            row'[j] = row[j] /\ (j \in live => j \in live')
    BY <1>11 DEF Delete, DbTypes
  <2>3. QED
    BY <1>11, <2>1, <2>2, SnapOutside DEF Delete
<1>12. ASSUME NEW p \in Proc, Abort(p) PROVE SnapOK'
  BY <1>12 DEF Abort, End, dbVars, SnapOK, CallTypes
<1>13. ASSUME UNCHANGED vars PROVE SnapOK'
  BY <1>13 DEF vars, dbVars, callVars, histVars, SnapOK
<1>14. QED
  BY <1>1, <1>2, <1>3, <1>4, <1>5, <1>6, <1>7, <1>8, <1>9, <1>10, <1>11, <1>12, <1>13
     DEF Next, Archive, Unarchive, Reparent
-----------------------------------------------------------------------------
\* What the log shows

LEMMA LogStep ==
    ASSUME DbTypes, CallTypes, HistTypes, JobOK, LockOK, SnapOK, LogMatchesRows, [Next]_vars
    PROVE  LogMatchesRows'
<1> USE DEF LogMatchesRows
<1>1. ASSUME NEW p \in Proc, Insert(p) PROVE LogMatchesRows'
  BY <1>1 DEF Insert, CommitBy, DbTypes
<1>2. ASSUME NEW p \in Proc, CommitUpdate(p) PROVE LogMatchesRows'
  <2>1. raced' = raced \cup ((held[p] \cup picked[p]) \cap overlap[p])
    BY <1>2 DEF CommitUpdate, CommitBy
  <2>2. /\ live' = live
        /\ shown' = shown \cup held[p] \cup picked[p]
    BY <1>2 DEF CommitUpdate, Recorded
  <2>3. ASSUME NEW i \in Issue \ raced'
        PROVE  (i \in live' <=> i \in shown') /\ (i \in live' => feed'[i] = row'[i])
    <3>1. CASE i \notin held[p] \cup picked[p]
      <4>1. row'[i] = row[i] /\ feed'[i] = feed[i]
        BY <1>2, <3>1 DEF CommitUpdate, Recorded, View
      <4>2. QED
        BY <2>1, <2>2, <3>1, <4>1
    <3>2. CASE i \in picked[p]
      <4>1. i \in live /\ snap[p][i] = row[i]
        BY <2>1, <3>2 DEF SnapOK
      <4>2. row'[i] = Closed(row[i], to[p]) /\ feed'[i] = Closed(snap[p][i], to[p])
        BY <1>2, <3>2, <4>1 DEF CommitUpdate, Recorded
      <4>3. QED
        BY <2>2, <3>2, <4>1, <4>2
    <3>3. CASE i \in held[p] \ picked[p]
      <4>1. i \in live
        BY <3>3 DEF LockOK
      <4>2. row'[i] = dirty[p][i] /\ feed'[i] = dirty[p][i]
        BY <1>2, <3>3 DEF CommitUpdate, Recorded, View
      <4>3. QED
        BY <2>2, <3>3, <4>1, <4>2
    <3>4. QED
      BY <3>1, <3>2, <3>3
  <2>4. QED
    BY <2>3
<1>3. ASSUME NEW p \in Proc, CommitBulk(p) PROVE LogMatchesRows'
  BY <1>3 DEF CommitBulk, CommitBy
<1>4. ASSUME NEW i \in Issue, NEW r, WriteOne(i, r) PROVE LogMatchesRows'
  BY <1>4 DEF WriteOne, DbTypes
<1>5. ASSUME NEW i \in Issue, Delete(i) PROVE LogMatchesRows'
  BY <1>5 DEF Delete, DbTypes
<1>6. ASSUME UNCHANGED <<live, row, logVars, raced>> PROVE LogMatchesRows'
  BY <1>6 DEF logVars
<1>7. QED
  BY <1>1, <1>2, <1>3, <1>4, <1>5, <1>6
     DEF Next, Read, Ask, ReadBulk, Write, ReadParent, CloseParent, ReadChildren, Abort, Archive,
         Unarchive, Reparent, dbVars, histVars, vars

IInv == DbTypes /\ CallTypes /\ HistTypes /\ JobOK /\ LockOK /\ SnapOK

LEMMA InitIInv == Init => IInv /\ LogMatchesRows
<1> SUFFICES ASSUME Init PROVE IInv /\ LogMatchesRows
  OBVIOUS
<1>1. DbTypes /\ CallTypes /\ HistTypes
  BY TypeInit
<1>2. JobOK /\ LockOK /\ SnapOK
  BY DEF Init, JobOK, LockOK, SnapOK
<1>3. LogMatchesRows
  BY DEF Init, LogMatchesRows
<1>4. QED
  BY <1>1, <1>2, <1>3 DEF IInv

LEMMA IInvStep == IInv /\ [Next]_vars => IInv'
BY CallTypeStep, DbTypeStep, HistTypeStep, JobStep, LockStep, SnapStep DEF IInv
-----------------------------------------------------------------------------
(***************************************************************************)
(* The variables of Issues keep their types, and parents are rows that are *)
(* there.                                                                  *)
(***************************************************************************)
THEOREM TypeCorrect == Spec => []TypeOK
<1>1. IInv => TypeOK
  BY TypesOK DEF IInv
<1>2. QED
  BY <1>1, InitIInv, IInvStep, PTL DEF Spec

(***************************************************************************)
(* Cascades and bulk updates record every row they write as it is after    *)
(* them: whoever has applied the log shows the rows, but for issues that   *)
(* two overlapping transactions have both recorded.                        *)
(***************************************************************************)
THEOREM LogShowsRows == Spec => []LogMatchesRows
<1>1. IInv /\ LogMatchesRows /\ [Next]_vars => LogMatchesRows'
  BY LogStep DEF IInv
<1>2. QED
  BY <1>1, InitIInv, IInvStep, PTL DEF Spec
-----------------------------------------------------------------------------
\* The lifecycle stamps

\* What a request is about to close is open, as far as it can know, and what
\* closes it is closed.
CloseOf(p) ==
    /\ pc[p] \in {"ascending", "closing parent", "descending"} =>
          to[p] \in Terminal /\ \A i \in held[p] : Done(dirty[p][i])
    /\ pc[p] \in {"ascending", "closing parent"} => up[p] \in Issue
    /\ pc[p] = "closing parent" =>
          /\ up[p] \notin held[p]
          /\ up[p] \notin overlap[p] => ~ Done(row[up[p]])
    /\ pc[p] = "committing" => \A i \in picked[p] :
          i \notin held[p] /\ ~ Done(snap[p][i]) /\ to[p] \in Terminal

CloseOK == \A p \in Proc : CloseOf(p)

\* What a request has written and not yet committed.
DirtyOK ==
    \A p \in Proc :
        /\ pc[p] = "idle" => held[p] = {}
        /\ \A i \in held[p] \ (overlap[p] \cup raced) : Match(dirty[p][i])

LEMMA StampsAre == StampsMatchState <=> \A i \in live \ raced : Match(row[i])
BY DEF StampsMatchState, Match

\* A step of somebody else: rows change only if that is remembered in overlap.
LEMMA CloseFrame ==
    ASSUME NEW q \in Proc, CloseOf(q),
           pc'[q] = pc[q], to'[q] = to[q], up'[q] = up[q], snap'[q] = snap[q],
           picked'[q] = picked[q], held'[q] = held[q], dirty'[q] = dirty[q],
           pc[q] # "idle" => /\ overlap[q] \subseteq overlap'[q]
                             /\ \A i \in Issue \ overlap'[q] : row'[i] = row[i]
    PROVE  CloseOf(q)'
<1>1. pc'[q] \in {"ascending", "closing parent", "descending"} =>
          to'[q] \in Terminal /\ \A i \in held'[q] : Done(dirty'[q][i])
  BY DEF CloseOf
<1>2. pc'[q] \in {"ascending", "closing parent"} => up'[q] \in Issue
  BY DEF CloseOf
<1>3. ASSUME pc'[q] = "closing parent"
      PROVE  up'[q] \notin held'[q] /\ (up'[q] \notin overlap'[q] => ~ Done(row'[up'[q]]))
  <2>1. up[q] \in Issue /\ up[q] \notin held[q] /\ (up[q] \notin overlap[q] => ~ Done(row[up[q]]))
    BY <1>3 DEF CloseOf
  <2>2. up[q] \notin overlap'[q] => row'[up[q]] = row[up[q]] /\ up[q] \notin overlap[q]
    BY <1>3, <2>1
  <2>3. QED
    BY <2>1, <2>2
<1>4. pc'[q] = "committing" => \A i \in picked'[q] :
          i \notin held'[q] /\ ~ Done(snap'[q][i]) /\ to'[q] \in Terminal
  BY DEF CloseOf
<1>5. QED
  BY <1>1, <1>2, <1>3, <1>4 DEF CloseOf

LEMMA CloseCommit ==
    ASSUME CallTypes, HistTypes, CloseOK, NEW W \in SUBSET Issue, NEW p \in Proc,
           \A i \in Issue \ W : row'[i] = row[i], CommitBy(p, W), End(p)
    PROVE  CloseOK'
<1>1. ASSUME NEW q \in Proc \ {p} PROVE CloseOf(q)'
  <2>1. pc[q] # "idle" => overlap'[q] = overlap[q] \cup W
    BY DEF CommitBy, Committed
  <2>2. /\ pc'[q] = pc[q] /\ to'[q] = to[q] /\ up'[q] = up[q] /\ snap'[q] = snap[q]
        /\ picked'[q] = picked[q] /\ held'[q] = held[q] /\ dirty'[q] = dirty[q]
    BY DEF End, CallTypes
  <2>3. QED
    BY <2>1, <2>2, CloseFrame DEF CloseOK
<1>2. pc'[p] = "idle"
  BY DEF End, CallTypes
<1>3. CloseOf(p)'
  BY <1>2 DEF CloseOf
<1>4. QED
  BY <1>1, <1>3 DEF CloseOK

LEMMA CloseOutside ==
    ASSUME CloseOK, NEW W \in SUBSET Issue,
           \A i \in Issue \ W : row'[i] = row[i],
           overlap' = Committed(W), UNCHANGED callVars
    PROVE  CloseOK'
<1>1. ASSUME NEW q \in Proc PROVE CloseOf(q)'
  <2>1. pc[q] # "idle" => overlap'[q] = overlap[q] \cup W
    BY DEF Committed
  <2>2. QED
    BY <2>1, CloseFrame DEF CloseOK, callVars
<1>2. QED
  BY <1>1 DEF CloseOK

\* A step of p that commits nothing.
LEMMA CloseAlone ==
    ASSUME CloseOK, NEW p \in Proc, CloseOf(p)', UNCHANGED row,
           \A q \in Proc \ {p} :
               /\ pc'[q] = pc[q] /\ to'[q] = to[q] /\ up'[q] = up[q] /\ snap'[q] = snap[q]
               /\ picked'[q] = picked[q] /\ held'[q] = held[q] /\ dirty'[q] = dirty[q]
               /\ overlap'[q] = overlap[q]
    PROVE  CloseOK'
<1>1. ASSUME NEW q \in Proc \ {p} PROVE CloseOf(q)'
  BY CloseFrame DEF CloseOK
<1>2. QED
  BY <1>1 DEF CloseOK

LEMMA CloseStep ==
    ASSUME DbTypes, CallTypes, HistTypes, JobOK, SnapOK, CloseOK, [Next]_vars
    PROVE  CloseOK'
<1>1. ASSUME NEW p \in Proc, NEW i \in Issue, NEW s \in State, Read(p, i, s) PROVE CloseOK'
  <2>1. CloseOf(p)'
    BY <1>1 DEF Read, Call, CloseOf, CallTypes
  <2>2. QED
    BY <1>1, <2>1, CloseAlone DEF Read, Call, dbVars, histVars, CallTypes
<1>2. ASSUME NEW p \in Proc, NEW i \in Issue, NEW s \in State,
             NEW q \in (live \cup {None}) \ {i}, Ask(p, i, s, q)
      PROVE  CloseOK'
  <2>1. CloseOf(p)'
    BY <1>2 DEF Ask, Call, CloseOf, CallTypes
  <2>2. QED
    BY <1>2, <2>1, CloseAlone DEF Ask, Call, dbVars, histVars, CallTypes
<1>3. ASSUME NEW p \in Proc, NEW S \in SUBSET Issue, NEW s \in State, ReadBulk(p, S, s)
      PROVE  CloseOK'
  <2>1. CloseOf(p)'
    BY <1>3 DEF ReadBulk, Call, CloseOf, CallTypes
  <2>2. QED
    BY <1>3, <2>1, CloseAlone DEF ReadBulk, Call, dbVars, histVars, CallTypes
<1>4. ASSUME NEW p \in Proc, Write(p) PROVE CloseOK'
  <2>1. job[p] \in Issue /\ picked[p] = {}
    BY <1>4 DEF Write, JobOK, SnapOK
  <2>2. Stamped(row[job[p]], snap[p][job[p]], to[p]).st = to[p]
    BY <2>1, StampedOK DEF DbTypes, CallTypes
  <2>3. pc'[p] = "ascending" => parent[job[p]] \in Issue
    BY <1>4, <2>1 DEF Write, ParentIsDue, DbTypes, CallTypes
  <2>4. pc'[p] \in {"ascending", "descending"} => to[p] \in Terminal
    BY <1>4 DEF Write, CallTypes
  <2>5. pc'[p] \in {"ascending", "descending", "committing"}
    BY <1>4 DEF Write, CallTypes
  <2>6. /\ held'[p] = {job[p]} /\ up'[p] = parent[job[p]] /\ to'[p] = to[p] /\ picked'[p] = {}
        /\ dirty'[p][job[p]] = Stamped(row[job[p]], snap[p][job[p]], to[p])
    BY <1>4, <2>1 DEF Write, CallTypes
  <2>7. Done(dirty'[p][job[p]]) <=> to[p] \in Terminal
    BY <2>2, <2>6 DEF Done
  <2>8. CloseOf(p)'
    BY <2>3, <2>4, <2>5, <2>6, <2>7 DEF CloseOf
  <2>9. QED
    BY <1>4, <2>8, CloseAlone DEF Write, dbVars, histVars, CallTypes
<1>5. ASSUME NEW p \in Proc, ReadParent(p) PROVE CloseOK'
  <2>0. CloseOf(p)
    BY DEF CloseOK
  <2>1. up[p] \in Issue
    BY <1>5, <2>0 DEF ReadParent, CloseOf
  <2>2. up[p] \in held[p] => Done(View(p)[up[p]])
    BY <1>5, <2>0, <2>1 DEF ReadParent, View, CloseOf
  <2>3. up[p] \notin held[p] => View(p)[up[p]] = row[up[p]]
    BY <2>1 DEF View
  <2>4. CloseOf(p)'
    BY <1>5, <2>0, <2>1, <2>2, <2>3 DEF ReadParent, dbVars, CloseOf, CallTypes
  <2>5. QED
    BY <1>5, <2>4, CloseAlone DEF ReadParent, dbVars, histVars, CallTypes
<1>6. ASSUME NEW p \in Proc, CloseParent(p) PROVE CloseOK'
  <2>0. CloseOf(p)
    BY DEF CloseOK
  <2>1. up[p] \in Issue /\ View(p)[up[p]] \in Row
    BY <1>6, <2>0, ViewType DEF CloseParent, CloseOf
  <2>2. Done(Closed(View(p)[up[p]], "completed"))
    BY <2>1, ClosedOK DEF Done, Terminal, State
  <2>3. /\ held'[p] = held[p] \cup {up[p]}
        /\ \A i \in Issue : dirty'[p][i] = IF i = up[p] THEN Closed(View(p)[up[p]], "completed")
                                           ELSE dirty[p][i]
        /\ pc'[p] = "descending" /\ to'[p] = to[p]
    BY <1>6, <2>1 DEF CloseParent, CallTypes
  <2>4. held[p] \subseteq Issue /\ to[p] \in Terminal /\ \A i \in held[p] : Done(dirty[p][i])
    BY <1>6, <2>0 DEF CloseParent, CloseOf, CallTypes
  <2>5. CloseOf(p)'
    BY <2>1, <2>2, <2>3, <2>4 DEF CloseOf
  <2>6. QED
    BY <1>6, <2>5, CloseAlone DEF CloseParent, dbVars, histVars, CallTypes
<1>7. ASSUME NEW p \in Proc, ReadChildren(p) PROVE CloseOK'
  <2>0. CloseOf(p)
    BY DEF CloseOK
  <2>1. \A i \in ToClose(p) : i \in Issue /\ ~ Done(View(p)[i])
    BY DEF ToClose, Siblings, DbTypes
  <2>2. \A i \in held[p] \cap Issue : Done(View(p)[i])
    BY <1>7, <2>0 DEF ReadChildren, CloseOf, View
  <2>3. \A i \in ToClose(p) : i \notin held[p] /\ ~ Done(row[i])
    BY <2>1, <2>2 DEF View
  <2>4. CloseOf(p)'
    BY <1>7, <2>0, <2>1, <2>3 DEF ReadChildren, Only, CloseOf, CallTypes
  <2>5. QED
    BY <1>7, <2>4, CloseAlone DEF ReadChildren, dbVars, histVars, CallTypes
<1>8. ASSUME NEW p \in Proc, Insert(p) PROVE CloseOK'
  <2>1. {job[p]} \in SUBSET Issue
    BY <1>8 DEF Insert, JobOK
  <2>2. \A i \in Issue \ {job[p]} : row'[i] = row[i]
    BY <1>8 DEF Insert, DbTypes
  <2>3. QED
    BY <1>8, <2>1, <2>2, CloseCommit DEF Insert
<1>9. ASSUME NEW p \in Proc, CommitUpdate(p) PROVE CloseOK'
  <2>1. held[p] \cup picked[p] \in SUBSET Issue
    BY DEF CallTypes
  <2>2. \A i \in Issue \ (held[p] \cup picked[p]) : row'[i] = row[i]
    BY <1>9 DEF CommitUpdate, View
  <2>3. QED
    BY <1>9, <2>1, <2>2, CloseCommit DEF CommitUpdate
<1>10. ASSUME NEW p \in Proc, CommitBulk(p) PROVE CloseOK'
  <2>1. picked[p] \cap live \in SUBSET Issue
    BY DEF CallTypes
  <2>2. \A i \in Issue \ (picked[p] \cap live) : row'[i] = row[i]
    BY <1>10 DEF CommitBulk
  <2>3. QED
    BY <1>10, <2>1, <2>2, CloseCommit DEF CommitBulk
<1>11. ASSUME NEW i \in Issue, NEW r, WriteOne(i, r) PROVE CloseOK'
  <2>1. \A j \in Issue \ {i} : row'[j] = row[j]
    BY <1>11 DEF WriteOne, DbTypes
  <2>2. QED
    BY <1>11, <2>1, CloseOutside DEF WriteOne
<1>12. ASSUME NEW i \in Issue, Delete(i) PROVE CloseOK'
  <2>1. {c \in live : c = i \/ parent[c] = i} \in SUBSET Issue
    BY DEF DbTypes
  <2>2. \A j \in Issue \ {c \in live : c = i \/ parent[c] = i} : row'[j] = row[j]
    BY <1>12 DEF Delete, DbTypes
  <2>3. QED
    BY <1>12, <2>1, <2>2, CloseOutside DEF Delete
<1>13. ASSUME NEW p \in Proc, Abort(p) PROVE CloseOK'
  <2>1. CloseOf(p)'
    BY <1>13 DEF Abort, End, CloseOf, CallTypes
  <2>2. QED
    BY <1>13, <2>1, CloseAlone DEF Abort, End, dbVars, CallTypes, HistTypes
<1>14. ASSUME UNCHANGED vars PROVE CloseOK'
  BY <1>14 DEF vars, dbVars, callVars, histVars, CloseOK, CloseOf
<1>15. QED
  BY <1>1, <1>2, <1>3, <1>4, <1>5, <1>6, <1>7, <1>8, <1>9, <1>10, <1>11, <1>12, <1>13, <1>14
     DEF Next, Archive, Unarchive, Reparent

LEMMA DirtyFrame ==
    ASSUME NEW q \in Proc, raced \subseteq raced', held'[q] = held[q], dirty'[q] = dirty[q],
           overlap[q] \subseteq overlap'[q] \/ held[q] = {},
           \A i \in held[q] \ (overlap[q] \cup raced) : Match(dirty[q][i])
    PROVE  \A i \in held'[q] \ (overlap'[q] \cup raced') : Match(dirty'[q][i])
OBVIOUS

LEMMA DirtyCommit ==
    ASSUME CallTypes, HistTypes, DirtyOK, NEW W \in SUBSET Issue, NEW p \in Proc,
           CommitBy(p, W), End(p)
    PROVE  DirtyOK'
<1>1. ASSUME NEW q \in Proc \ {p}
      PROVE  /\ pc'[q] = pc[q] /\ held'[q] = held[q] /\ dirty'[q] = dirty[q]
             /\ overlap[q] \subseteq overlap'[q] \/ held[q] = {}
  BY DEF CommitBy, Committed, End, CallTypes, DirtyOK
<1>2. held'[p] = {}
  BY DEF End, CallTypes
<1>3. raced \subseteq raced'
  BY DEF CommitBy
<1>4. QED
  BY <1>1, <1>2, <1>3, DirtyFrame DEF DirtyOK

LEMMA DirtyOutside ==
    ASSUME DirtyOK, NEW W, overlap' = Committed(W), UNCHANGED <<callVars, raced>>
    PROVE  DirtyOK'
<1>1. ASSUME NEW q \in Proc PROVE overlap[q] \subseteq overlap'[q] \/ held[q] = {}
  BY DEF Committed, DirtyOK
<1>2. QED
  BY <1>1, DirtyFrame DEF DirtyOK, callVars

LEMMA DirtyStep ==
    ASSUME DbTypes, CallTypes, HistTypes, JobOK, LockOK, SnapOK, CloseOK, DirtyOK,
           StampsMatchState, [Next]_vars
    PROVE  DirtyOK'
<1>1. ASSUME UNCHANGED <<held, dirty, overlap, raced>>,
             \A q \in Proc : pc'[q] = "idle" => pc[q] = "idle"
      PROVE  DirtyOK'
  BY <1>1 DEF DirtyOK
<1>2. ASSUME NEW p \in Proc, NEW i \in Issue, NEW s \in State, Read(p, i, s) PROVE DirtyOK'
  BY <1>1, <1>2 DEF Read, Call, histVars, CallTypes
<1>3. ASSUME NEW p \in Proc, NEW i \in Issue, NEW s \in State,
             NEW q \in (live \cup {None}) \ {i}, Ask(p, i, s, q)
      PROVE  DirtyOK'
  BY <1>1, <1>3 DEF Ask, Call, histVars, CallTypes
<1>4. ASSUME NEW p \in Proc, NEW S \in SUBSET Issue, NEW s \in State, ReadBulk(p, S, s)
      PROVE  DirtyOK'
  BY <1>1, <1>4 DEF ReadBulk, Call, histVars, CallTypes
<1>5. ASSUME NEW p \in Proc, ReadParent(p) \/ ReadChildren(p) PROVE DirtyOK'
  BY <1>1, <1>5 DEF ReadParent, ReadChildren, histVars, CallTypes
<1>6. ASSUME NEW p \in Proc, Write(p) PROVE DirtyOK'
  <2>1. job[p] \in Issue /\ job[p] \in live
    BY <1>6 DEF Write, JobOK
  <2>2. ASSUME job[p] \notin overlap[p] \cup raced
        PROVE  Match(Stamped(row[job[p]], snap[p][job[p]], to[p]))
    <3>1. snap[p][job[p]] = row[job[p]]
      BY <1>6, <2>2 DEF Write, SnapOK
    <3>2. Match(row[job[p]])
      BY <2>1, <2>2, StampsAre
    <3>3. QED
      BY <2>1, <3>1, <3>2, StampedOK DEF DbTypes, CallTypes
  <2>3. /\ held'[p] = {job[p]} /\ pc'[p] # "idle"
        /\ dirty'[p][job[p]] = Stamped(row[job[p]], snap[p][job[p]], to[p])
    BY <1>6, <2>1 DEF Write, CallTypes
  <2>4. UNCHANGED <<overlap, raced>>
    BY <1>6 DEF Write, histVars
  <2>5. \A q \in Proc \ {p} : pc'[q] = pc[q] /\ held'[q] = held[q] /\ dirty'[q] = dirty[q]
    BY <1>6 DEF Write, CallTypes
  <2>6. QED
    BY <2>2, <2>3, <2>4, <2>5 DEF DirtyOK
<1>7. ASSUME NEW p \in Proc, CloseParent(p) PROVE DirtyOK'
  <2>1. /\ up[p] \in Issue /\ up[p] \in live /\ up[p] \notin held[p]
        /\ up[p] \notin overlap[p] => ~ Done(row[up[p]])
    BY <1>7 DEF CloseParent, CloseOK, CloseOf
  <2>2. View(p)[up[p]] = row[up[p]]
    BY <2>1 DEF View
  <2>3. ASSUME up[p] \notin overlap[p] \cup raced
        PROVE  Match(Closed(row[up[p]], "completed"))
    <3>1. Match(row[up[p]]) /\ ~ Done(row[up[p]])
      BY <2>1, <2>3, StampsAre
    <3>2. QED
      BY <2>1, <3>1, ClosedOK DEF DbTypes, State, Terminal
  <2>4. /\ held'[p] = held[p] \cup {up[p]} /\ pc'[p] # "idle"
        /\ \A i \in Issue : dirty'[p][i] = IF i = up[p] THEN Closed(row[up[p]], "completed")
                                           ELSE dirty[p][i]
    BY <1>7, <2>1, <2>2 DEF CloseParent, CallTypes
  <2>5. UNCHANGED <<overlap, raced>>
    BY <1>7 DEF CloseParent, histVars
  <2>6. \A q \in Proc \ {p} : pc'[q] = pc[q] /\ held'[q] = held[q] /\ dirty'[q] = dirty[q]
    BY <1>7 DEF CloseParent, CallTypes
  <2>7. \A i \in held'[p] \ (overlap'[p] \cup raced') : Match(dirty'[p][i])
    BY <2>1, <2>3, <2>4, <2>5 DEF DirtyOK, CallTypes
  <2>8. QED
    BY <2>4, <2>5, <2>6, <2>7 DEF DirtyOK
<1>8. ASSUME NEW p \in Proc, Insert(p) \/ CommitUpdate(p) \/ CommitBulk(p) PROVE DirtyOK'
  <2>1. \E W \in SUBSET Issue : CommitBy(p, W)
    <3>1. CASE Insert(p)
      BY <3>1 DEF Insert, JobOK
    <3>2. CASE CommitUpdate(p)
      BY <3>2 DEF CommitUpdate, CallTypes
    <3>3. CASE CommitBulk(p)
      BY <3>3 DEF CommitBulk, CallTypes
    <3>4. QED
      BY <1>8, <3>1, <3>2, <3>3
  <2>2. End(p)
    BY <1>8 DEF Insert, CommitUpdate, CommitBulk
  <2>3. QED
    BY <2>1, <2>2, DirtyCommit
<1>9. ASSUME NEW i \in Issue, NEW r, WriteOne(i, r) PROVE DirtyOK'
  BY <1>9, DirtyOutside DEF WriteOne
<1>10. ASSUME NEW i \in Issue, Delete(i) PROVE DirtyOK'
  BY <1>10, DirtyOutside DEF Delete
<1>11. ASSUME NEW p \in Proc, Abort(p) PROVE DirtyOK'
  BY <1>11 DEF Abort, End, DirtyOK, CallTypes, HistTypes
<1>12. ASSUME UNCHANGED vars PROVE DirtyOK'
  BY <1>1, <1>12 DEF vars, callVars, histVars
<1>13. QED
  BY <1>2, <1>3, <1>4, <1>5, <1>6, <1>7, <1>8, <1>9, <1>10, <1>11, <1>12
     DEF Next, Archive, Unarchive, Reparent

LEMMA StampStep ==
    ASSUME DbTypes, CallTypes, HistTypes, JobOK, LockOK, SnapOK, CloseOK, DirtyOK,
           StampsMatchState, [Next]_vars
    PROVE  StampsMatchState'
<1>0. \A i \in live \ raced : Match(row[i])
  BY StampsAre
<1>1. SUFFICES \A i \in live' \ raced' : Match(row'[i])
  BY DEF StampsMatchState, Match
<1>2. ASSUME NEW p \in Proc, Insert(p) PROVE \A i \in live' \ raced' : Match(row'[i])
  <2>1. Match(NewRow(to[p]))
    BY NewRowOK DEF CallTypes
  <2>2. job[p] \in Issue /\ raced \subseteq raced'
    BY <1>2 DEF Insert, CommitBy, JobOK
  <2>3. row' = [row EXCEPT ![job[p]] = NewRow(to[p])] /\ live' = live \cup {job[p]}
    BY <1>2 DEF Insert
  <2>4. ASSUME NEW i \in live' \ raced' PROVE Match(row'[i])
    <3>1. CASE i = job[p]
      <4>1. row'[i] = NewRow(to[p])
        BY <2>2, <2>3, <3>1 DEF DbTypes
      <4>2. QED
        BY <2>1, <4>1
    <3>2. CASE i # job[p]
      <4>1. i \in live \ raced /\ i \in Issue
        BY <2>2, <2>3, <3>2 DEF DbTypes
      <4>2. row'[i] = row[i]
        BY <2>3, <3>2, <4>1 DEF DbTypes
      <4>3. QED
        BY <1>0, <4>1, <4>2
    <3>3. QED
      BY <3>1, <3>2
  <2>5. QED
    BY <2>4
<1>3. ASSUME NEW p \in Proc, CommitUpdate(p) PROVE \A i \in live' \ raced' : Match(row'[i])
  <2>1. live' = live /\ raced' = raced \cup ((held[p] \cup picked[p]) \cap overlap[p])
    BY <1>3 DEF CommitUpdate, CommitBy
  <2>2. ASSUME NEW i \in live' \ raced' PROVE Match(row'[i])
    <3>1. i \in Issue /\ i \in live \ raced /\ Match(row[i])
      BY <1>0, <2>1 DEF DbTypes
    <3>2. CASE i \in picked[p]
      <4>1. snap[p][i] = row[i]
        BY <2>1, <3>2 DEF SnapOK
      <4>2. ~ Done(row[i]) /\ to[p] \in Terminal
        BY <1>3, <3>2, <4>1 DEF CommitUpdate, CloseOK, CloseOf
      <4>3. row'[i] = Closed(row[i], to[p])
        BY <1>3, <3>1, <3>2 DEF CommitUpdate
      <4>4. QED
        BY <3>1, <4>2, <4>3, ClosedOK DEF DbTypes, CallTypes
    <3>3. CASE i \in held[p] \ picked[p]
      <4>1. row'[i] = dirty[p][i]
        BY <1>3, <3>1, <3>3 DEF CommitUpdate, View
      <4>2. QED
        BY <2>1, <3>3, <4>1 DEF DirtyOK
    <3>4. CASE i \notin held[p] \cup picked[p]
      <4>1. row'[i] = row[i]
        BY <1>3, <3>1, <3>4 DEF CommitUpdate, View
      <4>2. QED
        BY <3>1, <4>1
    <3>5. QED
      BY <3>2, <3>3, <3>4
  <2>3. QED
    BY <2>2
<1>4. ASSUME NEW p \in Proc, CommitBulk(p) PROVE \A i \in live' \ raced' : Match(row'[i])
  <2>1. live' = live /\ raced' = raced \cup ((picked[p] \cap live) \cap overlap[p])
    BY <1>4 DEF CommitBulk, CommitBy
  <2>2. ASSUME NEW i \in live' \ raced' PROVE Match(row'[i])
    <3>1. i \in Issue /\ i \in live \ raced /\ Match(row[i])
      BY <1>0, <2>1 DEF DbTypes
    <3>2. CASE i \in picked[p]
      <4>1. snap[p][i] = row[i]
        BY <2>1, <3>1, <3>2 DEF SnapOK
      <4>2. row'[i] = BulkStamped(row[i], row[i], to[p])
        BY <1>4, <3>1, <3>2, <4>1 DEF CommitBulk
      <4>3. QED
        BY <3>1, <4>2, BulkStampedOK DEF DbTypes, CallTypes
    <3>3. CASE i \notin picked[p]
      BY <1>4, <3>1, <3>3 DEF CommitBulk
    <3>4. QED
      BY <3>2, <3>3
  <2>3. QED
    BY <2>2
<1>5. ASSUME NEW i \in Issue, NEW r, WriteOne(i, r), Match(row[i]) => Match(r)
      PROVE  \A j \in live' \ raced' : Match(row'[j])
  BY <1>0, <1>5 DEF WriteOne, DbTypes
<1>6. ASSUME NEW i \in Issue, Archive(i) \/ Unarchive(i) PROVE \A j \in live' \ raced' : Match(row'[j])
  <2>1. /\ Match(row[i]) => Match([row[i] EXCEPT !.archivedAt = TRUE])
        /\ Match(row[i]) => Match([row[i] EXCEPT !.archivedAt = FALSE])
    BY ArchivedOK DEF DbTypes
  <2>2. QED
    BY <1>5, <1>6, <2>1 DEF Archive, Unarchive
<1>7. ASSUME NEW i \in Issue, NEW q \in Issue \cup {None}, Reparent(i, q)
      PROVE  \A j \in live' \ raced' : Match(row'[j])
  BY <1>5, <1>7 DEF Reparent
<1>8. ASSUME NEW i \in Issue, Delete(i) PROVE \A j \in live' \ raced' : Match(row'[j])
  BY <1>0, <1>8 DEF Delete, DbTypes
<1>9. ASSUME UNCHANGED <<live, row, raced>> PROVE \A j \in live' \ raced' : Match(row'[j])
  BY <1>0, <1>9
<1>10. QED
  BY <1>2, <1>3, <1>4, <1>6, <1>7, <1>8, <1>9
     DEF Next, Read, Ask, ReadBulk, Write, ReadParent, CloseParent, ReadChildren, Abort, dbVars,
         histVars, vars

LEMMA InitStamps == Init => CloseOK /\ DirtyOK /\ StampsMatchState
<1> SUFFICES ASSUME Init PROVE CloseOK /\ DirtyOK /\ StampsMatchState
  OBVIOUS
<1>1. CloseOK /\ DirtyOK
  BY DEF Init, CloseOK, CloseOf, DirtyOK
<1>2. \A i \in live : Match(row[i])
  <2>1. \A r \in {NewRow(s) : s \in InitialStates} \cup {Blank} : Match(r)
    <3>1. \A s \in InitialStates : Match(NewRow(s))
      BY NewRowOK, IssuesAssumption DEF State
    <3>2. QED
      BY <3>1, BlankOK
  <2>2. live \subseteq Issue /\ row \in [Issue -> {NewRow(s) : s \in InitialStates} \cup {Blank}]
    BY DEF Init
  <2>3. QED
    BY <2>1, <2>2
<1>3. QED
  BY <1>1, <1>2, StampsAre
-----------------------------------------------------------------------------
\* The cascades

\* Past its write, an update that closes an issue holds it; what it found
\* below it and above it still is so, but for what others have written since.
Closing(p) ==
    pc[p] \in {"ascending", "closing parent", "descending", "committing"} /\ to[p] \in Terminal

ScanOf(p) ==
    Closing(p) =>
        /\ job[p] \in held[p]
        /\ \A i \in held[p] : Done(dirty[p][i])
        /\ pc[p] = "committing" => \A i \in picked[p] \ overlap[p] : i \in live /\ parent[i] = job[p]
        /\ pc[p] = "committing" /\ AutoCloseChildren =>
              \A c \in Siblings(View(p), job[p]) \ overlap[p] : c \in picked[p] \/ Done(View(p)[c])
        /\ pc[p] \in {"descending", "committing"} /\ overlap[p] = {} /\ AutoCloseParents
           /\ up[p] # None /\ Siblings(View(p), up[p]) # {}
           /\ (\A c \in Siblings(View(p), up[p]) : Done(View(p)[c]))
           => Done(View(p)[up[p]])

ScanOK == \A p \in Proc : ScanOf(p)

LEMMA ScanFrame ==
    ASSUME DbTypes, CallTypes, NEW q \in Proc, ScanOf(q), NEW W \in SUBSET Issue, live' \subseteq Issue,
           \A i \in Issue \ W : /\ row'[i] = row[i] /\ (i \in live' <=> i \in live)
                                /\ i \in live => parent'[i] = parent[i],
           pc[q] = "idle" \/ overlap'[q] = overlap[q] \cup W,
           pc'[q] = pc[q], job'[q] = job[q], to'[q] = to[q], up'[q] = up[q],
           picked'[q] = picked[q], held'[q] = held[q], dirty'[q] = dirty[q]
    PROVE  ScanOf(q)'
<1> SUFFICES ASSUME Closing(q)' PROVE ScanOf(q)'
  BY DEF ScanOf
<1>1. Closing(q) /\ overlap'[q] = overlap[q] \cup W
  BY DEF Closing
<1>2. \A i \in Issue \ W : View(q)'[i] = View(q)[i]
  BY DEF View
<1>3. picked[q] \subseteq Issue /\ live \subseteq Issue /\ up[q] \in Issue \cup {None}
  BY DEF CallTypes, DbTypes
<1>4. job'[q] \in held'[q] /\ \A i \in held'[q] : Done(dirty'[q][i])
  BY <1>1 DEF ScanOf
<1>5. ASSUME pc'[q] = "committing", NEW i \in picked'[q] \ overlap'[q]
      PROVE  i \in live' /\ parent'[i] = job'[q]
  BY <1>1, <1>3, <1>5 DEF ScanOf
<1>6. ASSUME pc'[q] = "committing", AutoCloseChildren,
             NEW c \in Siblings(View(q), job[q])' \ overlap'[q]
      PROVE  c \in picked'[q] \/ Done(View(q)'[c])
  <2>1. c \in Issue \ W /\ c \in live' /\ parent'[c] = job[q] /\ ~ View(q)'[c].archivedAt
    BY <1>1, <1>6 DEF Siblings
  <2>2. c \in Siblings(View(q), job[q]) \ overlap[q] /\ View(q)'[c] = View(q)[c]
    BY <1>1, <1>2, <2>1 DEF Siblings
  <2>3. QED
    BY <1>1, <1>6, <2>2 DEF ScanOf
<1>7. ASSUME pc'[q] \in {"descending", "committing"}, overlap'[q] = {}, AutoCloseParents,
             up'[q] # None, Siblings(View(q), up[q])' # {},
             \A c \in Siblings(View(q), up[q])' : Done(View(q)'[c])
      PROVE  Done(View(q)'[up'[q]])
  <2>1. W = {} /\ overlap[q] = {}
    BY <1>1, <1>7
  <2>2. live' = live /\ \A i \in Issue : View(q)'[i] = View(q)[i]
    BY <1>2, <1>3, <2>1
  <2>3. \A i \in live : parent'[i] = parent[i]
    BY <1>3, <2>1
  <2>4. Siblings(View(q), up[q])' = Siblings(View(q), up[q])
    BY <1>1, <1>3, <2>2, <2>3 DEF Siblings
  <2>5. \A c \in Siblings(View(q), up[q]) : Done(View(q)[c])
    BY <1>3, <1>7, <2>2, <2>4 DEF Siblings
  <2>6. Done(View(q)[up[q]])
    BY <1>1, <1>7, <2>1, <2>4, <2>5 DEF ScanOf
  <2>7. QED
    BY <1>3, <1>7, <2>2, <2>6
<1>8. QED
  BY <1>4, <1>5, <1>6, <1>7 DEF ScanOf

\* A step of p that commits nothing.
LEMMA ScanAlone ==
    ASSUME DbTypes, CallTypes, ScanOK, NEW p \in Proc, ScanOf(p)', UNCHANGED dbVars,
           \A q \in Proc \ {p} :
               /\ pc'[q] = pc[q] /\ job'[q] = job[q] /\ to'[q] = to[q] /\ up'[q] = up[q]
               /\ picked'[q] = picked[q] /\ held'[q] = held[q] /\ dirty'[q] = dirty[q]
               /\ overlap'[q] = overlap[q]
    PROVE  ScanOK'
<1>1. ASSUME NEW q \in Proc \ {p} PROVE ScanOf(q)'
  <2>1. {} \in SUBSET Issue /\ live' \subseteq Issue /\ overlap'[q] = overlap[q] \cup {}
    BY DEF DbTypes, dbVars
  <2>2. \A i \in Issue : row'[i] = row[i] /\ parent'[i] = parent[i] /\ (i \in live' <=> i \in live)
    BY DEF dbVars
  <2>3. QED
    BY <2>1, <2>2, ScanFrame DEF ScanOK
<1>2. QED
  BY <1>1 DEF ScanOK

LEMMA ScanCommit ==
    ASSUME DbTypes, CallTypes, ScanOK, NEW W \in SUBSET Issue, NEW p \in Proc, live' \subseteq Issue,
           \A i \in Issue \ W : /\ row'[i] = row[i] /\ (i \in live' <=> i \in live)
                                /\ i \in live => parent'[i] = parent[i],
           CommitBy(p, W), End(p)
    PROVE  ScanOK'
<1>1. ASSUME NEW q \in Proc \ {p} PROVE ScanOf(q)'
  <2>1. pc[q] = "idle" \/ overlap'[q] = overlap[q] \cup W
    BY DEF CommitBy, Committed
  <2>2. /\ pc'[q] = pc[q] /\ job'[q] = job[q] /\ to'[q] = to[q] /\ up'[q] = up[q]
        /\ picked'[q] = picked[q] /\ held'[q] = held[q] /\ dirty'[q] = dirty[q]
    BY DEF End, CallTypes
  <2>3. QED
    BY <2>1, <2>2, ScanFrame DEF ScanOK
<1>2. ScanOf(p)'
  BY DEF End, CallTypes, ScanOf, Closing
<1>3. QED
  BY <1>1, <1>2 DEF ScanOK

LEMMA ScanOutside ==
    ASSUME DbTypes, CallTypes, ScanOK, NEW W \in SUBSET Issue, live' \subseteq Issue,
           \A i \in Issue \ W : /\ row'[i] = row[i] /\ (i \in live' <=> i \in live)
                                /\ i \in live => parent'[i] = parent[i],
           overlap' = Committed(W), UNCHANGED callVars
    PROVE  ScanOK'
<1>1. ASSUME NEW q \in Proc PROVE ScanOf(q)'
  <2>1. pc[q] = "idle" \/ overlap'[q] = overlap[q] \cup W
    BY DEF Committed
  <2>2. QED
    BY <2>1, ScanFrame DEF ScanOK, callVars
<1>2. QED
  BY <1>1 DEF ScanOK

LEMMA ScanStep ==
    ASSUME DbTypes, CallTypes, HistTypes, JobOK, LockOK, SnapOK, CloseOK, ScanOK, DbTypes', [Next]_vars
    PROVE  ScanOK'
<1>0. live' \subseteq Issue
  BY DEF DbTypes
<1>1. ASSUME NEW p \in Proc, NEW i \in Issue, NEW s \in State, Read(p, i, s) PROVE ScanOK'
  <2>1. ScanOf(p)'
    BY <1>1 DEF Read, Call, ScanOf, Closing, CallTypes
  <2>2. QED
    BY <1>1, <2>1, ScanAlone DEF Read, Call, histVars, CallTypes
<1>2. ASSUME NEW p \in Proc, NEW i \in Issue, NEW s \in State,
             NEW q \in (live \cup {None}) \ {i}, Ask(p, i, s, q)
      PROVE  ScanOK'
  <2>1. ScanOf(p)'
    BY <1>2 DEF Ask, Call, ScanOf, Closing, CallTypes
  <2>2. QED
    BY <1>2, <2>1, ScanAlone DEF Ask, Call, histVars, CallTypes
<1>3. ASSUME NEW p \in Proc, NEW S \in SUBSET Issue, NEW s \in State, ReadBulk(p, S, s)
      PROVE  ScanOK'
  <2>1. ScanOf(p)'
    BY <1>3 DEF ReadBulk, Call, ScanOf, Closing, CallTypes
  <2>2. QED
    BY <1>3, <2>1, ScanAlone DEF ReadBulk, Call, histVars, CallTypes
<1>4. ASSUME NEW p \in Proc, Write(p) PROVE ScanOK'
  <2> DEFINE new == Stamped(row[job[p]], snap[p][job[p]], to[p])
  <2>1. job[p] \in Issue /\ parent[job[p]] \in Issue \cup {None} /\ new.st = to[p]
    <3>1. job[p] \in Issue
      BY <1>4 DEF Write, JobOK
    <3>2. row[job[p]] \in Row /\ snap[p][job[p]] \in Row /\ to[p] \in State
      BY <3>1 DEF DbTypes, CallTypes
    <3>3. QED
      BY <3>1, <3>2, StampedOK DEF DbTypes
  <2>2. /\ held'[p] = {job[p]} /\ dirty'[p][job[p]] = new /\ job'[p] = job[p] /\ to'[p] = to[p]
        /\ up'[p] = parent[job[p]] /\ UNCHANGED dbVars
    BY <1>4, <2>1 DEF Write, CallTypes
  <2>3. Closing(p)' => pc'[p] \in {"ascending", "descending"} /\ to[p] \in Terminal
    BY <1>4, <2>2 DEF Write, Closing, CallTypes
  <2>4. pc'[p] = "descending" => ~ ParentIsDue([row EXCEPT ![job[p]] = new], parent[job[p]])
    BY <1>4 DEF Write, CallTypes
  <2>5. View(p)' = [row EXCEPT ![job[p]] = new]
    BY <2>1, <2>2 DEF View, DbTypes, dbVars
  <2>6. Siblings(View(p), up[p])' = Siblings([row EXCEPT ![job[p]] = new], parent[job[p]])
    BY <2>2, <2>5 DEF Siblings, dbVars
  <2>7. \A i \in held'[p] : Done(dirty'[p][i]) \/ to[p] \notin Terminal
    BY <2>1, <2>2 DEF Done
  <2>8. ASSUME Closing(p)', pc'[p] \in {"descending", "committing"}, AutoCloseParents,
               up'[p] # None, Siblings(View(p), up[p])' # {},
               \A c \in Siblings(View(p), up[p])' : Done(View(p)'[c])
        PROVE  FALSE
    BY <2>2, <2>3, <2>4, <2>5, <2>6, <2>8 DEF ParentIsDue
  <2>9. ScanOf(p)'
    BY <2>2, <2>3, <2>7, <2>8 DEF ScanOf
  <2>10. QED
    BY <1>4, <2>9, ScanAlone DEF Write, histVars, CallTypes
<1>5. ASSUME NEW p \in Proc, ReadParent(p) PROVE ScanOK'
  <2>1. /\ View(p)' = View(p) /\ up'[p] = up[p] /\ held'[p] = held[p] /\ dirty'[p] = dirty[p]
        /\ job'[p] = job[p] /\ to'[p] = to[p]
    BY <1>5 DEF ReadParent, dbVars, View
  <2>2. pc'[p] = "closing parent" \/ (pc'[p] = "descending" /\ Done(View(p)'[up'[p]]))
    <3>1. CASE Done(View(p)[up[p]])
      <4>1. pc'[p] = "descending"
        BY <1>5, <3>1 DEF ReadParent, CallTypes
      <4>2. View(p)'[up'[p]] = View(p)[up[p]]
        BY <2>1
      <4>3. Done(View(p)'[up'[p]])
        BY <3>1, <4>2 DEF Done
      <4>4. QED
        BY <4>1, <4>3
    <3>2. CASE ~ Done(View(p)[up[p]])
      BY <1>5, <3>2 DEF ReadParent, CallTypes
    <3>3. QED
      BY <3>1, <3>2
  <2>3. Closing(p)' => Closing(p)
    BY <1>5, <2>1 DEF ReadParent, Closing
  <2>4. ScanOf(p)'
    BY <2>1, <2>2, <2>3 DEF ScanOf, ScanOK
  <2>5. QED
    BY <1>5, <2>4, ScanAlone DEF ReadParent, histVars, CallTypes
<1>6. ASSUME NEW p \in Proc, CloseParent(p) PROVE ScanOK'
  <2>1. up[p] \in Issue
    BY <1>6 DEF CloseParent, DbTypes
  <2>2. Closed(View(p)[up[p]], "completed").st = "completed"
    BY <2>1, ClosedOK, ViewType DEF State
  <2>3. /\ held'[p] = held[p] \cup {up[p]} /\ up'[p] = up[p] /\ job'[p] = job[p] /\ to'[p] = to[p]
        /\ pc'[p] = "descending" /\ Done(dirty'[p][up[p]])
        /\ \A i \in held[p] \ {up[p]} : dirty'[p][i] = dirty[p][i]
    BY <1>6, <2>1, <2>2 DEF CloseParent, CallTypes, Done, Terminal
  <2>4. View(p)'[up[p]] = dirty'[p][up[p]]
    BY <2>1, <2>3 DEF View
  <2>5. Closing(p)' => Closing(p)
    BY <1>6, <2>3 DEF CloseParent, Closing
  <2>6. Closing(p) => job[p] \in held[p] /\ \A i \in held[p] : Done(dirty[p][i])
    BY DEF ScanOK, ScanOf
  <2>7. ScanOf(p)'
    BY <2>3, <2>4, <2>5, <2>6 DEF ScanOf
  <2>8. QED
    BY <1>6, <2>7, ScanAlone DEF CloseParent, histVars, CallTypes
<1>7. ASSUME NEW p \in Proc, ReadChildren(p) PROVE ScanOK'
  <2>1. /\ View(p)' = View(p) /\ up'[p] = up[p] /\ held'[p] = held[p] /\ dirty'[p] = dirty[p]
        /\ job'[p] = job[p] /\ to'[p] = to[p] /\ pc[p] = "descending" /\ overlap' = overlap
        /\ UNCHANGED dbVars
    BY <1>7 DEF ReadChildren, dbVars, histVars, View
  <2>2. picked'[p] = ToClose(p) /\ pc'[p] = "committing"
    BY <1>7 DEF ReadChildren, CallTypes
  <2>3. \A q : Siblings(View(p), q)' = Siblings(View(p), q)
    BY <2>1 DEF Siblings, dbVars
  <2>4. \A i \in ToClose(p) : i \in live /\ parent[i] = job[p]
    BY DEF ToClose, Siblings
  <2>5. AutoCloseChildren => \A c \in Siblings(View(p), job[p]) : c \in ToClose(p) \/ Done(View(p)[c])
    BY DEF ToClose
  <2>6. Closing(p)' => Closing(p)
    BY <2>1 DEF Closing
  <2>7. Siblings(View(p), job[p])' = Siblings(View(p), job[p])
        /\ Siblings(View(p), up[p])' = Siblings(View(p), up[p])
    BY <2>1 DEF Siblings, dbVars
  <2>8. ScanOf(p)'
    BY <2>1, <2>2, <2>4, <2>5, <2>6, <2>7 DEF ScanOf, ScanOK, dbVars
  <2>9. QED
    BY <1>7, <2>8, ScanAlone DEF ReadChildren, histVars, CallTypes
<1>8. ASSUME NEW p \in Proc, Insert(p) PROVE ScanOK'
  <2>1. job[p] \in Issue /\ {job[p]} \in SUBSET Issue
    BY <1>8 DEF Insert, JobOK
  <2>2. \A i \in Issue \ {job[p]} : /\ row'[i] = row[i] /\ (i \in live' <=> i \in live)
                                    /\ i \in live => parent'[i] = parent[i]
    BY <1>8, <2>1 DEF Insert, DbTypes
  <2>3. QED
    BY <1>0, <1>8, <2>1, <2>2, ScanCommit DEF Insert
<1>9. ASSUME NEW p \in Proc, CommitUpdate(p) PROVE ScanOK'
  <2>1. held[p] \cup picked[p] \in SUBSET Issue
    BY DEF CallTypes
  <2>2. \A i \in Issue \ (held[p] \cup picked[p]) :
           /\ row'[i] = row[i] /\ (i \in live' <=> i \in live)
           /\ i \in live => parent'[i] = parent[i]
    BY <1>9 DEF CommitUpdate, View
  <2>3. QED
    BY <1>0, <1>9, <2>1, <2>2, ScanCommit DEF CommitUpdate
<1>10. ASSUME NEW p \in Proc, CommitBulk(p) PROVE ScanOK'
  <2>1. picked[p] \cap live \in SUBSET Issue
    BY DEF CallTypes
  <2>2. \A i \in Issue \ (picked[p] \cap live) :
           /\ row'[i] = row[i] /\ (i \in live' <=> i \in live)
           /\ i \in live => parent'[i] = parent[i]
    BY <1>10 DEF CommitBulk
  <2>3. QED
    BY <1>0, <1>10, <2>1, <2>2, ScanCommit DEF CommitBulk
<1>11. ASSUME NEW i \in Issue, NEW r, WriteOne(i, r),
              \A j \in Issue \ {i} : parent'[j] = parent[j]
       PROVE  ScanOK'
  <2>1. \A j \in Issue \ {i} : /\ row'[j] = row[j] /\ (j \in live' <=> j \in live)
                               /\ j \in live => parent'[j] = parent[j]
    BY <1>11 DEF WriteOne, DbTypes
  <2>2. QED
    BY <1>0, <1>11, <2>1, ScanOutside DEF WriteOne
<1>12. ASSUME NEW i \in Issue, NEW q \in Issue \cup {None}, Reparent(i, q) PROVE ScanOK'
  <2>1. \A j \in Issue \ {i} : parent'[j] = parent[j]
    BY <1>12 DEF Reparent, DbTypes
  <2>2. QED
    BY <1>11, <1>12, <2>1 DEF Reparent
<1>13. ASSUME NEW i \in Issue, Archive(i) \/ Unarchive(i) PROVE ScanOK'
  BY <1>11, <1>13 DEF Archive, Unarchive
<1>14. ASSUME NEW i \in Issue, Delete(i) PROVE ScanOK'
  <2> DEFINE W == {c \in live : c = i \/ parent[c] = i}
  <2>1. W \in SUBSET Issue
    BY DEF DbTypes
  <2>2. \A j \in Issue \ W : /\ row'[j] = row[j] /\ (j \in live' <=> j \in live)
                             /\ j \in live => parent'[j] = parent[j]
    BY <1>14 DEF Delete, Orphaned, DbTypes
  <2>3. overlap' = Committed(W) /\ UNCHANGED callVars
    BY <1>14 DEF Delete
  <2>4. QED
    BY <1>0, <2>1, <2>2, <2>3, ScanOutside
<1>15. ASSUME NEW p \in Proc, Abort(p) PROVE ScanOK'
  <2>1. ScanOf(p)'
    BY <1>15 DEF Abort, End, ScanOf, Closing, CallTypes
  <2>2. QED
    BY <1>15, <2>1, ScanAlone DEF Abort, End, CallTypes, HistTypes
<1>16. ASSUME UNCHANGED vars PROVE ScanOK'
  <2>1. ASSUME NEW q \in Proc PROVE ScanOf(q)'
    <3>1. /\ pc'[q] = pc[q] /\ job'[q] = job[q] /\ to'[q] = to[q] /\ up'[q] = up[q]
          /\ picked'[q] = picked[q] /\ held'[q] = held[q] /\ dirty'[q] = dirty[q]
          /\ overlap'[q] = overlap[q] \cup {} /\ {} \in SUBSET Issue
      BY <1>16 DEF vars, callVars, histVars
    <3>2. \A i \in Issue \ {} : /\ row'[i] = row[i] /\ (i \in live' <=> i \in live)
                                /\ i \in live => parent'[i] = parent[i]
      BY <1>16 DEF vars, dbVars
    <3>3. QED
      BY <1>0, <3>1, <3>2, ScanFrame DEF ScanOK
  <2>2. QED
    BY <2>1 DEF ScanOK
<1>17. QED
  BY <1>1, <1>2, <1>3, <1>4, <1>5, <1>6, <1>7, <1>8, <1>9, <1>10, <1>12, <1>13, <1>14, <1>15,
     <1>16 DEF Next
IInvAll == IInv /\ CloseOK /\ DirtyOK /\ StampsMatchState /\ ScanOK

LEMMA Invariance == Spec => []IInvAll
<1>1. Init => ScanOK
  BY DEF Init, ScanOK, ScanOf, Closing
<1>2. Init => IInvAll
  BY <1>1, InitIInv, InitStamps DEF IInvAll
<1>3. IInvAll /\ [Next]_vars => IInvAll'
  <2> SUFFICES ASSUME IInvAll, [Next]_vars PROVE IInvAll'
    OBVIOUS
  <2>1. IInv' /\ DbTypes'
    BY IInvStep DEF IInvAll, IInv
  <2>2. CloseOK' /\ DirtyOK' /\ StampsMatchState'
    BY CloseStep, DirtyStep, StampStep DEF IInvAll, IInv
  <2>3. ScanOK'
    BY <2>1, ScanStep DEF IInvAll, IInv
  <2>4. QED
    BY <2>1, <2>2, <2>3 DEF IInvAll
<1>4. QED
  BY <1>2, <1>3, PTL DEF Spec

(***************************************************************************)
(* However an issue came to its state, its lifecycle stamps agree with it, *)
(* but for issues that two overlapping transactions have both recorded.    *)
(***************************************************************************)
THEOREM StampsAgree == Spec => []StampsMatchState
BY Invariance, PTL DEF IInvAll

\* What a closing update leaves behind.
LEMMA CommitFacts ==
    ASSUME IInvAll, NEW p \in Proc, CommitUpdate(p), to[p] \in Terminal
    PROVE  /\ Closing(p) /\ pc[p] = "committing"
           /\ live' = live /\ parent' = parent
           /\ \A i \in Issue : row'[i].archivedAt = View(p)[i].archivedAt
           /\ \A i \in picked[p] \cap live : Done(row'[i])
           /\ \A i \in Issue \ (picked[p] \cap live) : row'[i] = View(p)[i]
<1>1. Closing(p) /\ pc[p] = "committing" /\ live' = live /\ parent' = parent
  BY DEF CommitUpdate, Closing
<1>2. \A i \in Issue : row'[i] = IF i \in picked[p] \cap live THEN Closed(row[i], to[p]) ELSE View(p)[i]
  BY DEF CommitUpdate
<1>3. \A i \in Issue : /\ Closed(row[i], to[p]).st = to[p]
                       /\ Closed(row[i], to[p]).archivedAt = row[i].archivedAt
  <2>1. ASSUME NEW i \in Issue PROVE row[i] \in Row /\ to[p] \in State
    BY DEF IInvAll, IInv, DbTypes, CallTypes
  <2>2. ASSUME NEW r \in Row, NEW s \in State PROVE Closed(r, s).archivedAt = r.archivedAt
    BY DEF Closed, Row
  <2>3. QED
    BY <2>1, <2>2, ClosedOK
<1>4. \A i \in picked[p] : i \in Issue /\ i \notin held[p]
  BY <1>1 DEF IInvAll, IInv, CallTypes, CloseOK, CloseOf
<1>5. \A i \in picked[p] : View(p)[i] = row[i]
  BY <1>4 DEF View
<1>6. \A i \in Issue : row'[i].archivedAt = View(p)[i].archivedAt
  BY <1>2, <1>3, <1>5
<1>7. \A i \in picked[p] \cap live : Done(row'[i])
  BY <1>2, <1>3, <1>4 DEF Done
<1>8. QED
  BY <1>1, <1>2, <1>6, <1>7

(***************************************************************************)
(* Auto-close downwards: a committed close leaves a child open only if     *)
(* somebody else has written it since.                                     *)
(***************************************************************************)
THEOREM ChildrenAreClosed == Spec => ChildrenFollowParent
<1>1. ASSUME IInvAll
      PROVE  \A p \in Proc :
               CommitUpdate(p) /\ to[p] \in Terminal /\ AutoCloseChildren =>
                   \A c \in Siblings(row', job[p]) \ overlap[p] : Done(row'[c])
  <2> SUFFICES ASSUME NEW p \in Proc, CommitUpdate(p), to[p] \in Terminal, AutoCloseChildren,
                      NEW c \in Siblings(row', job[p]) \ overlap[p]
               PROVE  Done(row'[c])
    OBVIOUS
  <2>1. c \in live /\ c \in Issue /\ parent[c] = job[p] /\ ~ row'[c].archivedAt
    BY <1>1, CommitFacts DEF Siblings, IInvAll, IInv, DbTypes
  <2>2. c \in Siblings(View(p), job[p]) \ overlap[p]
    BY <1>1, <2>1, CommitFacts DEF Siblings
  <2>3. c \in picked[p] \/ Done(View(p)[c])
    BY <1>1, <2>2, CommitFacts DEF IInvAll, ScanOK, ScanOf
  <2>4. QED
    BY <1>1, <2>1, <2>3, CommitFacts
<1>2. QED
  BY <1>1, Invariance, PTL DEF ChildrenFollowParent

(***************************************************************************)
(* Auto-close upwards: a committed close leaves no open parent with only   *)
(* closed children, unless another transaction has committed since.        *)
(***************************************************************************)
THEOREM ParentIsClosed == Spec => ParentFollowsLastChild
<1>1. ASSUME IInvAll
      PROVE  \A p \in Proc :
               /\ CommitUpdate(p) /\ to[p] \in Terminal /\ overlap[p] = {}
               /\ up[p] # None /\ AutoCloseParents /\ Siblings(row', up[p]) # {}
               /\ \A c \in Siblings(row', up[p]) : Done(row'[c])
               => Done(row'[up[p]])
  <2> SUFFICES ASSUME NEW p \in Proc, CommitUpdate(p), to[p] \in Terminal, overlap[p] = {},
                      up[p] # None, AutoCloseParents, Siblings(row', up[p]) # {},
                      \A c \in Siblings(row', up[p]) : Done(row'[c])
               PROVE  Done(row'[up[p]])
    OBVIOUS
  <2>1. up[p] \in Issue /\ live \subseteq Issue
    BY <1>1 DEF IInvAll, IInv, CallTypes, DbTypes
  <2>2. Siblings(row', up[p]) = Siblings(View(p), up[p])
    BY <1>1, <2>1, CommitFacts DEF Siblings
  <2>3. CASE up[p] \in picked[p] \cap live
    BY <1>1, <2>3, CommitFacts
  <2>4. CASE up[p] \notin picked[p] \cap live
    <3>1. row'[up[p]] = View(p)[up[p]]
      BY <1>1, <2>1, <2>4, CommitFacts
    <3>2. CASE \A c \in Siblings(View(p), up[p]) : Done(View(p)[c])
      BY <1>1, <2>2, <3>1, <3>2, CommitFacts DEF IInvAll, ScanOK, ScanOf
    <3>3. CASE \E c \in Siblings(View(p), up[p]) : ~ Done(View(p)[c])
      <4>1. PICK c \in Siblings(View(p), up[p]) : ~ Done(View(p)[c])
        BY <3>3
      <4>2. c \in Issue /\ parent[c] = up[p] /\ Done(row'[c])
        BY <2>1, <2>2, <4>1 DEF Siblings
      <4>3. c \in picked[p]
        BY <1>1, <4>1, <4>2, CommitFacts
      <4>4. up[p] = job[p] /\ up[p] \in held[p] /\ Done(dirty[p][up[p]])
        BY <1>1, <4>2, <4>3, CommitFacts DEF IInvAll, ScanOK, ScanOf
      <4>5. View(p)[up[p]] = dirty[p][up[p]]
        BY <2>1, <4>4 DEF View
      <4>6. QED
        BY <3>1, <4>4, <4>5
    <3>4. QED
      BY <3>2, <3>3
  <2>5. QED
    BY <2>3, <2>4
<1>2. QED
  BY <1>1, Invariance, PTL DEF ParentFollowsLastChild
=============================================================================
