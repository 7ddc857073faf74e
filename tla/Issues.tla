------------------------------ MODULE Issues ------------------------------
(***************************************************************************)
(* The issues of one team (src/server/services/issue.service.ts), with the *)
(* resolvers that record one SyncAction per row they know they wrote, in   *)
(* the transaction that wrote it.                                          *)
(*                                                                         *)
(* Transactions run at READ COMMITTED: a statement reads what is committed *)
(* and what its own transaction wrote, and a row that is written is locked *)
(* until the end.  A step is the code between two statements whose order   *)
(* against other transactions can be told; a write is in one step with the *)
(* read or the commit after it, since nobody else writes a row it holds.   *)
(* archivedAt stands for trashed too: both take an issue out of its family.*)
(***************************************************************************)
EXTENDS Naturals

CONSTANTS
    Issue,              \* ids, chosen by the clients
    Proc,               \* requests under way
    None,               \* no parent
    AutoCloseParents,   \* team.autoCloseParentIssues
    AutoCloseChildren,  \* team.autoCloseChildIssues
    InitialStates,      \* bound: the states of the issues there are at first
    MaxTxs              \* bound: transactions in a behaviour

ASSUME IssuesAssumption ==
    /\ None \notin Issue
    /\ AutoCloseParents \in BOOLEAN /\ AutoCloseChildren \in BOOLEAN
    /\ InitialStates \subseteq {"unstarted", "started", "completed", "canceled"}
    /\ MaxTxs \in Nat

\* The types of workflow states; the team has one state of each.
State == {"unstarted", "started", "completed", "canceled"}
Terminal == {"completed", "canceled"}

\* A stamp is set or null.
Row == [st : State, startedAt : BOOLEAN, completedAt : BOOLEAN, canceledAt : BOOLEAN,
        archivedAt : BOOLEAN]
Blank == [st |-> "unstarted", startedAt |-> FALSE, completedAt |-> FALSE,
          canceledAt |-> FALSE, archivedAt |-> FALSE]

NewRow(s) == [Blank EXCEPT !.st = s, !.startedAt = (s = "started"),
                           !.completedAt = (s = "completed"), !.canceledAt = (s = "canceled")]

VARIABLES
    live,    \* the issues that have a row
    row, parent,
    shown,   \* the issues whose last SyncAction is not 'D'
    feed,    \* the row in the last SyncAction of each
    pc, job, \* what a request is about to do, and its issue
    to, up,  \* the state it asks for; the parent of its issue
    snap,    \* rows it has read
    picked,  \* the open children it found, or the issues of a bulk update
    held,    \* the rows it has written, and
    dirty,   \* what it has written to them
    overlap, \* history: issues others have written since it began
    raced,   \* history: issues recorded by two transactions that overlapped
    txs

dbVars == <<live, row, parent>>
logVars == <<shown, feed>>
callVars == <<pc, job, to, up, snap, picked, held, dirty>>
histVars == <<overlap, raced>>
vars == <<dbVars, logVars, callVars, histVars, txs>>

Init ==
    /\ live \in SUBSET Issue
    /\ parent \in {f \in [Issue -> live \cup {None}] : \A i \in Issue \ live : f[i] = None}
    /\ row \in {f \in [Issue -> {NewRow(s) : s \in InitialStates} \cup {Blank}] :
                  \A i \in Issue \ live : f[i] = Blank}
    /\ feed = row /\ shown = live
    /\ pc = [p \in Proc |-> "idle"] /\ job = [p \in Proc |-> None]
    /\ to = [p \in Proc |-> "unstarted"] /\ up = [p \in Proc |-> None]
    /\ snap = [p \in Proc |-> [i \in Issue |-> Blank]] /\ dirty = snap
    /\ picked = [p \in Proc |-> {}] /\ held = picked /\ overlap = picked
    /\ raced = {} /\ txs = 0
-----------------------------------------------------------------------------
Done(r) == r.st \in Terminal

Free(i) == \A p \in Proc : i \notin held[p]

\* What a statement of p reads.
View(p) == [i \in Issue |-> IF i \in held[p] THEN dirty[p][i] ELSE row[i]]

Siblings(rows, q) == {c \in live : parent[c] = q /\ ~ rows[c].archivedAt}

Another == txs < MaxTxs /\ txs' = txs + 1

\* Row locks: p can write i.
Mine(p, i) == \A q \in Proc \ {p} : i \notin held[q]

Only(S) == [i \in Issue |-> IF i \in S THEN row[i] ELSE Blank]

\* p begins a transaction.
Call(p, step, i, s) ==
    /\ Another
    /\ pc[p] = "idle"
    /\ pc' = [pc EXCEPT ![p] = step]
    /\ job' = [job EXCEPT ![p] = i]
    /\ to' = [to EXCEPT ![p] = s]

\* The request of p is over and its memory gone.
End(p) ==
    /\ pc' = [pc EXCEPT ![p] = "idle"]
    /\ job' = [job EXCEPT ![p] = None]
    /\ to' = [to EXCEPT ![p] = "unstarted"]
    /\ up' = [up EXCEPT ![p] = None]
    /\ snap' = [snap EXCEPT ![p] = [i \in Issue |-> Blank]]
    /\ picked' = [picked EXCEPT ![p] = {}]
    /\ held' = [held EXCEPT ![p] = {}]
    /\ dirty' = [dirty EXCEPT ![p] = [i \in Issue |-> Blank]]

\* What the transactions under way will have overlapped with when W is committed.
Committed(W) == [p \in Proc |-> IF pc[p] = "idle" THEN {} ELSE overlap[p] \cup W]

\* p commits its writes W.
CommitBy(p, W) ==
    /\ overlap' = [Committed(W) EXCEPT ![p] = {}]
    /\ raced' = raced \cup (W \cap overlap[p])
-----------------------------------------------------------------------------
\* create

\* findOwnCreate has found nothing for the client's id.
Ask(p, i, s, q) ==
    /\ i \notin live
    /\ Call(p, "creating", i, s)
    /\ up' = [up EXCEPT ![p] = q]
    /\ UNCHANGED <<dbVars, logVars, snap, picked, held, dirty, histVars>>

\* A row of the same id or a parent that is gone ends in Abort.
Insert(p) ==
    /\ pc[p] = "creating"
    /\ job[p] \notin live
    /\ up[p] \in live \cup {None}
    /\ live' = live \cup {job[p]}
    /\ row' = [row EXCEPT ![job[p]] = NewRow(to[p])]
    /\ parent' = [parent EXCEPT ![job[p]] = up[p]]
    /\ shown' = shown \cup {job[p]}
    /\ feed' = [feed EXCEPT ![job[p]] = NewRow(to[p])]
    /\ End(p)
    /\ CommitBy(p, {job[p]})
    /\ UNCHANGED txs
-----------------------------------------------------------------------------
\* update

\* `existing` is read.
Read(p, i, s) ==
    /\ i \in live
    /\ Call(p, "read", i, s)
    /\ snap' = [snap EXCEPT ![p] = Only({i})]
    /\ UNCHANGED <<dbVars, logVars, up, picked, held, dirty, histVars>>

\* Mutant: a reopened issue keeps its stamps.
StampedNeverCleared(r, old, s) ==
    IF s = old.st THEN [r EXCEPT !.st = s]
    ELSE [r EXCEPT !.st = s, !.startedAt = old.startedAt \/ s = "started",
                   !.completedAt = @ \/ s = "completed", !.canceledAt = @ \/ s = "canceled"]

\* The columns of a transition, decided from `existing`, over the row as it is.
Stamped(r, old, s) ==
    IF s = old.st THEN [r EXCEPT !.st = s]
    ELSE [r EXCEPT !.st = s, !.startedAt = old.startedAt \/ s = "started",
                   !.completedAt = (s = "completed"), !.canceledAt = (s = "canceled")]

\* Mutant: canceled children keep the parent open.
ParentIsDueCompleted(rows, q) ==
    /\ q # None /\ AutoCloseParents
    /\ Siblings(rows, q) # {}
    /\ \A c \in Siblings(rows, q) : rows[c].st = "completed"

ParentIsDue(rows, q) ==
    /\ q # None /\ AutoCloseParents
    /\ Siblings(rows, q) # {}
    /\ \A c \in Siblings(rows, q) : Done(rows[c])

\* The row is written; a terminal state goes on with the siblings.
Write(p) ==
    LET i == job[p]
        new == Stamped(row[i], snap[p][i], to[p])
    IN /\ pc[p] = "read"
       /\ i \in live /\ Mine(p, i)
       /\ held' = [held EXCEPT ![p] = {i}]
       /\ dirty' = [dirty EXCEPT ![p][i] = new]
       /\ snap' = [snap EXCEPT ![p] = [j \in Issue |-> Blank]]
       /\ up' = [up EXCEPT ![p] = parent[i]]
       /\ pc' = [pc EXCEPT ![p] =
                   IF to[p] \notin Terminal THEN "committing"
                   ELSE IF ParentIsDue([row EXCEPT ![i] = new], parent[i]) THEN "ascending"
                   ELSE "descending"]
       /\ UNCHANGED <<dbVars, logVars, job, to, picked, histVars, txs>>

\* maybeCloseParentTx: the parent is read, and then written.
ReadParent(p) ==
    /\ pc[p] = "ascending"
    /\ pc' = [pc EXCEPT ![p] = IF Done(View(p)[up[p]]) THEN "descending" ELSE "closing parent"]
    /\ UNCHANGED <<dbVars, logVars, job, to, up, snap, picked, held, dirty, histVars, txs>>

Closed(r, s) == [r EXCEPT !.st = s, !.completedAt = @ \/ s = "completed",
                                    !.canceledAt = @ \/ s = "canceled"]

CloseParent(p) ==
    /\ pc[p] = "closing parent"
    /\ up[p] \in live /\ Mine(p, up[p])
    /\ held' = [held EXCEPT ![p] = @ \cup {up[p]}]
    /\ dirty' = [dirty EXCEPT ![p][up[p]] = Closed(View(p)[up[p]], "completed")]
    /\ pc' = [pc EXCEPT ![p] = "descending"]
    /\ UNCHANGED <<dbVars, logVars, job, to, up, snap, picked, histVars, txs>>

\* Mutant: only a completed parent closes its children.
ToCloseCompleted(p) ==
    {c \in Siblings(View(p), job[p]) :
        AutoCloseChildren /\ to[p] = "completed" /\ ~ Done(View(p)[c])}

\* The open children, if the team closes them.
ToClose(p) ==
    {c \in Siblings(View(p), job[p]) : AutoCloseChildren /\ ~ Done(View(p)[c])}

\* maybeCloseChildrenTx: the children are read, and then written.
ReadChildren(p) ==
    /\ pc[p] = "descending"
    /\ picked' = [picked EXCEPT ![p] = ToClose(p)]
    /\ snap' = [snap EXCEPT ![p] = Only(ToClose(p))]
    /\ pc' = [pc EXCEPT ![p] = "committing"]
    /\ UNCHANGED <<dbVars, logVars, job, to, up, held, dirty, histVars, txs>>

\* Mutant: the hook records the issue and its closed parent only.
RecordedHeld(p) == held[p]

\* The hook records the issue and every cascaded row.
Recorded(p) == held[p] \cup picked[p]

\* updateMany writes the children that are still there; their SyncActions are
\* made from the rows that were read.
CommitUpdate(p) ==
    LET kids == picked[p] \cap live
    IN /\ pc[p] = "committing"
       /\ \A c \in kids : Mine(p, c)
       /\ row' = [i \in Issue |-> IF i \in kids THEN Closed(row[i], to[p]) ELSE View(p)[i]]
       /\ feed' = [i \in Issue |->
                     IF i \notin Recorded(p) THEN feed[i]
                     ELSE IF i \in picked[p] THEN Closed(snap[p][i], to[p]) ELSE dirty[p][i]]
       /\ shown' = shown \cup Recorded(p)
       /\ End(p)
       /\ CommitBy(p, held[p] \cup picked[p])
       /\ UNCHANGED <<live, parent, txs>>
-----------------------------------------------------------------------------
\* bulkUpdate

\* `claim` is read; an id that is missing ends the call.
ReadBulk(p, S, s) ==
    /\ S \subseteq live
    /\ Call(p, "bulk", None, s)
    /\ picked' = [picked EXCEPT ![p] = S]
    /\ snap' = [snap EXCEPT ![p] = Only(S)]
    /\ UNCHANGED <<dbVars, logVars, up, held, dirty, histVars>>

\* The columns of the up to three updateMany, decided from `claim`, over the row
\* as it is; a start that `claim` shows already is left as it is.
BulkStamped(r, old, s) ==
    IF s = old.st THEN [r EXCEPT !.st = s]
    ELSE [r EXCEPT !.st = s, !.startedAt = @ \/ (s = "started" /\ ~ old.startedAt),
                   !.completedAt = (s = "completed"), !.canceledAt = (s = "canceled")]

\* No cascades; the rows that are still there are read again and recorded.
CommitBulk(p) ==
    LET found == picked[p] \cap live
        after == [i \in Issue |-> IF i \in found THEN BulkStamped(row[i], snap[p][i], to[p])
                                                 ELSE row[i]]
    IN /\ pc[p] = "bulk"
       /\ \A i \in found : Mine(p, i)
       /\ row' = after
       /\ feed' = [i \in Issue |-> IF i \in found THEN after[i] ELSE feed[i]]
       /\ shown' = shown \cup found
       /\ End(p)
       /\ CommitBy(p, found)
       /\ UNCHANGED <<live, parent, txs>>
-----------------------------------------------------------------------------
\* One write and its SyncAction

\* The row of i becomes r.
WriteOne(i, r) ==
    /\ i \in live /\ Free(i)
    /\ Another
    /\ row' = [row EXCEPT ![i] = r]
    /\ feed' = [feed EXCEPT ![i] = r]
    /\ shown' = shown \cup {i}
    /\ overlap' = Committed({i})
    /\ UNCHANGED <<live, callVars, raced>>

Archive(i) == WriteOne(i, [row[i] EXCEPT !.archivedAt = TRUE]) /\ UNCHANGED parent
Unarchive(i) == WriteOne(i, [row[i] EXCEPT !.archivedAt = FALSE]) /\ UNCHANGED parent

\* update with a parentId and no stateId
Reparent(i, q) ==
    /\ q \in live \cup {None}
    /\ WriteOne(i, row[i])
    /\ parent' = [parent EXCEPT ![i] = q]

\* Mutant: the children keep the id of the row that is gone.
OrphanedNot(i) == [c \in Issue |-> IF c = i THEN None ELSE parent[c]]

\* onDelete: SetNull
Orphaned(i) == [c \in Issue |-> IF c = i \/ parent[c] = i THEN None ELSE parent[c]]

Delete(i) ==
    /\ i \in live
    /\ \A c \in live : c = i \/ parent[c] = i => Free(c)
    /\ Another
    /\ live' = live \ {i}
    /\ row' = [row EXCEPT ![i] = Blank]
    /\ parent' = Orphaned(i)
    /\ shown' = shown \ {i}
    /\ feed' = [feed EXCEPT ![i] = Blank]
    /\ overlap' = Committed({c \in live : c = i \/ parent[c] = i})
    /\ UNCHANGED <<callVars, raced>>
-----------------------------------------------------------------------------
\* A statement is rejected, a row is missing, a deadlock or the timeout of an
\* interactive transaction: ROLLBACK.
Abort(p) ==
    /\ pc[p] # "idle"
    /\ End(p)
    /\ overlap' = [overlap EXCEPT ![p] = {}]
    /\ UNCHANGED <<dbVars, logVars, raced, txs>>

Next ==
    \/ \E p \in Proc :
        \/ \E i \in Issue, s \in State :
              Read(p, i, s) \/ \E q \in (live \cup {None}) \ {i} : Ask(p, i, s, q)
        \/ \E S \in SUBSET Issue \ {{}}, s \in State : ReadBulk(p, S, s)
        \/ Insert(p) \/ Write(p) \/ ReadParent(p) \/ CloseParent(p) \/ ReadChildren(p)
        \/ CommitUpdate(p) \/ CommitBulk(p) \/ Abort(p)
    \/ \E i \in Issue : \/ Archive(i) \/ Unarchive(i) \/ Delete(i)
                        \/ \E q \in Issue \cup {None} : Reparent(i, q)

Spec == Init /\ [][Next]_vars
-----------------------------------------------------------------------------
Step == {"idle", "creating", "read", "ascending", "closing parent", "descending",
         "committing", "bulk"}

\* Types, and what the foreign key keeps: a parent is a row that is there.
TypeOK ==
    /\ live \subseteq Issue /\ shown \subseteq Issue
    /\ row \in [Issue -> Row] /\ feed \in [Issue -> Row]
    /\ parent \in [Issue -> live \cup {None}]
    /\ pc \in [Proc -> Step] /\ job \in [Proc -> Issue \cup {None}]
    /\ to \in [Proc -> State] /\ up \in [Proc -> Issue \cup {None}]
    /\ snap \in [Proc -> [Issue -> Row]] /\ dirty \in [Proc -> [Issue -> Row]]
    /\ picked \in [Proc -> SUBSET Issue] /\ held \in [Proc -> SUBSET Issue]
    /\ overlap \in [Proc -> SUBSET Issue] /\ raced \subseteq Issue
    /\ txs \in Nat

(***************************************************************************)
(* "one SyncAction per cascaded entry so remote clients can reflect the    *)
(* cascade": whoever has applied the log shows the row of every issue,     *)
(* cascaded and bulk-updated ones included, as long as no two transactions *)
(* that overlapped have both recorded that issue.                          *)
(***************************************************************************)
LogMatchesRows ==
    \A i \in Issue \ raced : /\ i \in live <=> i \in shown
                             /\ i \in live => feed[i] = row[i]

(***************************************************************************)
(* "user-initiated and cascaded transitions converge on the same shape":   *)
(* however an issue came to its state (create, update, bulk update, either *)
(* cascade), its lifecycle stamps agree with it, again unless two          *)
(* transactions that overlapped have both recorded it.                     *)
(***************************************************************************)
StampsMatchState ==
    \A i \in live \ raced : /\ row[i].completedAt <=> row[i].st = "completed"
                            /\ row[i].canceledAt <=> row[i].st = "canceled"
                            /\ row[i].st = "started" => row[i].startedAt

(***************************************************************************)
(* Auto-close upwards: a committed close of an issue leaves no open parent *)
(* whose children are all done, unless another transaction has committed   *)
(* in the meantime.                                                        *)
(***************************************************************************)
ParentFollowsLastChild ==
    [][\A p \in Proc :
         /\ CommitUpdate(p) /\ to[p] \in Terminal /\ overlap[p] = {}
         /\ up[p] # None /\ AutoCloseParents /\ Siblings(row', up[p]) # {}
         /\ \A c \in Siblings(row', up[p]) : Done(row'[c])
         => Done(row'[up[p]])]_vars

(***************************************************************************)
(* Auto-close downwards: a committed close of an issue leaves none of its  *)
(* children open, unless another transaction has written that child or     *)
(* moved it there in the meantime.                                         *)
(***************************************************************************)
ChildrenFollowParent ==
    [][\A p \in Proc :
         CommitUpdate(p) /\ to[p] \in Terminal /\ AutoCloseChildren =>
             \A c \in Siblings(row', job[p]) \ overlap[p] : Done(row'[c])]_vars
=============================================================================
