----------------------------- MODULE ChangeFeed -----------------------------
(***************************************************************************)
(* What delta sync promises its readers, without transactions, fences,     *)
(* pages or marks.  Rows are published; each reader has a horizon, a point *)
(* of the row order; nothing is ever published at or behind a horizon; and *)
(* a reader that moves its horizon forward receives every unexpired row it *)
(* moves past.                                                             *)
(***************************************************************************)
EXTENDS Integers

CONSTANT Reader

VARIABLES
    published, \* every row committed so far
    expired,   \* the rows deleted by retention
    horizon,   \* horizon[r]: the point up to which r has caught up
    known      \* known[r]: the rows r's cache reflects

vars == <<published, expired, horizon, known>>

Origin == [xact |-> 0, id |-> 0]

\* Rows and horizons are ordered by transaction, then by id.
Ahead(row, h) == \/ row.xact > h.xact
                 \/ row.xact = h.xact /\ row.id > h.id

Init ==
    /\ published = {}
    /\ expired = {}
    /\ horizon = [r \in Reader |-> Origin]
    /\ known = [r \in Reader |-> {}]

\* A transaction commits: its rows are ahead of every horizon.
Publish ==
    /\ published \subseteq published'
    /\ \A row \in published' \ published : \A r \in Reader : Ahead(row, horizon[r])
    /\ UNCHANGED <<expired, horizon, known>>

\* Retention deletes published rows.
Expire ==
    /\ expired \subseteq expired'
    /\ expired' \subseteq published
    /\ UNCHANGED <<published, horizon, known>>

\* A page: r moves forward and receives the surviving rows it moves past.
Deliver(r) ==
    /\ \E page \in SUBSET (published \ expired) :
          /\ known' = [known EXCEPT ![r] = @ \cup page]
          /\ \A row \in published \ expired :
                row \in page <=> Ahead(row, horizon[r]) /\ ~ Ahead(row, horizon'[r])
    /\ horizon' = [horizon EXCEPT ![r] = horizon'[r]]
    /\ UNCHANGED <<published, expired>>

\* A snapshot: r receives the effect of everything published, and may restart
\* from any horizon.
Reload(r) ==
    /\ known' = [known EXCEPT ![r] = published]
    /\ horizon' = [horizon EXCEPT ![r] = horizon'[r]]
    /\ UNCHANGED <<published, expired>>

Next == Publish \/ Expire \/ \E r \in Reader : Deliver(r) \/ Reload(r)

Spec == Init /\ [][Next]_vars

\* No reader is missing a surviving row that lies behind its horizon.
NoGap ==
    \A r \in Reader : \A row \in published \ expired :
        ~ Ahead(row, horizon[r]) => row \in known[r]
=============================================================================
