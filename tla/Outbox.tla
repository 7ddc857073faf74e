------------------------------- MODULE Outbox -------------------------------
(***************************************************************************)
(* TransactionQueue: the mutations of a page on their way to the server,   *)
(* the rows of pendingTransactions that outlive the page, the drain that   *)
(* sends one mutation at a time, and hydrate, which takes up the rows of   *)
(* an earlier life of the page.                                            *)
(*                                                                         *)
(* A mutation is the number of its enqueue, so `<` is the order the user   *)
(* made the changes in; every mutation writes the same field of one entity *)
(* and the server keeps the last it applied.  Every await is a step.       *)
(***************************************************************************)
EXTENDS Integers, Sequences, FiniteSets

CONSTANTS
    User,         \* who may be signed in
    NoUser,       \* nobody: activeSession = null, no cookie
    MaxRetries,   \* MAX_RETRIES
    MaxTx,        \* bound: mutations enqueued
    MaxMishaps    \* bound: failed requests, answers lost, failed Dexie calls,
                  \* reloads and crashes, sign-outs, outages, all together

ASSUME OutboxAssumption ==
    /\ NoUser \notin User
    /\ MaxRetries \in Nat /\ MaxTx \in Nat /\ MaxMishaps \in Nat

Tx == 1 .. MaxTx

VARIABLES
    queue,     \* queue, in memory
    session,   \* activeSession
    hydrated,  \* hydrated
    boot,      \* SyncProvider's init: "init", "syncing", "cleaning", "done"
    foreign,   \* `foreign` of a hydrate at its cleanup
    unsaved,   \* persists of enqueues that have not ended
    kicked,    \* a call of processNext is due
    drain,     \* what the drain does; "idle" is processing = FALSE
    tx,        \* tx of the drain
    sentAs,    \* the cookie its request carries
    retries,   \* retryCount of the head of the queue
    rows,      \* pendingTransactions
    owner,     \* owner[x]: orgId and userId of x
    born,      \* mutations enqueued so far
    cookie,    \* who is signed in
    online,    \* navigator.onLine
    late,      \* requests nobody waits for any more
    value,     \* what the server holds: the last mutation it applied, or 0
    applied,   \* applied[x]: how often it has (history)
    outcome,   \* outcome[x]: "none", "ok", "failed", "foreign" (history)
    saved,     \* mutations whose enqueue has been persisted (history)
    faults,    \* requests and Dexie calls that failed, answers that were lost
    reloads,   \* reloads and crashes
    breaks     \* sign-outs and outages

pageVars   == <<queue, session, hydrated, boot, foreign, unsaved, kicked>>
drainVars  == <<drain, tx, sentAs, retries>>
diskVars   == <<rows, owner, born>>
serverVars == <<cookie, late, value, applied>>
histVars   == <<outcome, saved>>
boundVars  == <<faults, reloads, breaks>>
vars == <<pageVars, drainVars, diskVars, serverVars, online, histVars, boundVars>>

Queued == {queue[k] : k \in 1 .. Len(queue)}

FlagsOK == hydrated \in BOOLEAN /\ kicked \in BOOLEAN /\ online \in BOOLEAN

TypeOK ==
    /\ FlagsOK
    /\ queue \in Seq(Tx)
    /\ session \in User \cup {NoUser} /\ cookie \in User \cup {NoUser}
    /\ boot \in {"init", "syncing", "cleaning", "done"}
    /\ foreign \in SUBSET Tx /\ unsaved \in SUBSET Tx
    /\ drain \in {"idle", "sending", "ok", "rejected", "failed", "removing", "sleeping"}
    /\ tx \in Tx \cup {0}
    /\ sentAs \in User \cup {NoUser}
    /\ retries \in 0 .. MaxRetries
    /\ rows \in SUBSET Tx /\ late \in SUBSET Tx /\ saved \in SUBSET Tx
    /\ owner \in [Tx -> User \cup {NoUser}]
    /\ born \in 0 .. MaxTx
    /\ value \in 0 .. MaxTx
    /\ applied \in [Tx -> Nat]
    /\ outcome \in [Tx -> {"none", "ok", "failed", "foreign"}]
    /\ faults \in Nat /\ reloads \in Nat /\ breaks \in Nat

Init ==
    /\ queue = <<>> /\ session = NoUser /\ hydrated = FALSE /\ boot = "init"
    /\ foreign = {} /\ unsaved = {} /\ kicked = FALSE
    /\ drain = "idle" /\ tx = 0 /\ sentAs = NoUser /\ retries = 0
    /\ rows = {} /\ owner = [x \in Tx |-> NoUser] /\ born = 0
    /\ cookie \in User /\ late = {} /\ value = 0 /\ applied = [x \in Tx |-> 0]
    /\ online = TRUE
    /\ outcome = [x \in Tx |-> "none"] /\ saved = {}
    /\ faults = 0 /\ reloads = 0 /\ breaks = 0

Room   == faults + reloads + breaks < MaxMishaps
Fault  == Room /\ faults' = faults + 1 /\ UNCHANGED <<reloads, breaks>>
Reboot == Room /\ reloads' = reloads + 1 /\ UNCHANGED <<faults, breaks>>
Break  == Room /\ breaks' = breaks + 1 /\ UNCHANGED <<faults, reloads>>
-----------------------------------------------------------------------------
\* enqueue

Enqueue ==
    /\ born < MaxTx
    /\ born' = born + 1
    /\ owner' = [owner EXCEPT ![born + 1] = session]
    /\ queue' = Append(queue, born + 1)
    /\ unsaved' = unsaved \cup {born + 1}
    /\ UNCHANGED <<session, hydrated, boot, foreign, kicked, drainVars, rows,
                   serverVars, online, histVars, boundVars>>

Persist(x) ==
    /\ x \in unsaved
    /\ unsaved' = unsaved \ {x}
    /\ kicked' = TRUE
    /\ UNCHANGED <<queue, session, hydrated, boot, foreign, drainVars, owner, born,
                   serverVars, online, outcome>>

Persisted(x) == /\ Persist(x)
                /\ rows' = rows \cup {x} /\ saved' = saved \cup {x}
                /\ UNCHANGED boundVars

\* "fall through and process from memory only"
PersistFails(x) == Persist(x) /\ Fault /\ UNCHANGED <<rows, saved>>
-----------------------------------------------------------------------------
\* processNext

\* The two early returns.
Busy == drain # "idle" \/ queue = <<>> \/ ~ online

Pass == /\ kicked /\ Busy
        /\ kicked' = FALSE
        /\ UNCHANGED <<queue, session, hydrated, boot, foreign, unsaved, drainVars, diskVars,
                       serverVars, online, histVars, boundVars>>

Send ==
    /\ kicked /\ ~ Busy
    /\ kicked' = FALSE
    /\ drain' = "sending"
    /\ tx' = Head(queue)
    /\ sentAs' = cookie
    /\ UNCHANGED <<queue, session, hydrated, boot, foreign, unsaved, retries, diskVars,
                   serverVars, online, histVars, boundVars>>

Apply(x) == /\ value' = x
            /\ applied' = [applied EXCEPT ![x] = @ + 1]

\* The server applies the mutation and answers.
ServerAccepts ==
    /\ drain = "sending"
    /\ sentAs # NoUser
    /\ Apply(tx)
    /\ drain' = "ok"
    /\ UNCHANGED <<pageVars, tx, sentAs, retries, diskVars, cookie, late, online, histVars, boundVars>>

\* A GraphQL error that is not RATELIMITED, UNAUTHENTICATED among them.
ServerRejects ==
    /\ drain = "sending"
    /\ IF sentAs = NoUser THEN UNCHANGED boundVars ELSE Fault
    /\ drain' = "rejected"
    /\ UNCHANGED <<pageVars, tx, sentAs, retries, diskVars, serverVars, online, histVars>>

\* RATELIMITED, a 5xx or a failed fetch, before the server has applied it; the
\* answer is lost after it has; a gateway gives up on a request that goes on.
RequestFails ==
    /\ drain = "sending"
    /\ IF online THEN Fault ELSE UNCHANGED boundVars
    /\ drain' = "failed"
    /\ UNCHANGED <<pageVars, tx, sentAs, retries, diskVars, serverVars, online, histVars>>

AnswerLost ==
    /\ drain = "ok"
    /\ Fault
    /\ drain' = "failed"
    /\ UNCHANGED <<pageVars, tx, sentAs, retries, diskVars, serverVars, online, histVars>>

GatewayTimeout ==
    /\ drain = "sending"
    /\ sentAs # NoUser
    /\ Fault
    /\ drain' = "failed"
    /\ late' = late \cup {tx}
    /\ UNCHANGED <<pageVars, tx, sentAs, retries, diskVars, cookie, value, applied, online, histVars>>

ApplyLate(x) ==
    /\ x \in late
    /\ late' = late \ {x}
    /\ Apply(x)
    /\ UNCHANGED <<pageVars, drainVars, diskVars, cookie, online, histVars, boundVars>>

\* The head leaves the queue; its row is about to be deleted.
Shift(o) ==
    /\ queue' = Tail(queue)
    /\ outcome' = [outcome EXCEPT ![tx] = o]
    /\ drain' = "removing"
    /\ retries' = 0
    /\ UNCHANGED <<session, hydrated, boot, foreign, unsaved, kicked, tx, sentAs, diskVars,
                   serverVars, online, saved, boundVars>>

\* Mutant: what onSuccess throws is caught as a failed request.
SucceedUnguarded ==
    \/ drain = "ok" /\ Shift("ok")
    \/ /\ drain = "ok"
       /\ drain' = "failed"
       /\ UNCHANGED <<pageVars, tx, sentAs, retries, diskVars, serverVars, online,
                      histVars, boundVars>>

Succeed == drain = "ok" /\ Shift("ok")

\* Mutant: the fourth failure is retried too.
GivesUpLate == retries > MaxRetries

GivesUp == retries >= MaxRetries

Fail == /\ \/ drain = "rejected"
           \/ drain = "failed" /\ online /\ GivesUp
        /\ Shift("failed")

\* isTransportFailure: the drain stops where it is.
Pause ==
    /\ drain = "failed" /\ ~ online
    /\ drain' = "idle"
    /\ UNCHANGED <<pageVars, tx, sentAs, retries, diskVars, serverVars, online, histVars, boundVars>>

\* Mutant: a retried mutation goes to the back of the queue.
RetryAtTheBack ==
    /\ drain = "failed" /\ online /\ ~ GivesUp
    /\ retries' = retries + 1
    /\ queue' = Append(Tail(queue), tx)
    /\ rows' = rows \cup {tx} /\ saved' = saved \cup {tx}
    /\ drain' = "sleeping"
    /\ UNCHANGED <<session, hydrated, boot, foreign, unsaved, kicked, tx, sentAs, owner, born,
                   serverVars, online, outcome, boundVars>>

\* retryCount goes up, the row is put again, and the drain sleeps.
Retry ==
    /\ drain = "failed" /\ online /\ ~ GivesUp
    /\ retries' = retries + 1
    /\ rows' = rows \cup {tx}
    /\ saved' = saved \cup {tx}
    /\ drain' = "sleeping"
    /\ UNCHANGED <<pageVars, tx, sentAs, owner, born, serverVars, online, outcome, boundVars>>

Wake ==
    /\ drain = "sleeping"
    /\ drain' = "idle"
    /\ kicked' = TRUE
    /\ UNCHANGED <<queue, session, hydrated, boot, foreign, unsaved, tx, sentAs, retries, diskVars,
                   serverVars, online, histVars, boundVars>>

\* unpersist has ended (behind the put of the enqueue, which IndexedDB runs
\* first): the callback, and the next mutation.
Unpersist ==
    /\ drain = "removing" /\ tx \notin unsaved
    /\ rows' = rows \ {tx}
    /\ drain' = "idle" /\ tx' = 0 /\ sentAs' = NoUser
    /\ kicked' = (kicked \/ queue # <<>>)
    /\ UNCHANGED <<queue, session, hydrated, boot, foreign, unsaved, retries, owner, born,
                   serverVars, online, histVars, boundVars>>
-----------------------------------------------------------------------------
\* Sessions, boots and connectivity

\* init: the session of the cookie is set; the sync manager starts.
SetSession ==
    /\ boot = "init"
    /\ cookie # NoUser
    /\ session' = cookie
    /\ boot' = "syncing"
    /\ UNCHANGED <<queue, hydrated, foreign, unsaved, kicked, drainVars, diskVars,
                   serverVars, online, histVars, boundVars>>

\* Mutant: what the queue holds already is left out of the first read.
MineUnqueued == {x \in rows : owner[x] = session /\ x \notin Queued}

Mine == {x \in rows : owner[x] = session}

\* sortBy('createdAt')
Sorted(S) ==
    {s \in [1 .. Cardinality(S) -> S] : \A i, j \in 1 .. Cardinality(S) : i < j => s[i] < s[j]}

\* hydrate: the rows of the session go behind what the queue holds.
Hydrate ==
    /\ boot = "syncing" /\ ~ hydrated
    /\ hydrated' = TRUE
    /\ \E new \in Sorted(Mine \ Queued) : queue' = queue \o new
    /\ foreign' = rows \ Mine
    /\ boot' = "cleaning"
    /\ UNCHANGED <<session, unsaved, kicked, drainVars, diskVars,
                   serverVars, online, histVars, boundVars>>

\* The rows of other sessions are deleted, and the drain starts.
Clean ==
    /\ boot = "cleaning"
    /\ rows' = rows \ foreign
    /\ outcome' = [x \in Tx |->
          IF x \in foreign /\ owner[x] # session /\ outcome[x] = "none" THEN "foreign"
                                                                       ELSE outcome[x]]
    /\ foreign' = {}
    /\ kicked' = (kicked \/ queue # <<>>)
    /\ boot' = "done"
    /\ UNCHANGED <<queue, session, hydrated, unsaved, drainVars, owner, born,
                   serverVars, online, saved, boundVars>>

\* Already hydrated; or the reads fail, and a later boot tries again.
SkipHydrate ==
    /\ boot = "syncing"
    /\ IF hydrated THEN UNCHANGED boundVars ELSE Fault
    /\ boot' = "done"
    /\ UNCHANGED <<queue, session, hydrated, foreign, unsaved, kicked, drainVars, diskVars,
                   serverVars, online, histVars>>

\* logout: clearActiveSession, and the provider unmounts.
Logout ==
    /\ boot = "done" /\ cookie # NoUser
    /\ Break
    /\ cookie' = NoUser
    /\ session' = NoUser
    /\ boot' = "init"
    /\ UNCHANGED <<queue, hydrated, foreign, unsaved, kicked, drainVars, diskVars,
                   late, value, applied, online, histVars>>

SignIn(u) ==
    /\ cookie = NoUser
    /\ cookie' = u
    /\ UNCHANGED <<pageVars, drainVars, diskVars, late, value, applied, online, histVars, boundVars>>

\* The memory of the page is gone.  Some of the puts that were issued are done;
\* a request that was out may still be applied.
Reload ==
    /\ Reboot
    /\ \E done \in SUBSET unsaved : rows' = rows \cup done /\ saved' = saved \cup done
    /\ \/ UNCHANGED late
       \/ drain = "sending" /\ sentAs # NoUser /\ late' = late \cup {tx}
    /\ queue' = <<>> /\ session' = NoUser /\ hydrated' = FALSE /\ boot' = "init"
    /\ foreign' = {} /\ unsaved' = {} /\ kicked' = FALSE
    /\ drain' = "idle" /\ tx' = 0 /\ sentAs' = NoUser /\ retries' = 0
    /\ UNCHANGED <<owner, born, cookie, value, applied, online, outcome>>

GoOffline ==
    /\ online
    /\ Break
    /\ online' = FALSE
    /\ UNCHANGED <<pageVars, drainVars, diskVars, serverVars, histVars>>

\* Mutant: nobody listens for the way back.
GoOnlineUnheard ==
    /\ ~ online
    /\ online' = TRUE
    /\ UNCHANGED <<pageVars, drainVars, diskVars, serverVars, histVars, boundVars>>

\* The listener of 'online' calls processNext.
GoOnline ==
    /\ ~ online
    /\ online' = TRUE
    /\ kicked' = TRUE
    /\ UNCHANGED <<queue, session, hydrated, boot, foreign, unsaved, drainVars, diskVars,
                   serverVars, histVars, boundVars>>

Process == \/ Pass \/ Send \/ Succeed \/ Fail \/ Pause \/ Retry \/ Wake \/ Unpersist
Respond == ServerAccepts \/ ServerRejects \/ RequestFails

Next ==
    \/ Enqueue
    \/ \E x \in Tx : Persisted(x) \/ PersistFails(x) \/ ApplyLate(x)
    \/ Process \/ Respond \/ AnswerLost \/ GatewayTimeout
    \/ SetSession \/ Hydrate \/ Clean \/ SkipHydrate
    \/ Logout \/ Reload \/ GoOffline \/ GoOnline
    \/ \E u \in User : SignIn(u)

Spec == Init /\ [][Next]_vars

\* Promises settle, timers fire, a request is answered or fails, and the browser
\* comes back online.
FairSpec ==
    /\ Spec
    /\ \A x \in Tx : WF_vars(Persisted(x))
    /\ WF_vars(Process) /\ WF_vars(Respond) /\ WF_vars(Clean) /\ WF_vars(GoOnline)
-----------------------------------------------------------------------------
(***************************************************************************)
(* "Each enqueue writes to IndexedDB before processing so a page reload    *)
(* (or crash) preserves the pending mutations": once persisted, a mutation *)
(* has a row until the page knows its outcome, or another session has      *)
(* deleted it.                                                             *)
(***************************************************************************)
PendingIsKept == \A x \in saved : outcome[x] = "none" => x \in rows

(***************************************************************************)
(* One drain: in a page that has not been reloaded, and whose requests are *)
(* not overtaken by late ones, the server applies the mutations it has not *)
(* answered for yet in the order of the user's changes, however enqueues,  *)
(* retries, outages and online events overlap.                             *)
(***************************************************************************)
AppliedInOrder ==
    [][\A x \in Tx : /\ value # x /\ value' = x
                     /\ outcome[x] = "none" /\ reloads = 0 /\ late = {}
                     => value < x]_vars

(***************************************************************************)
(* At least once, and no more often than the faults explain: a mutation    *)
(* the page has no answer for is applied again only for a request that     *)
(* failed or a page that was lost.                                         *)
(***************************************************************************)
RepeatsOnlyAfterLoss ==
    [][\A x \in Tx : applied'[x] > applied[x] /\ outcome[x] = "none"
          => applied[x] <= faults + reloads]_vars

(***************************************************************************)
(* The queue never stalls: a failing mutation, an outage or an enqueue in  *)
(* the middle of a drain leaves no mutation in it for ever.                *)
(***************************************************************************)
QueueDrains == \A x \in Tx : x \in Queued ~> x \notin Queued

(***************************************************************************)
(* The comment where hydrate is called: "an already-accepted mutation      *)
(* becomes a no-op retry".  A mutation that has been applied does not      *)
(* change the entity again.                                                *)
(***************************************************************************)
ReplayIsNoOp == [][\A x \in Tx : value' = x /\ value # x => applied[x] = 0]_vars
=============================================================================
