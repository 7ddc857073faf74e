-------------------------- MODULE WebhookDelivery --------------------------
(***************************************************************************)
(* Outbound webhooks: the rows of webhook_deliveries for one subscriber,   *)
(* the calls of WebhookService.processDelivery that attempt them (one from *)
(* the request that dispatched the event, more from the retry sweeps of    *)
(* every WebSocket replica), and the administrator's changes of the hook.  *)
(*                                                                         *)
(* Every statement or transaction on the database is a step.  Time is      *)
(* kept relative: due[d] counts down to nextAttemptAt and stops at -Window *)
(* (claimableBefore), age[w] counts up from the claim of a call.           *)
(***************************************************************************)
EXTENDS Integers

CONSTANTS
    Delivery,     \* the events matched by the hook
    Worker,       \* the calls of processDelivery that run at one time
    Window,       \* webhook.requestTimeoutMs + 60 s
    Stall,        \* the longest a live call takes from its claim to its outcome
    Backoff,      \* RETRY_BACKOFF_SECONDS
    MaxAttempts,  \* webhook.maxAttempts
    DisableAfter, \* webhook.autoDisableAfter
    MaxDeaths,    \* bound: calls that end without an outcome
    MaxEdits      \* bound: changes of the hook by an administrator

ASSUME WebhookAssumption ==
    /\ Window \in Nat \ {0} /\ Backoff \in Nat \ {0}
    /\ MaxAttempts \in Nat \ {0} /\ DisableAfter \in Nat \ {0}
    /\ Stall \in Nat /\ MaxDeaths \in Nat /\ MaxEdits \in Nat

\* "the reclaim window matches the protection window": a live call ends within both.
ASSUME StallAssumption == Stall < 2 * Window

VARIABLES
    exists,    \* the row of the hook is there
    enabled,   \* webhooks.enabled
    archived,  \* webhooks.archivedAt is set
    fails,     \* webhooks.consecutiveFailures
    edits,     \* changes by an administrator so far
    status,    \* status[d]: "unsent", "matched" before the row, then the column
    attempts,  \* attempts[d]: the column
    due,       \* due[d]: time left until nextAttemptAt
    pc,        \* pc[w]: what call w does next
    job,       \* job[w]: the delivery of call w
    attempt,   \* attempt[w]: `attempt` of call w
    ok,        \* ok[w]: `success` of call w
    age,       \* age[w]: time since the claim of call w
    accepted,  \* accepted[d]: 2xx answers the endpoint has given (history)
    sent,      \* sent[d]: requests sent to the endpoint (history)
    deaths     \* calls that ended without an outcome (history)

hookVars == <<exists, enabled, archived, fails, edits>>
rowVars  == <<status, attempts, due>>
callVars == <<pc, job, attempt, ok, age>>
histVars == <<accepted, sent, deaths>>
vars == <<hookVars, rowVars, callVars, histVars>>

Claimed == {"claimed", "dropping", "sending", "answered"}
Final   == {"success", "failed", "deleted"}
Due     == (- Window) .. (Window + Backoff)

TypeOK ==
    /\ exists \in BOOLEAN /\ enabled \in BOOLEAN /\ archived \in BOOLEAN
    /\ fails \in Nat /\ edits \in Nat /\ deaths \in Nat
    /\ status \in [Delivery -> {"unsent", "matched", "pending", "in_flight"} \cup Final]
    /\ attempts \in [Delivery -> 0 .. MaxAttempts]
    /\ due \in [Delivery -> Due]
    /\ pc \in [Worker -> {"idle", "called", "disabling"} \cup Claimed]
    /\ job \in [Worker -> Delivery]
    /\ attempt \in [Worker -> 0 .. MaxAttempts]
    /\ ok \in [Worker -> BOOLEAN]
    /\ age \in [Worker -> 0 .. Stall]
    /\ accepted \in [Delivery -> Nat]
    /\ sent \in [Delivery -> Nat]

Init ==
    /\ exists = TRUE /\ enabled = TRUE /\ archived = FALSE /\ fails = 0
    /\ edits = 0
    /\ status = [d \in Delivery |-> "unsent"]
    /\ attempts = [d \in Delivery |-> 0]
    /\ due = [d \in Delivery |-> 0]
    /\ pc = [w \in Worker |-> "idle"]
    /\ job \in [Worker -> Delivery]
    /\ \A v, w \in Worker : job[v] = job[w]
    /\ attempt = [w \in Worker |-> 0]
    /\ ok = [w \in Worker |-> FALSE]
    /\ age = [w \in Worker |-> 0]
    /\ accepted = [d \in Delivery |-> 0]
    /\ sent = [d \in Delivery |-> 0]
    /\ deaths = 0
-----------------------------------------------------------------------------
\* dispatchEvent, and the listing of a sweep

\* The subscribers of the event are read.
Match(d) ==
    /\ status[d] = "unsent"
    /\ exists /\ enabled /\ ~ archived
    /\ status' = [status EXCEPT ![d] = "matched"]
    /\ UNCHANGED <<hookVars, attempts, due, callVars, histVars>>

Call(w, d) ==
    /\ pc[w] = "idle"
    /\ pc' = [pc EXCEPT ![w] = "called"]
    /\ job' = [job EXCEPT ![w] = d]
    /\ UNCHANGED <<attempt, ok, age>>

\* createMany, and the first attempt it fires.
Create(d, w) ==
    /\ status[d] = "matched"
    /\ exists
    /\ status' = [status EXCEPT ![d] = "pending"]
    /\ due' = [due EXCEPT ![d] = 0]
    /\ Call(w, d)
    /\ UNCHANGED <<hookVars, attempts, histVars>>

\* createMany fails on the foreign key of a hook deleted in between.
CreateFails(d) ==
    /\ status[d] = "matched"
    /\ ~ exists
    /\ status' = [status EXCEPT ![d] = "deleted"]
    /\ UNCHANGED <<hookVars, attempts, due, callVars, histVars>>

\* processDuePending has listed d among the due rows and comes to it.
Sweep(d, w) ==
    /\ status[d] \in {"pending", "in_flight"}
    /\ due[d] <= 0
    /\ Call(w, d)
    /\ UNCHANGED <<hookVars, rowVars, histVars>>
-----------------------------------------------------------------------------
\* processDelivery

EndCall(w) ==
    /\ pc' = [pc EXCEPT ![w] = "idle"]
    /\ attempt' = [attempt EXCEPT ![w] = 0]
    /\ ok' = [ok EXCEPT ![w] = FALSE]
    /\ age' = [age EXCEPT ![w] = 0]
    /\ UNCHANGED job

\* Mutants: a claim that may be taken over once its deadline has passed, one that
\* does not look for a success, and one that leaves the claims of the dead alone.
ClaimableAtDeadline(d) == \/ status[d] = "pending"
                          \/ status[d] = "in_flight" /\ due[d] <= 0
ClaimableById(d) == \/ status[d] \in {"pending", "success"}
                    \/ status[d] = "in_flight" /\ due[d] <= - Window
ClaimablePending(d) == status[d] = "pending"

\* The where clause of the claim.
Claimable(d) == \/ status[d] = "pending"
                \/ status[d] = "in_flight" /\ due[d] <= - Window

Claim(w) ==
    /\ pc[w] = "called"
    /\ Claimable(job[w])
    /\ status' = [status EXCEPT ![job[w]] = "in_flight"]
    /\ due' = [due EXCEPT ![job[w]] = Window]
    /\ pc' = [pc EXCEPT ![w] = "claimed"]
    /\ UNCHANGED <<hookVars, attempts, job, attempt, ok, age, histVars>>

\* claim.count === 0
ClaimMisses(w) ==
    /\ pc[w] = "called"
    /\ ~ Claimable(job[w])
    /\ EndCall(w)
    /\ UNCHANGED <<hookVars, rowVars, histVars>>

\* The row is read with its hook; the request goes out.
Send(w) ==
    /\ pc[w] = "claimed"
    /\ status[job[w]] # "deleted"
    /\ enabled /\ ~ archived
    /\ pc' = [pc EXCEPT ![w] = "sending"]
    /\ attempt' = [attempt EXCEPT ![w] = attempts[job[w]] + 1]
    /\ sent' = [sent EXCEPT ![job[w]] = sent[job[w]] + 1]
    /\ UNCHANGED <<hookVars, rowVars, job, ok, age, accepted, deaths>>

\* The row is read and its hook is disabled or archived.
FindDisabled(w) ==
    /\ pc[w] = "claimed"
    /\ status[job[w]] # "deleted"
    /\ ~ enabled \/ archived
    /\ pc' = [pc EXCEPT ![w] = "dropping"]
    /\ UNCHANGED <<hookVars, rowVars, job, attempt, ok, age, histVars>>

Drop(w) ==
    /\ pc[w] = "dropping"
    /\ status[job[w]] # "deleted"
    /\ status' = [status EXCEPT ![job[w]] = "failed"]
    /\ due' = [due EXCEPT ![job[w]] = 0]
    /\ EndCall(w)
    /\ UNCHANGED <<hookVars, attempts, histVars>>

\* The row has gone with its hook: the read finds nothing, an update throws.
FindDeleted(w) ==
    /\ pc[w] \in Claimed \ {"sending"}
    /\ status[job[w]] = "deleted"
    /\ EndCall(w)
    /\ UNCHANGED <<hookVars, rowVars, histVars>>

\* The endpoint answers 2xx; anything else, an error or the timeout.
AnswerOk(w) ==
    /\ pc[w] = "sending"
    /\ pc' = [pc EXCEPT ![w] = "answered"]
    /\ ok' = [ok EXCEPT ![w] = TRUE]
    /\ accepted' = [accepted EXCEPT ![job[w]] = accepted[job[w]] + 1]
    /\ UNCHANGED <<hookVars, rowVars, job, attempt, age, sent, deaths>>

AnswerBad(w) ==
    /\ pc[w] = "sending"
    /\ pc' = [pc EXCEPT ![w] = "answered"]
    /\ UNCHANGED <<hookVars, rowVars, job, attempt, ok, age, histVars>>

\* The three outcomes, each one transaction on the delivery and the hook.
Outcome(w, s, n, t) ==
    /\ status[job[w]] # "deleted"
    /\ status' = [status EXCEPT ![job[w]] = s]
    /\ attempts' = [attempts EXCEPT ![job[w]] = n]
    /\ due' = [due EXCEPT ![job[w]] = t]

RecordSuccess(w) ==
    /\ pc[w] = "answered" /\ ok[w]
    /\ Outcome(w, "success", attempt[w], 0)
    /\ fails' = 0
    /\ EndCall(w)
    /\ UNCHANGED <<exists, enabled, archived, edits, histVars>>

\* Mutants: the attempt is not counted; one attempt more is made.
RecordRetryUncounted(w) ==
    /\ pc[w] = "answered" /\ ~ ok[w] /\ attempt[w] < MaxAttempts
    /\ Outcome(w, "pending", attempt[w] - 1, Backoff)
    /\ EndCall(w)
    /\ UNCHANGED <<hookVars, histVars>>

RecordRetryOnceMore(w) ==
    /\ pc[w] = "answered" /\ ~ ok[w] /\ attempt[w] <= MaxAttempts
    /\ Outcome(w, "pending", attempt[w], Backoff)
    /\ EndCall(w)
    /\ UNCHANGED <<hookVars, histVars>>

RecordRetry(w) ==
    /\ pc[w] = "answered" /\ ~ ok[w] /\ attempt[w] < MaxAttempts
    /\ Outcome(w, "pending", attempt[w], Backoff)
    /\ EndCall(w)
    /\ UNCHANGED <<hookVars, histVars>>

RecordExhausted(w) ==
    /\ pc[w] = "answered" /\ ~ ok[w] /\ attempt[w] >= MaxAttempts
    /\ Outcome(w, "failed", attempt[w], 0)
    /\ fails' = fails + 1
    /\ pc' = [pc EXCEPT ![w] = "disabling"]
    /\ UNCHANGED <<exists, enabled, archived, edits, job, attempt, ok, age, histVars>>

\* Mutant: one failure more is waited for.
OverLimitStrict == fails > DisableAfter /\ enabled

\* updateMany: consecutiveFailures >= autoDisableAfter and enabled.
OverLimit == fails >= DisableAfter /\ enabled

AutoDisable(w) ==
    /\ pc[w] = "disabling"
    /\ enabled' = (enabled /\ ~ (exists /\ OverLimit))
    /\ EndCall(w)
    /\ UNCHANGED <<exists, archived, fails, edits, rowVars, histVars>>

\* The process dies, or a statement of the call is rejected.
Die(w) ==
    /\ deaths < MaxDeaths
    /\ pc[w] # "idle"
    /\ EndCall(w)
    /\ deaths' = deaths + 1
    /\ UNCHANGED <<hookVars, rowVars, accepted, sent>>
-----------------------------------------------------------------------------
\* The administrator

Edit == /\ exists
        /\ edits < MaxEdits
        /\ edits' = edits + 1

\* update with enabled: true, with enabled: false, and archive
Enable ==
    /\ Edit
    /\ enabled' = TRUE /\ fails' = 0
    /\ UNCHANGED <<exists, archived, rowVars, callVars, histVars>>

Disable ==
    /\ Edit
    /\ enabled' = FALSE
    /\ UNCHANGED <<exists, archived, fails, rowVars, callVars, histVars>>

Archive ==
    /\ Edit
    /\ enabled' = FALSE /\ archived' = TRUE
    /\ UNCHANGED <<exists, fails, rowVars, callVars, histVars>>

\* delete: the deliveries go with the hook.
Delete ==
    /\ Edit
    /\ exists' = FALSE
    /\ status' = [d \in Delivery |->
                    IF status[d] \in {"unsent", "matched"} THEN status[d] ELSE "deleted"]
    /\ UNCHANGED <<enabled, archived, fails, attempts, due, callVars, histVars>>
-----------------------------------------------------------------------------
\* Time passes while no live call has reached Stall.
Tick ==
    /\ \A w \in Worker : pc[w] \in Claimed => age[w] < Stall
    /\ due' = [d \in Delivery |-> IF /\ status[d] \in {"pending", "in_flight"}
                                     /\ due[d] > - Window
                                    THEN due[d] - 1 ELSE due[d]]
    /\ age' = [w \in Worker |-> IF pc[w] \in Claimed THEN age[w] + 1 ELSE age[w]]
    /\ UNCHANGED <<hookVars, status, attempts, pc, job, attempt, ok, histVars>>

Record(w) == RecordSuccess(w) \/ RecordRetry(w) \/ RecordExhausted(w)

\* The steps of a call that nothing but its own awaits holds up.
Proceed(w) ==
    \/ Claim(w) \/ ClaimMisses(w) \/ Send(w) \/ FindDisabled(w) \/ Drop(w)
    \/ FindDeleted(w) \/ AnswerOk(w) \/ AnswerBad(w) \/ Record(w) \/ AutoDisable(w)

Next ==
    \/ \E d \in Delivery : \/ Match(d) \/ CreateFails(d)
                           \/ \E w \in Worker : Create(d, w) \/ Sweep(d, w)
    \/ \E w \in Worker : Proceed(w) \/ Die(w)
    \/ Enable \/ Disable \/ Archive \/ Delete
    \/ Tick

Spec == Init /\ [][Next]_vars

\* Promises settle, the clock runs, and the interval of the sweep lists every
\* due row again and again.
FairSpec ==
    /\ Spec
    /\ \A w \in Worker : WF_vars(Proceed(w))
    /\ \A d \in Delivery : SF_vars(\E w \in Worker : Sweep(d, w))
    /\ WF_vars(Tick)
-----------------------------------------------------------------------------
(***************************************************************************)
(* The claim is exclusive: while no live call outlasts the two windows of  *)
(* a claim, two calls never hold one delivery, however sweeps, replicas    *)
(* and the request's own attempt overlap.                                  *)
(***************************************************************************)
OneSender ==
    \A v, w \in Worker :
        pc[v] \in Claimed /\ pc[w] \in Claimed /\ job[v] = job[w] => v = w

(***************************************************************************)
(* At least once, and no more often than the faults explain: an endpoint   *)
(* that has answered 2xx gets the same delivery again only for a call that *)
(* ended before it could record the answer, and the requests sent for one  *)
(* delivery exceed webhook.maxAttempts only by such calls.                 *)
(***************************************************************************)
RepeatsOnlyAfterDeath ==
    \A d \in Delivery : /\ accepted[d] <= 1 + deaths
                        /\ sent[d] <= MaxAttempts + deaths

(***************************************************************************)
(* A delivery that has succeeded or failed for good is never attempted or  *)
(* written again.                                                          *)
(***************************************************************************)
OutcomeIsFinal ==
    [][\A d \in Delivery :
         status[d] \in {"success", "failed"} => status'[d] \in {status[d], "deleted"}]_vars

(***************************************************************************)
(* A hook that has reached the limit of consecutive failures does not stay *)
(* on: a call is about to switch it off, or the one that should have has   *)
(* died.  Successes, re-enabling and other exhausted deliveries run        *)
(* between the increment of the counter and the conditional update.        *)
(***************************************************************************)
OverLimitIsSwitchedOff ==
    exists /\ enabled /\ fails >= DisableAfter =>
        deaths > 0 \/ \E w \in Worker : pc[w] = "disabling"

(***************************************************************************)
(* Every delivery ends: calls that die, stale lists, disabled and archived *)
(* hooks leave no row pending or in flight for ever.                       *)
(***************************************************************************)
EveryDeliveryEnds ==
    \A d \in Delivery :
        status[d] \in {"pending", "in_flight"} ~> status[d] \in Final
=============================================================================
