---------------------------- MODULE OutboxProofs ----------------------------
(***************************************************************************)
(* Proofs about Outbox, for any users, any number of mutations and any     *)
(* mishaps.                                                                *)
(*                                                                         *)
(* PendingIsKept is not inductive.  A row goes in two places: behind the   *)
(* answer to its mutation (Removing), and in the clean-up of hydrate,      *)
(* whose list must not hold a mutation of this session, although session   *)
(* and owners change (ForeignIsForeign).  That a mutation is not on the    *)
(* list before it is enqueued needs all numbers in use to be at most born. *)
(*                                                                         *)
(* The order of the applications needs that a request carries the head of  *)
(* the queue (OnHead), that a page which was never lost has all it waits   *)
(* for in memory (InMemory), so that hydrate puts nothing but answered     *)
(* mutations at the back, and that what waits is behind smaller mutations  *)
(* only (Sequenced).  The number of applications is counted by Explained,  *)
(* with the answers and the late requests that are still under way.        *)
(***************************************************************************)
EXTENDS Outbox, FiniteSetTheorems, SequenceTheorems, TLAPS

InRequest == {"sending", "ok", "rejected", "failed"}

\* Nothing holds a mutation that has not been enqueued.
Born ==
    /\ rows \subseteq 1 .. born
    /\ unsaved \subseteq 1 .. born
    /\ foreign \subseteq 1 .. born
    /\ \A k \in 1 .. Len(queue) : queue[k] <= born
    /\ drain # "idle" => tx \in 1 .. born

\* The drain works on the head of a queue that is not empty.
Working == drain \in InRequest => queue # <<>>

\* A row is deleted only behind the outcome of its mutation.
Removing == drain = "removing" => outcome[tx] # "none"

\* The list of the clean-up.
ForeignIsForeign ==
    /\ boot # "cleaning" => foreign = {}
    /\ \A x \in foreign : owner[x] # session

Inv ==
    /\ TypeOK
    /\ Born /\ Working /\ Removing /\ ForeignIsForeign
    /\ PendingIsKept

-----------------------------------------------------------------------------
\* Sequences of mutations

\* The mutations of a queue are at most n after one that is.
LEMMA AppendTx ==
    ASSUME NEW q \in Seq(Tx), NEW n \in Nat, NEW x \in Tx, x <= n,
           \A k \in 1 .. Len(q) : q[k] <= n
    PROVE  /\ Append(q, x) \in Seq(Tx) /\ Append(q, x) # <<>>
           /\ \A k \in 1 .. Len(Append(q, x)) : Append(q, x)[k] <= n
<1>1. Append(q, x) \in Seq(Tx) /\ Len(Append(q, x)) = Len(q) + 1
  OBVIOUS
<1>2. \A k \in 1 .. Len(q) + 1 : Append(q, x)[k] = IF k = Len(q) + 1 THEN x ELSE q[k]
  OBVIOUS
<1> QED
  BY <1>1, <1>2

\* What is left of a queue.
LEMMA TailTx ==
    ASSUME NEW q \in Seq(Tx), q # <<>>, NEW n \in Nat,
           \A k \in 1 .. Len(q) : q[k] <= n
    PROVE  /\ Head(q) \in Tx /\ Head(q) <= n
           /\ Tail(q) \in Seq(Tx)
           /\ \A k \in 1 .. Len(Tail(q)) : Tail(q)[k] <= n
<1>1. Head(q) = q[1] /\ 1 \in 1 .. Len(q)
  OBVIOUS
<1>2. \A k \in 1 .. Len(Tail(q)) : k + 1 \in 1 .. Len(q) /\ Tail(q)[k] = q[k + 1]
  OBVIOUS
<1> QED
  BY <1>1, <1>2

\* What hydrate puts behind the queue.
LEMMA HydrateTx ==
    ASSUME NEW q \in Seq(Tx), NEW n \in Nat, NEW S \in SUBSET (1 .. n), n <= MaxTx,
           NEW new \in Sorted(S),
           \A k \in 1 .. Len(q) : q[k] <= n
    PROVE  /\ q \o new \in Seq(Tx)
           /\ q # <<>> => q \o new # <<>>
           /\ \A k \in 1 .. Len(q \o new) : (q \o new)[k] <= n
<1>1. IsFiniteSet(S) /\ Cardinality(S) \in Nat
  <2>1. IsFiniteSet(1 .. n)
    BY FS_Interval
  <2>2. IsFiniteSet(S)
    BY <2>1, FS_Subset
  <2> QED
    BY <2>2, FS_CardinalityType
<1>2. new \in [1 .. Cardinality(S) -> S]
  BY DEF Sorted
<1>3. S \subseteq Tx
  BY OutboxAssumption DEF Tx
<1>4. new \in Seq(Tx) /\ Len(new) = Cardinality(S) /\ \A k \in 1 .. Len(new) : new[k] \in S
  <2>1. \A k \in 1 .. Cardinality(S) : new[k] \in S /\ new[k] \in Tx
    BY <1>2, <1>3
  <2>2. new \in [1 .. Cardinality(S) -> Tx]
    BY <1>2, <1>3
  <2> QED
    BY <1>1, <2>1, <2>2, SeqDef
<1>5. ASSUME NEW k \in 1 .. Len(new) PROVE new[k] <= n
  <2>1. new[k] \in S
    BY <1>4
  <2>2. new[k] \in 1 .. n
    BY <2>1
  <2> QED
    BY <2>2
<1>6. ASSUME NEW k \in 1 .. Len(q \o new) PROVE (q \o new)[k] <= n
  <2>1. CASE k <= Len(q)
    BY <1>4, <2>1
  <2>2. CASE k > Len(q)
    <3>1. k - Len(q) \in 1 .. Len(new) /\ (q \o new)[k] = new[k - Len(q)]
      BY <1>4, <2>2
    <3> QED
      BY <3>1, <1>5
  <2> QED
    BY <2>1, <2>2
<1>7. q \o new \in Seq(Tx) /\ (q # <<>> => q \o new # <<>>)
  BY <1>4
<1> QED
  BY <1>6, <1>7

-----------------------------------------------------------------------------
\* The steps

\* Everything at first.
LEMMA InitInv == Init => Inv
<1> SUFFICES ASSUME Init PROVE Inv
  OBVIOUS
<1>0. FlagsOK
  BY Zenon DEF Init, FlagsOK
<1>1. TypeOK
  BY <1>0, OutboxAssumption DEF Init, TypeOK, Tx
<1> QED
  BY <1>1 DEF Init, Inv, Born, Working, Removing, ForeignIsForeign, PendingIsKept, Tx, InRequest

\* enqueue and what follows from it.
LEMMA EnqueueStep ==
    ASSUME Inv, Enqueue
    PROVE  Inv'
<1> USE DEF Inv
<1>0. FlagsOK'
  BY Zenon DEF Enqueue, TypeOK, FlagsOK
<1>1. born + 1 \in Tx /\ born' = born + 1
  BY OutboxAssumption DEF Enqueue, TypeOK, Tx
<1>2. /\ queue' \in Seq(Tx) /\ queue' # <<>>
      /\ \A k \in 1 .. Len(queue') : queue'[k] <= born'
  <2>1. \A k \in 1 .. Len(queue) : queue[k] \in Tx
    BY DEF TypeOK
  <2>2. \A k \in 1 .. Len(queue) : queue[k] <= born + 1
    BY <2>1, <1>1, OutboxAssumption, SMTT(30) DEF Born, TypeOK, Tx
  <2> QED
    BY <1>1, <2>2, AppendTx DEF Enqueue, TypeOK
<1>3. TypeOK'
  BY <1>0, <1>1, <1>2, OutboxAssumption
  DEF Enqueue, TypeOK, Tx, drainVars, serverVars, histVars, boundVars
<1>4. Born'
  BY <1>1, <1>2 DEF Enqueue, Born, TypeOK, Tx, drainVars
<1>5. Working' /\ Removing' /\ PendingIsKept'
  BY <1>2 DEF Enqueue, Working, Removing, PendingIsKept, drainVars, histVars
<1>6. ForeignIsForeign'
  <2>1. born + 1 \notin foreign
    BY DEF Born, TypeOK
  <2> QED
    BY <2>1, <1>1 DEF Enqueue, ForeignIsForeign, Born, TypeOK
<1> QED
  BY <1>3, <1>4, <1>5, <1>6

\* The end of a persist.
LEMMA PersistStep ==
    ASSUME Inv, NEW x \in Tx, Persisted(x) \/ PersistFails(x)
    PROVE  Inv'
<1> USE DEF Inv, Persisted, PersistFails, Persist
<1>0. FlagsOK'
  BY Zenon DEF TypeOK, FlagsOK
<1>1. TypeOK'
  BY <1>0 DEF TypeOK, drainVars, serverVars, boundVars, Fault
<1>2. Born'
  BY DEF Born, drainVars
<1>3. Working' /\ Removing' /\ ForeignIsForeign' /\ PendingIsKept'
  BY DEF Working, Removing, ForeignIsForeign, PendingIsKept, drainVars
<1> QED
  BY <1>1, <1>2, <1>3

\* A drain starts.
LEMMA SendStep ==
    ASSUME Inv, Send
    PROVE  Inv'
<1> USE DEF Inv, Send
<1>1. Head(queue) \in Tx /\ Head(queue) <= born
  BY TailTx, OutboxAssumption DEF Busy, Born, TypeOK
<1>0. FlagsOK'
  BY Zenon DEF TypeOK, FlagsOK
<1>2. TypeOK'
  BY <1>0, <1>1 DEF TypeOK, diskVars, serverVars, histVars, boundVars
<1>3. Born' /\ Working' /\ Removing' /\ ForeignIsForeign' /\ PendingIsKept'
  BY <1>1 DEF Busy, Born, Tx, TypeOK, Working, Removing, ForeignIsForeign, PendingIsKept, diskVars, histVars
<1> QED
  BY <1>2, <1>3

\* The head of the queue leaves it, with an outcome.
LEMMA ShiftStep ==
    ASSUME Inv, drain \in InRequest, NEW o \in {"ok", "failed"}, Shift(o)
    PROVE  Inv'
<1> USE DEF Inv, Shift
<1>1. /\ queue' \in Seq(Tx)
      /\ \A k \in 1 .. Len(queue') : queue'[k] <= born
  BY TailTx DEF Working, Born, TypeOK, Tx
<1>2. tx \in 1 .. born /\ tx \in Tx
  BY OutboxAssumption DEF Born, InRequest, TypeOK, Tx
<1>0. FlagsOK'
  BY Zenon DEF TypeOK, FlagsOK
<1>3. TypeOK'
  <2>1. outcome' \in [Tx -> {"none", "ok", "failed", "foreign"}]
    BY DEF TypeOK
  <2>2. retries' \in 0 .. MaxRetries
    BY OutboxAssumption
  <2>3. UNCHANGED <<session, boot, foreign, unsaved, tx, sentAs, rows, owner, born, cookie, late,
                    value, applied, saved, faults, reloads, breaks>>
    BY DEF diskVars, serverVars, boundVars
  <2> QED
    BY <1>0, <1>1, <2>1, <2>2, <2>3 DEF TypeOK
<1>4. Born'
  BY <1>1, <1>2 DEF Born, diskVars
<1>5. Working' /\ Removing' /\ ForeignIsForeign' /\ PendingIsKept'
  BY <1>2 DEF Working, InRequest, Removing, ForeignIsForeign, PendingIsKept, diskVars, TypeOK
<1> QED
  BY <1>3, <1>4, <1>5

\* The other steps of the drain.
LEMMA DrainStep ==
    ASSUME Inv, Pass \/ Pause \/ Retry \/ Wake \/ Unpersist
    PROVE  Inv'
<1> USE DEF Inv
<1>0. FlagsOK'
  BY Zenon DEF TypeOK, FlagsOK, Pass, Pause, Retry, Wake, Unpersist, pageVars
<1>1. TypeOK'
  <2>1. UNCHANGED <<queue, session, boot, foreign, unsaved, owner, born, cookie, late, value,
                    applied, outcome, faults, reloads, breaks>>
    BY DEF Pass, Pause, Retry, Wake, Unpersist, pageVars, diskVars, serverVars, histVars, boundVars
  <2>2. tx' \in Tx \cup {0} /\ sentAs' \in User \cup {NoUser}
    BY DEF TypeOK, Pass, Pause, Retry, Wake, Unpersist, drainVars
  <2>3. retries' \in 0 .. MaxRetries
    BY OutboxAssumption DEF TypeOK, Pass, Pause, Retry, Wake, Unpersist, GivesUp, drainVars
  <2>4. drain' \in {"idle", "sending", "ok", "rejected", "failed", "removing", "sleeping"}
    BY DEF TypeOK, Pass, Pause, Retry, Wake, Unpersist, drainVars
  <2>5. rows' \in SUBSET Tx /\ saved' \in SUBSET Tx
    <3>1. drain = "failed" => tx \in Tx
      BY OutboxAssumption DEF TypeOK, Born, Tx
    <3> QED
      BY <3>1 DEF TypeOK, Pass, Pause, Retry, Wake, Unpersist, diskVars, histVars
  <2> QED
    BY <1>0, <2>1, <2>2, <2>3, <2>4, <2>5 DEF TypeOK
<1>2. CASE Pass
  BY <1>1, <1>2 DEF Pass, Born, Working, Removing, ForeignIsForeign, PendingIsKept,
      drainVars, diskVars, histVars
<1>3. CASE Pause
  BY <1>1, <1>3 DEF Pause, Born, Working, Removing, ForeignIsForeign, PendingIsKept, InRequest,
      pageVars, diskVars, histVars
<1>4. CASE Retry
  BY <1>1, <1>4 DEF Retry, Born, Working, Removing, ForeignIsForeign, PendingIsKept, InRequest,
      pageVars
<1>5. CASE Wake
  BY <1>1, <1>5 DEF Wake, Born, Working, Removing, ForeignIsForeign, PendingIsKept, InRequest,
      diskVars, histVars
<1>6. CASE Unpersist
  BY <1>1, <1>6 DEF Unpersist, Born, Working, Removing, ForeignIsForeign, PendingIsKept, InRequest,
      histVars
<1> QED
  BY <1>2, <1>3, <1>4, <1>5, <1>6

\* What becomes of a request.
LEMMA RequestStep ==
    ASSUME Inv,
           \/ ServerAccepts \/ ServerRejects \/ RequestFails \/ AnswerLost \/ GatewayTimeout
           \/ \E x \in Tx : ApplyLate(x)
    PROVE  Inv'
<1> USE DEF Inv, ServerAccepts, ServerRejects, RequestFails, AnswerLost, GatewayTimeout, ApplyLate
<1>1. drain \in InRequest => tx \in Tx
  BY OutboxAssumption DEF Born, TypeOK, InRequest, Tx
<1>0. FlagsOK'
  BY Zenon DEF TypeOK, FlagsOK, pageVars
<1>2. TypeOK'
  <2>1. UNCHANGED <<queue, session, boot, foreign, unsaved, tx, sentAs, retries, rows, saved, owner,
                    born, cookie, outcome>>
    BY DEF pageVars, drainVars, diskVars, serverVars, histVars
  <2>2. value' \in 0 .. MaxTx /\ applied' \in [Tx -> Nat]
    <3>1. UNCHANGED <<value, applied>> \/ \E x \in Tx : Apply(x)
      BY <1>1 DEF InRequest, serverVars
    <3>2. ASSUME NEW x \in Tx, Apply(x) PROVE value' \in 0 .. MaxTx /\ applied' \in [Tx -> Nat]
      BY <3>2 DEF Apply, TypeOK, Tx
    <3> QED
      BY <3>1, <3>2 DEF TypeOK
  <2>3. late' \in SUBSET Tx
    BY <1>1 DEF InRequest, TypeOK, serverVars
  <2>4. faults' \in Nat /\ reloads' \in Nat /\ breaks' \in Nat
    BY DEF TypeOK, Fault, boundVars
  <2>5. drain' \in {"idle", "sending", "ok", "rejected", "failed", "removing", "sleeping"}
    BY DEF TypeOK, drainVars
  <2> QED
    BY <1>0, <2>1, <2>2, <2>3, <2>4, <2>5 DEF TypeOK
<1>3. Born' /\ Working' /\ Removing' /\ ForeignIsForeign' /\ PendingIsKept'
  BY DEF Born, Working, Removing, ForeignIsForeign, PendingIsKept, InRequest,
      pageVars, drainVars, diskVars, histVars
<1> QED
  BY <1>2, <1>3

\* hydrate reads the rows.
LEMMA HydrateStep ==
    ASSUME Inv, Hydrate
    PROVE  Inv'
<1> USE DEF Inv, Hydrate
<1>0. FlagsOK'
  BY Zenon DEF TypeOK, FlagsOK
<1>1. Mine \ Queued \in SUBSET (1 .. born) /\ born \in Nat /\ born <= MaxTx
  <2>1. rows \subseteq 1 .. born
    BY DEF Born
  <2>2. born \in Nat /\ born <= MaxTx
    BY OutboxAssumption DEF TypeOK
  <2> QED
    BY <2>1, <2>2 DEF Mine
<1>2. /\ queue' \in Seq(Tx) /\ (queue # <<>> => queue' # <<>>)
      /\ \A k \in 1 .. Len(queue') : queue'[k] <= born
  BY <1>1, HydrateTx DEF Born, TypeOK
<1>3. TypeOK'
  BY <1>0, <1>2 DEF TypeOK, drainVars, diskVars, serverVars, histVars, boundVars
<1>4. Born' /\ Working' /\ Removing' /\ PendingIsKept'
  BY <1>2 DEF Born, Working, Removing, PendingIsKept, drainVars, diskVars, histVars
<1>5. ForeignIsForeign'
  BY DEF ForeignIsForeign, Mine, diskVars
<1> QED
  BY <1>3, <1>4, <1>5

\* The clean-up of hydrate.
LEMMA CleanStep ==
    ASSUME Inv, Clean
    PROVE  Inv'
<1> USE DEF Inv, Clean
<1>0. FlagsOK'
  <2>1. (queue # <<>>) \in BOOLEAN
    OBVIOUS
  <2> QED
    BY <2>1, Zenon DEF TypeOK, FlagsOK
<1>1. TypeOK'
  BY <1>0 DEF TypeOK, drainVars, serverVars, boundVars
<1>2. Born' /\ Working' /\ ForeignIsForeign'
  BY DEF Born, Working, ForeignIsForeign, drainVars
<1>3. Removing'
  BY OutboxAssumption DEF Removing, drainVars, TypeOK, Born, Tx
<1>4. PendingIsKept'
  BY DEF PendingIsKept, ForeignIsForeign, TypeOK
<1> QED
  BY <1>1, <1>2, <1>3, <1>4

\* Boots, sessions and connectivity.
LEMMA PageStep ==
    ASSUME Inv, \/ SetSession \/ SkipHydrate \/ Logout \/ Reload \/ GoOffline \/ GoOnline
                \/ \E u \in User : SignIn(u)
    PROVE  Inv'
<1> USE DEF Inv
<1>0. FlagsOK'
  BY Zenon DEF TypeOK, FlagsOK, SetSession, SkipHydrate, Logout, Reload, GoOffline, GoOnline,
      SignIn, pageVars
<1>1. TypeOK'
  <2>1. faults' \in Nat /\ reloads' \in Nat /\ breaks' \in Nat
    BY DEF SetSession, SkipHydrate, Logout, Reload, GoOffline, GoOnline, SignIn,
        TypeOK, Fault, Reboot, Break, boundVars
  <2>2. CASE Reload
    <3>1. late' \in SUBSET Tx
      <4>1. drain = "sending" => tx \in Tx
        BY OutboxAssumption DEF Born, TypeOK, Tx
      <4>2. late' = late \/ (drain = "sending" /\ late' = late \cup {tx})
        BY <2>2 DEF Reload
      <4> QED
        BY <4>1, <4>2 DEF TypeOK
    <3>2. retries' \in 0 .. MaxRetries
      BY <2>2, OutboxAssumption DEF Reload
    <3> QED
      BY <1>0, <2>1, <2>2, <3>1, <3>2 DEF Reload, TypeOK
  <2>3. CASE \/ SetSession \/ SkipHydrate \/ Logout \/ GoOffline \/ GoOnline
             \/ \E u \in User : SignIn(u)
    BY <1>0, <2>1, <2>3 DEF SetSession, SkipHydrate, Logout, GoOffline, GoOnline, SignIn,
        TypeOK, pageVars, drainVars, diskVars, serverVars, histVars
  <2> QED
    BY <2>2, <2>3
<1>2. CASE Reload
  BY <1>1, <1>2 DEF Reload, Born, Working, InRequest, Removing, ForeignIsForeign, PendingIsKept
<1>3. CASE \/ SetSession \/ SkipHydrate \/ Logout \/ GoOffline \/ GoOnline
           \/ \E u \in User : SignIn(u)
  BY <1>1, <1>3 DEF SetSession, SkipHydrate, Logout, GoOffline, GoOnline, SignIn,
      Born, Working, Removing, ForeignIsForeign, PendingIsKept,
      pageVars, drainVars, diskVars, histVars
<1> QED
  BY <1>2, <1>3

\* Every step.
LEMMA InvStep == Inv /\ [Next]_vars => Inv'
<1> SUFFICES ASSUME Inv, [Next]_vars PROVE Inv'
  OBVIOUS
<1>1. CASE Succeed \/ Fail
  BY <1>1, ShiftStep DEF Succeed, Fail, InRequest
<1>2. CASE UNCHANGED vars
  <2>1. FlagsOK'
    BY <1>2, Zenon DEF vars, pageVars, Inv, TypeOK, FlagsOK
  <2> QED
    BY <1>2, <2>1, SMTT(30) DEF vars, pageVars, drainVars, diskVars, serverVars, histVars, boundVars,
        Inv, TypeOK, Born, Working, Removing, ForeignIsForeign, PendingIsKept
<1> QED
  BY <1>1, <1>2, EnqueueStep, PersistStep, SendStep, DrainStep, RequestStep, HydrateStep,
     CleanStep, PageStep DEF Next, Process, Respond

(***************************************************************************)
(* Type correctness of the queue, its rows and its drain.                  *)
(***************************************************************************)
THEOREM TypeCorrect == Spec => []TypeOK
<1>1. Inv => TypeOK
  BY DEF Inv
<1> QED
  BY <1>1, InitInv, InvStep, PTL DEF Spec

(***************************************************************************)
(* A persisted mutation without an outcome has a row, whatever reloads,    *)
(* retries, sign-outs and hydrates of other sessions come in between.      *)
(***************************************************************************)
THEOREM RowsAreKept == Spec => []PendingIsKept
<1>1. Inv => PendingIsKept
  BY DEF Inv
<1> QED
  BY <1>1, InitInv, InvStep, PTL DEF Spec
-----------------------------------------------------------------------------
\* The order and the number of applications

\* What the server has, or may still get, has been enqueued.
Numbered == value <= born /\ late \subseteq 1 .. born

\* A request carries the head of the queue.
OnHead == drain \in InRequest => queue # <<>> /\ tx = Head(queue)

\* A page that has not been reloaded has every mutation it knows no outcome of.
InMemory ==
    reloads = 0 =>
       \A x \in 1 .. born : outcome[x] = "none" => \E k \in 1 .. Len(queue) : queue[k] = x

\* Then a mutation without an outcome is behind smaller ones only: hydrate puts
\* nothing but answered mutations behind it.
Sequenced ==
    reloads = 0 =>
       \A j \in 1 .. Len(queue) : outcome[queue[j]] = "none" =>
          /\ value <= queue[j] /\ \A x \in late : x <= queue[j]
          /\ \A i \in 1 .. Len(queue) : i < j => queue[i] < queue[j]

Order == Numbered /\ OnHead /\ InMemory /\ Sequenced

\* Applications of a mutation without an outcome: each but the one whose answer
\* is on its way is explained by a fault or a reload, and so is each to come.
Unanswered(x)  == IF drain = "ok" /\ tx = x THEN 1 ELSE 0
Outstanding(x) == IF x \in late THEN 1 ELSE 0

Explained ==
    \A x \in Tx : outcome[x] = "none" =>
       applied[x] + Outstanding(x) <= faults + reloads + Unanswered(x)

\* No outcome is forgotten, and a page that is lost is counted.
LEMMA OutcomesStay ==
    ASSUME Inv, [Next]_vars
    PROVE  /\ \A x \in Tx : outcome'[x] = "none" => outcome[x] = "none"
           /\ reloads' = 0 => reloads = 0
           /\ faults' >= faults /\ reloads' >= reloads
<1>0. faults \in Nat /\ reloads \in Nat /\ outcome \in [Tx -> {"none", "ok", "failed", "foreign"}]
  BY DEF Inv, TypeOK
<1>1. faults' >= faults /\ reloads' >= reloads /\ (reloads' = 0 => reloads = 0)
  <2>1. \/ UNCHANGED <<faults, reloads>> \/ (faults' = faults + 1 /\ reloads' = reloads)
        \/ (faults' = faults /\ reloads' = reloads + 1)
    BY DEF Next, Enqueue, Persisted, PersistFails, Persist, ApplyLate, Process, Respond,
           Pass, Send, Succeed, Fail, Shift, Pause, Retry, Wake, Unpersist, ServerAccepts,
           ServerRejects, RequestFails, AnswerLost, GatewayTimeout, SetSession, Hydrate, Clean,
           SkipHydrate, Logout, Reload, GoOffline, GoOnline, SignIn, Fault, Reboot, Break,
           vars, boundVars
  <2> QED
    BY <1>0, <2>1
<1> SUFFICES \A x \in Tx : outcome'[x] = "none" => outcome[x] = "none"
  BY <1>1
<1>2. CASE UNCHANGED outcome
  BY <1>2
<1>3. ASSUME NEW o \in {"ok", "failed"}, Shift(o)
      PROVE  \A x \in Tx : outcome'[x] = "none" => outcome[x] = "none"
  BY <1>0, <1>3 DEF Shift
<1>4. CASE Clean
  BY <1>0, <1>4 DEF Clean
<1>5. \/ UNCHANGED outcome \/ Clean \/ \E o \in {"ok", "failed"} : Shift(o)
  BY DEF Next, Enqueue, Persisted, PersistFails, Persist, ApplyLate, Process, Respond,
         Pass, Send, Succeed, Fail, Pause, Retry, Wake, Unpersist, ServerAccepts,
         ServerRejects, RequestFails, AnswerLost, GatewayTimeout, SetSession, Hydrate,
         SkipHydrate, Logout, Reload, GoOffline, GoOnline, SignIn, vars, histVars
<1> QED
  BY <1>1, <1>2, <1>3, <1>4, <1>5

LEMMA ExplainedStep == ASSUME Inv, Explained, [Next]_vars PROVE Explained'
<1> SUFFICES ASSUME NEW x \in Tx, outcome'[x] = "none"
             PROVE  applied'[x] + (IF x \in late' THEN 1 ELSE 0)
                       <= faults' + reloads' + (IF drain' = "ok" /\ tx' = x THEN 1 ELSE 0)
  BY DEF Explained, Outstanding, Unanswered
<1>0. /\ TypeOK /\ outcome[x] = "none"
      /\ applied \in [Tx -> Nat] /\ applied[x] \in Nat /\ faults \in Nat /\ reloads \in Nat
      /\ applied[x] + (IF x \in late THEN 1 ELSE 0)
            <= faults + reloads + (IF drain = "ok" /\ tx = x THEN 1 ELSE 0)
  BY OutcomesStay DEF Inv, TypeOK, Explained, Outstanding, Unanswered
<1>1. CASE ServerAccepts
  BY <1>0, <1>1 DEF ServerAccepts, Apply, boundVars
<1>2. ASSUME NEW y \in Tx, ApplyLate(y)
      PROVE  applied'[x] + (IF x \in late' THEN 1 ELSE 0)
                <= faults' + reloads' + (IF drain' = "ok" /\ tx' = x THEN 1 ELSE 0)
  BY <1>0, <1>2 DEF ApplyLate, Apply, boundVars, drainVars
<1>3. CASE AnswerLost \/ GatewayTimeout
  BY <1>0, <1>3 DEF AnswerLost, GatewayTimeout, Fault, serverVars
<1>4. CASE Reload
  BY <1>0, <1>4 DEF Reload, Reboot
<1>5. ASSUME NEW o \in {"ok", "failed"}, Shift(o)
      PROVE  x # tx /\ UNCHANGED <<applied, late, faults, reloads, tx>>
  BY <1>0, <1>5 DEF Shift, serverVars, boundVars, TypeOK
<1>6. CASE Succeed \/ Fail
  BY <1>0, <1>5, <1>6 DEF Succeed, Fail
<1>7. CASE \/ Pass \/ Send \/ Pause \/ Retry \/ Wake \/ Unpersist \/ ServerRejects \/ RequestFails
  BY <1>0, <1>7 DEF Pass, Send, Pause, Retry, Wake, Unpersist, ServerRejects, RequestFails, Fault,
     Busy, drainVars, serverVars, boundVars
<1>8. CASE \/ Enqueue \/ SetSession \/ Hydrate \/ Clean \/ SkipHydrate \/ Logout
           \/ GoOffline \/ GoOnline \/ \E y \in Tx : Persisted(y) \/ PersistFails(y)
           \/ \E u \in User : SignIn(u)
  <2>1. UNCHANGED <<applied, late, drain, tx>>
    BY <1>8 DEF Enqueue, SetSession, Hydrate, Clean, SkipHydrate, Logout, GoOffline, GoOnline,
       Persisted, PersistFails, Persist, SignIn, drainVars, serverVars
  <2>2. /\ faults' >= faults /\ reloads' >= reloads /\ faults' \in Nat /\ reloads' \in Nat
    BY OutcomesStay, InvStep DEF Inv, TypeOK
  <2> QED
    BY <1>0, <2>1, <2>2
<1>9. CASE UNCHANGED vars
  BY <1>0, <1>9 DEF vars, drainVars, serverVars, boundVars
<1> QED
  BY <1>1, <1>2, <1>3, <1>4, <1>6, <1>7, <1>8, <1>9 DEF Next, Process, Respond

LEMMA NumberedStep == ASSUME Inv, Numbered, [Next]_vars PROVE Numbered'
<1>0. born \in Nat /\ value \in 0 .. MaxTx /\ (drain \in InRequest => tx \in 1 .. born)
  BY DEF Inv, TypeOK, Born, InRequest
<1>1. CASE ServerAccepts \/ GatewayTimeout
  <2>1. drain = "sending" /\ UNCHANGED born
    BY <1>1 DEF ServerAccepts, GatewayTimeout, diskVars
  <2>2. tx \in 1 .. born
    BY <1>0, <2>1 DEF InRequest
  <2>3. (value' = value \/ value' = tx) /\ late' \subseteq late \cup {tx}
    BY <1>1 DEF ServerAccepts, GatewayTimeout, Apply
  <2> QED
    BY <1>0, <2>1, <2>2, <2>3 DEF Numbered
<1>2. ASSUME NEW y \in Tx, ApplyLate(y) PROVE Numbered'
  BY <1>0, <1>2 DEF ApplyLate, Apply, Numbered, diskVars
<1>3. CASE Reload
  BY <1>0, <1>3 DEF Reload, Numbered, InRequest
<1>4. CASE Enqueue
  BY <1>0, <1>4 DEF Enqueue, Numbered, serverVars
<1>5. CASE UNCHANGED <<value, late, born>>
  BY <1>5 DEF Numbered
<1>6. \/ ServerAccepts \/ GatewayTimeout \/ Reload \/ Enqueue
      \/ (\E y \in Tx : ApplyLate(y)) \/ UNCHANGED <<value, late, born>>
  BY DEF Next, Persisted, PersistFails, Persist, Process, Respond,
         Pass, Send, Succeed, Fail, Shift, Pause, Retry, Wake, Unpersist,
         ServerRejects, RequestFails, AnswerLost, SetSession, Hydrate, Clean,
         SkipHydrate, Logout, GoOffline, GoOnline, SignIn, vars, diskVars, serverVars
<1> QED
  BY <1>1, <1>2, <1>3, <1>4, <1>5, <1>6

\* What a step does to the queue and to the request under way.
LEMMA QueueMoves ==
    ASSUME [Next]_vars
    PROVE  \/ Enqueue \/ Hydrate \/ Reload \/ Send
           \/ \E o \in {"ok", "failed"} : Shift(o)
           \/ UNCHANGED queue /\ (UNCHANGED tx \/ drain' = "idle")
              /\ (drain' \in InRequest => drain \in InRequest)
BY DEF Next, Persisted, PersistFails, Persist, ApplyLate, Process, Respond,
       Pass, Succeed, Fail, Pause, Retry, Wake, Unpersist, ServerAccepts,
       ServerRejects, RequestFails, AnswerLost, GatewayTimeout, SetSession, Clean,
       SkipHydrate, Logout, GoOffline, GoOnline, SignIn, vars, pageVars, drainVars, InRequest

\* What is put behind a queue.
LEMMA ConcatTx ==
    ASSUME NEW q \in Seq(Tx), NEW n \in Seq(Tx)
    PROVE  /\ q \o n \in Seq(Tx) /\ Len(q \o n) = Len(q) + Len(n)
           /\ \A k \in 1 .. Len(q) : (q \o n)[k] = q[k]
           /\ \A k \in 1 .. Len(q \o n) : k > Len(q) =>
                 k - Len(q) \in 1 .. Len(n) /\ (q \o n)[k] = n[k - Len(q)]
OBVIOUS

\* What hydrate puts behind the queue leaves the queue as it is, and is not in it.
LEMMA HydrateCases ==
    ASSUME Inv, Hydrate
    PROVE  /\ Len(queue) \in Nat /\ Len(queue') \in Nat /\ Len(queue) <= Len(queue')
           /\ \A k \in 1 .. Len(queue) : queue'[k] = queue[k]
           /\ \A k \in 1 .. Len(queue') : k > Len(queue) => queue'[k] \in Mine \ Queued
<1>1. PICK new \in Sorted(Mine \ Queued) : queue' = queue \o new
  BY DEF Hydrate
<1>2. IsFiniteSet(Mine \ Queued) /\ Cardinality(Mine \ Queued) \in Nat /\ Mine \ Queued \subseteq Tx
  <2>1. Mine \ Queued \subseteq Tx
    BY DEF Mine, Inv, TypeOK
  <2>2. IsFiniteSet(Tx)
    BY FS_Interval, OutboxAssumption DEF Tx
  <2>3. IsFiniteSet(Mine \ Queued)
    BY <2>1, <2>2, FS_Subset
  <2> QED
    BY <2>1, <2>3, FS_CardinalityType
<1> DEFINE S == Mine \ Queued
<1>3. new \in [1 .. Cardinality(S) -> S]
  BY DEF Sorted
<1> HIDE DEF S
<1>4. new \in Seq(Tx) /\ Len(new) = Cardinality(S) /\ \A k \in 1 .. Len(new) : new[k] \in S
  <2>1. S \subseteq Tx /\ Cardinality(S) \in Nat
    BY <1>2 DEF S
  <2>2. new \in [1 .. Cardinality(S) -> Tx] /\ \A k \in 1 .. Cardinality(S) : new[k] \in S
    BY <1>3, <2>1
  <2> QED
    BY <2>1, <2>2, SeqDef
<1>5. queue \in Seq(Tx) /\ Len(queue) \in Nat /\ Len(new) \in Nat
  BY <1>4 DEF Inv, TypeOK
<1>6. Len(queue') = Len(queue) + Len(new) /\ \A k \in 1 .. Len(queue) : queue'[k] = queue[k]
  BY <1>1, <1>4, <1>5, ConcatTx
<1>7. ASSUME NEW k \in 1 .. Len(queue'), k > Len(queue) PROVE queue'[k] \in S
  <2>1. k - Len(queue) \in 1 .. Len(new) /\ queue'[k] = new[k - Len(queue)]
    BY <1>1, <1>4, <1>5, <1>7, ConcatTx
  <2> QED
    BY <1>4, <2>1
<1> QED
  BY <1>5, <1>6, <1>7 DEF S

\* The head, when something joins the queue or leaves it.
LEMMA QueueTypes ==
    ASSUME Inv
    PROVE  /\ queue \in Seq(Tx) /\ Len(queue) \in Nat /\ born \in Nat
           /\ \A k \in 1 .. Len(queue) : queue[k] \in Tx /\ queue[k] \in Nat /\ queue[k] <= born
           /\ queue # <<>> => Head(queue) = queue[1] /\ 1 \in 1 .. Len(queue)
           /\ Enqueue => /\ born + 1 \in Tx /\ born' = born + 1
                         /\ Len(queue') = Len(queue) + 1 /\ queue'[Len(queue) + 1] = born + 1
                         /\ \A k \in 1 .. Len(queue) : queue'[k] = queue[k]
           /\ queue # <<>> /\ queue' = Tail(queue) =>
                 /\ Len(queue') = Len(queue) - 1
                 /\ \A k \in 1 .. Len(queue') : k + 1 \in 1 .. Len(queue) /\ queue'[k] = queue[k + 1]
<1>1. queue \in Seq(Tx) /\ Len(queue) \in Nat /\ born \in Nat
  BY DEF Inv, TypeOK
<1>2. \A k \in 1 .. Len(queue) : queue[k] \in Tx /\ queue[k] \in Nat /\ queue[k] <= born
  <2>1. \A k \in 1 .. Len(queue) : queue[k] \in Tx
    BY <1>1
  <2> QED
    BY <2>1 DEF Inv, Born, Tx
<1>3. Enqueue => /\ born + 1 \in Tx /\ born' = born + 1 /\ queue' = Append(queue, born + 1)
  BY <1>1, OutboxAssumption DEF Enqueue, Tx, Inv, TypeOK
<1>4. Enqueue => /\ Len(queue') = Len(queue) + 1 /\ queue'[Len(queue) + 1] = born + 1
                 /\ \A k \in 1 .. Len(queue) : queue'[k] = queue[k]
  BY <1>1, <1>3
<1>5. queue # <<>> /\ queue' = Tail(queue) =>
         /\ Len(queue') = Len(queue) - 1
         /\ \A k \in 1 .. Len(queue') : k + 1 \in 1 .. Len(queue) /\ queue'[k] = queue[k + 1]
  BY <1>1
<1>6. queue # <<>> => Head(queue) = queue[1] /\ 1 \in 1 .. Len(queue)
  BY <1>1
<1> QED
  BY <1>1, <1>2, <1>3, <1>4, <1>5, <1>6

LEMMA OnHeadStep == ASSUME Inv, Inv', OnHead, [Next]_vars PROVE OnHead'
<1> SUFFICES ASSUME drain' \in InRequest PROVE queue' # <<>> /\ tx' = Head(queue')
  BY DEF OnHead
<1>0. queue \in Seq(Tx) /\ queue' \in Seq(Tx)
  BY DEF Inv, TypeOK
<1>1. ASSUME UNCHANGED <<drain, tx>>, Len(queue') \in Nat, Len(queue) <= Len(queue'),
             \A k \in 1 .. Len(queue) : queue'[k] = queue[k]
      PROVE  queue' # <<>> /\ tx' = Head(queue')
  <2>1. queue # <<>> /\ tx = queue[1] /\ 1 \in 1 .. Len(queue)
    BY <1>1, QueueTypes DEF OnHead
  <2>2. Len(queue') >= 1 /\ queue'[1] = queue[1]
    BY <1>0, <1>1, <2>1
  <2>3. queue' # <<>> /\ Head(queue') = queue'[1]
    BY <1>0, <2>2
  <2> QED
    BY <1>1, <2>1, <2>2, <2>3
<1>2. CASE Enqueue
  <2>1. Len(queue) <= Len(queue') /\ Len(queue') \in Nat /\ UNCHANGED <<drain, tx>>
    BY <1>2, QueueTypes DEF Enqueue, drainVars
  <2> QED
    BY <1>1, <1>2, <2>1, QueueTypes
<1>3. CASE Hydrate
  BY <1>1, <1>3, HydrateCases DEF Hydrate, drainVars
<1>4. ~ Reload
  BY DEF Reload, InRequest
<1>5. CASE Send
  BY <1>5 DEF Send, Busy
<1>6. ASSUME NEW o \in {"ok", "failed"}, Shift(o) PROVE FALSE
  BY <1>6 DEF Shift, InRequest
<1>7. CASE /\ UNCHANGED queue /\ (UNCHANGED tx \/ drain' = "idle")
           /\ (drain' \in InRequest => drain \in InRequest)
  BY <1>7 DEF OnHead, InRequest
<1> QED
  BY <1>2, <1>3, <1>4, <1>5, <1>6, <1>7, QueueMoves

LEMMA InMemoryStep == ASSUME Inv, Inv', OnHead, InMemory, [Next]_vars PROVE InMemory'
<1> SUFFICES ASSUME reloads' = 0, NEW x \in 1 .. born', outcome'[x] = "none"
             PROVE  \E k \in 1 .. Len(queue') : queue'[k] = x
  BY DEF InMemory
<1>0. reloads = 0 /\ born \in Nat /\ born' \in Nat /\ x \in Tx /\ outcome[x] = "none"
  <2>1. reloads = 0 /\ born \in Nat /\ born' \in Nat /\ born' <= MaxTx
    BY OutcomesStay, OutboxAssumption DEF Inv, TypeOK
  <2>2. x \in Tx
    BY <2>1, OutboxAssumption DEF Tx
  <2> QED
    BY <2>1, <2>2, OutcomesStay
<1>1. CASE Enqueue
  <2>1. x \in 1 .. born \/ x = born + 1
    BY <1>0, <1>1 DEF Enqueue
  <2>2. \A k \in 1 .. Len(queue) : k \in 1 .. Len(queue')
    BY <1>1, QueueTypes
  <2>3. Len(queue) + 1 \in 1 .. Len(queue')
    BY <1>1, QueueTypes
  <2> QED
    BY <1>0, <1>1, <2>1, <2>2, <2>3, QueueTypes DEF InMemory
<1>2. CASE ~ Enqueue
  <2>1. x \in 1 .. born
    BY <1>2 DEF Next, Persisted, PersistFails, Persist, ApplyLate, Process, Respond,
         Pass, Send, Succeed, Fail, Shift, Pause, Retry, Wake, Unpersist, ServerAccepts,
         ServerRejects, RequestFails, AnswerLost, GatewayTimeout, SetSession, Hydrate, Clean,
         SkipHydrate, Logout, Reload, GoOffline, GoOnline, SignIn, vars, diskVars
  <2>2. PICK k \in 1 .. Len(queue) : queue[k] = x
    BY <1>0, <2>1 DEF InMemory
  <2>3. CASE Hydrate
    <3>1. k \in 1 .. Len(queue') /\ queue'[k] = x
      BY <2>2, <2>3, HydrateCases
    <3> QED
      BY <3>1
  <2>4. ~ Reload
    BY <1>0 DEF Reload, Reboot, Inv, TypeOK
  <2>5. ASSUME NEW o \in {"ok", "failed"}, Shift(o), drain \in InRequest
        PROVE  \E i \in 1 .. Len(queue') : queue'[i] = x
    <3>1. queue # <<>> /\ tx = queue[1] /\ tx # x /\ queue' = Tail(queue)
      BY <1>0, <2>5, QueueTypes DEF OnHead, Shift, Inv, TypeOK
    <3>2. k # 1
      BY <2>2, <3>1
    <3>5. Len(queue') = Len(queue) - 1 /\ Len(queue) \in Nat
      BY <3>1, QueueTypes
    <3>3. k - 1 \in 1 .. Len(queue') /\ (k - 1) + 1 = k
      BY <3>2, <3>5
    <3>4. queue'[k - 1] = queue[(k - 1) + 1]
      BY <3>1, <3>3, QueueTypes
    <3> QED
      BY <2>2, <3>3, <3>4
  <2>6. CASE UNCHANGED queue
    BY <2>2, <2>6
  <2>7. (\E o \in {"ok", "failed"} : Shift(o)) => drain \in InRequest \/ UNCHANGED queue
    BY DEF Next, Enqueue, Persisted, PersistFails, Persist, ApplyLate, Process, Respond,
       Pass, Send, Succeed, Fail, Pause, Retry, Wake, Unpersist, ServerAccepts,
       ServerRejects, RequestFails, AnswerLost, GatewayTimeout, SetSession, Hydrate, Clean,
       SkipHydrate, Logout, Reload, GoOffline, GoOnline, SignIn, vars, pageVars, Shift, InRequest
  <2> QED
    BY <1>2, <2>3, <2>4, <2>5, <2>6, <2>7, QueueMoves DEF Send
<1> QED
  BY <1>1, <1>2

\* Smaller mutations only are in front of what waits for its outcome.
LEMMA SequencedStep ==
    ASSUME Inv, Inv', Order, [Next]_vars
    PROVE  Sequenced'
<1> SUFFICES ASSUME reloads' = 0, NEW j \in 1 .. Len(queue'), outcome'[queue'[j]] = "none"
             PROVE  /\ value' <= queue'[j] /\ \A x \in late' : x <= queue'[j]
                    /\ \A i \in 1 .. Len(queue') : i < j => queue'[i] < queue'[j]
  BY DEF Sequenced
<1> DEFINE G == /\ value' <= queue'[j] /\ \A x \in late' : x <= queue'[j]
                /\ \A i \in 1 .. Len(queue') : i < j => queue'[i] < queue'[j]
<1> SUFFICES G
  OBVIOUS
<1>0. /\ reloads = 0 /\ born \in Nat /\ value \in Nat /\ late \in SUBSET Tx
      /\ Len(queue) \in Nat /\ Len(queue') \in Nat /\ queue' \in Seq(Tx)
      /\ \A k \in 1 .. Len(queue) : queue[k] \in Tx /\ queue[k] \in Nat /\ queue[k] <= born
      /\ queue'[j] \in Tx /\ outcome[queue'[j]] = "none"
  <2>1. reloads = 0 /\ \A x \in Tx : outcome'[x] = "none" => outcome[x] = "none"
    BY OutcomesStay
  <2>2. born \in Nat /\ value \in Nat /\ late \in SUBSET Tx /\ queue' \in Seq(Tx)
    BY OutboxAssumption DEF Inv, TypeOK
  <2>3. queue'[j] \in Tx /\ Len(queue') \in Nat
    BY <2>2
  <2>4. /\ Len(queue) \in Nat
        /\ \A k \in 1 .. Len(queue) : queue[k] \in Tx /\ queue[k] \in Nat /\ queue[k] <= born
    BY QueueTypes
  <2> QED
    BY <2>1, <2>2, <2>3, <2>4
\* The same mutation, when it was in the queue already.
<1>1. ASSUME NEW k \in 1 .. Len(queue), queue'[j] = queue[k]
      PROVE  /\ value <= queue'[j] /\ \A x \in late : x <= queue'[j]
             /\ \A i \in 1 .. Len(queue) : i < k => queue[i] < queue'[j]
             /\ queue[1] <= queue'[j]
  <2>1. /\ value <= queue[k] /\ \A x \in late : x <= queue[k]
        /\ \A i \in 1 .. Len(queue) : i < k => queue[i] < queue[k]
    BY <1>0, <1>1 DEF Order, Sequenced
  <2>2. queue[1] <= queue[k]
    <3>1. CASE k = 1
      BY <1>0, <3>1
    <3>2. CASE k # 1
      <4>1. 1 \in 1 .. Len(queue) /\ 1 < k
        BY <1>0, <3>2
      <4> QED
        BY <1>0, <2>1, <4>1
    <3> QED
      BY <3>1, <3>2
  <2> QED
    BY <1>1, <2>1, <2>2
<1>2. CASE Enqueue
  <2>1. UNCHANGED <<value, late>> /\ queue'[Len(queue) + 1] = born + 1
        /\ Len(queue') = Len(queue) + 1
        /\ \A k \in 1 .. Len(queue) : queue'[k] = queue[k]
    <3>1. UNCHANGED <<value, late>>
      BY <1>2 DEF Enqueue, serverVars
    <3> QED
      BY <1>2, <3>1, QueueTypes
  <2>2. CASE j = Len(queue) + 1
    <3>1. value <= born /\ \A x \in late : x \in Nat /\ x <= born
      BY <1>0 DEF Order, Numbered
    <3>2. \A i \in 1 .. Len(queue') : i < j => i \in 1 .. Len(queue)
      BY <1>0, <2>1, <2>2
    <3>3. \A i \in 1 .. Len(queue') : i < j => queue'[i] < queue'[j]
      BY <1>0, <2>1, <2>2, <3>2
    <3> QED
      BY <1>0, <2>1, <2>2, <3>1, <3>3
  <2>3. CASE j # Len(queue) + 1
    <3>1. j \in 1 .. Len(queue) /\ \A i \in 1 .. Len(queue') : i < j => i \in 1 .. Len(queue)
      BY <1>0, <2>1, <2>3
    <3> QED
      BY <1>1, <2>1, <3>1
  <2> QED
    BY <2>2, <2>3
<1>3. CASE Hydrate
  <2>1. UNCHANGED <<value, late>>
    BY <1>3 DEF Hydrate, serverVars
  <2>2. j \in 1 .. Len(queue)
    <3>1. SUFFICES ASSUME j > Len(queue) PROVE FALSE
      BY <1>0
    <3>2. queue'[j] \in Mine \ Queued
      BY <1>3, <3>1, HydrateCases
    <3>3. queue'[j] \in 1 .. born
      BY <3>2 DEF Mine, Inv, Born
    <3>4. \E k \in 1 .. Len(queue) : queue[k] = queue'[j]
      BY <1>0, <3>3 DEF Order, InMemory
    <3> QED
      BY <3>2, <3>4 DEF Queued
  <2>3. \A k \in 1 .. Len(queue) : queue'[k] = queue[k]
    BY <1>3, HydrateCases
  <2>4. \A i \in 1 .. Len(queue') : i < j => i \in 1 .. Len(queue)
    BY <1>0, <2>2
  <2> QED
    BY <1>1, <2>1, <2>2, <2>3, <2>4
<1>4. ASSUME NEW o \in {"ok", "failed"}, Shift(o), queue # <<>>
      PROVE  G
  <2>1. UNCHANGED <<value, late>> /\ queue' = Tail(queue)
    BY <1>4 DEF Shift, serverVars
  <2>2. \A k \in 1 .. Len(queue') : k + 1 \in 1 .. Len(queue) /\ queue'[k] = queue[k + 1]
    BY <1>4, <2>1, QueueTypes
  <2>3. j + 1 \in 1 .. Len(queue) /\ queue'[j] = queue[j + 1]
    BY <2>2
  <2>4. \A i \in 1 .. Len(queue') : i < j => i + 1 < j + 1
    BY <1>0
  <2> QED
    BY <1>1, <2>1, <2>2, <2>3, <2>4
<1>5. ASSUME UNCHANGED queue, \/ value' = value
                              \/ value' \in late
                              \/ queue # <<>> /\ value' = Head(queue),
             \A x \in late' : x \in late \/ (queue # <<>> /\ x = Head(queue))
      PROVE  G
  <2>1. j \in 1 .. Len(queue) /\ queue'[j] = queue[j]
    BY <1>5
  <2>2. queue # <<>> => Head(queue) = queue[1]
    BY QueueTypes
  <2> QED
    BY <1>1, <1>5, <2>1, <2>2
<1>6. CASE UNCHANGED <<queue, value, late>>
  BY <1>5, <1>6
<1>7. CASE ServerAccepts \/ GatewayTimeout
  <2>1. queue # <<>> /\ tx = Head(queue)
    BY <1>7 DEF Order, OnHead, InRequest, ServerAccepts, GatewayTimeout
  <2> QED
    BY <1>5, <1>7, <2>1 DEF ServerAccepts, GatewayTimeout, Apply, pageVars
<1>8. ASSUME NEW y \in Tx, ApplyLate(y) PROVE G
  BY <1>5, <1>8 DEF ApplyLate, Apply, pageVars
<1>9. CASE Succeed \/ Fail
  <2>1. PICK o \in {"ok", "failed"} : Shift(o)
    BY <1>9 DEF Succeed, Fail
  <2>2. queue # <<>>
    BY <1>9 DEF Succeed, Fail, Inv, Working, InRequest
  <2> QED
    BY <1>4, <2>1, <2>2
<1>10. ~ Reload
  BY <1>0 DEF Reload, Reboot, Inv, TypeOK
<1>11. \/ Enqueue \/ Hydrate \/ ServerAccepts \/ GatewayTimeout \/ Succeed \/ Fail \/ Reload
       \/ (\E y \in Tx : ApplyLate(y)) \/ UNCHANGED <<queue, value, late>>
  BY DEF Next, Persisted, PersistFails, Persist, Process, Respond,
         Pass, Send, Pause, Retry, Wake, Unpersist,
         ServerRejects, RequestFails, AnswerLost, SetSession, Clean,
         SkipHydrate, Logout, GoOffline, GoOnline, SignIn, vars, pageVars, serverVars
<1> QED
  BY <1>2, <1>3, <1>6, <1>7, <1>8, <1>9, <1>10, <1>11

LEMMA OrderInit == Init => Order /\ Explained
<1> SUFFICES ASSUME Init PROVE Order /\ Explained
  OBVIOUS
<1>1. Numbered /\ OnHead /\ InMemory /\ Sequenced
  BY DEF Init, Numbered, OnHead, InMemory, Sequenced, InRequest
<1>2. Explained
  BY DEF Init, Explained, Unanswered, Outstanding
<1> QED
  BY <1>1, <1>2 DEF Order

\* The order and the count, in every state.
THEOREM OrderInvariant == Spec => [](Inv /\ Order /\ Explained)
<1>1. Init => Inv /\ Order /\ Explained
  BY InitInv, OrderInit
<1>2. Inv /\ Order /\ Explained /\ [Next]_vars => (Inv /\ Order /\ Explained)'
  <2> SUFFICES ASSUME Inv, Order, Explained, [Next]_vars PROVE (Inv /\ Order /\ Explained)'
    OBVIOUS
  <2>1. Inv'
    BY InvStep
  <2>2. Numbered'
    BY NumberedStep DEF Order
  <2>3. OnHead'
    BY <2>1, OnHeadStep DEF Order
  <2>4. InMemory'
    BY <2>1, InMemoryStep DEF Order
  <2>5. Sequenced'
    BY <2>1, SequencedStep
  <2>6. Explained'
    BY ExplainedStep
  <2> QED
    BY <2>1, <2>2, <2>3, <2>4, <2>5, <2>6 DEF Order
<1> QED
  BY <1>1, <1>2, PTL DEF Spec

\* The server changes what it holds for the head of the queue, or for a request
\* nobody waits for.
LEMMA WhoApplies ==
    ASSUME Inv, Order, [Next]_vars, NEW x \in Tx,
           value' # value \/ applied'[x] # applied[x]
    PROVE  \/ ServerAccepts \/ \E y \in late : ApplyLate(y)
BY DEF Next, Enqueue, Persisted, PersistFails, Persist, Process, Respond,
       Pass, Send, Succeed, Fail, Shift, Pause, Retry, Wake, Unpersist, ApplyLate,
       ServerRejects, RequestFails, AnswerLost, GatewayTimeout, SetSession, Hydrate, Clean,
       SkipHydrate, Logout, Reload, GoOffline, GoOnline, SignIn, vars, serverVars

(***************************************************************************)
(* A page that has not been reloaded sends the changes of its user in      *)
(* their order: a mutation the server applies, and has not answered for,   *)
(* is later than the one it holds, when no late request is about           *)
(* (processNext takes the head, and hydrate appends).                      *)
(***************************************************************************)
THEOREM InOrderOfChanges == Spec => AppliedInOrder
<1>1. Inv /\ Order /\ [Next]_vars =>
         [\A x \in Tx : /\ value # x /\ value' = x
                        /\ outcome[x] = "none" /\ reloads = 0 /\ late = {}
                        => value < x]_vars
  <2> SUFFICES ASSUME Inv, Order, [Next]_vars, NEW x \in Tx,
                      value # x, value' = x, outcome[x] = "none", reloads = 0, late = {}
               PROVE  value < x
    OBVIOUS
  <2>1. ServerAccepts
    BY WhoApplies
  <2>2. queue # <<>> /\ x = Head(queue) /\ Head(queue) = queue[1] /\ 1 \in 1 .. Len(queue)
    <3>1. x = tx /\ drain = "sending"
      BY <2>1 DEF ServerAccepts, Apply
    <3>2. queue # <<>> /\ tx = Head(queue)
      BY <3>1 DEF Order, OnHead, InRequest
    <3> QED
      BY <3>1, <3>2, QueueTypes
  <2>3. value <= queue[1]
    BY <2>2 DEF Order, Sequenced
  <2>4. value \in Int /\ x \in Int
    BY DEF Inv, TypeOK, Tx
  <2> QED
    BY <2>2, <2>3, <2>4
<1> QED
  BY <1>1, OrderInvariant, PTL DEF Spec, AppliedInOrder

(***************************************************************************)
(* At least once, and no more often than explained: what the page has no   *)
(* answer for has been applied at most once for each request or Dexie call *)
(* that failed and each page that was lost, when it is applied again.      *)
(***************************************************************************)
THEOREM RepeatsAreExplained == Spec => RepeatsOnlyAfterLoss
<1>1. Inv /\ Order /\ Explained /\ [Next]_vars =>
         [\A x \in Tx : applied'[x] > applied[x] /\ outcome[x] = "none"
             => applied[x] <= faults + reloads]_vars
  <2> SUFFICES ASSUME Inv, Order, Explained, [Next]_vars, NEW x \in Tx,
                      applied'[x] > applied[x], outcome[x] = "none"
               PROVE  applied[x] <= faults + reloads
    OBVIOUS
  <2>0. applied \in [Tx -> Nat] /\ applied[x] \in Nat /\ faults \in Nat /\ reloads \in Nat
    BY DEF Inv, TypeOK
  <2>1. applied[x] + Outstanding(x) <= faults + reloads + Unanswered(x)
    BY DEF Explained
  <2>2. ServerAccepts \/ \E y \in late : ApplyLate(y)
    BY <2>0, WhoApplies
  <2>3. CASE ServerAccepts
    BY <2>0, <2>1, <2>3 DEF ServerAccepts, Outstanding, Unanswered
  <2>4. ASSUME NEW y \in late, ApplyLate(y) PROVE applied[x] <= faults + reloads
    <3>1. x \in late
      BY <2>0, <2>4 DEF ApplyLate, Apply
    <3> QED
      BY <2>0, <2>1, <3>1 DEF Outstanding, Unanswered
  <2> QED
    BY <2>2, <2>3, <2>4
<1> QED
  BY <1>1, OrderInvariant, PTL DEF Spec, RepeatsOnlyAfterLoss
=============================================================================
