------------------------------- MODULE Cycles -------------------------------
(***************************************************************************)
(* The cycles of one team: their numbers and dates (create, update,        *)
(* archive, delete, autoCreateUpcomingCycles) and the rollover of a cycle, *)
(* asked for by a member or by the sweep of every WebSocket replica.       *)
(*                                                                         *)
(* Every statement that reads, and every commit, is a step.  Transactions  *)
(* run at READ COMMITTED: a statement sees what is committed, and what a   *)
(* transaction has written is visible from its commit on.  The row lock    *)
(* that matters is the one a rollover takes first, on the cycle it rolls.  *)
(* Dates lie on a grid: cycle c lasts from slot[c] to slot[c] + 1.         *)
(***************************************************************************)
EXTENDS Integers, FiniteSets

CONSTANTS
    Issue,       \* the live issues of the team
    Proc,        \* the calls that run at one time
    NCycles,     \* bound: rows of cycles
    NInitial,    \* the cycles there are at first, in consecutive slots
    Horizon,     \* bound: the last slot
    MaxNow,      \* bound: the present that time comes to
    Target,      \* cycles.upcomingCount
    MaxRetries,  \* MAX_NUMBER_RETRIES
    MaxEvents    \* bound: requests of members and rejected transactions

ASSUME CyclesAssumption ==
    /\ NCycles \in Nat \ {0} /\ NInitial \in 0 .. NCycles
    /\ Horizon \in Nat /\ NInitial <= Horizon + 1
    /\ MaxNow \in Nat
    /\ Target \in Nat /\ MaxRetries \in Nat \ {0}
    /\ MaxEvents \in Nat
    /\ IsFiniteSet(Issue)

Cycle == 1 .. NCycles
NoCycle == 0
Slot == 0 .. Horizon

VARIABLES
    now,       \* the slot of the present
    row,       \* row[c]: "none" before it is created, "live", "archived", "deleted"
    number,    \* number[c]: unique in the team
    slot,      \* slot[c]: startsAt, and endsAt one later
    completed, \* completed[c]: completedAt is set
    carry,     \* carry[c]: carryoverCount
    cyc,       \* cyc[i]: cycleId
    done,      \* done[i]: the issue is completed or canceled
    carried,   \* carried[i]: cyc[i] was last written by a rollover (history)
    pc,        \* pc[p]: what call p does next
    job,       \* job[p]: its cycle
    toMove,    \* toMove[p]: incompleteIssues of a rollover, affected of a delete
    next,      \* next[p]: nextCycle of a rollover
    touched,   \* issues members moved while a rollover was under way (history)
    at,        \* at[p]: the slot a plan is about
    count,     \* count[p]: how many cycles it creates
    num,       \* num[p]: the number it has picked
    tries,     \* tries[p]: `attempt` of create
    events     \* requests and rejections so far

cycleVars == <<row, number, slot, completed, carry>>
issueVars == <<cyc, done, carried, touched>>
callVars  == <<pc, job, toMove, next, at, count, num, tries>>
vars == <<now, cycleVars, issueVars, callVars, events>>

Rolling == {"read", "chosen"}

TypeOK ==
    /\ now \in 0 .. MaxNow
    /\ row \in [Cycle -> {"none", "live", "archived", "deleted"}]
    /\ number \in [Cycle -> Nat]
    /\ slot \in [Cycle -> Slot]
    /\ completed \in [Cycle -> BOOLEAN]
    /\ carry \in [Cycle -> Nat]
    /\ cyc \in [Issue -> Cycle \cup {NoCycle}]
    /\ done \in [Issue -> BOOLEAN]
    /\ carried \in [Issue -> BOOLEAN]
    /\ pc \in [Proc -> {"idle", "called", "checked", "planned", "creating", "filling",
                        "moving", "deleting"} \cup Rolling]
    /\ job \in [Proc -> Cycle]
    /\ toMove \in [Proc -> SUBSET Issue]
    /\ next \in [Proc -> Cycle \cup {NoCycle}]
    /\ touched \in SUBSET Issue
    /\ at \in [Proc -> Slot]
    /\ count \in [Proc -> 0 .. Target + 1]
    /\ num \in [Proc -> Nat]
    /\ tries \in [Proc -> 0 .. MaxRetries]
    /\ events \in 0 .. MaxEvents

Stored(c) == row[c] \in {"live", "archived"}
Ended(c) == slot[c] < now
Locks(p, c) == pc[p] \in Rolling /\ job[p] = c
Free(c) == \A p \in Proc : ~ Locks(p, c)

Event == events < MaxEvents /\ events' = events + 1

Goto(p, l) == pc' = [pc EXCEPT ![p] = l]

\* The call returns or throws; what it held is forgotten.
End(p) ==
    /\ Goto(p, "idle")
    /\ job' = [job EXCEPT ![p] = 1]
    /\ toMove' = [toMove EXCEPT ![p] = {}]
    /\ next' = [next EXCEPT ![p] = NoCycle]
    /\ at' = [at EXCEPT ![p] = 0]
    /\ count' = [count EXCEPT ![p] = 0]
    /\ num' = [num EXCEPT ![p] = 0]
    /\ tries' = [tries EXCEPT ![p] = 0]

Call(p, l, c) ==
    /\ pc[p] = "idle"
    /\ Goto(p, l)
    /\ job' = [job EXCEPT ![p] = c]
    /\ UNCHANGED <<next, num, tries>>

Init ==
    /\ now = 0
    /\ row = [c \in Cycle |-> IF c <= NInitial THEN "live" ELSE "none"]
    /\ number = [c \in Cycle |-> IF c <= NInitial THEN c ELSE 0]
    /\ slot = [c \in Cycle |-> IF c <= NInitial THEN c - 1 ELSE 0]
    /\ completed = [c \in Cycle |-> FALSE]
    /\ carry = [c \in Cycle |-> 0]
    /\ cyc \in [Issue -> 1 .. NInitial]
    /\ done = [i \in Issue |-> FALSE]
    /\ carried = [i \in Issue |-> FALSE]
    /\ pc = [p \in Proc |-> "idle"]
    /\ job = [p \in Proc |-> 1]
    /\ toMove = [p \in Proc |-> {}]
    /\ next = [p \in Proc |-> NoCycle]
    /\ touched = {}
    /\ at = [p \in Proc |-> 0]
    /\ count = [p \in Proc |-> 0]
    /\ num = [p \in Proc |-> 0]
    /\ tries = [p \in Proc |-> 0]
    /\ events = 0
-----------------------------------------------------------------------------
\* Rollover

\* Mutant: a cycle is due only a slot later.
DueLate(c) == row[c] = "live" /\ ~ completed[c] /\ slot[c] + 1 < now

\* The list of processDueRollovers.
Due(c) == row[c] = "live" /\ ~ completed[c] /\ Ended(c)

\* The sweep comes to a cycle of the list it has read.
Sweep(p, c) ==
    /\ Due(c)
    /\ Call(p, "called", c)
    /\ UNCHANGED <<now, cycleVars, issueVars, toMove, at, count, events>>

\* cycleRollover: any cycle of the organization.
Manual(p, c) ==
    /\ Stored(c)
    /\ Event
    /\ Call(p, "called", c)
    /\ UNCHANGED <<now, cycleVars, issueVars, toMove, at, count>>

Read(p) ==
    /\ Goto(p, "read")
    /\ toMove' = [toMove EXCEPT ![p] = {i \in Issue : cyc[i] = job[p] /\ ~ done[i]}]
    /\ UNCHANGED <<now, cycleVars, issueVars, job, next, at, count, num, tries, events>>

\* Mutant: nothing keeps a second rollover of the cycle out.
BeginUnlocked(p) == pc[p] = "called" /\ Stored(job[p]) /\ Read(p)

\* completedAt is written first, which takes the lock of the row and shows
\* nothing yet; then the incomplete issues are read.
Begin(p) == pc[p] = "called" /\ Stored(job[p]) /\ Free(job[p]) /\ Read(p)

\* The row has gone since it was read.
Gone(p) ==
    /\ pc[p] \in {"called", "deleting", "moving"}
    /\ row[job[p]] = "deleted"
    /\ End(p)
    /\ UNCHANGED <<now, cycleVars, issueVars, events>>

\* The candidates for nextCycle.
Open(p) == {c \in Cycle : row[c] = "live" /\ ~ Ended(c) /\ c # job[p]}

ChooseNext(p) ==
    /\ pc[p] = "read"
    /\ Goto(p, "chosen")
    /\ \/ Open(p) = {} /\ next' = [next EXCEPT ![p] = NoCycle]
       \/ \E c \in Open(p) :
            /\ \A d \in Open(p) : slot[c] <= slot[d]
            /\ next' = [next EXCEPT ![p] = c]
    /\ UNCHANGED <<now, cycleVars, issueVars, job, toMove, at, count, num, tries, events>>

\* Mutant: the count is set, not incremented.
CarryOverwritten(p) == [carry EXCEPT ![next[p]] = Cardinality(toMove[p])]

Carry(p) == [carry EXCEPT ![next[p]] = carry[next[p]] + Cardinality(toMove[p])]

\* The issues are written by id, the count of the next cycle, and the commit.
CommitRollover(p) ==
    /\ pc[p] = "chosen"
    /\ completed' = [completed EXCEPT ![job[p]] = TRUE]
    /\ IF toMove[p] # {} /\ next[p] # NoCycle
         THEN Stored(next[p]) /\ Free(next[p]) /\ carry' = Carry(p)
         ELSE UNCHANGED carry
    /\ cyc' = [i \in Issue |-> IF i \in toMove[p] THEN next[p] ELSE cyc[i]]
    /\ carried' = [i \in Issue |-> IF i \in toMove[p] THEN next[p] # NoCycle ELSE carried[i]]
    /\ End(p)
    /\ UNCHANGED <<now, row, number, slot, done, touched, events>>

Abort(p) == pc[p] \in Rolling /\ End(p) /\ UNCHANGED <<now, cycleVars, issueVars>>

\* next has been deleted: the foreign key rejects the issues.
ForeignKeyFails(p) ==
    /\ pc[p] = "chosen"
    /\ toMove[p] # {} /\ next[p] # NoCycle /\ ~ Stored(next[p])
    /\ Abort(p)
    /\ UNCHANGED events

WaitsFor(p, q) ==
    /\ pc[p] = "chosen" /\ toMove[p] # {}
    /\ next[p] # NoCycle /\ Locks(q, next[p])

\* Two rollovers that carry into each other's cycle: the database picks a victim.
Deadlocked(p) ==
    /\ \E q \in Proc : WaitsFor(p, q) /\ WaitsFor(q, p)
    /\ Abort(p)
    /\ UNCHANGED events

Fault(p) == Event /\ Abort(p)
-----------------------------------------------------------------------------
\* Dates and numbers

Unused == {c \in Cycle : row[c] = "none"}
LiveRows == {c \in Cycle : row[c] = "live"}
Highest(S) == CHOOSE n \in S : \A m \in S : m <= n
HighestNumber == Highest({0} \cup {number[c] : c \in {d \in Cycle : Stored(d)}})
Taken(s) == \E c \in LiveRows : slot[c] = s

\* create: the overlap check of its transaction.
CheckOverlap(p, s) ==
    /\ Unused # {}
    /\ ~ Taken(s)
    /\ Event
    /\ Call(p, "checked", 1)
    /\ at' = [at EXCEPT ![p] = s]
    /\ count' = [count EXCEPT ![p] = 1]
    /\ UNCHANGED <<now, cycleVars, issueVars, toMove>>

Upcoming == {c \in LiveRows : slot[c] > now}

\* The slot after latestCycle, or the present one.
NextSlot == IF LiveRows = {} THEN now ELSE Highest({slot[c] : c \in LiveRows}) + 1

\* Mutant: nobody asks whether enough cycles are there.
PlanRangesAlways(p) ==
    /\ Event
    /\ Call(p, "planned", 1)
    /\ at' = [at EXCEPT ![p] = NextSlot]
    /\ count' = [count EXCEPT ![p] = Target - Cardinality(Upcoming)]
    /\ at'[p] + count'[p] - 1 \in Slot /\ count'[p] <= Cardinality(Unused)
    /\ UNCHANGED <<now, cycleVars, issueVars, toMove>>

\* autoCreateUpcomingCycles: the ranges are computed before its transaction.
PlanRanges(p) ==
    /\ Cardinality(Upcoming) < Target
    /\ Event
    /\ Call(p, "planned", 1)
    /\ at' = [at EXCEPT ![p] = NextSlot]
    /\ count' = [count EXCEPT ![p] = Target - Cardinality(Upcoming)]
    /\ at'[p] + count'[p] - 1 \in Slot /\ count'[p] <= Cardinality(Unused)
    /\ UNCHANGED <<now, cycleVars, issueVars, toMove>>

\* Both: the highest number of the team.
PickNumber(p) ==
    /\ pc[p] \in {"checked", "planned"}
    /\ Goto(p, IF pc[p] = "checked" THEN "creating" ELSE "filling")
    /\ num' = [num EXCEPT ![p] = HighestNumber + 1]
    /\ UNCHANGED <<now, cycleVars, issueVars, job, toMove, next, at, count, tries, events>>

\* @@unique([teamId, number])
Conflict(p) ==
    \E c \in Cycle : Stored(c) /\ number[c] \in num[p] .. (num[p] + count[p] - 1)

\* Both: the rows are inserted, and the commit.
CommitCreate(p) ==
    LET rank(c) == Cardinality({d \in Unused : d < c})
        new == {c \in Unused : rank(c) < count[p]}
    IN  /\ pc[p] \in {"creating", "filling"}
        /\ ~ Conflict(p) /\ Cardinality(new) = count[p]
        /\ row' = [c \in Cycle |-> IF c \in new THEN "live" ELSE row[c]]
        /\ slot' = [c \in Cycle |-> IF c \in new THEN at[p] + rank(c) ELSE slot[c]]
        /\ number' = [c \in Cycle |-> IF c \in new THEN num[p] + rank(c) ELSE number[c]]
        /\ End(p)
        /\ UNCHANGED <<now, completed, carry, issueVars, events>>

\* P2002: create runs its transaction again, from the overlap check on.
RetryCreate(p) ==
    /\ pc[p] = "creating" /\ Conflict(p)
    /\ tries[p] < MaxRetries - 1 /\ ~ Taken(at[p])
    /\ Goto(p, "checked")
    /\ tries' = [tries EXCEPT ![p] = @ + 1]
    /\ num' = [num EXCEPT ![p] = 0]
    /\ UNCHANGED <<now, cycleVars, issueVars, job, toMove, next, at, count, events>>

\* CycleOverlapError on the second check, a conflict too many, or one of the
\* transaction of autoCreateUpcomingCycles, which is not run again.
CreateFails(p) ==
    /\ \/ pc[p] = "creating" /\ Conflict(p) /\ (tries[p] = MaxRetries - 1 \/ Taken(at[p]))
       \/ pc[p] = "filling" /\ Conflict(p)
       \/ pc[p] \in {"creating", "filling"} /\ Cardinality(Unused) < count[p]
    /\ End(p)
    /\ UNCHANGED <<now, cycleVars, issueVars, events>>

\* update: the overlap check, outside any transaction, and the write.
CheckMove(p, c, s) ==
    /\ Stored(c)
    /\ \A d \in LiveRows \ {c} : slot[d] # s
    /\ Event
    /\ Call(p, "moving", c)
    /\ at' = [at EXCEPT ![p] = s]
    /\ UNCHANGED <<now, cycleVars, issueVars, toMove, count>>

Move(p) ==
    /\ pc[p] = "moving"
    /\ Stored(job[p]) /\ Free(job[p])
    /\ slot' = [slot EXCEPT ![job[p]] = at[p]]
    /\ End(p)
    /\ UNCHANGED <<now, row, number, completed, carry, issueVars, events>>

Archive(c) ==
    /\ row[c] = "live" /\ Free(c)
    /\ Event
    /\ row' = [row EXCEPT ![c] = "archived"]
    /\ UNCHANGED <<now, number, slot, completed, carry, issueVars, callVars>>

\* delete: the ids it will report are read first.
ReadAffected(p, c) ==
    /\ Stored(c)
    /\ Event
    /\ Call(p, "deleting", c)
    /\ toMove' = [toMove EXCEPT ![p] = {i \in Issue : cyc[i] = c}]
    /\ UNCHANGED <<now, cycleVars, issueVars, at, count>>

\* Issues that were added since lose the cycle by the foreign key (SetNull).
CommitDelete(p) ==
    /\ pc[p] = "deleting"
    /\ Stored(job[p]) /\ Free(job[p])
    /\ row' = [row EXCEPT ![job[p]] = "deleted"]
    /\ cyc' = [i \in Issue |-> IF cyc[i] = job[p] THEN NoCycle ELSE cyc[i]]
    /\ carried' = [i \in Issue |-> carried[i] /\ cyc[i] # job[p]]
    /\ End(p)
    /\ UNCHANGED <<now, number, slot, completed, carry, done, touched, events>>
-----------------------------------------------------------------------------
\* Members, and time

\* cycleAddIssue (c a cycle), cycleRemoveIssue (c = NoCycle)
Assign(i, c) ==
    /\ c # NoCycle => Stored(c)
    /\ cyc[i] # c
    /\ Event
    /\ cyc' = [cyc EXCEPT ![i] = c]
    /\ carried' = [carried EXCEPT ![i] = FALSE]
    /\ touched' = IF \E p \in Proc : pc[p] \in Rolling THEN touched \cup {i} ELSE touched
    /\ UNCHANGED <<now, cycleVars, done, pc, job, toMove, next, at, count, num, tries>>

\* The issue is completed, canceled, archived or trashed.
Finish(i) ==
    /\ ~ done[i]
    /\ Event
    /\ done' = [done EXCEPT ![i] = TRUE]
    /\ UNCHANGED <<now, cycleVars, cyc, carried, touched, callVars>>

Tick ==
    /\ now < MaxNow
    /\ now' = now + 1
    /\ UNCHANGED <<cycleVars, issueVars, callVars, events>>

\* The steps of a call that nothing but its own awaits and locks hold up.
Proceed(p) ==
    \/ Begin(p) \/ Gone(p) \/ ChooseNext(p) \/ CommitRollover(p)
    \/ ForeignKeyFails(p) \/ Deadlocked(p)
    \/ PickNumber(p) \/ CommitCreate(p) \/ RetryCreate(p) \/ CreateFails(p)
    \/ Move(p) \/ CommitDelete(p)

Next ==
    \/ \E p \in Proc :
        \/ Proceed(p) \/ Fault(p) \/ PlanRanges(p)
        \/ \E s \in Slot : CheckOverlap(p, s)
        \/ \E c \in Cycle : \/ Sweep(p, c) \/ Manual(p, c) \/ ReadAffected(p, c)
                            \/ \E s \in Slot : CheckMove(p, c, s)
    \/ \E c \in Cycle : Archive(c)
    \/ \E i \in Issue : Finish(i) \/ \E c \in Cycle \cup {NoCycle} : Assign(i, c)
    \/ Tick

Spec == Init /\ [][Next]_vars

\* Promises settle, a lock goes to who has waited for it, and the interval of the
\* sweep comes to every due cycle again and again.
FairSpec ==
    /\ Spec
    /\ \A p \in Proc : WF_vars(Proceed(p))
    /\ SF_vars(\E p \in Proc : CommitRollover(p))
    /\ SF_vars(\E p \in Proc, c \in Cycle : Sweep(p, c))
-----------------------------------------------------------------------------
(***************************************************************************)
(* carryoverCount is "an exact count (not heuristic)" at least this far:   *)
(* it never falls behind the issues that are in the cycle because a        *)
(* rollover put them there, when several rollovers carry into one cycle.   *)
(***************************************************************************)
CarryCoversContents ==
    \A c \in Cycle :
        Stored(c) => Cardinality({i \in Issue : cyc[i] = c /\ carried[i]}) <= carry[c]

(***************************************************************************)
(* An issue is carried once: what a rollover moves and counts is still in  *)
(* its cycle when it commits, unless a member has moved it meanwhile.   The *)
(* sweeps of several replicas and a manual rollover of the same cycle do   *)
(* not count an issue twice.                                               *)
(***************************************************************************)
CarriedOnce ==
    [][\A p \in Proc :
         pc[p] = "chosen" /\ pc'[p] = "idle" /\ <<cyc, carry>>' # <<cyc, carry>> =>
             \A i \in toMove[p] \ touched : cyc[i] = job[p]]_vars

(***************************************************************************)
(* The sweep catches up: again and again there is no live cycle that has   *)
(* ended and is not completed.  Failed and deadlocked rollovers are taken  *)
(* up by a later sweep.                                                    *)
(***************************************************************************)
DueIsCompleted ==
    []<>(\A c \in Cycle : row[c] = "live" /\ Ended(c) => completed[c])
=============================================================================
