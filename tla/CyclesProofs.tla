---------------------------- MODULE CyclesProofs ----------------------------
(***************************************************************************)
(* Proofs about Cycles, for any number of cycles, issues and calls: an     *)
(* issue is carried once, and the carryover count of a cycle covers what   *)
(* rollovers have put into it.                                             *)
(*                                                                         *)
(* CarriedOnce rests on the lock of the row (LockOK), under which what a   *)
(* rollover has read still holds (ReadOK); the count also needs the        *)
(* foreign key (KeyOK).  Types of dates and numbers need that what a call  *)
(* plans lies within the horizon (PlanOK), and that a finite set of        *)
(* numbers has a highest one (HasHighest).                                 *)
(***************************************************************************)
EXTENDS Cycles, FiniteSetTheorems, TLAPS

\* What the proofs need of the types.
Shapes ==
    /\ row \in [Cycle -> {"none", "live", "archived", "deleted"}]
    /\ carry \in [Cycle -> Nat]
    /\ cyc \in [Issue -> Cycle \cup {NoCycle}]
    /\ carried \in [Issue -> BOOLEAN]
    /\ pc \in [Proc -> {"idle", "called", "checked", "planned", "creating", "filling",
                        "moving", "deleting"} \cup Rolling]
    /\ job \in [Proc -> Cycle]
    /\ toMove \in [Proc -> SUBSET Issue]
    /\ next \in [Proc -> Cycle \cup {NoCycle}]

\* The foreign key of issues.
KeyOK == \A i \in Issue : cyc[i] # NoCycle => Stored(cyc[i])

\* The row lock: no cycle is rolled by two calls at a time.
LockOK ==
    \A p, q \in Proc :
        pc[p] \in Rolling /\ pc[q] \in Rolling /\ job[p] = job[q] => p = q

\* What a rollover has read still holds, but for what members have moved.
ReadOK ==
    \A p \in Proc :
        pc[p] \in Rolling => \A i \in toMove[p] \ touched : cyc[i] = job[p]

IInv == Shapes /\ KeyOK /\ LockOK /\ ReadOK

\* The issues a rollover has put into c.
Carried(c) == {i \in Issue : cyc[i] = c /\ carried[i]}
-----------------------------------------------------------------------------
LEMMA InitIInv == Init => IInv /\ CarryCoversContents
<1> SUFFICES ASSUME Init PROVE IInv /\ CarryCoversContents
  OBVIOUS
<1> USE CyclesAssumption DEF Init, Cycle, NoCycle, Rolling, Stored
<1>1. Shapes
  BY DEF Shapes
<1>2. KeyOK /\ LockOK /\ ReadOK
  BY DEF KeyOK, LockOK, ReadOK
<1>3. CarryCoversContents
  <2>1. ASSUME NEW c \in Cycle
        PROVE  Cardinality({i \in Issue : cyc[i] = c /\ carried[i]}) <= carry[c]
    <3>1. {i \in Issue : cyc[i] = c /\ carried[i]} = {} /\ carry[c] = 0
      OBVIOUS
    <3>2. Cardinality({}) = 0
      BY FS_EmptySet
    <3>3. Cardinality({i \in Issue : cyc[i] = c /\ carried[i]}) = carry[c]
      BY <3>1, <3>2, Zenon
    <3>4. QED
      BY <3>1, <3>3
  <2>2. QED
    BY <2>1 DEF CarryCoversContents
<1>4. QED
  BY <1>1, <1>2, <1>3 DEF IInv

\* The number of issues a rollover moves.
LEMMA MovedCount ==
    ASSUME Shapes, NEW p \in Proc
    PROVE  IsFiniteSet(toMove[p]) /\ Cardinality(toMove[p]) \in Nat
BY CyclesAssumption, FS_Subset, FS_CardinalityType DEF Shapes

\* Types.
LEMMA ShapesStep == ASSUME Shapes, [Next]_vars PROVE Shapes'
<1> USE CyclesAssumption DEF Shapes, Cycle, NoCycle, Rolling, Stored, cycleVars, issueVars, callVars
<1>1. ASSUME NEW p \in Proc, Begin(p) PROVE Shapes'
  BY <1>1 DEF Begin, Read, Goto
<1>2. ASSUME NEW p \in Proc, Gone(p) PROVE Shapes'
  BY <1>2 DEF Gone, End, Goto
<1>3. ASSUME NEW p \in Proc, ChooseNext(p) PROVE Shapes'
  BY <1>3 DEF ChooseNext, Open, Goto
<1>4. ASSUME NEW p \in Proc, CommitRollover(p) PROVE Shapes'
  <2>1. Cardinality(toMove[p]) \in Nat
    BY MovedCount
  <2>2. carry' \in [Cycle -> Nat]
    <3>1. CASE toMove[p] # {} /\ next[p] # NoCycle
      <4>1. next[p] \in Cycle /\ carry[next[p]] + Cardinality(toMove[p]) \in Nat
        BY <2>1, <3>1
      <4>2. carry' = [carry EXCEPT ![next[p]] = carry[next[p]] + Cardinality(toMove[p])]
        BY <1>4, <3>1 DEF CommitRollover, Carry
      <4>3. QED
        BY <4>1, <4>2
    <3>2. CASE ~ (toMove[p] # {} /\ next[p] # NoCycle)
      BY <1>4, <3>2 DEF CommitRollover
    <3>3. QED
      BY <3>1, <3>2
  <2>3. cyc' \in [Issue -> Cycle \cup {NoCycle}] /\ carried' \in [Issue -> BOOLEAN]
    BY <1>4 DEF CommitRollover
  <2>4. QED
    BY <1>4, <2>2, <2>3 DEF CommitRollover, End, Goto
<1>5. ASSUME NEW p \in Proc, ForeignKeyFails(p) PROVE Shapes'
  BY <1>5 DEF ForeignKeyFails, Abort, End, Goto
<1>6. ASSUME NEW p \in Proc, Deadlocked(p) PROVE Shapes'
  BY <1>6 DEF Deadlocked, Abort, End, Goto
<1>7. ASSUME NEW p \in Proc, PickNumber(p) PROVE Shapes'
  BY <1>7 DEF PickNumber, Goto
<1>8. ASSUME NEW p \in Proc, CommitCreate(p) PROVE Shapes'
  BY <1>8 DEF CommitCreate, End, Goto
<1>9. ASSUME NEW p \in Proc, RetryCreate(p) PROVE Shapes'
  BY <1>9 DEF RetryCreate, Goto
<1>10. ASSUME NEW p \in Proc, CreateFails(p) PROVE Shapes'
  BY <1>10 DEF CreateFails, End, Goto
<1>11. ASSUME NEW p \in Proc, Move(p) PROVE Shapes'
  BY <1>11 DEF Move, End, Goto
<1>12. ASSUME NEW p \in Proc, CommitDelete(p) PROVE Shapes'
  BY <1>12 DEF CommitDelete, End, Goto
<1>13. ASSUME NEW p \in Proc, Fault(p) PROVE Shapes'
  BY <1>13 DEF Fault, Abort, End, Goto
<1>14. ASSUME NEW p \in Proc, PlanRanges(p) PROVE Shapes'
  BY <1>14 DEF PlanRanges, Call, Goto
<1>15. ASSUME NEW p \in Proc, NEW s \in Slot, CheckOverlap(p, s) PROVE Shapes'
  BY <1>15 DEF CheckOverlap, Call, Goto
<1>16. ASSUME NEW p \in Proc, NEW c \in Cycle, Sweep(p, c) PROVE Shapes'
  BY <1>16 DEF Sweep, Call, Goto
<1>17. ASSUME NEW p \in Proc, NEW c \in Cycle, Manual(p, c) PROVE Shapes'
  BY <1>17 DEF Manual, Call, Goto
<1>18. ASSUME NEW p \in Proc, NEW c \in Cycle, ReadAffected(p, c) PROVE Shapes'
  BY <1>18 DEF ReadAffected, Call, Goto
<1>19. ASSUME NEW p \in Proc, NEW c \in Cycle, NEW s \in Slot, CheckMove(p, c, s) PROVE Shapes'
  BY <1>19 DEF CheckMove, Call, Goto
<1>20. ASSUME NEW c \in Cycle, Archive(c) PROVE Shapes'
  BY <1>20 DEF Archive
<1>21. ASSUME NEW i \in Issue, Finish(i) PROVE Shapes'
  BY <1>21 DEF Finish
<1>22. ASSUME NEW i \in Issue, NEW c \in Cycle \cup {NoCycle}, Assign(i, c) PROVE Shapes'
  BY <1>22 DEF Assign
<1>23. CASE Tick
  BY <1>23 DEF Tick
<1>24. CASE UNCHANGED vars
  BY <1>24 DEF vars
<1>25. QED
  BY <1>1, <1>2, <1>3, <1>4, <1>5, <1>6, <1>7, <1>8, <1>9, <1>10, <1>11, <1>12, <1>13, <1>14, <1>15, <1>16, <1>17, <1>18, <1>19, <1>20, <1>21, <1>22, <1>23, <1>24 DEF Next, Proceed

\* A cycle that issues belong to stays, or loses them.
LEMMA KeyStep == ASSUME Shapes, KeyOK, [Next]_vars PROVE KeyOK'
<1> USE CyclesAssumption DEF Shapes, KeyOK, Cycle, NoCycle, Rolling, Stored, cycleVars, issueVars, callVars
<1>1. ASSUME NEW p \in Proc, Begin(p) PROVE KeyOK'
  BY <1>1 DEF Begin, Read, Goto
<1>2. ASSUME NEW p \in Proc, Gone(p) PROVE KeyOK'
  BY <1>2 DEF Gone, End, Goto
<1>3. ASSUME NEW p \in Proc, ChooseNext(p) PROVE KeyOK'
  BY <1>3 DEF ChooseNext, Goto
<1>4. ASSUME NEW p \in Proc, CommitRollover(p) PROVE KeyOK'
  BY <1>4 DEF CommitRollover, End, Goto
<1>5. ASSUME NEW p \in Proc, ForeignKeyFails(p) PROVE KeyOK'
  BY <1>5 DEF ForeignKeyFails, Abort, End, Goto
<1>6. ASSUME NEW p \in Proc, Deadlocked(p) PROVE KeyOK'
  BY <1>6 DEF Deadlocked, Abort, End, Goto
<1>7. ASSUME NEW p \in Proc, PickNumber(p) PROVE KeyOK'
  BY <1>7 DEF PickNumber, Goto
<1>8. ASSUME NEW p \in Proc, CommitCreate(p) PROVE KeyOK'
  BY <1>8 DEF CommitCreate, End, Goto
<1>9. ASSUME NEW p \in Proc, RetryCreate(p) PROVE KeyOK'
  BY <1>9 DEF RetryCreate, Goto
<1>10. ASSUME NEW p \in Proc, CreateFails(p) PROVE KeyOK'
  BY <1>10 DEF CreateFails, End, Goto
<1>11. ASSUME NEW p \in Proc, Move(p) PROVE KeyOK'
  BY <1>11 DEF Move, End, Goto
<1>12. ASSUME NEW p \in Proc, CommitDelete(p) PROVE KeyOK'
  BY <1>12 DEF CommitDelete, End, Goto
<1>13. ASSUME NEW p \in Proc, Fault(p) PROVE KeyOK'
  BY <1>13 DEF Fault, Abort, End, Goto
<1>14. ASSUME NEW p \in Proc, PlanRanges(p) PROVE KeyOK'
  BY <1>14 DEF PlanRanges, Call, Goto
<1>15. ASSUME NEW p \in Proc, NEW s \in Slot, CheckOverlap(p, s) PROVE KeyOK'
  BY <1>15 DEF CheckOverlap, Call, Goto
<1>16. ASSUME NEW p \in Proc, NEW c \in Cycle, Sweep(p, c) PROVE KeyOK'
  BY <1>16 DEF Sweep, Call, Goto
<1>17. ASSUME NEW p \in Proc, NEW c \in Cycle, Manual(p, c) PROVE KeyOK'
  BY <1>17 DEF Manual, Call, Goto
<1>18. ASSUME NEW p \in Proc, NEW c \in Cycle, ReadAffected(p, c) PROVE KeyOK'
  BY <1>18 DEF ReadAffected, Call, Goto
<1>19. ASSUME NEW p \in Proc, NEW c \in Cycle, NEW s \in Slot, CheckMove(p, c, s) PROVE KeyOK'
  BY <1>19 DEF CheckMove, Call, Goto
<1>20. ASSUME NEW c \in Cycle, Archive(c) PROVE KeyOK'
  BY <1>20 DEF Archive
<1>21. ASSUME NEW i \in Issue, Finish(i) PROVE KeyOK'
  BY <1>21 DEF Finish
<1>22. ASSUME NEW i \in Issue, NEW c \in Cycle \cup {NoCycle}, Assign(i, c) PROVE KeyOK'
  BY <1>22 DEF Assign
<1>23. CASE Tick
  BY <1>23 DEF Tick
<1>24. CASE UNCHANGED vars
  BY <1>24 DEF vars
<1>25. QED
  BY <1>1, <1>2, <1>3, <1>4, <1>5, <1>6, <1>7, <1>8, <1>9, <1>10, <1>11, <1>12, <1>13, <1>14, <1>15, <1>16, <1>17, <1>18, <1>19, <1>20, <1>21, <1>22, <1>23, <1>24 DEF Next, Proceed

\* Only Begin takes the lock, and only of a free row.
LEMMA LockStep == ASSUME Shapes, LockOK, [Next]_vars PROVE LockOK'
<1> USE CyclesAssumption DEF Shapes, LockOK, Free, Locks, Cycle, NoCycle, Rolling, Stored, cycleVars, issueVars, callVars
<1>1. ASSUME NEW p \in Proc, Begin(p) PROVE LockOK'
  BY <1>1 DEF Begin, Read, Goto
<1>2. ASSUME NEW p \in Proc, Gone(p) PROVE LockOK'
  BY <1>2 DEF Gone, End, Goto
<1>3. ASSUME NEW p \in Proc, ChooseNext(p) PROVE LockOK'
  BY <1>3 DEF ChooseNext, Goto
<1>4. ASSUME NEW p \in Proc, CommitRollover(p) PROVE LockOK'
  BY <1>4 DEF CommitRollover, End, Goto
<1>5. ASSUME NEW p \in Proc, ForeignKeyFails(p) PROVE LockOK'
  BY <1>5 DEF ForeignKeyFails, Abort, End, Goto
<1>6. ASSUME NEW p \in Proc, Deadlocked(p) PROVE LockOK'
  BY <1>6 DEF Deadlocked, Abort, End, Goto
<1>7. ASSUME NEW p \in Proc, PickNumber(p) PROVE LockOK'
  BY <1>7 DEF PickNumber, Goto
<1>8. ASSUME NEW p \in Proc, CommitCreate(p) PROVE LockOK'
  BY <1>8 DEF CommitCreate, End, Goto
<1>9. ASSUME NEW p \in Proc, RetryCreate(p) PROVE LockOK'
  BY <1>9 DEF RetryCreate, Goto
<1>10. ASSUME NEW p \in Proc, CreateFails(p) PROVE LockOK'
  BY <1>10 DEF CreateFails, End, Goto
<1>11. ASSUME NEW p \in Proc, Move(p) PROVE LockOK'
  BY <1>11 DEF Move, End, Goto
<1>12. ASSUME NEW p \in Proc, CommitDelete(p) PROVE LockOK'
  BY <1>12 DEF CommitDelete, End, Goto
<1>13. ASSUME NEW p \in Proc, Fault(p) PROVE LockOK'
  BY <1>13 DEF Fault, Abort, End, Goto
<1>14. ASSUME NEW p \in Proc, PlanRanges(p) PROVE LockOK'
  BY <1>14 DEF PlanRanges, Call, Goto
<1>15. ASSUME NEW p \in Proc, NEW s \in Slot, CheckOverlap(p, s) PROVE LockOK'
  BY <1>15 DEF CheckOverlap, Call, Goto
<1>16. ASSUME NEW p \in Proc, NEW c \in Cycle, Sweep(p, c) PROVE LockOK'
  BY <1>16 DEF Sweep, Call, Goto
<1>17. ASSUME NEW p \in Proc, NEW c \in Cycle, Manual(p, c) PROVE LockOK'
  BY <1>17 DEF Manual, Call, Goto
<1>18. ASSUME NEW p \in Proc, NEW c \in Cycle, ReadAffected(p, c) PROVE LockOK'
  BY <1>18 DEF ReadAffected, Call, Goto
<1>19. ASSUME NEW p \in Proc, NEW c \in Cycle, NEW s \in Slot, CheckMove(p, c, s) PROVE LockOK'
  BY <1>19 DEF CheckMove, Call, Goto
<1>20. ASSUME NEW c \in Cycle, Archive(c) PROVE LockOK'
  BY <1>20 DEF Archive
<1>21. ASSUME NEW i \in Issue, Finish(i) PROVE LockOK'
  BY <1>21 DEF Finish
<1>22. ASSUME NEW i \in Issue, NEW c \in Cycle \cup {NoCycle}, Assign(i, c) PROVE LockOK'
  BY <1>22 DEF Assign
<1>23. CASE Tick
  BY <1>23 DEF Tick
<1>24. CASE UNCHANGED vars
  BY <1>24 DEF vars
<1>25. QED
  BY <1>1, <1>2, <1>3, <1>4, <1>5, <1>6, <1>7, <1>8, <1>9, <1>10, <1>11, <1>12, <1>13, <1>14, <1>15, <1>16, <1>17, <1>18, <1>19, <1>20, <1>21, <1>22, <1>23, <1>24 DEF Next, Proceed

\* Other rollovers move the issues of other cycles.
LEMMA ReadStep == ASSUME Shapes, LockOK, ReadOK, [Next]_vars PROVE ReadOK'
<1> USE CyclesAssumption DEF Shapes, LockOK, ReadOK, Free, Locks, Cycle, NoCycle, Rolling, Stored, cycleVars, issueVars, callVars
<1>1. ASSUME NEW p \in Proc, Begin(p) PROVE ReadOK'
  BY <1>1 DEF Begin, Read, Goto
<1>2. ASSUME NEW p \in Proc, Gone(p) PROVE ReadOK'
  BY <1>2 DEF Gone, End, Goto
<1>3. ASSUME NEW p \in Proc, ChooseNext(p) PROVE ReadOK'
  BY <1>3 DEF ChooseNext, Goto
<1>4. ASSUME NEW p \in Proc, CommitRollover(p) PROVE ReadOK'
  BY <1>4 DEF CommitRollover, End, Goto
<1>5. ASSUME NEW p \in Proc, ForeignKeyFails(p) PROVE ReadOK'
  BY <1>5 DEF ForeignKeyFails, Abort, End, Goto
<1>6. ASSUME NEW p \in Proc, Deadlocked(p) PROVE ReadOK'
  BY <1>6 DEF Deadlocked, Abort, End, Goto
<1>7. ASSUME NEW p \in Proc, PickNumber(p) PROVE ReadOK'
  BY <1>7 DEF PickNumber, Goto
<1>8. ASSUME NEW p \in Proc, CommitCreate(p) PROVE ReadOK'
  BY <1>8 DEF CommitCreate, End, Goto
<1>9. ASSUME NEW p \in Proc, RetryCreate(p) PROVE ReadOK'
  BY <1>9 DEF RetryCreate, Goto
<1>10. ASSUME NEW p \in Proc, CreateFails(p) PROVE ReadOK'
  BY <1>10 DEF CreateFails, End, Goto
<1>11. ASSUME NEW p \in Proc, Move(p) PROVE ReadOK'
  BY <1>11 DEF Move, End, Goto
<1>12. ASSUME NEW p \in Proc, CommitDelete(p) PROVE ReadOK'
  BY <1>12 DEF CommitDelete, End, Goto
<1>13. ASSUME NEW p \in Proc, Fault(p) PROVE ReadOK'
  BY <1>13 DEF Fault, Abort, End, Goto
<1>14. ASSUME NEW p \in Proc, PlanRanges(p) PROVE ReadOK'
  BY <1>14 DEF PlanRanges, Call, Goto
<1>15. ASSUME NEW p \in Proc, NEW s \in Slot, CheckOverlap(p, s) PROVE ReadOK'
  BY <1>15 DEF CheckOverlap, Call, Goto
<1>16. ASSUME NEW p \in Proc, NEW c \in Cycle, Sweep(p, c) PROVE ReadOK'
  BY <1>16 DEF Sweep, Call, Goto
<1>17. ASSUME NEW p \in Proc, NEW c \in Cycle, Manual(p, c) PROVE ReadOK'
  BY <1>17 DEF Manual, Call, Goto
<1>18. ASSUME NEW p \in Proc, NEW c \in Cycle, ReadAffected(p, c) PROVE ReadOK'
  BY <1>18 DEF ReadAffected, Call, Goto
<1>19. ASSUME NEW p \in Proc, NEW c \in Cycle, NEW s \in Slot, CheckMove(p, c, s) PROVE ReadOK'
  BY <1>19 DEF CheckMove, Call, Goto
<1>20. ASSUME NEW c \in Cycle, Archive(c) PROVE ReadOK'
  BY <1>20 DEF Archive
<1>21. ASSUME NEW i \in Issue, Finish(i) PROVE ReadOK'
  BY <1>21 DEF Finish
<1>22. ASSUME NEW i \in Issue, NEW c \in Cycle \cup {NoCycle}, Assign(i, c) PROVE ReadOK'
  BY <1>22 DEF Assign
<1>23. CASE Tick
  BY <1>23 DEF Tick
<1>24. CASE UNCHANGED vars
  BY <1>24 DEF vars
<1>25. QED
  BY <1>1, <1>2, <1>3, <1>4, <1>5, <1>6, <1>7, <1>8, <1>9, <1>10, <1>11, <1>12, <1>13, <1>14, <1>15, <1>16, <1>17, <1>18, <1>19, <1>20, <1>21, <1>22, <1>23, <1>24 DEF Next, Proceed
-----------------------------------------------------------------------------
\* Fewer issues never need a larger count.
LEMMA FewerAreCovered ==
    ASSUME Shapes, NEW c \in Cycle, Cardinality(Carried(c)) <= carry[c],
           Carried(c)' \subseteq Carried(c), carry'[c] = carry[c]
    PROVE  Cardinality(Carried(c)') <= carry'[c]
<1>1. IsFiniteSet(Carried(c))
  BY CyclesAssumption, FS_Subset DEF Carried
<1>2. /\ Cardinality(Carried(c)') \in Nat /\ Cardinality(Carried(c)) \in Nat
      /\ Cardinality(Carried(c)') <= Cardinality(Carried(c))
  BY <1>1, FS_Subset, FS_CardinalityType
<1>3. QED
  BY <1>2 DEF Shapes

\* The commit of a rollover adds to a cycle what it counts there.
LEMMA CommitIsCovered ==
    ASSUME Shapes, NEW p \in Proc, CommitRollover(p), NEW c \in Cycle,
           Cardinality(Carried(c)) <= carry[c]
    PROVE  Cardinality(Carried(c)') <= carry'[c]
<1>1. CASE toMove[p] # {} /\ next[p] = c
  <2>1. carry'[c] = carry[c] + Cardinality(toMove[p])
    <3>1. c # NoCycle
      BY DEF Cycle, NoCycle
    <3>2. carry' = [carry EXCEPT ![c] = carry[c] + Cardinality(toMove[p])]
      BY <1>1, <3>1, Zenon DEF CommitRollover, Carry
    <3>3. QED
      BY <3>2 DEF Shapes
  <2>2. Carried(c)' \subseteq Carried(c) \cup toMove[p]
    BY DEF CommitRollover, Carried, Shapes
  <2>3. /\ IsFiniteSet(Carried(c)) /\ IsFiniteSet(toMove[p])
        /\ Cardinality(toMove[p]) \in Nat /\ Cardinality(Carried(c)) \in Nat
    BY CyclesAssumption, MovedCount, FS_Subset, FS_CardinalityType DEF Carried
  <2>4. /\ IsFiniteSet(Carried(c) \cup toMove[p])
        /\ Cardinality(Carried(c) \cup toMove[p]) <= Cardinality(Carried(c)) + Cardinality(toMove[p])
    <3>1. Cardinality(Carried(c) \cap toMove[p]) \in Nat
      BY <2>3, FS_Intersection, FS_CardinalityType
    <3>2. /\ IsFiniteSet(Carried(c) \cup toMove[p])
          /\ Cardinality(Carried(c) \cup toMove[p]) =
                Cardinality(Carried(c)) + Cardinality(toMove[p])
                  - Cardinality(Carried(c) \cap toMove[p])
      BY <2>3, FS_Union
    <3>3. QED
      BY <2>3, <3>1, <3>2
  <2>5. /\ Cardinality(Carried(c)') <= Cardinality(Carried(c) \cup toMove[p])
        /\ Cardinality(Carried(c)') \in Nat
        /\ Cardinality(Carried(c) \cup toMove[p]) \in Nat
    BY <2>2, <2>4, FS_Subset, FS_CardinalityType
  <2>6. QED
    BY <2>1, <2>3, <2>4, <2>5 DEF Shapes
<1>2. CASE ~ (toMove[p] # {} /\ next[p] = c)
  <2>1. carry'[c] = carry[c]
    BY <1>2 DEF CommitRollover, Carry, Shapes, Cycle, NoCycle
  <2>2. Carried(c)' \subseteq Carried(c)
    BY <1>2 DEF CommitRollover, Carried, Shapes
  <2>3. QED
    BY <2>1, <2>2, FewerAreCovered
<1>3. QED
  BY <1>1, <1>2

\* Every other step leaves the count alone and puts nothing in by a rollover.
LEMMA OthersKeep ==
    ASSUME Shapes, [Next]_vars, \A p \in Proc : ~ CommitRollover(p), NEW c \in Cycle
    PROVE  carry'[c] = carry[c] /\ Carried(c)' \subseteq Carried(c)
<1> USE DEF Shapes, Carried, Cycle, NoCycle, cycleVars, issueVars
<1> DEFINE Kept == carry'[c] = carry[c] /\ Carried(c)' \subseteq Carried(c)
<1>1. ASSUME NEW p \in Proc,
             \/ Begin(p) \/ Gone(p) \/ ChooseNext(p) \/ ForeignKeyFails(p) \/ Deadlocked(p)
             \/ Fault(p) \/ PickNumber(p) \/ RetryCreate(p) \/ CreateFails(p) \/ PlanRanges(p)
      PROVE  Kept
  BY <1>1 DEF Begin, Read, Gone, ChooseNext, ForeignKeyFails, Deadlocked, Fault, Abort,
             PickNumber, RetryCreate, CreateFails, PlanRanges
<1>2. ASSUME NEW p \in Proc, CommitCreate(p) \/ Move(p) \/ CommitDelete(p) PROVE Kept
  BY <1>2 DEF CommitCreate, Move, CommitDelete
<1>3. ASSUME NEW p \in Proc, NEW s \in Slot, CheckOverlap(p, s) PROVE Kept
  BY <1>3 DEF CheckOverlap
<1>4. ASSUME NEW p \in Proc, NEW d \in Cycle, Sweep(p, d) \/ Manual(p, d) \/ ReadAffected(p, d) PROVE Kept
  BY <1>4 DEF Sweep, Manual, ReadAffected
<1>5. ASSUME NEW p \in Proc, NEW d \in Cycle, NEW s \in Slot, CheckMove(p, d, s) PROVE Kept
  BY <1>5 DEF CheckMove
<1>6. ASSUME NEW d \in Cycle, Archive(d) PROVE Kept
  BY <1>6 DEF Archive
<1>7. ASSUME NEW i \in Issue, Finish(i) PROVE Kept
  BY <1>7 DEF Finish
<1>8. ASSUME NEW i \in Issue, NEW d \in Cycle \cup {NoCycle}, Assign(i, d) PROVE Kept
  BY <1>8 DEF Assign
<1>9. CASE Tick
  BY <1>9 DEF Tick
<1>10. CASE UNCHANGED vars
  BY <1>10 DEF vars
<1>11. QED
  BY <1>1, <1>2, <1>3, <1>4, <1>5, <1>6, <1>7, <1>8, <1>9, <1>10 DEF Next, Proceed

\* A row that is created has no issues yet.
LEMMA CarryStep ==
    ASSUME IInv, CarryCoversContents, [Next]_vars
    PROVE  CarryCoversContents'
<1> SUFFICES ASSUME NEW c \in Cycle, Stored(c)'
             PROVE  Cardinality(Carried(c)') <= carry'[c]
  BY DEF CarryCoversContents, Carried
<1>1. Cardinality(Carried(c)) <= carry[c]
  <2>1. CASE Stored(c)
    BY <2>1 DEF CarryCoversContents, Carried
  <2>2. CASE ~ Stored(c)
    <3>1. Carried(c) = {}
      BY <2>2 DEF IInv, KeyOK, Carried, Cycle, NoCycle
    <3>2. Cardinality({}) = 0
      BY FS_EmptySet
    <3>3. Cardinality(Carried(c)) = 0
      BY <3>1, <3>2, Zenon
    <3>4. QED
      BY <3>3 DEF IInv, Shapes
  <2>3. QED
    BY <2>1, <2>2
<1>2. CASE \E p \in Proc : CommitRollover(p)
  BY <1>1, <1>2, CommitIsCovered DEF IInv
<1>3. CASE \A p \in Proc : ~ CommitRollover(p)
  BY <1>1, <1>3, OthersKeep, FewerAreCovered DEF IInv
<1>4. QED
  BY <1>2, <1>3
-----------------------------------------------------------------------------
LEMMA Invariance == Spec => [](IInv /\ CarryCoversContents)
<1>1. ASSUME IInv, CarryCoversContents, [Next]_vars PROVE (IInv /\ CarryCoversContents)'
  <2>1. Shapes' /\ KeyOK' /\ LockOK' /\ ReadOK'
    BY <1>1, ShapesStep, KeyStep, LockStep, ReadStep DEF IInv
  <2>2. QED
    BY <1>1, <2>1, CarryStep DEF IInv
<1>2. QED
  BY <1>1, InitIInv, PTL DEF Spec

(***************************************************************************)
(* The carryover count of a cycle never falls behind the issues that       *)
(* rollovers have put there: the increment of rollover() is not lost.      *)
(***************************************************************************)
THEOREM CarryIsCovered == Spec => []CarryCoversContents
BY Invariance, PTL

(***************************************************************************)
(* Whatever sweeps and members roll over at the same time, an issue that   *)
(* no member moves meanwhile is moved out of its cycle, and counted, once. *)
(***************************************************************************)
THEOREM IssuesAreCarriedOnce == Spec => CarriedOnce
<1>1. ASSUME IInv
      PROVE  \A p \in Proc :
               pc[p] = "chosen" /\ pc'[p] = "idle" /\ <<cyc, carry>>' # <<cyc, carry>> =>
                 \A i \in toMove[p] \ touched : cyc[i] = job[p]
  BY <1>1 DEF IInv, ReadOK, Rolling
<1>2. QED
  BY <1>1, Invariance, PTL DEF Spec, CarriedOnce
-----------------------------------------------------------------------------
\* Types, the rest of them: numbers and dates need that what a call is about to
\* create stays within the horizon.

Rest ==
    /\ now \in 0 .. MaxNow
    /\ number \in [Cycle -> Nat]
    /\ slot \in [Cycle -> Slot]
    /\ completed \in [Cycle -> BOOLEAN]
    /\ done \in [Issue -> BOOLEAN]
    /\ touched \in SUBSET Issue
    /\ at \in [Proc -> Slot]
    /\ count \in [Proc -> 0 .. Target + 1]
    /\ num \in [Proc -> Nat]
    /\ tries \in [Proc -> 0 .. MaxRetries]
    /\ events \in 0 .. MaxEvents

Planning == {"checked", "planned", "creating", "filling"}

PlanOK == \A p \in Proc : pc[p] \in Planning => at[p] + count[p] <= Horizon + 1

\* A finite set of numbers has a highest one: a smallest set without one would
\* have one less.
LEMMA HasHighest ==
    ASSUME NEW S \in SUBSET Nat, IsFiniteSet(S), S # {}
    PROVE  \E n \in S : \A m \in S : m <= n
<1> DEFINE Bad == {T \in SUBSET S : T # {} /\ ~ \E n \in T : \A m \in T : m <= n}
<1>1. SUFFICES ASSUME Bad # {} PROVE FALSE
  OBVIOUS
<1>2. IsWellFoundedOn(StrictSubsetOrdering(S), FiniteSubsetsOf(S)) /\ FiniteSubsetsOf(S) = SUBSET S
  BY FS_StrictSubsetOrderingWellFounded, FS_FiniteSubsetsOfFinite
<1>3. Bad \subseteq FiniteSubsetsOf(S)
  BY <1>2
<1>4. \E T \in Bad : \A U \in Bad : ~ (<<U, T>> \in StrictSubsetOrdering(S))
  <2> HIDE DEF Bad
  <2> QED
    BY <1>1, <1>2, <1>3, WFMin
<1>5. PICK T \in Bad : \A U \in Bad : ~ (<<U, T>> \in StrictSubsetOrdering(S))
  BY <1>4
<1>6. PICK x \in T : x \in Nat
  OBVIOUS
<1> DEFINE U == T \ {x}
<1>7. <<U, T>> \in StrictSubsetOrdering(S)
  <2>1. U \in SUBSET S /\ T \in SUBSET S /\ U \subseteq T /\ U # T
    BY <1>6
  <2> QED
    BY <2>1, Zenon DEF StrictSubsetOrdering
<1>8. U \notin Bad
  BY <1>5, <1>7
<1>9. CASE U = {}
  BY <1>6, <1>9
<1>10. CASE \E n \in U : \A m \in U : m <= n
  <2>1. PICK n \in U : \A m \in U : m <= n
    BY <1>10
  <2>2. T \subseteq Nat /\ n \in T /\ n \in Nat
    BY <2>1
  <2>3. CASE x <= n
    BY <2>1, <2>2, <2>3
  <2>4. CASE ~ (x <= n)
    BY <1>6, <2>1, <2>2, <2>4
  <2> QED
    BY <2>3, <2>4
<1> QED
  BY <1>8, <1>9, <1>10

\* The images of the cycles under a function, the empty case apart.
LEMMA HighestOf ==
    ASSUME NEW f \in [Cycle -> Nat], NEW C \in SUBSET Cycle
    PROVE  /\ IsFiniteSet(C) /\ Cardinality(C) \in Nat
           /\ Highest({0} \cup {f[c] : c \in C}) \in Nat
           /\ C # {} => Highest({f[c] : c \in C}) \in {f[c] : c \in C}
<1>1. IsFiniteSet(Cycle)
  BY FS_Interval, CyclesAssumption DEF Cycle
<1>2. IsFiniteSet(C) /\ Cardinality(C) \in Nat
  BY <1>1, FS_Subset, FS_CardinalityType
<1> DEFINE S == {f[c] : c \in C}
<1>3. IsFiniteSet(S)
  <2>1. S = {[d \in C |-> f[d]][c] : c \in C}
    OBVIOUS
  <2>2. [c \in C |-> f[c]] \in Surjection(C, S)
    BY DEF Surjection
  <2> HIDE DEF S
  <2> QED
    BY <1>2, <2>2, FS_Surjection
<1>4. S \subseteq Nat
  OBVIOUS
<1>5. IsFiniteSet({0} \cup S)
  BY <1>3, FS_Singleton, FS_Union
<1> HIDE DEF S
<1>6. Highest({0} \cup S) \in {0} \cup S
  <2>1. \E n \in {0} \cup S : \A m \in {0} \cup S : m <= n
    BY <1>4, <1>5, HasHighest
  <2> QED
    BY <2>1 DEF Highest
<1>7. S # {} => Highest(S) \in S
  <2>1. S # {} => \E n \in S : \A m \in S : m <= n
    BY <1>3, <1>4, HasHighest
  <2> QED
    BY <2>1 DEF Highest
<1>8. C # {} => S # {}
  BY DEF S
<1>9. Highest({0} \cup S) \in Nat /\ (C # {} => Highest(S) \in S)
  <2>1. \A x \in {0} \cup S : x \in Nat
    BY <1>4
  <2> QED
    BY <1>6, <1>7, <1>8, <2>1, Zenon
<1>10. /\ Highest({0} \cup {f[c] : c \in C}) \in Nat
       /\ C # {} => Highest({f[c] : c \in C}) \in {f[c] : c \in C}
  BY <1>9, Zenon DEF S
<1> QED
  BY <1>2, <1>10, Zenon

\* A commit of create: the new rows lie in the range that was planned.
LEMMA CreateTypes ==
    ASSUME Shapes, Rest, PlanOK, NEW p \in Proc, CommitCreate(p)
    PROVE  number' \in [Cycle -> Nat] /\ slot' \in [Cycle -> Slot]
<1> DEFINE rank(c) == Cardinality({d \in Unused : d < c})
           new == {c \in Unused : rank(c) < count[p]}
<1>1. ASSUME NEW c \in Cycle PROVE rank(c) \in Nat
  <2>1. {d \in Unused : d < c} \in SUBSET Cycle
    BY DEF Unused
  <2>2. number \in [Cycle -> Nat]
    BY DEF Rest
  <2> QED
    BY <2>1, <2>2, HighestOf
<1>2. pc[p] \in Planning /\ at[p] + count[p] <= Horizon + 1
  BY DEF CommitCreate, PlanOK, Planning
<1>3. /\ slot' = [c \in Cycle |-> IF c \in new THEN at[p] + rank(c) ELSE slot[c]]
      /\ number' = [c \in Cycle |-> IF c \in new THEN num[p] + rank(c) ELSE number[c]]
  BY Zenon DEF CommitCreate
<1>4. \A c \in Cycle : c \in new => rank(c) < count[p]
  OBVIOUS
<1> HIDE DEF new, rank
<1>5. at[p] \in Nat /\ count[p] \in Nat /\ num[p] \in Nat /\ Horizon \in Nat
  BY CyclesAssumption DEF Rest, Slot
<1>6. \A c \in Cycle : /\ num[p] + rank(c) \in Nat
                       /\ c \in new => at[p] + rank(c) \in Slot
  BY <1>1, <1>2, <1>4, <1>5 DEF Slot
<1> QED
  BY <1>3, <1>6 DEF Rest

LEMMA PlanTypes ==
    ASSUME Shapes, Rest, NEW p \in Proc, PlanRanges(p)
    PROVE  /\ at' \in [Proc -> Slot] /\ count' \in [Proc -> 0 .. Target + 1]
           /\ at'[p] + count'[p] <= Horizon + 1
<1>1. slot \in [Cycle -> Nat] /\ LiveRows \in SUBSET Cycle /\ Upcoming \in SUBSET Cycle
  BY DEF Rest, Slot, LiveRows, Upcoming
<1>2. Cardinality(Upcoming) \in Nat
  BY <1>1, HighestOf
<1>3. NextSlot \in Nat
  <2>1. LiveRows # {} => Highest({slot[c] : c \in LiveRows}) \in {slot[c] : c \in LiveRows}
    BY <1>1, HighestOf
  <2>2. LiveRows # {} => Highest({slot[c] : c \in LiveRows}) \in Nat
    BY <1>1, <2>1
  <2> QED
    BY <2>2, CyclesAssumption DEF NextSlot, Rest
<1>4. /\ Cardinality(Upcoming) < Target
      /\ at' = [at EXCEPT ![p] = NextSlot]
      /\ count' = [count EXCEPT ![p] = Target - Cardinality(Upcoming)]
      /\ at'[p] + count'[p] - 1 \in Slot
  BY DEF PlanRanges
<1>5. at'[p] = NextSlot /\ count'[p] = Target - Cardinality(Upcoming)
  BY <1>4 DEF Rest
<1> HIDE DEF NextSlot, Upcoming
<1>6. Target - Cardinality(Upcoming) \in 1 .. Target
  BY <1>2, <1>4, CyclesAssumption
<1>7. NextSlot \in Slot /\ NextSlot + (Target - Cardinality(Upcoming)) <= Horizon + 1
  BY <1>3, <1>4, <1>5, <1>6, CyclesAssumption DEF Slot
<1>8. Target - Cardinality(Upcoming) \in 0 .. Target + 1
  BY <1>6, CyclesAssumption
<1> QED
  BY <1>4, <1>5, <1>7, <1>8 DEF Rest

\* Every step keeps the types.
LEMMA RestStep == ASSUME Shapes, Rest, PlanOK, [Next]_vars PROVE Rest' /\ PlanOK'
<1> DEFINE G == Rest' /\ PlanOK'
<1> SUFFICES G
  OBVIOUS
<1> USE CyclesAssumption DEF Shapes, Rest, PlanOK, Planning, Rolling, Slot, cycleVars, issueVars, callVars
<1>1. ASSUME NEW p \in Proc, Begin(p) PROVE G
  BY <1>1 DEF Begin, Read, Goto
<1>2. ASSUME NEW p \in Proc, Gone(p) PROVE G
  BY <1>2 DEF Gone, End, Goto
<1>3. ASSUME NEW p \in Proc, ChooseNext(p) PROVE G
  BY <1>3 DEF ChooseNext, Goto
<1>4. ASSUME NEW p \in Proc, CommitRollover(p) PROVE G
  BY <1>4 DEF CommitRollover, End, Goto
<1>5. ASSUME NEW p \in Proc, ForeignKeyFails(p) PROVE G
  BY <1>5 DEF ForeignKeyFails, Abort, End, Goto
<1>6. ASSUME NEW p \in Proc, Deadlocked(p) PROVE G
  BY <1>6 DEF Deadlocked, Abort, End, Goto
<1>7. ASSUME NEW p \in Proc, RetryCreate(p) PROVE G
  BY <1>7 DEF RetryCreate, Goto
<1>8. ASSUME NEW p \in Proc, CreateFails(p) PROVE G
  BY <1>8 DEF CreateFails, End, Goto
<1>9. ASSUME NEW p \in Proc, Move(p) PROVE G
  BY <1>9 DEF Move, End, Goto
<1>10. ASSUME NEW p \in Proc, CommitDelete(p) PROVE G
  BY <1>10 DEF CommitDelete, End, Goto
<1>11. ASSUME NEW p \in Proc, Fault(p) PROVE G
  BY <1>11 DEF Fault, Abort, End, Event, Goto
<1>12. ASSUME NEW p \in Proc, PickNumber(p) PROVE G
  <2>1. HighestNumber + 1 \in Nat
    <3>1. {d \in Cycle : Stored(d)} \in SUBSET Cycle
      OBVIOUS
    <3>2. HighestNumber \in Nat
      BY <3>1, HighestOf DEF HighestNumber
    <3> QED
      BY <3>2
  <2> QED
    BY <1>12, <2>1 DEF PickNumber, Goto
<1>13. ASSUME NEW p \in Proc, CommitCreate(p) PROVE G
  <2>1. number' \in [Cycle -> Nat] /\ slot' \in [Cycle -> Slot]
    BY <1>13, CreateTypes
  <2> HIDE DEF Slot
  <2>2. 0 \in Slot
    BY DEF Slot
  <2>3. Rest'
    BY <1>13, <2>1, <2>2 DEF CommitCreate, End, Goto
  <2>4. PlanOK'
    BY <1>13 DEF CommitCreate, End, Goto
  <2> QED
    BY <2>3, <2>4
<1>14. ASSUME NEW p \in Proc, PlanRanges(p) PROVE G
  <2>1. /\ at' \in [Proc -> Slot] /\ count' \in [Proc -> 0 .. Target + 1]
        /\ at'[p] + count'[p] <= Horizon + 1
    BY <1>14, PlanTypes
  <2>2. Rest'
    BY <1>14, <2>1 DEF PlanRanges, Call, Goto, Event
  <2>3. \A q \in Proc \ {p} : at'[q] = at[q] /\ count'[q] = count[q] /\ pc'[q] = pc[q]
    BY <1>14 DEF PlanRanges, Call, Goto
  <2>4. PlanOK'
    BY <2>1, <2>3
  <2> QED
    BY <2>2, <2>4
<1>15. ASSUME NEW p \in Proc, NEW s \in Slot, CheckOverlap(p, s) PROVE G
  BY <1>15 DEF CheckOverlap, Call, Goto, Event
<1>16. ASSUME NEW p \in Proc, NEW c \in Cycle, Sweep(p, c) PROVE G
  BY <1>16 DEF Sweep, Call, Goto, Event
<1>17. ASSUME NEW p \in Proc, NEW c \in Cycle, Manual(p, c) PROVE G
  BY <1>17 DEF Manual, Call, Goto, Event
<1>18. ASSUME NEW p \in Proc, NEW c \in Cycle, ReadAffected(p, c) PROVE G
  BY <1>18 DEF ReadAffected, Call, Goto, Event
<1>19. ASSUME NEW p \in Proc, NEW c \in Cycle, NEW s \in Slot, CheckMove(p, c, s) PROVE G
  BY <1>19 DEF CheckMove, Call, Goto, Event
<1>20. ASSUME NEW c \in Cycle, Archive(c) PROVE G
  BY <1>20 DEF Archive, Event
<1>21. ASSUME NEW i \in Issue, Finish(i) PROVE G
  BY <1>21 DEF Finish, Event
<1>22. ASSUME NEW i \in Issue, NEW c \in Cycle \cup {NoCycle}, Assign(i, c) PROVE G
  BY <1>22 DEF Assign, Event
<1>23. CASE Tick
  BY <1>23 DEF Tick
<1>24. CASE UNCHANGED vars
  BY <1>24 DEF vars
<1> QED
  BY <1>1, <1>2, <1>3, <1>4, <1>5, <1>6, <1>7, <1>8, <1>9, <1>10, <1>11, <1>12, <1>13, <1>14, <1>15, <1>16, <1>17, <1>18, <1>19, <1>20, <1>21, <1>22, <1>23, <1>24 DEF Next, Proceed

(***************************************************************************)
(* Type correctness of the cycles, the issues and the calls: what          *)
(* autoCreateUpcomingCycles plans, and the transaction after it creates,   *)
(* stays within the range it was planned for.                              *)
(***************************************************************************)
THEOREM TypeCorrect == Spec => []TypeOK
<1> DEFINE Types == Shapes /\ Rest /\ PlanOK
<1>1. Init => Types
  <2> SUFFICES ASSUME Init PROVE Types
    OBVIOUS
  <2>1. Shapes
    BY InitIInv DEF IInv
  <2>2. Rest
    BY CyclesAssumption DEF Init, Rest, Cycle, Slot
  <2>3. PlanOK
    BY DEF Init, PlanOK, Planning
  <2> QED
    BY <2>1, <2>2, <2>3
<1>2. Types /\ [Next]_vars => Types'
  BY ShapesStep, RestStep
<1>3. Types => TypeOK
  BY DEF Shapes, Rest, TypeOK
<1> QED
  BY <1>1, <1>2, <1>3, PTL DEF Spec
=============================================================================
