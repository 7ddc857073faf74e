----------------------- MODULE WebhookDeliveryProofs -----------------------
(***************************************************************************)
(* Proofs about WebhookDelivery, for any deliveries, calls and bounds,     *)
(* where a live call ends before its claim may be taken over: a delivery   *)
(* has one sender, its outcome is final, and the endpoint sees it no more  *)
(* often than the calls that died explain.                                 *)
(***************************************************************************)
EXTENDS WebhookDelivery, TLAPS

Live == {"unsent", "matched", "pending", "in_flight"}

Holds(w, d) == pc[w] \in Claimed /\ job[w] = d

\* A claim and the row it stands for.
ClaimOK ==
    \A w \in Worker :
        /\ pc[w] \in Claimed /\ status[job[w]] # "deleted" =>
              status[job[w]] = "in_flight" /\ due[job[w]] = Window - age[w]
        /\ pc[w] \in {"idle", "called"} => age[w] = 0

\* What a call carries from its read to its outcome.
AttemptOK ==
    \A w \in Worker :
        /\ pc[w] \in {"sending", "answered"} /\ status[job[w]] # "deleted" =>
              attempt[w] = attempts[job[w]] + 1
        /\ ok[w] => pc[w] = "answered"

\* Requests and 2xx answers, by what is recorded and what is under way.
CountOK ==
    \A d \in Delivery :
        /\ status[d] \in Live =>
              /\ attempts[d] < MaxAttempts
              /\ sent[d] <= attempts[d] + deaths + 1
              /\ (\A w \in Worker : ~ (Holds(w, d) /\ pc[w] \in {"sending", "answered"})) =>
                    sent[d] <= attempts[d] + deaths
              /\ (\A w \in Worker : ~ (Holds(w, d) /\ ok[w])) => accepted[d] <= deaths
        /\ (\E w \in Worker : Holds(w, d) /\ pc[w] = "sending") => accepted[d] <= deaths
        /\ sent[d] <= MaxAttempts + deaths
        /\ accepted[d] <= 1 + deaths

IInv == TypeOK /\ ClaimOK /\ AttemptOK /\ OneSender /\ CountOK
-----------------------------------------------------------------------------
LEMMA InitIInv == Init => IInv
<1> SUFFICES ASSUME Init PROVE IInv
  OBVIOUS
<1> USE WebhookAssumption
<1>1. TypeOK
  <2>1. exists \in BOOLEAN /\ enabled \in BOOLEAN /\ archived \in BOOLEAN
    BY Zenon DEF Init
  <2>2. QED
    BY <2>1 DEF Init, TypeOK, Final, Due
<1>2. ClaimOK /\ AttemptOK /\ OneSender
  BY DEF Init, Claimed, ClaimOK, AttemptOK, OneSender
<1>3. CountOK
  <2>1. \A d \in Delivery : accepted[d] = 0 /\ sent[d] = 0 /\ attempts[d] = 0
    BY DEF Init
  <2>2. deaths = 0
    BY DEF Init
  <2>3. ASSUME NEW d \in Delivery
        PROVE  /\ attempts[d] < MaxAttempts
               /\ sent[d] <= attempts[d] + deaths /\ sent[d] <= attempts[d] + deaths + 1
               /\ sent[d] <= MaxAttempts + deaths
               /\ accepted[d] <= deaths /\ accepted[d] <= 1 + deaths
    BY <2>1, <2>2
  <2>4. QED
    BY <2>3, Zenon DEF CountOK
<1>4. QED
  BY <1>1, <1>2, <1>3 DEF IInv

\* Types; the number of an attempt needs the attempts of the row it was read from.
LEMMA TypeStep == ASSUME TypeOK, AttemptOK, CountOK, ClaimOK, [Next]_vars PROVE TypeOK'
<1> USE WebhookAssumption, StallAssumption
        DEF TypeOK, AttemptOK, CountOK, ClaimOK, Live, Claimed, Final, Due, hookVars, rowVars, callVars, histVars
<1>1. ASSUME NEW d \in Delivery, Match(d) PROVE TypeOK'
  BY <1>1 DEF Match
<1>2. ASSUME NEW d \in Delivery, CreateFails(d) PROVE TypeOK'
  BY <1>2 DEF CreateFails
<1>3. ASSUME NEW d \in Delivery, NEW w \in Worker, Create(d, w) PROVE TypeOK'
  BY <1>3 DEF Create, Call
<1>4. ASSUME NEW d \in Delivery, NEW w \in Worker, Sweep(d, w) PROVE TypeOK'
  BY <1>4 DEF Sweep, Call
<1>5. ASSUME NEW w \in Worker, Claim(w) PROVE TypeOK'
  BY <1>5 DEF Claim, Claimable
<1>6. ASSUME NEW w \in Worker, ClaimMisses(w) PROVE TypeOK'
  BY <1>6 DEF ClaimMisses, EndCall
<1>7. ASSUME NEW w \in Worker, Send(w) PROVE TypeOK'
  BY <1>7 DEF Send
<1>8. ASSUME NEW w \in Worker, FindDisabled(w) PROVE TypeOK'
  BY <1>8 DEF FindDisabled
<1>9. ASSUME NEW w \in Worker, Drop(w) PROVE TypeOK'
  BY <1>9 DEF Drop, EndCall
<1>10. ASSUME NEW w \in Worker, FindDeleted(w) PROVE TypeOK'
  BY <1>10 DEF FindDeleted, EndCall
<1>11. ASSUME NEW w \in Worker, AnswerOk(w) PROVE TypeOK'
  BY <1>11 DEF AnswerOk
<1>12. ASSUME NEW w \in Worker, AnswerBad(w) PROVE TypeOK'
  BY <1>12 DEF AnswerBad
<1>13. ASSUME NEW w \in Worker, RecordSuccess(w) PROVE TypeOK'
  BY <1>13 DEF RecordSuccess, Outcome, EndCall
<1>14. ASSUME NEW w \in Worker, RecordRetry(w) PROVE TypeOK'
  BY <1>14 DEF RecordRetry, Outcome, EndCall
<1>15. ASSUME NEW w \in Worker, RecordExhausted(w) PROVE TypeOK'
  BY <1>15 DEF RecordExhausted, Outcome
<1>16. ASSUME NEW w \in Worker, AutoDisable(w) PROVE TypeOK'
  BY <1>16 DEF AutoDisable, EndCall
<1>17. ASSUME NEW w \in Worker, Die(w) PROVE TypeOK'
  BY <1>17 DEF Die, EndCall
<1>18. CASE Enable \/ Disable \/ Archive
  <2>1. exists' \in BOOLEAN /\ enabled' \in BOOLEAN /\ archived' \in BOOLEAN
    BY <1>18, Zenon DEF Enable, Disable, Archive, Edit
  <2>2. QED
    BY <1>18, <2>1 DEF Enable, Disable, Archive, Edit
<1>19. CASE Delete
  <2>1. exists' \in BOOLEAN /\ enabled' \in BOOLEAN /\ archived' \in BOOLEAN
    BY <1>19, Zenon DEF Delete, Edit
  <2>2. QED
    BY <1>19, <2>1 DEF Delete, Edit
<1>20. CASE Tick
  BY <1>20 DEF Tick
<1>21. CASE UNCHANGED vars
  BY <1>21 DEF vars
<1>22. QED
  BY <1>1, <1>2, <1>3, <1>4, <1>5, <1>6, <1>7, <1>8, <1>9, <1>10, <1>11, <1>12, <1>13, <1>14, <1>15, <1>16, <1>17, <1>18, <1>19, <1>20, <1>21 DEF Next, Proceed, Record

\* The deadline of a claim runs with its holder, so nobody else can take it over.
LEMMA ClaimStep == ASSUME TypeOK, ClaimOK, OneSender, [Next]_vars PROVE ClaimOK' /\ OneSender'
<1> USE WebhookAssumption, StallAssumption
        DEF TypeOK, ClaimOK, OneSender, Claimed, Final, Due, hookVars, rowVars, callVars, histVars
<1>1. ASSUME NEW d \in Delivery, Match(d) PROVE ClaimOK' /\ OneSender'
  BY <1>1 DEF Match
<1>2. ASSUME NEW d \in Delivery, CreateFails(d) PROVE ClaimOK' /\ OneSender'
  BY <1>2 DEF CreateFails
<1>3. ASSUME NEW d \in Delivery, NEW w \in Worker, Create(d, w) PROVE ClaimOK' /\ OneSender'
  BY <1>3 DEF Create, Call
<1>4. ASSUME NEW d \in Delivery, NEW w \in Worker, Sweep(d, w) PROVE ClaimOK' /\ OneSender'
  BY <1>4 DEF Sweep, Call
<1>5. ASSUME NEW w \in Worker, Claim(w) PROVE ClaimOK' /\ OneSender'
  BY <1>5 DEF Claim, Claimable
<1>6. ASSUME NEW w \in Worker, ClaimMisses(w) PROVE ClaimOK' /\ OneSender'
  BY <1>6 DEF ClaimMisses, EndCall
<1>7. ASSUME NEW w \in Worker, Send(w) PROVE ClaimOK' /\ OneSender'
  BY <1>7 DEF Send
<1>8. ASSUME NEW w \in Worker, FindDisabled(w) PROVE ClaimOK' /\ OneSender'
  BY <1>8 DEF FindDisabled
<1>9. ASSUME NEW w \in Worker, Drop(w) PROVE ClaimOK' /\ OneSender'
  BY <1>9 DEF Drop, EndCall
<1>10. ASSUME NEW w \in Worker, FindDeleted(w) PROVE ClaimOK' /\ OneSender'
  BY <1>10 DEF FindDeleted, EndCall
<1>11. ASSUME NEW w \in Worker, AnswerOk(w) PROVE ClaimOK' /\ OneSender'
  BY <1>11 DEF AnswerOk
<1>12. ASSUME NEW w \in Worker, AnswerBad(w) PROVE ClaimOK' /\ OneSender'
  BY <1>12 DEF AnswerBad
<1>13. ASSUME NEW w \in Worker, RecordSuccess(w) PROVE ClaimOK' /\ OneSender'
  BY <1>13 DEF RecordSuccess, Outcome, EndCall
<1>14. ASSUME NEW w \in Worker, RecordRetry(w) PROVE ClaimOK' /\ OneSender'
  BY <1>14 DEF RecordRetry, Outcome, EndCall
<1>15. ASSUME NEW w \in Worker, RecordExhausted(w) PROVE ClaimOK' /\ OneSender'
  BY <1>15 DEF RecordExhausted, Outcome
<1>16. ASSUME NEW w \in Worker, AutoDisable(w) PROVE ClaimOK' /\ OneSender'
  BY <1>16 DEF AutoDisable, EndCall
<1>17. ASSUME NEW w \in Worker, Die(w) PROVE ClaimOK' /\ OneSender'
  BY <1>17 DEF Die, EndCall
<1>18. CASE Enable \/ Disable \/ Archive
  BY <1>18 DEF Enable, Disable, Archive, Edit
<1>19. CASE Delete
  BY <1>19 DEF Delete, Edit
<1>20. CASE Tick
  BY <1>20 DEF Tick
<1>21. CASE UNCHANGED vars
  BY <1>21 DEF vars
<1>22. QED
  BY <1>1, <1>2, <1>3, <1>4, <1>5, <1>6, <1>7, <1>8, <1>9, <1>10, <1>11, <1>12, <1>13, <1>14, <1>15, <1>16, <1>17, <1>18, <1>19, <1>20, <1>21 DEF Next, Proceed, Record

\* Nobody else writes the attempts of a claimed row.
LEMMA AttemptStep == ASSUME TypeOK, ClaimOK, OneSender, AttemptOK, [Next]_vars PROVE AttemptOK'
<1> USE WebhookAssumption, StallAssumption
        DEF TypeOK, ClaimOK, OneSender, AttemptOK, Claimed, Final, Due, hookVars, rowVars, callVars, histVars
<1>1. ASSUME NEW d \in Delivery, Match(d) PROVE AttemptOK'
  BY <1>1 DEF Match
<1>2. ASSUME NEW d \in Delivery, CreateFails(d) PROVE AttemptOK'
  BY <1>2 DEF CreateFails
<1>3. ASSUME NEW d \in Delivery, NEW w \in Worker, Create(d, w) PROVE AttemptOK'
  BY <1>3 DEF Create, Call
<1>4. ASSUME NEW d \in Delivery, NEW w \in Worker, Sweep(d, w) PROVE AttemptOK'
  BY <1>4 DEF Sweep, Call
<1>5. ASSUME NEW w \in Worker, Claim(w) PROVE AttemptOK'
  BY <1>5 DEF Claim, Claimable
<1>6. ASSUME NEW w \in Worker, ClaimMisses(w) PROVE AttemptOK'
  BY <1>6 DEF ClaimMisses, EndCall
<1>7. ASSUME NEW w \in Worker, Send(w) PROVE AttemptOK'
  BY <1>7 DEF Send
<1>8. ASSUME NEW w \in Worker, FindDisabled(w) PROVE AttemptOK'
  BY <1>8 DEF FindDisabled
<1>9. ASSUME NEW w \in Worker, Drop(w) PROVE AttemptOK'
  BY <1>9 DEF Drop, EndCall
<1>10. ASSUME NEW w \in Worker, FindDeleted(w) PROVE AttemptOK'
  BY <1>10 DEF FindDeleted, EndCall
<1>11. ASSUME NEW w \in Worker, AnswerOk(w) PROVE AttemptOK'
  BY <1>11 DEF AnswerOk
<1>12. ASSUME NEW w \in Worker, AnswerBad(w) PROVE AttemptOK'
  BY <1>12 DEF AnswerBad
<1>13. ASSUME NEW w \in Worker, RecordSuccess(w) PROVE AttemptOK'
  BY <1>13 DEF RecordSuccess, Outcome, EndCall
<1>14. ASSUME NEW w \in Worker, RecordRetry(w) PROVE AttemptOK'
  BY <1>14 DEF RecordRetry, Outcome, EndCall
<1>15. ASSUME NEW w \in Worker, RecordExhausted(w) PROVE AttemptOK'
  BY <1>15 DEF RecordExhausted, Outcome
<1>16. ASSUME NEW w \in Worker, AutoDisable(w) PROVE AttemptOK'
  BY <1>16 DEF AutoDisable, EndCall
<1>17. ASSUME NEW w \in Worker, Die(w) PROVE AttemptOK'
  BY <1>17 DEF Die, EndCall
<1>18. CASE Enable \/ Disable \/ Archive
  BY <1>18 DEF Enable, Disable, Archive, Edit
<1>19. CASE Delete
  BY <1>19 DEF Delete, Edit
<1>20. CASE Tick
  BY <1>20 DEF Tick
<1>21. CASE UNCHANGED vars
  BY <1>21 DEF vars
<1>22. QED
  BY <1>1, <1>2, <1>3, <1>4, <1>5, <1>6, <1>7, <1>8, <1>9, <1>10, <1>11, <1>12, <1>13, <1>14, <1>15, <1>16, <1>17, <1>18, <1>19, <1>20, <1>21 DEF Next, Proceed, Record

\* Requests and answers are counted by the attempts, the deaths and the call under way.
LEMMA CountStep == ASSUME IInv, [Next]_vars PROVE CountOK'
<1> USE WebhookAssumption, StallAssumption
        DEF IInv, TypeOK, ClaimOK, OneSender, AttemptOK, CountOK, Holds, Live, Claimed, Final, Due, hookVars, rowVars, callVars, histVars
<1>1. ASSUME NEW d \in Delivery, Match(d) PROVE CountOK'
  BY <1>1 DEF Match
<1>2. ASSUME NEW d \in Delivery, CreateFails(d) PROVE CountOK'
  BY <1>2 DEF CreateFails
<1>3. ASSUME NEW d \in Delivery, NEW w \in Worker, Create(d, w) PROVE CountOK'
  BY <1>3 DEF Create, Call
<1>4. ASSUME NEW d \in Delivery, NEW w \in Worker, Sweep(d, w) PROVE CountOK'
  BY <1>4 DEF Sweep, Call
<1>5. ASSUME NEW w \in Worker, Claim(w) PROVE CountOK'
  BY <1>5 DEF Claim, Claimable
<1>6. ASSUME NEW w \in Worker, ClaimMisses(w) PROVE CountOK'
  BY <1>6 DEF ClaimMisses, EndCall
<1>7. ASSUME NEW w \in Worker, Send(w) PROVE CountOK'
  BY <1>7 DEF Send
<1>8. ASSUME NEW w \in Worker, FindDisabled(w) PROVE CountOK'
  BY <1>8 DEF FindDisabled
<1>9. ASSUME NEW w \in Worker, Drop(w) PROVE CountOK'
  BY <1>9 DEF Drop, EndCall
<1>10. ASSUME NEW w \in Worker, FindDeleted(w) PROVE CountOK'
  BY <1>10 DEF FindDeleted, EndCall
<1>11. ASSUME NEW w \in Worker, AnswerOk(w) PROVE CountOK'
  BY <1>11 DEF AnswerOk
<1>12. ASSUME NEW w \in Worker, AnswerBad(w) PROVE CountOK'
  BY <1>12 DEF AnswerBad
<1>13. ASSUME NEW w \in Worker, RecordSuccess(w) PROVE CountOK'
  BY <1>13 DEF RecordSuccess, Outcome, EndCall
<1>14. ASSUME NEW w \in Worker, RecordRetry(w) PROVE CountOK'
  BY <1>14 DEF RecordRetry, Outcome, EndCall
<1>15. ASSUME NEW w \in Worker, RecordExhausted(w) PROVE CountOK'
  BY <1>15 DEF RecordExhausted, Outcome
<1>16. ASSUME NEW w \in Worker, AutoDisable(w) PROVE CountOK'
  BY <1>16 DEF AutoDisable, EndCall
<1>17. ASSUME NEW w \in Worker, Die(w) PROVE CountOK'
  BY <1>17 DEF Die, EndCall
<1>18. CASE Enable \/ Disable \/ Archive
  BY <1>18 DEF Enable, Disable, Archive, Edit
<1>19. CASE Delete
  BY <1>19 DEF Delete, Edit
<1>20. CASE Tick
  BY <1>20 DEF Tick
<1>21. CASE UNCHANGED vars
  BY <1>21 DEF vars
<1>22. QED
  BY <1>1, <1>2, <1>3, <1>4, <1>5, <1>6, <1>7, <1>8, <1>9, <1>10, <1>11, <1>12, <1>13, <1>14, <1>15, <1>16, <1>17, <1>18, <1>19, <1>20, <1>21 DEF Next, Proceed, Record
-----------------------------------------------------------------------------
LEMMA Invariance == Spec => []IInv
<1>1. ASSUME IInv, [Next]_vars PROVE IInv'
  <2>1. TypeOK'
    BY <1>1, TypeStep DEF IInv
  <2>2. ClaimOK' /\ OneSender'
    BY <1>1, ClaimStep DEF IInv
  <2>3. AttemptOK'
    BY <1>1, AttemptStep DEF IInv
  <2>4. CountOK'
    BY <1>1, CountStep
  <2>5. QED
    BY <2>1, <2>2, <2>3, <2>4 DEF IInv
<1>2. QED
  BY <1>1, InitIInv, PTL DEF Spec

(***************************************************************************)
(* Every variable keeps its type; in particular no attempt is numbered     *)
(* past webhook.maxAttempts.                                               *)
(***************************************************************************)
THEOREM TypeCorrect == Spec => []TypeOK
BY Invariance, PTL DEF IInv

(***************************************************************************)
(* However sweeps, replicas and first attempts overlap, a delivery is held *)
(* by one live call: processDelivery's claim is exclusive.                 *)
(***************************************************************************)
THEOREM ClaimIsExclusive == Spec => []OneSender
BY Invariance, PTL DEF IInv

(***************************************************************************)
(* Retries are at least once and bounded: what exceeds one accepted answer *)
(* or maxAttempts requests is explained by calls that died.                *)
(***************************************************************************)
THEOREM RepeatsAreExplained == Spec => []RepeatsOnlyAfterDeath
<1>1. IInv => RepeatsOnlyAfterDeath
  BY DEF IInv, CountOK, RepeatsOnlyAfterDeath
<1>2. QED
  BY <1>1, Invariance, PTL

(***************************************************************************)
(* A recorded outcome is final: no sweep or late call writes the row again.*)
(***************************************************************************)
THEOREM OutcomesAreFinal == Spec => OutcomeIsFinal
<1>1. ASSUME IInv, [Next]_vars
      PROVE  \A d \in Delivery :
               status[d] \in {"success", "failed"} => status'[d] \in {status[d], "deleted"}
  <2> DEFINE OutcomeKept == \A d \in Delivery :
         status[d] \in {"success", "failed"} => status'[d] \in {status[d], "deleted"}
  <2> USE <1>1, WebhookAssumption, StallAssumption
          DEF IInv, TypeOK, ClaimOK, Claimed, Final, hookVars, rowVars, callVars, histVars
  <2>1. ASSUME NEW d \in Delivery, Match(d) PROVE OutcomeKept
    BY <2>1 DEF Match
  <2>2. ASSUME NEW d \in Delivery, CreateFails(d) PROVE OutcomeKept
    BY <2>2 DEF CreateFails
  <2>3. ASSUME NEW d \in Delivery, NEW w \in Worker, Create(d, w) PROVE OutcomeKept
    BY <2>3 DEF Create, Call
  <2>4. ASSUME NEW d \in Delivery, NEW w \in Worker, Sweep(d, w) PROVE OutcomeKept
    BY <2>4 DEF Sweep, Call
  <2>5. ASSUME NEW w \in Worker, Claim(w) PROVE OutcomeKept
    BY <2>5 DEF Claim, Claimable
  <2>6. ASSUME NEW w \in Worker, ClaimMisses(w) PROVE OutcomeKept
    BY <2>6 DEF ClaimMisses, EndCall
  <2>7. ASSUME NEW w \in Worker, Send(w) PROVE OutcomeKept
    BY <2>7 DEF Send
  <2>8. ASSUME NEW w \in Worker, FindDisabled(w) PROVE OutcomeKept
    BY <2>8 DEF FindDisabled
  <2>9. ASSUME NEW w \in Worker, Drop(w) PROVE OutcomeKept
    BY <2>9 DEF Drop, EndCall
  <2>10. ASSUME NEW w \in Worker, FindDeleted(w) PROVE OutcomeKept
    BY <2>10 DEF FindDeleted, EndCall
  <2>11. ASSUME NEW w \in Worker, AnswerOk(w) PROVE OutcomeKept
    BY <2>11 DEF AnswerOk
  <2>12. ASSUME NEW w \in Worker, AnswerBad(w) PROVE OutcomeKept
    BY <2>12 DEF AnswerBad
  <2>13. ASSUME NEW w \in Worker, RecordSuccess(w) PROVE OutcomeKept
    BY <2>13 DEF RecordSuccess, Outcome, EndCall
  <2>14. ASSUME NEW w \in Worker, RecordRetry(w) PROVE OutcomeKept
    BY <2>14 DEF RecordRetry, Outcome, EndCall
  <2>15. ASSUME NEW w \in Worker, RecordExhausted(w) PROVE OutcomeKept
    BY <2>15 DEF RecordExhausted, Outcome
  <2>16. ASSUME NEW w \in Worker, AutoDisable(w) PROVE OutcomeKept
    BY <2>16 DEF AutoDisable, EndCall
  <2>17. ASSUME NEW w \in Worker, Die(w) PROVE OutcomeKept
    BY <2>17 DEF Die, EndCall
  <2>18. CASE Enable \/ Disable \/ Archive
    BY <2>18 DEF Enable, Disable, Archive, Edit
  <2>19. CASE Delete
    BY <2>19 DEF Delete, Edit
  <2>20. CASE Tick
    BY <2>20 DEF Tick
  <2>21. CASE UNCHANGED vars
    BY <2>21 DEF vars
  <2>22. QED
    BY <2>1, <2>2, <2>3, <2>4, <2>5, <2>6, <2>7, <2>8, <2>9, <2>10, <2>11, <2>12, <2>13, <2>14, <2>15, <2>16, <2>17, <2>18, <2>19, <2>20, <2>21 DEF Next, Proceed, Record
<1>2. QED
  BY <1>1, Invariance, PTL DEF Spec, OutcomeIsFinal

(***************************************************************************)
(* Auto-disable: a hook at the limit of consecutive failures is enabled    *)
(* only while a call is about to switch it off, or after a call has died;  *)
(* no success, re-enabling or other delivery in between lets it stay on.   *)
(***************************************************************************)
THEOREM LimitSwitchesOff == Spec => []OverLimitIsSwitchedOff
<1>1. Init => OverLimitIsSwitchedOff
  BY WebhookAssumption DEF Init, OverLimitIsSwitchedOff
<1>2. ASSUME TypeOK, OverLimitIsSwitchedOff, [Next]_vars PROVE OverLimitIsSwitchedOff'
  <2> USE WebhookAssumption DEF TypeOK, OverLimitIsSwitchedOff
  <2>1. ASSUME UNCHANGED <<exists, enabled, fails, deaths>>,
               \A w \in Worker : pc[w] = "disabling" => pc'[w] = "disabling"
        PROVE  OverLimitIsSwitchedOff'
    BY <1>2, <2>1
  <2>2. ASSUME NEW d \in Delivery,
               \/ Match(d) \/ CreateFails(d)
               \/ \E w \in Worker : Create(d, w) \/ Sweep(d, w)
        PROVE  OverLimitIsSwitchedOff'
    BY <1>2, <2>1, <2>2 DEF Match, CreateFails, Create, Sweep, Call, hookVars, callVars, histVars
  <2>3. ASSUME NEW w \in Worker,
               \/ Claim(w) \/ ClaimMisses(w) \/ Send(w) \/ FindDisabled(w) \/ Drop(w)
               \/ FindDeleted(w) \/ AnswerOk(w) \/ AnswerBad(w) \/ RecordRetry(w)
        PROVE  OverLimitIsSwitchedOff'
    BY <1>2, <2>1, <2>3
       DEF Claim, ClaimMisses, Send, FindDisabled, Drop, FindDeleted, AnswerOk, AnswerBad,
           RecordRetry, EndCall, Claimed, hookVars, histVars
  <2>4. ASSUME NEW w \in Worker, RecordSuccess(w) PROVE OverLimitIsSwitchedOff'
    BY <1>2, <2>4 DEF RecordSuccess
  <2>5. ASSUME NEW w \in Worker, RecordExhausted(w) PROVE OverLimitIsSwitchedOff'
    BY <1>2, <2>5 DEF RecordExhausted
  <2>6. ASSUME NEW w \in Worker, AutoDisable(w) PROVE OverLimitIsSwitchedOff'
    BY <1>2, <2>6 DEF AutoDisable, OverLimit, EndCall, histVars
  <2>7. ASSUME NEW w \in Worker, Die(w) PROVE OverLimitIsSwitchedOff'
    BY <1>2, <2>7 DEF Die
  <2>8. CASE Enable \/ Disable \/ Archive \/ Delete
    BY <1>2, <2>8 DEF Enable, Disable, Archive, Delete, Edit, callVars, histVars
  <2>9. CASE Tick
    BY <1>2, <2>1, <2>9 DEF Tick, hookVars, histVars
  <2>10. CASE UNCHANGED vars
    BY <1>2, <2>1, <2>10 DEF vars, hookVars, callVars, histVars
  <2>11. QED
    BY <1>2, <2>2, <2>3, <2>4, <2>5, <2>6, <2>7, <2>8, <2>9, <2>10 DEF Next, Proceed, Record
<1>3. QED
  BY <1>1, <1>2, TypeCorrect, PTL DEF Spec
=============================================================================
