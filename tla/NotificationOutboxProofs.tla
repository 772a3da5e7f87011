------------------------ MODULE NotificationOutboxProofs ------------------------
(***************************************************************************)
(* Theorems about NotificationOutbox, for every set of events and every    *)
(* budget, batch limit, fault bound and replay bound.                      *)
(*                                                                         *)
(* Two conjuncts carry the argument: a row in delivery is open, since      *)
(* dispatcher and worker exclude each other by its lock, and the phase of  *)
(* a delivery agrees with the receipt.                                     *)
(***************************************************************************)
EXTENDS NotificationOutbox, TLAPS

-----------------------------------------------------------------------------
(* The inductive invariant.                                                *)

\* A row in delivery is open.
LockedIsOpen == \A e \in Event : phase[e] # "idle" => fate[e] = "pending"

\* A row that is open, or not stored yet, has deliveries left.
OpenHasBudget ==
    \A e \in Event : fate[e] \in {"none", "pending"} => deliveries[e] < MaxDeliveries

\* A delivery knows whether a receipt exists.
PhaseAgrees ==
    \A e \in Event : /\ phase[e] = "accepted" => ~receipt[e]
                     /\ phase[e] = "recorded" => receipt[e] \/ e \in closed
                     /\ phase[e] = "calling" => e \notin closed

OutboxInv ==
    /\ TypeOK
    /\ LockedIsOpen
    /\ OpenHasBudget
    /\ PhaseAgrees
    /\ DuplicatesExplained
    /\ DeadAfterBudget

-----------------------------------------------------------------------------
(* Initial states, and one lemma per group of actions.                     *)

\* The empty outbox satisfies the invariant.
LEMMA OutboxInit == Init => OutboxInv
  BY OutboxAssumption
  DEF Init, OutboxInv, TypeOK, LockedIsOpen, OpenHasBudget, PhaseAgrees, DuplicatesExplained,
      DeadAfterBudget, Phase, Job

\* A published job has the type of one.
LEMMA JobForIsJob ==
  ASSUME TypeOK, NEW e \in Event, ~Spent(e)
  PROVE  JobFor(e) \in Job
  BY OutboxAssumption DEF TypeOK, Spent, JobFor, Job

\* Storing, ageing and replaying an event, and a customer's leave, keep the invariant.
LEMMA RowStep ==
  ASSUME OutboxInv, NEW e \in Event, Store(e) \/ Age(e) \/ Replay(e) \/ CloseAccount(e)
  PROVE  OutboxInv'
<1> USE OutboxAssumption
    DEF OutboxInv, TypeOK, LockedIsOpen, OpenHasBudget, PhaseAgrees, DuplicatesExplained,
        DeadAfterBudget, workVars, mailVars
<1>1. CASE Store(e)
  BY <1>1 DEF Store
<1>2. CASE Age(e)
  BY <1>2 DEF Age
<1>3. CASE Replay(e)
  BY <1>3 DEF Replay
<1>4. CASE CloseAccount(e)
  BY <1>4 DEF CloseAccount, AccountLocked, rowVars
<1> QED
  BY <1>1, <1>2, <1>3, <1>4

\* A dispatch, completed or not, keeps the invariant.
LEMMA DispatchStep ==
  ASSUME OutboxInv, NEW ok \in SUBSET Event, Dispatch(ok) \/ DispatchCrash(ok)
  PROVE  OutboxInv'
<1> DEFINE tried == {e \in Batch : ~Spent(e)}
<1>1. Batch \subseteq {e \in Event : fate[e] = "pending" /\ phase[e] = "idle"}
  BY DEF Batch, Eligible
<1>2. ok \subseteq tried
  BY DEF Dispatch, DispatchCrash
<1>3. {JobFor(e) : e \in ok} \subseteq Job
  BY <1>1, <1>2, JobForIsJob DEF OutboxInv
<1>4. \A e \in tried : attempts[e] + 1 \in 0..MaxPublications
  BY <1>1, OutboxAssumption DEF Spent, OutboxInv, TypeOK
<1>5. \A e \in Batch \ tried : attempts[e] = MaxPublications
  BY <1>1, OutboxAssumption DEF Spent, OutboxInv, TypeOK
<1> HIDE DEF tried
<1>6. CASE Dispatch(ok)
  <2>1. /\ fate' = [e \in Event |-> IF e \in Batch \ tried THEN "dead" ELSE fate[e]]
        /\ attempts' = [e \in Event |-> IF e \in tried THEN attempts[e] + 1 ELSE attempts[e]]
        /\ published' = [e \in Event |-> IF e \in ok THEN "fresh" ELSE published[e]]
        /\ queue' = queue \union {JobFor(e) : e \in ok}
        /\ UNCHANGED <<deliveries, cycle, worker, phase, receipt, sends, lost, stray, closed, faults>>
    BY <1>6 DEF Dispatch, tried, workVars, mailVars
  <2>2. tried \subseteq Batch
    BY DEF tried
  <2>3. TypeOK'
    BY <1>3, <1>4, <2>1 DEF OutboxInv, TypeOK
  <2>4. DeadAfterBudget'
    BY <1>1, <1>5, <2>1, <2>2 DEF OutboxInv, DeadAfterBudget
  <2>5. LockedIsOpen' /\ OpenHasBudget'
    BY <1>1, <2>1 DEF OutboxInv, LockedIsOpen, OpenHasBudget
  <2> QED
    BY <2>1, <2>3, <2>4, <2>5 DEF OutboxInv, PhaseAgrees, DuplicatesExplained
<1>7. CASE DispatchCrash(ok)
  BY <1>3, <1>7, OutboxAssumption
  DEF DispatchCrash, OutboxInv, TypeOK, LockedIsOpen, OpenHasBudget, PhaseAgrees,
      DuplicatesExplained, DeadAfterBudget, rowVars, workVars, mailVars
<1> QED
  BY <1>6, <1>7

\* What happens to a job outside a delivery keeps the invariant.
LEMMA JobStep ==
  ASSUME OutboxInv, NEW j \in queue,
         DropJob(j) \/ RejectUnknown(j) \/ StartDelivery(j) \/ LoseJob(j)
  PROVE  OutboxInv'
<1>1. j \in Job /\ j.event \in Event
  BY DEF OutboxInv, TypeOK, Job
<1> USE OutboxAssumption, <1>1
    DEF OutboxInv, TypeOK, LockedIsOpen, OpenHasBudget, PhaseAgrees, DuplicatesExplained,
        DeadAfterBudget, rowVars, workVars, mailVars
<1>2. CASE DropJob(j)
  BY <1>2 DEF DropJob
<1>3. CASE RejectUnknown(j)
  <2> DEFINE e == j.event
  <2>1. /\ e \in Event /\ e \in Unknown /\ fate[e] = "pending" /\ phase[e] = "idle"
        /\ fate' = [fate EXCEPT ![e] = "dead"]
        /\ deliveries' = [deliveries EXCEPT ![e] = @ + 1]
        /\ published' = [published EXCEPT ![e] = "fresh"]
        /\ queue' \subseteq queue
        /\ UNCHANGED <<attempts, cycle, worker, phase, receipt, sends, lost, stray, closed, faults>>
    BY <1>3 DEF RejectUnknown
  <2> HIDE DEF e
  <2>2. deliveries[e] + 1 \in 0..MaxDeliveries
    BY <2>1
  <2>3. TypeOK'
    BY <2>1, <2>2
  <2> QED
    BY <2>1, <2>3
<1>4. CASE StartDelivery(j)
  BY <1>4 DEF StartDelivery, Phase
<1>5. CASE LoseJob(j)
  BY <1>5 DEF LoseJob
<1> QED
  BY <1>2, <1>3, <1>4, <1>5

\* What becomes of an abandoned call keeps the counts in step.
LEMMA AbandonCounts ==
  ASSUME OutboxInv, NEW e \in Event, Abandon(e)
  PROVE  /\ lost' \in [Event -> Nat] /\ stray' \in [Event -> Nat]
         /\ UNCHANGED <<receipt, sends>>
         /\ \A d \in Event : lost'[d] =
                IF d = e /\ phase[e] = "accepted" THEN lost[d] + 1 ELSE lost[d]
  BY DEF Abandon, OutboxInv, TypeOK

\* The steps of a delivery, its crash and a late answer keep the invariant.
LEMMA DeliveryStep ==
  ASSUME OutboxInv, NEW e \in Event, Deliver(e) \/ Crash(e) \/ AcceptLate(e)
  PROVE  OutboxInv'
<1> USE OutboxAssumption
    DEF OutboxInv, TypeOK, LockedIsOpen, OpenHasBudget, PhaseAgrees, DuplicatesExplained,
        DeadAfterBudget, rowVars, workVars, mailVars
<1>1. CASE SendEmail(e)
  <2>1. /\ phase[e] = "calling" /\ e \notin closed /\ fate[e] = "pending"
        /\ UNCHANGED <<rowVars, queue, worker, receipt, lost, stray, closed, faults>>
    BY <1>1 DEF SendEmail, Advance, Move
  <2>2. CASE receipt[e] /\ phase' = [phase EXCEPT ![e] = "recorded"] /\ sends' = sends
    BY <2>1, <2>2 DEF Phase
  <2>3. CASE /\ ~receipt[e] /\ phase' = [phase EXCEPT ![e] = "accepted"]
             /\ sends' = [sends EXCEPT ![e] = @ + 1]
    <3>1. TypeOK'
      BY <2>1, <2>3 DEF Phase
    <3> QED
      BY <2>1, <2>3, <3>1
  <2> QED
    BY <1>1, <2>2, <2>3 DEF SendEmail, Advance, Move
<1>2. CASE Record(e)
  BY <1>2 DEF Record, Advance, Move, Phase
<1>3. CASE RefuseEmail(e)
  BY <1>3 DEF RefuseEmail, Advance, Move, Phase
<1>4. CASE LoseAnswer(e)
  BY <1>4, AbandonCounts DEF LoseAnswer, Advance, Move, Phase
<1>5. CASE CompleteDelivery(e)
  BY <1>5 DEF CompleteDelivery, Finish, Phase
<1>6. CASE FailDelivery(e)
  BY <1>6 DEF FailDelivery, Finish, Phase
<1>7. CASE Crash(e)
  BY <1>7, AbandonCounts DEF Crash, Phase
<1>8. CASE TimeOut(e)
  BY <1>8, AbandonCounts DEF TimeOut, Move, Phase
<1>9. CASE AcceptLate(e)
  BY <1>9 DEF AcceptLate
<1> QED
  BY <1>1, <1>2, <1>3, <1>4, <1>5, <1>6, <1>7, <1>8, <1>9 DEF Deliver

\* The invariant is inductive.
LEMMA OutboxStep == OutboxInv /\ [Next]_vars => OutboxInv'
<1> SUFFICES ASSUME OutboxInv, [Next]_vars PROVE OutboxInv'
  OBVIOUS
<1>1. CASE Next
  BY <1>1, RowStep, DispatchStep, JobStep, DeliveryStep DEF Next
<1>2. CASE UNCHANGED vars
  BY <1>2 DEF vars, rowVars, workVars, mailVars, OutboxInv, TypeOK, LockedIsOpen,
              OpenHasBudget, PhaseAgrees, DuplicatesExplained, DeadAfterBudget
<1> QED
  BY <1>1, <1>2

LEMMA OutboxAlways == Spec => []OutboxInv
  BY OutboxInit, OutboxStep, PTL DEF Spec

-----------------------------------------------------------------------------
(* The theorems.                                                           *)

\* Rows, jobs and deliveries keep their types; the budgets are never exceeded.
THEOREM OutboxTypes == Spec => []TypeOK
  BY OutboxAlways, PTL DEF OutboxInv

\* A message is repeated only for acceptances that could not be recorded,
\* whatever is republished, run twice, crashed or replayed.
THEOREM DuplicatesAreExplained == Spec => []DuplicatesExplained
  BY OutboxAlways, PTL DEF OutboxInv

\* No event becomes a dead letter before a budget of its cycle is used up.
THEOREM NothingGivenUpEarly == Spec => []DeadAfterBudget
  BY OutboxAlways, PTL DEF OutboxInv

-----------------------------------------------------------------------------
(* Refinement of the abstract promise.                                     *)

\* Every step of the outbox is a step of the promise, or changes nothing that
\* the promise speaks of.
LEMMA PromiseStep ==
  ASSUME OutboxInv, [Next]_vars
  PROVE  [Promise!Next]_(Promise!vars)
<1> USE DEF OutboxInv, TypeOK, rowVars, workVars, mailVars, Promise!vars
<1>1. ASSUME NEW e \in Event, Store(e)
      PROVE  Promise!Store(e)
  BY <1>1 DEF Store, Promise!Store
<1>2. ASSUME NEW ok \in SUBSET Event, Dispatch(ok)
      PROVE  Promise!GiveUp(Batch \ {e \in Batch : ~Spent(e)})
  BY <1>2 DEF Dispatch, Batch, Eligible, Promise!GiveUp
<1>3. ASSUME NEW j \in queue, RejectUnknown(j)
      PROVE  Promise!GiveUp({j.event})
  BY <1>3 DEF RejectUnknown, Promise!GiveUp
<1>4. ASSUME NEW e \in Event, SendEmail(e)
      PROVE  Promise!Send(e) \/ UNCHANGED Promise!vars
  BY <1>4 DEF SendEmail, Advance, Move, LockedIsOpen, PhaseAgrees, Promise!Send, Promise!MayCall
<1>5. ASSUME NEW e \in Event, Record(e)
      PROVE  Promise!Acknowledge(e)
  <2>1. sends[e] > 0
    BY <1>5 DEF Record, Advance, Move, DuplicatesExplained
  <2> QED
    BY <1>5, <2>1 DEF Record, Advance, Move, LockedIsOpen, Promise!Acknowledge
<1>6. ASSUME NEW e \in Event, CompleteDelivery(e)
      PROVE  Promise!Complete(e)
  BY <1>6 DEF CompleteDelivery, Finish, LockedIsOpen, PhaseAgrees, Promise!Complete
<1>7. ASSUME NEW e \in Event, FailDelivery(e)
      PROVE  Promise!GiveUp({e}) \/ UNCHANGED Promise!vars
  <2>1. fate[e] = "pending"
    BY <1>7 DEF FailDelivery, LockedIsOpen
  <2>2. CASE deliveries[e] + 1 >= MaxDeliveries
    BY <1>7, <2>1, <2>2 DEF FailDelivery, Finish, Promise!GiveUp
  <2>3. CASE ~(deliveries[e] + 1 >= MaxDeliveries)
    BY <1>7, <2>1, <2>3 DEF FailDelivery, Finish
  <2> QED
    BY <2>2, <2>3
<1>8. ASSUME NEW e \in Event, Replay(e)
      PROVE  Promise!Replay(e)
  BY <1>8 DEF Replay, Promise!Replay
<1>9. ASSUME NEW e \in Event,
             Age(e) \/ RefuseEmail(e)
      PROVE  UNCHANGED Promise!vars
  BY <1>9 DEF Age, RefuseEmail, Advance, Move
<1>17. ASSUME NEW e \in Event,
              LoseAnswer(e) \/ TimeOut(e) \/ Crash(e)
       PROVE  Promise!Abandon(e) \/ UNCHANGED Promise!vars
  <2>1. phase[e] # "idle" /\ Abandon(e) /\ UNCHANGED <<fate, closed>>
    BY <1>17 DEF LoseAnswer, TimeOut, Crash, Advance, Move
  <2>2. CASE phase[e] = "calling" /\ ~receipt[e]
    BY <2>1, <2>2 DEF Abandon, LockedIsOpen, PhaseAgrees, Promise!Abandon, Promise!MayCall
  <2>3. CASE ~(phase[e] = "calling" /\ ~receipt[e])
    BY <2>1, <2>3 DEF Abandon
  <2> QED
    BY <2>2, <2>3
<1>18. ASSUME NEW e \in Event, AcceptLate(e)
       PROVE  Promise!AcceptLate(e)
  BY <1>18 DEF AcceptLate, Promise!AcceptLate
<1>16. ASSUME NEW e \in Event, CloseAccount(e)
       PROVE  Promise!Close(e)
  BY <1>16 DEF CloseAccount, Promise!Close
<1>10. ASSUME NEW j \in queue, DropJob(j) \/ StartDelivery(j) \/ LoseJob(j)
       PROVE  UNCHANGED Promise!vars
  BY <1>10 DEF DropJob, StartDelivery, LoseJob
<1>11. ASSUME NEW ok \in SUBSET Event, DispatchCrash(ok)
       PROVE  UNCHANGED Promise!vars
  BY <1>11 DEF DispatchCrash
<1>12. \A j \in queue : j.event \in Event
  BY DEF Job
<1>13. Batch \subseteq Event
  BY DEF Batch, Eligible
<1> HIDE DEF OutboxInv, TypeOK, rowVars, workVars, mailVars, Promise!vars
<1>14. CASE Next
  <2>1. CASE \E ok \in SUBSET Event : Dispatch(ok) \/ DispatchCrash(ok)
    <3>1. ASSUME NEW ok \in SUBSET Event, Dispatch(ok)
          PROVE  \E S \in SUBSET Event : Promise!GiveUp(S)
      BY <1>2, <1>13, <3>1
    <3> QED
      BY <1>11, <2>1, <3>1 DEF Promise!Next
  <2>2. CASE \E j \in queue :
               DropJob(j) \/ RejectUnknown(j) \/ StartDelivery(j) \/ LoseJob(j)
    <3>1. ASSUME NEW j \in queue, RejectUnknown(j)
          PROVE  \E S \in SUBSET Event : Promise!GiveUp(S)
      BY <1>3, <1>12, <3>1
    <3> QED
      BY <1>10, <2>2, <3>1 DEF Promise!Next
  <2>3. CASE \E e \in Event : \/ Store(e) \/ Age(e) \/ Crash(e) \/ AcceptLate(e)
                               \/ Replay(e) \/ CloseAccount(e)
    BY <1>1, <1>8, <1>9, <1>16, <1>17, <1>18, <2>3 DEF Promise!Next
  <2>4. CASE \E e \in Event : Deliver(e)
    <3>1. ASSUME NEW e \in Event, FailDelivery(e)
          PROVE  (\E S \in SUBSET Event : Promise!GiveUp(S)) \/ UNCHANGED Promise!vars
      BY <1>7, <3>1
    <3> QED
      BY <1>4, <1>5, <1>6, <1>9, <1>17, <2>4, <3>1 DEF Deliver, Promise!Next
  <2> QED
    BY <1>14, <2>1, <2>2, <2>3, <2>4 DEF Next
<1>15. CASE UNCHANGED vars
  BY <1>15 DEF vars, rowVars, mailVars, Promise!vars
<1> QED
  BY <1>14, <1>15

\* The outbox keeps the promise: no provider call is begun for an event that is
\* resolved or on record, or for a customer who left; a message that comes later
\* than that is of a call abandoned before, and each such call gives at most one;
\* no completion without a receipt but for a customer who left; no revival but
\* by a replay.
THEOREM OutboxKeepsPromise == Spec => KeepsAtLeastOnce
<1>1. Init => Promise!Init
  BY DEF Init, Promise!Init
<1>2. OutboxInv /\ [Next]_vars => [Promise!Next]_(Promise!vars)
  BY PromiseStep
<1> QED
  BY <1>1, <1>2, OutboxAlways, PTL DEF Spec, KeepsAtLeastOnce, Promise!Spec

=============================================================================
