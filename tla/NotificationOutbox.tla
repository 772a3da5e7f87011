-------------------------- MODULE NotificationOutbox --------------------------
(***************************************************************************)
(* The hand-off of committed business events to the mail provider.  A cron *)
(* job publishes open rows of notification_outbox as jobs in Redis, a      *)
(* worker delivers each under the lock of its row, and the row records     *)
(* completion only after the delivery committed its own receipt.           *)
(*                                                                         *)
(* What may go wrong between any two of these commits is modelled: Redis   *)
(* refuses or loses a job, the dispatcher dies after publishing, a worker  *)
(* dies or is timed out while it holds the row, the provider refuses, or   *)
(* its answer is lost.  The mail SDK runs in a thread that survives its    *)
(* cancelled job, so the provider may accept an abandoned call at any      *)
(* later time, when nobody holds a lock for it any more.                   *)
(*                                                                         *)
(* The dispatcher is one transaction holding the locks of its rows, so it  *)
(* is one action; the delivery is split at the inner commit and around the *)
(* provider's answer.  The message modelled is the keyed email of an order *)
(* which its customer wants; in-app rows are committed with it.  The       *)
(* customer's account may be deleted meanwhile: the task locks it before   *)
(* it looks, and holds it until the mail is handed over and logged.        *)
(***************************************************************************)
EXTENDS Naturals, FiniteSets

CONSTANTS
    Event,           \* outbox rows, numbered in the order of created_at
    Guests,          \* those about an order without an account
    Unknown,         \* those whose task_name the deployed worker does not know
    MaxPublications, \* MAX_PUBLICATIONS
    MaxDeliveries,   \* MAX_DELIVERIES
    BatchLimit,      \* rows of one dispatch
    MaxFaults,       \* bound: crashes, lost jobs and calls without an answer
    MaxReplays       \* bound: administrators' replays, by event

ASSUME OutboxAssumption ==
    /\ Event \subseteq Nat /\ Unknown \subseteq Event /\ Guests \subseteq Event
    /\ MaxPublications \in Nat \ {0}
    /\ MaxDeliveries \in Nat \ {0}
    /\ BatchLimit \in Nat \ {0}
    /\ MaxFaults \in Nat
    /\ MaxReplays \in [Event -> Nat]

VARIABLES
    fate,       \* "none", "pending", "completed" or "dead" by the row's timestamps
    attempts,   \* attempts: publications of the present cycle
    deliveries, \* delivery_attempts of the present cycle
    published,  \* published_at: "never", "fresh", or older than RECOVERY_DELAY
    cycle,      \* length of replay_history
    queue,      \* jobs in Redis, by their id; a running job stays in it
    worker,     \* the job that holds the row's lock, or NoJob
    phase,      \* how far that job's delivery got
    receipt,    \* whether email_log says "sent"
    sends,      \* how often the provider accepted the message
    lost,       \* how often its acceptance was not recorded
    stray,      \* abandoned calls that the provider may still accept
    closed,     \* events whose customer deleted the account
    faults

rowVars == <<fate, attempts, deliveries, published, cycle>>
workVars == <<worker, phase>>
mailVars == <<receipt, sends, lost, stray>>
vars == <<rowVars, queue, workVars, mailVars, closed, faults>>

Job == [event : Event, cycle : Nat, attempt : 1..MaxPublications]
NoJob == [event |-> "none"]

Phase == {"idle", "calling", "accepted", "recorded", "failed"}

Init ==
    /\ fate = [e \in Event |-> "none"]
    /\ attempts = [e \in Event |-> 0]
    /\ deliveries = [e \in Event |-> 0]
    /\ published = [e \in Event |-> "never"]
    /\ cycle = [e \in Event |-> 0]
    /\ queue = {}
    /\ worker = [e \in Event |-> NoJob]
    /\ phase = [e \in Event |-> "idle"]
    /\ receipt = [e \in Event |-> FALSE]
    /\ sends = [e \in Event |-> 0]
    /\ lost = [e \in Event |-> 0]
    /\ stray = [e \in Event |-> 0]
    /\ closed = {}
    /\ faults = 0

\* queue_notification: the row commits with the business change.
Store(e) ==
    /\ fate[e] = "none"
    /\ fate' = [fate EXCEPT ![e] = "pending"]
    /\ UNCHANGED <<attempts, deliveries, published, cycle, queue, workVars, mailVars, faults, closed>>

-----------------------------------------------------------------------------
(* The dispatcher.                                                         *)

\* Mutant: rows once published are never looked at again.
EligibleOnce == {e \in Event : fate[e] = "pending" /\ published[e] = "never" /\ phase[e] = "idle"}

\* Open rows never published or not resolved for long, but for locked ones.
Eligible == {e \in Event : fate[e] = "pending" /\ published[e] # "fresh" /\ phase[e] = "idle"}

\* The oldest eligible rows.
Batch == {e \in Eligible : Cardinality({d \in Eligible : d < e}) < BatchLimit}

Spent(e) == attempts[e] >= MaxPublications

JobFor(e) == [event |-> e, cycle |-> cycle[e], attempt |-> attempts[e] + 1]

\* dispatch_notification_outbox: rows out of budget are dead-lettered, the
\* others count an attempt; Redis accepts the jobs of the rows ok.
Dispatch(ok) ==
    LET tried == {e \in Batch : ~Spent(e)} IN
    /\ Batch # {}
    /\ ok \subseteq tried
    /\ fate' = [e \in Event |-> IF e \in Batch \ tried THEN "dead" ELSE fate[e]]
    /\ attempts' = [e \in Event |-> IF e \in tried THEN attempts[e] + 1 ELSE attempts[e]]
    /\ published' = [e \in Event |-> IF e \in ok THEN "fresh" ELSE published[e]]
    /\ queue' = queue \union {JobFor(e) : e \in ok}
    /\ UNCHANGED <<deliveries, cycle, workVars, mailVars, faults, closed>>

\* The dispatcher dies before its commit, after publishing the rows ok.
DispatchCrash(ok) ==
    /\ faults < MaxFaults
    /\ ok # {} /\ ok \subseteq {e \in Batch : ~Spent(e)}
    /\ queue' = queue \union {JobFor(e) : e \in ok}
    /\ faults' = faults + 1
    /\ UNCHANGED <<rowVars, workVars, mailVars, closed>>

\* RECOVERY_DELAY passes after the last publication.
Age(e) ==
    /\ fate[e] = "pending" /\ published[e] = "fresh"
    /\ published' = [published EXCEPT ![e] = "stale"]
    /\ UNCHANGED <<fate, attempts, deliveries, cycle, queue, workVars, mailVars,
                   faults, closed>>

-----------------------------------------------------------------------------
(* A worker's delivery: deliver_notification_outbox and send_email.        *)

\* The row was resolved meanwhile: the job is a no-op.
DropJob(j) ==
    /\ j \in queue /\ phase[j.event] = "idle"
    /\ fate[j.event] # "pending"
    /\ queue' = queue \ {j}
    /\ UNCHANGED <<rowVars, workVars, mailVars, faults, closed>>

\* A task name outside the allow-list is a dead letter at once.
RejectUnknown(j) ==
    LET e == j.event IN
    /\ j \in queue /\ phase[e] = "idle"
    /\ fate[e] = "pending" /\ e \in Unknown
    /\ fate' = [fate EXCEPT ![e] = "dead"]
    /\ deliveries' = [deliveries EXCEPT ![e] = @ + 1]
    /\ published' = [published EXCEPT ![e] = "fresh"]
    /\ queue' = queue \ {j}
    /\ UNCHANGED <<attempts, cycle, workVars, mailVars, faults, closed>>

\* The job locks the row of an open event, and its task the customer's account;
\* when that is deleted the task ends without a message.
StartDelivery(j) ==
    LET e == j.event IN
    /\ j \in queue /\ phase[e] = "idle"
    /\ fate[e] = "pending" /\ e \notin Unknown
    /\ worker' = [worker EXCEPT ![e] = j]
    /\ phase' = [phase EXCEPT ![e] = IF e \in closed THEN "recorded" ELSE "calling"]
    /\ UNCHANGED <<rowVars, queue, mailVars, faults, closed>>

Move(e, from, to) ==
    /\ phase[e] = from
    /\ phase' = [phase EXCEPT ![e] = to]
    /\ UNCHANGED <<rowVars, queue, worker, closed>>

Advance(e, from, to) == Move(e, from, to) /\ UNCHANGED faults

\* Mutant: the mail is sent whatever email_log says.
SendEmailAlways(e) ==
    /\ Advance(e, "calling", "accepted")
    /\ sends' = [sends EXCEPT ![e] = @ + 1]
    /\ UNCHANGED <<receipt, lost, stray>>

\* The provider accepts the message, unless a receipt shows it did before.
SendEmail(e) ==
    \/ /\ receipt[e]
       /\ Advance(e, "calling", "recorded")
       /\ UNCHANGED mailVars
    \/ /\ ~receipt[e]
       /\ Advance(e, "calling", "accepted")
       /\ sends' = [sends EXCEPT ![e] = @ + 1]
       /\ UNCHANGED <<receipt, lost, stray>>

\* The task commits its receipt.
Record(e) ==
    /\ Advance(e, "accepted", "recorded")
    /\ receipt' = [receipt EXCEPT ![e] = TRUE]
    /\ UNCHANGED <<sends, lost, stray>>

\* The task fails before the provider accepts anything: it refuses, say.
RefuseEmail(e) ==
    /\ Advance(e, "calling", "failed")
    /\ UNCHANGED mailVars

\* Nobody waits for the provider any more: a message it accepted stays without
\* a receipt, and a call it has not answered yet may still be accepted.
Abandon(e) ==
    /\ lost' = [lost EXCEPT ![e] = IF phase[e] = "accepted" THEN @ + 1 ELSE @]
    /\ stray' = [stray EXCEPT ![e] = IF phase[e] = "calling" /\ ~receipt[e] THEN @ + 1 ELSE @]
    /\ UNCHANGED <<receipt, sends>>

\* The provider accepted the message, its answer is lost.
LoseAnswer(e) ==
    /\ Advance(e, "accepted", "failed")
    /\ Abandon(e)

\* The provider does not answer in time.
TimeOut(e) ==
    /\ faults < MaxFaults
    /\ ~receipt[e]
    /\ Move(e, "calling", "failed")
    /\ Abandon(e)
    /\ faults' = faults + 1

\* The provider accepts an abandoned call, whatever became of its event.
AcceptLate(e) ==
    /\ stray[e] > 0
    /\ stray' = [stray EXCEPT ![e] = @ - 1]
    /\ sends' = [sends EXCEPT ![e] = @ + 1]
    /\ lost' = [lost EXCEPT ![e] = @ + 1]
    /\ UNCHANGED <<rowVars, queue, workVars, receipt, closed, faults>>

Finish(e) ==
    /\ queue' = queue \ {worker[e]}
    /\ worker' = [worker EXCEPT ![e] = NoJob]
    /\ phase' = [phase EXCEPT ![e] = "idle"]
    /\ deliveries' = [deliveries EXCEPT ![e] = @ + 1]
    /\ UNCHANGED <<attempts, cycle, mailVars, faults, closed>>

\* The task succeeded: the row is completed.
CompleteDelivery(e) ==
    /\ phase[e] = "recorded"
    /\ fate' = [fate EXCEPT ![e] = "completed"]
    /\ UNCHANGED published
    /\ Finish(e)

\* The task failed: the row waits for the next cycle, or is a dead letter.
FailDelivery(e) ==
    /\ phase[e] = "failed"
    /\ fate' = [fate EXCEPT ![e] =
                   IF deliveries[e] + 1 >= MaxDeliveries THEN "dead" ELSE "pending"]
    /\ published' = [published EXCEPT ![e] = "fresh"]
    /\ Finish(e)

\* The worker dies or is cancelled: the row is unlocked and nothing of the
\* outer transaction kept; ARQ runs the job again, or its tries are exhausted.
\* The thread of a cancelled worker goes on.
Crash(e) ==
    /\ faults < MaxFaults
    /\ phase[e] # "idle"
    /\ queue' \in {queue, queue \ {worker[e]}}
    /\ worker' = [worker EXCEPT ![e] = NoJob]
    /\ phase' = [phase EXCEPT ![e] = "idle"]
    /\ Abandon(e)
    /\ faults' = faults + 1
    /\ UNCHANGED <<rowVars, closed>>

\* Redis loses a job.
LoseJob(j) ==
    /\ faults < MaxFaults
    /\ j \in queue /\ worker[j.event] # j
    /\ queue' = queue \ {j}
    /\ faults' = faults + 1
    /\ UNCHANGED <<rowVars, workVars, mailVars, closed>>

\* replay_failed_notification by an administrator.
Replay(e) ==
    /\ fate[e] = "dead"
    /\ cycle[e] < MaxReplays[e]
    /\ fate' = [fate EXCEPT ![e] = "pending"]
    /\ attempts' = [attempts EXCEPT ![e] = 0]
    /\ deliveries' = [deliveries EXCEPT ![e] = 0]
    /\ published' = [published EXCEPT ![e] = "never"]
    /\ cycle' = [cycle EXCEPT ![e] = @ + 1]
    /\ UNCHANGED <<queue, workVars, mailVars, faults, closed>>

\* Mutant: the account is read without FOR UPDATE.
NothingLocked(e) == FALSE

\* A task that has looked the recipient up and not logged the mail yet holds
\* the row of the account.
AccountLocked(e) == e \notin Guests /\ phase[e] \in {"calling", "accepted"}

\* The customer deletes the account, once nobody holds its row.
CloseAccount(e) ==
    /\ e \notin Guests \union closed
    /\ ~AccountLocked(e)
    /\ closed' = closed \union {e}
    /\ UNCHANGED <<rowVars, queue, workVars, mailVars, faults>>

-----------------------------------------------------------------------------
Deliver(e) ==
    \/ SendEmail(e) \/ Record(e) \/ RefuseEmail(e)
    \/ LoseAnswer(e) \/ TimeOut(e)
    \/ CompleteDelivery(e) \/ FailDelivery(e)

Next ==
    \/ \E ok \in SUBSET Event : Dispatch(ok) \/ DispatchCrash(ok)
    \/ \E j \in queue : DropJob(j) \/ RejectUnknown(j) \/ StartDelivery(j) \/ LoseJob(j)
    \/ \E e \in Event :
          \/ Store(e) \/ Age(e) \/ Deliver(e) \/ Crash(e) \/ AcceptLate(e)
          \/ Replay(e) \/ CloseAccount(e)

Spec == Init /\ [][Next]_vars

\* The cron job runs every minute, time passes, and a delivery that started
\* ends, by the worker's timeout at the latest.  No worker need start one.
FairSpec ==
    /\ Spec
    /\ WF_vars(\E ok \in SUBSET Event : Dispatch(ok))
    /\ \A e \in Event : WF_vars(Age(e)) /\ WF_vars(Deliver(e))

-----------------------------------------------------------------------------
(* Properties.                                                             *)

TypeOK ==
    /\ fate \in [Event -> {"none", "pending", "completed", "dead"}]
    /\ attempts \in [Event -> 0..MaxPublications]
    /\ deliveries \in [Event -> 0..MaxDeliveries]
    /\ published \in [Event -> {"never", "fresh", "stale"}]
    /\ cycle \in [Event -> Nat]
    /\ queue \subseteq Job
    /\ worker \in [Event -> Job \union {NoJob}]
    /\ phase \in [Event -> Phase]
    /\ receipt \in [Event -> BOOLEAN]
    /\ sends \in [Event -> Nat] /\ lost \in [Event -> Nat] /\ stray \in [Event -> Nat]
    /\ closed \subseteq Event \ Guests
    /\ faults \in 0..MaxFaults

\* Duplicates have one cause: whatever is republished, run twice, crashed or
\* replayed, every message beyond the first goes back to an acceptance by the
\* provider that could not be recorded.
DuplicatesExplained ==
    \A e \in Event :
        sends[e] = lost[e] + (IF receipt[e] \/ phase[e] = "accepted" THEN 1 ELSE 0)

\* Nothing is given up early: a dead letter used up its publications or its
\* deliveries in the present cycle, or no worker knows its task.
DeadAfterBudget ==
    \A e \in Event : fate[e] = "dead" =>
        attempts[e] = MaxPublications \/ deliveries[e] = MaxDeliveries \/ e \in Unknown

\* No event is forgotten: after its business change committed it is completed
\* or visible as a dead letter, although jobs get lost and processes die.
EventsResolved ==
    \A e \in Event : (fate[e] = "pending") ~> (fate[e] \in {"completed", "dead"})

\* The outbox implements the abstract promise: no provider call is begun but
\* for an open event without a receipt whose customer still has the account;
\* a message that comes later, even after the deletion, is of a call abandoned
\* while all that held, one each; and no event is completed without a receipt
\* unless its customer left.
Promise == INSTANCE AtLeastOnce
KeepsAtLeastOnce == Promise!Spec

=============================================================================
