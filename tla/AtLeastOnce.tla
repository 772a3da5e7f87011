----------------------------- MODULE AtLeastOnce -----------------------------
(***************************************************************************)
(* What the notification outbox promises about each stored event, without  *)
(* queue, locks, budgets or crashes: the provider is called only for an    *)
(* event that is open and has no receipt yet, and whose customer still has *)
(* the account; an event is completed only on a receipt, or for a customer *)
(* who left; no call is begun for an event that was given up until an      *)
(* administrator replays it.  What cannot be promised is that a call under *)
(* way is over when its caller has gone: it may be accepted once, at any   *)
(* later time.                                                             *)
(*                                                                         *)
(* NotificationOutbox is shown to implement this module.                   *)
(***************************************************************************)
EXTENDS Naturals

CONSTANT Event

VARIABLES
    fate,     \* "none", "pending", "completed" or "dead"
    sends,    \* how often the provider accepted the event's message
    stray,    \* calls abandoned under way
    receipt,  \* whether an acceptance is on record
    closed    \* events whose customer deleted the account

vars == <<fate, sends, stray, receipt, closed>>

Init ==
    /\ fate = [e \in Event |-> "none"]
    /\ sends = [e \in Event |-> 0]
    /\ stray = [e \in Event |-> 0]
    /\ receipt = [e \in Event |-> FALSE]
    /\ closed = {}

\* The event is stored with the business change it announces.
Store(e) ==
    /\ fate[e] = "none"
    /\ fate' = [fate EXCEPT ![e] = "pending"]
    /\ UNCHANGED <<sends, stray, receipt, closed>>

MayCall(e) == fate[e] = "pending" /\ ~receipt[e] /\ e \notin closed

Send(e) ==
    /\ MayCall(e)
    /\ sends' = [sends EXCEPT ![e] = @ + 1]
    /\ UNCHANGED <<fate, stray, receipt, closed>>

\* A call is left under way, without an answer.
Abandon(e) ==
    /\ MayCall(e)
    /\ stray' = [stray EXCEPT ![e] = @ + 1]
    /\ UNCHANGED <<fate, sends, receipt, closed>>

\* It is accepted after all.
AcceptLate(e) ==
    /\ stray[e] > 0
    /\ stray' = [stray EXCEPT ![e] = @ - 1]
    /\ sends' = [sends EXCEPT ![e] = @ + 1]
    /\ UNCHANGED <<fate, receipt, closed>>

Acknowledge(e) ==
    /\ fate[e] = "pending" /\ sends[e] > 0
    /\ receipt' = [receipt EXCEPT ![e] = TRUE]
    /\ UNCHANGED <<fate, sends, stray, closed>>

Complete(e) ==
    /\ fate[e] = "pending" /\ (receipt[e] \/ e \in closed)
    /\ fate' = [fate EXCEPT ![e] = "completed"]
    /\ UNCHANGED <<sends, stray, receipt, closed>>

\* Open events become dead letters.
GiveUp(S) ==
    /\ \A e \in S : fate[e] = "pending"
    /\ fate' = [e \in Event |-> IF e \in S THEN "dead" ELSE fate[e]]
    /\ UNCHANGED <<sends, stray, receipt, closed>>

Replay(e) ==
    /\ fate[e] = "dead"
    /\ fate' = [fate EXCEPT ![e] = "pending"]
    /\ UNCHANGED <<sends, stray, receipt, closed>>

Close(e) ==
    /\ closed' = closed \union {e}
    /\ UNCHANGED <<fate, sends, stray, receipt>>

Next ==
    \/ \E e \in Event :
          \/ Store(e) \/ Send(e) \/ Abandon(e) \/ AcceptLate(e)
          \/ Acknowledge(e) \/ Complete(e) \/ Replay(e) \/ Close(e)
    \/ \E S \in SUBSET Event : GiveUp(S)

Spec == Init /\ [][Next]_vars

=============================================================================
