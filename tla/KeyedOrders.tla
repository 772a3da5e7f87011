----------------------------- MODULE KeyedOrders -----------------------------
(***************************************************************************)
(* What checkout promises to a client: a checkout key is worth one order.  *)
(* However often and however concurrently a key is sent, at most one order *)
(* is placed under it, and it stays the order of that key.                 *)
(***************************************************************************)
CONSTANTS
    Slot,    \* a checkout key of one owner
    Content  \* what an order may be placed for

VARIABLE placed  \* placed[s] is the set of orders placed under s

Init == placed = [s \in Slot |-> {}]

Place(s, c) ==
    /\ placed[s] = {}
    /\ placed' = [placed EXCEPT ![s] = {c}]

Next == \E s \in Slot, c \in Content : Place(s, c)

Spec == Init /\ [][Next]_placed

=============================================================================
