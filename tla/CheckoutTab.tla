----------------------------- MODULE CheckoutTab -----------------------------
(***************************************************************************)
(* A browser tab of the storefront that places guest orders: the hook      *)
(* useSubmission of drip-frontend, the bag it orders from, and the network *)
(* between it and the server.  The tab keeps one checkout key in its       *)
(* session storage until the order of that key is shown and the customer   *)
(* starts another; the rest of its memory is lost when it is reloaded.     *)
(*                                                                         *)
(* A request may arrive late, after the tab has given up on it, and its    *)
(* answer may be lost.  The server is module KeyedOrders: a key is worth   *)
(* one order, and repeats it for the same payload.                         *)
(***************************************************************************)
EXTENDS Naturals, FiniteSets

CONSTANTS
    Key,          \* checkout keys the tab may generate
    Item,         \* what a bag may hold
    MaxRequests,  \* bound: requests the tab sends
    None          \* no value

VARIABLES
    bag,      \* the guest bag in local storage, shared with other tabs
    key,      \* the key in session storage
    payload,  \* payload.current: the items of the last submission; None: unknown
    sentBag,  \* sentBag.current: the bag when it was submitted
    blocked,  \* an attempt is unresolved: nothing new may be submitted
    shown,    \* the order the tab shows, and whether it was recovered; or None
    awaited,  \* the request whose answer the tab waits for, or None
    net,      \* requests under way
    reply,    \* the outcome of the awaited request, or None
    placed,   \* the server's orders: placed[k] is the payload, or None
    left,     \* keys of orders the customer has left to start another
    count     \* requests sent

view == <<payload, sentBag, blocked, shown>>
vars == <<bag, key, view, awaited, net, reply, placed, left, count>>

Bag == SUBSET Item
RequestRecord == [id : 1..MaxRequests, key : Key, payload : Bag \union {None}]
Outcome == {"order", "not_found", "rejected", "reused"}

Init ==
    /\ bag \in Bag \ {{}}
    /\ key = None
    /\ payload = None
    /\ sentBag = {}
    /\ blocked = FALSE
    /\ shown = None
    /\ awaited = None
    /\ net = {}
    /\ reply = None
    /\ placed = [k \in Key |-> None]
    /\ left = {}
    /\ count = 0

-----------------------------------------------------------------------------
(* The customer.                                                           *)

\* run: one request at a time. A recovery carries the key and no payload.
Run(k, p) ==
    LET m == [id |-> count + 1, key |-> k, payload |-> p]
    IN  /\ awaited = None /\ shown = None
        /\ count < MaxRequests
        /\ count' = count + 1
        /\ awaited' = m
        /\ net' = net \union {m}
        /\ blocked' = TRUE
        /\ UNCHANGED <<bag, shown, reply, placed, left>>

\* placeOrder and submit: the key is remembered before anything is sent.
Submit ==
    /\ ~blocked
    /\ bag # {}
    /\ \E k \in IF key = None THEN Key \ left ELSE {key} : key' = k /\ Run(k, bag)
    /\ payload' = bag
    /\ sentBag' = bag

Retry ==
    /\ blocked /\ payload # None
    /\ Run(key, payload)
    /\ UNCHANGED <<key, payload, sentBag>>

Recover ==
    /\ blocked /\ key # None
    /\ Run(key, None)
    /\ UNCHANGED <<key, payload, sentBag>>

\* The tab's memory is lost; answers under way will find nobody.
Forget ==
    /\ payload' = None
    /\ sentBag' = {}
    /\ shown' = None
    /\ awaited' = None
    /\ reply' = None
    /\ UNCHANGED <<bag, net, placed, count>>

Reload ==
    /\ blocked' = (key # None)
    /\ Forget
    /\ UNCHANGED <<key, left>>

\* startAnother: the key of the order shown is removed, and the bag page opens.
StartAnother ==
    /\ shown # None
    /\ key' = None
    /\ left' = left \union {key}
    /\ blocked' = FALSE
    /\ Forget

\* The bag changes, in this tab while nothing is submitted or in another at any time.
ChangeBag(b) ==
    /\ b # bag
    /\ bag' = b
    /\ UNCHANGED <<key, view, awaited, net, reply, placed, left, count>>

-----------------------------------------------------------------------------
(* The server.                                                             *)

Answer(m, outcome) == reply' = IF awaited = m THEN outcome ELSE reply

\* An order is placed, or refused before it is: a stale quote, missing stock.
ServeNew(m) ==
    /\ placed[m.key] = None /\ m.payload # None
    /\ \/ placed' = [placed EXCEPT ![m.key] = m.payload] /\ Answer(m, "order")
       \/ UNCHANGED placed /\ Answer(m, "rejected")

\* The key is known: its order is repeated for the same payload or for recovery.
ServeKnown(m) ==
    /\ placed[m.key] # None
    /\ Answer(m, IF m.payload \in {None, placed[m.key]} THEN "order" ELSE "reused")
    /\ UNCHANGED placed

ServeMissing(m) ==
    /\ placed[m.key] = None /\ m.payload = None
    /\ Answer(m, "not_found")
    /\ UNCHANGED placed

Serve(m) ==
    /\ ServeNew(m) \/ ServeKnown(m) \/ ServeMissing(m)
    /\ net' = net \ {m}
    /\ UNCHANGED <<bag, key, view, awaited, left, count>>

-----------------------------------------------------------------------------
(* The answer in the tab.                                                  *)

Hear(outcome) ==
    /\ awaited # None /\ reply = outcome
    /\ awaited' = None
    /\ reply' = None
    /\ UNCHANGED <<sentBag, net, placed, left, count>>

\* The order is shown, and what was submitted leaves the bag.
HearOrder ==
    /\ Hear("order")
    /\ shown' = [recovered |-> awaited.payload = None]
    /\ bag' = IF payload # None THEN bag \ sentBag ELSE bag
    /\ UNCHANGED <<key, payload, blocked>>

\* Not found after a reload: review and submit again, with the same key.
HearNotFound ==
    /\ Hear("not_found")
    /\ blocked' = (payload # None)
    /\ UNCHANGED <<bag, key, payload, shown>>

HearRejected ==
    /\ Hear("rejected")
    /\ payload' = None
    /\ blocked' = FALSE
    /\ UNCHANGED <<bag, key, shown>>

HearReused ==
    /\ Hear("reused")
    /\ payload' = None
    /\ UNCHANGED <<bag, key, blocked, shown>>

\* No answer within 15 seconds, or an error that says nothing about the order. The
\* request may still arrive.
HearNothing ==
    /\ awaited # None
    /\ awaited' = None
    /\ reply' = None
    /\ UNCHANGED <<bag, key, view, net, placed, left, count>>

-----------------------------------------------------------------------------
Next ==
    \/ Submit \/ Retry \/ Recover \/ Reload \/ StartAnother
    \/ \E b \in Bag : ChangeBag(b)
    \/ \E m \in net : Serve(m)
    \/ HearOrder \/ HearNotFound \/ HearRejected \/ HearReused \/ HearNothing

Spec == Init /\ [][Next]_vars

-----------------------------------------------------------------------------
\* What the tab, the network and the server hold.
TypeOK ==
    /\ bag \in Bag /\ sentBag \in Bag
    /\ key \in Key \union {None}
    /\ payload \in Bag \union {None}
    /\ blocked \in BOOLEAN
    /\ shown \in [recovered : BOOLEAN] \union {None}
    /\ net \subseteq RequestRecord
    /\ awaited \in RequestRecord \union {None}
    /\ reply \in Outcome \union {None}
    /\ placed \in [Key -> Bag \union {None}]
    /\ left \subseteq Key
    /\ count \in 0..MaxRequests

\* useSubmission.ts:40 says that recovery of an earlier order must not clear the new
\* bag: an order that is shown takes out of the bag only what it contains.
NewBagKept == [][HearOrder => bag \ bag' \subseteq placed[key]]_vars

=============================================================================
