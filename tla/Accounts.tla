------------------------------ MODULE Accounts ------------------------------
(***************************************************************************)
(* One customer account and what hangs on it: the refresh sessions of its  *)
(* devices, the saved addresses, its active orders, the cart and wishlist  *)
(* kept in Redis, and its deletion.                                        *)
(*                                                                         *)
(* A request is first checked without any lock (the access token, or the   *)
(* refresh token, is looked up); only then does it lock the account's row  *)
(* and look again (lock_active_user).  Requests interleave between the     *)
(* two.  Deleting the account commits first and clears Redis afterwards;   *)
(* an event of the outbox repeats that, but not for ever: out of budget it *)
(* is a dead letter and waits for an administrator.                        *)
(*                                                                         *)
(* Mails about the account wait in a queue of their own, as raw addresses  *)
(* (email_tasks); the job looks the account up again and holds its row     *)
(* until the provider has the mail.  That a reset link is used once is a   *)
(* single command of Redis and not modelled, and neither are seller and    *)
(* administrator accounts.                                                 *)
(***************************************************************************)
EXTENDS Naturals, FiniteSets

CONSTANTS
    Token,          \* refresh tokens
    Address,        \* identities of saved addresses
    Request,        \* concurrent requests of the customer
    MaxAddresses,   \* MAX_ADDRESSES
    MaxOrders,      \* bound: most active orders at a time
    MaxPublications, \* MAX_PUBLICATIONS
    MaxDeliveries,  \* MAX_DELIVERIES
    NoToken

ASSUME AccountsAssumption ==
    /\ MaxAddresses \in Nat /\ MaxOrders \in Nat
    /\ MaxPublications \in Nat /\ MaxDeliveries \in Nat \ {0}
    /\ NoToken \notin Token

VARIABLES
    deleted,    \* deleted_at is set
    sessions,   \* refresh tokens with a session row
    heirs,      \* history: the tokens issued in exchange for each token
    addresses,  \* saved addresses
    default,    \* of these, the ones marked default
    orders,     \* active orders, open returns and open disputes
    cached,     \* the cart, wishlist or preferences are in Redis
    job,        \* the clean-up's event in the outbox
    verified,   \* has_verified_email
    mail,       \* the queued job of a mail about the account
    req         \* the requests in progress

accountsVars ==
    <<deleted, sessions, heirs, addresses, default, orders, cached, job, verified, mail, req>>
sessionVars == <<sessions, heirs>>
addressVars == <<addresses, default>>
redisVars == <<cached, job>>
mailVars == <<verified, mail>>

\* A request: how far it came, the token or the address it found.
RequestState ==
    [at: {"idle", "arrived", "verifying", "signing_in", "resetting", "refreshing",
          "located", "locating", "clearing"},
     token: Token \cup {NoToken},
     address: SUBSET Address]
At(at, token, found) == [at |-> at, token |-> token, address |-> found]
Idle == At("idle", NoToken, {})

\* The links to verify the address, and all other mails.
Kind == {"verification", "notice"}
MailState == [at: {"none", "queued", "handing"}, kind: Kind]
Mail(at, kind) == [at |-> at, kind |-> kind]

\* The clean-up: publications and failed deliveries of the present cycle.
JobState == [at: {"none", "pending", "completed", "dead"},
             published: 0 .. MaxPublications, failed: 0 .. MaxDeliveries]
Job(at, published, failed) == [at |-> at, published |-> published, failed |-> failed]

AccountsTypeOK ==
    /\ deleted \in BOOLEAN /\ cached \in BOOLEAN /\ job \in JobState
    /\ sessions \subseteq Token
    /\ heirs \in [Token -> SUBSET Token]
    /\ addresses \subseteq Address /\ default \subseteq Address
    /\ orders \in 0 .. MaxOrders
    /\ verified \in BOOLEAN /\ mail \in MailState
    /\ req \in [Request -> RequestState]

\* AuthService.register has created the account and queued the first mail.
AccountsInit ==
    /\ deleted = FALSE /\ verified = FALSE
    /\ mail = Mail("queued", "verification")
    /\ sessions = {} /\ heirs = [k \in Token |-> {}]
    /\ addresses = {} /\ default = {}
    /\ orders = 0
    /\ cached = FALSE /\ job = Job("none", 0, 0)
    /\ req = [r \in Request |-> Idle]

-----------------------------------------------------------------------------
\* The account's row: held across steps only by an address change, and by the
\* job that hands a mail to the provider.
FreeOfRequests == \A r \in Request : req[r].at \notin {"located", "locating"}
AccountRowFree == FreeOfRequests /\ mail.at # "handing"

\* Mutant: the deletion is not checked again once the row is locked.
LockedOnly == AccountRowFree
LockActive == AccountRowFree /\ ~deleted

Step(r, at) == req' = [req EXCEPT ![r] = At(at, NoToken, {})]
Finish(r) == req' = [req EXCEPT ![r] = Idle]

\* Tokens nobody has seen.
NewToken ==
    {k \in Token \ sessions :
        /\ heirs[k] = {} /\ \A x \in Token : k \notin heirs[x]
        /\ \A r \in Request : req[r].token # k}

-----------------------------------------------------------------------------
(* Signing in and out. *)

\* verify_email looks the account up, marks it verified in a transaction of its
\* own, and goes on like a sign-in.
StartVerify(r) ==
    /\ req[r].at = "idle" /\ ~deleted /\ ~verified
    /\ Step(r, "verifying")
    /\ UNCHANGED <<deleted, sessionVars, addressVars, orders, redisVars, mailVars>>

Verify(r) ==
    /\ req[r].at = "verifying" /\ AccountRowFree
    /\ verified' = (verified \/ ~deleted)
    /\ Step(r, "signing_in")
    /\ UNCHANGED <<deleted, sessionVars, addressVars, orders, redisVars, mail>>

\* The password, or Google's verdict, is checked against the row as read.
StartSignIn(r) ==
    /\ req[r].at = "idle" /\ ~deleted /\ verified
    /\ Step(r, "signing_in")
    /\ UNCHANGED <<deleted, sessionVars, addressVars, orders, redisVars, mailVars>>

SignIn(r, k) ==
    /\ req[r].at = "signing_in" /\ LockActive
    /\ k \in NewToken
    /\ sessions' = sessions \cup {k}
    /\ Finish(r)
    /\ UNCHANGED <<deleted, heirs, addressVars, orders, redisVars, mailVars>>

\* The session is looked up to learn whose row to lock.
StartRefresh(r, k) ==
    /\ req[r].at = "idle" /\ k \in sessions
    /\ req' = [req EXCEPT ![r] = At("refreshing", k, {})]
    /\ UNCHANGED <<deleted, sessionVars, addressVars, orders, redisVars, mailVars>>

\* Mutant: the session found before the lock is taken to be there still.
AsFound(k) == TRUE
StillThere(k) == k \in sessions

Rotate(r, new) ==
    LET old == req[r].token
    IN  /\ req[r].at = "refreshing" /\ LockActive
        /\ StillThere(old)
        /\ new \in NewToken
        /\ sessions' = (sessions \ {old}) \cup {new}
        /\ heirs' = [heirs EXCEPT ![old] = @ \cup {new}]
        /\ Finish(r)
        /\ UNCHANGED <<deleted, addressVars, orders, redisVars, mailVars>>

\* A signed-in request passes the check of its access token.
Arrive(r) ==
    /\ req[r].at = "idle" /\ ~deleted
    /\ Step(r, "arrived")
    /\ UNCHANGED <<deleted, sessionVars, addressVars, orders, redisVars, mailVars>>

SignOut(r, k) ==
    /\ req[r].at = "arrived" /\ k \in sessions
    /\ sessions' = sessions \ {k}
    /\ Finish(r)
    /\ UNCHANGED <<deleted, heirs, addressVars, orders, redisVars, mailVars>>

\* A new password ends all sessions.
SignOutEverywhere(r) ==
    /\ AccountRowFree
    /\ sessions' = {}
    /\ Finish(r)
    /\ UNCHANGED <<deleted, heirs, addressVars, orders, redisVars, mailVars>>

ChangePassword(r) == req[r].at = "arrived" /\ SignOutEverywhere(r)

\* reset_password claims the link in Redis before it writes anything.
StartReset(r) ==
    /\ req[r].at = "idle" /\ ~deleted /\ verified
    /\ Step(r, "resetting")
    /\ UNCHANGED <<deleted, sessionVars, addressVars, orders, redisVars, mailVars>>

ResetPassword(r) == req[r].at = "resetting" /\ SignOutEverywhere(r)

\* cleanup_expired_sessions, or the expiry itself.
ExpireSession(k) ==
    /\ sessions' = sessions \ {k}
    /\ k \in sessions
    /\ UNCHANGED <<deleted, heirs, addressVars, orders, redisVars, req, mailVars>>

-----------------------------------------------------------------------------
(* Addresses.  Only deletion does without the account's lock. *)

ClearDefaults(chosen) == {}

AddAddress(r, a, chosen) ==
    /\ req[r].at = "arrived" /\ LockActive
    /\ Cardinality(addresses) < MaxAddresses
    /\ a \notin addresses /\ \A x \in Request : a \notin req[x].address
    /\ addresses' = addresses \cup {a}
    /\ default' = IF chosen THEN ClearDefaults(a) \cup {a} ELSE default
    /\ Finish(r)
    /\ UNCHANGED <<deleted, sessionVars, orders, redisVars, mailVars>>

\* update_address and set_default_address find the row first.
FindAddress(r, a, how) ==
    /\ req[r].at = "arrived" /\ LockActive
    /\ a \in addresses
    /\ req' = [req EXCEPT ![r] = At(how, NoToken, {a})]
    /\ UNCHANGED <<deleted, sessionVars, addressVars, orders, redisVars, mailVars>>

\* update_address: the default moves, or the address loses it.
UpdateAddress(r, chosen) ==
    LET a == req[r].address
    IN  /\ req[r].at = "located"
        /\ default' = IF chosen THEN a \cap addresses ELSE default \ a
        /\ Finish(r)
        /\ UNCHANGED <<deleted, sessionVars, addresses, orders, redisVars, mailVars>>

\* set_default_address fails, and rolls back, when the row is gone.
SetDefault(r) ==
    LET a == req[r].address
    IN  /\ req[r].at = "locating" /\ a \subseteq addresses
        /\ default' = a
        /\ Finish(r)
        /\ UNCHANGED <<deleted, sessionVars, addresses, orders, redisVars, mailVars>>

DeleteAddress(r, a) ==
    /\ req[r].at = "arrived" /\ a \in addresses
    /\ addresses' = addresses \ {a}
    /\ default' = default \ {a}
    /\ Finish(r)
    /\ UNCHANGED <<deleted, sessionVars, orders, redisVars, mailVars>>

-----------------------------------------------------------------------------
(* Orders, and what Redis keeps. *)

\* Also a return or a dispute.  A refund that an administrator starts does not
\* look at the account, and is left out.
PlaceOrder(r) ==
    /\ req[r].at = "arrived" /\ LockActive
    /\ orders < MaxOrders
    /\ orders' = orders + 1
    /\ Finish(r)
    /\ UNCHANGED <<deleted, sessionVars, addressVars, redisVars, mailVars>>

OrderEnds ==
    /\ orders > 0
    /\ orders' = orders - 1
    /\ UNCHANGED <<deleted, sessionVars, addressVars, redisVars, req, mailVars>>

\* Cart, wishlist and preferences are written while the row is locked.
WriteRedis(r) ==
    /\ req[r].at = "arrived" /\ LockActive
    /\ cached' = TRUE
    /\ Finish(r)
    /\ UNCHANGED <<deleted, sessionVars, addressVars, orders, job, mailVars>>

\* Removing needs no lock, and the keys expire.
EmptyRedis ==
    /\ cached /\ cached' = FALSE
    /\ UNCHANGED <<deleted, sessionVars, addressVars, orders, job, req, mailVars>>

-----------------------------------------------------------------------------
(* Deletion. *)

Unblocked == orders = 0

DeleteAccount(r) ==
    /\ req[r].at = "arrived" /\ LockActive
    /\ Unblocked
    /\ deleted' = TRUE
    /\ sessions' = {} /\ addresses' = {} /\ default' = {}
    /\ job' = Job("pending", 0, 0)
    /\ Step(r, "clearing")
    /\ UNCHANGED <<heirs, orders, cached, mailVars>>

\* Best effort, after the commit.
ClearNow(r) ==
    /\ req[r].at = "clearing"
    /\ cached' = FALSE
    /\ Finish(r)
    /\ UNCHANGED <<deleted, sessionVars, addressVars, orders, job, mailVars>>

\* Mutant: the job is done although Redis was not reached.
GiveUp == cached' = cached
Forget == cached' = FALSE

\* dispatch_notification_outbox: never published, or not resolved for long.
PublishJob ==
    /\ job.at = "pending"
    /\ job' = IF job.published < MaxPublications
                 THEN Job("pending", job.published + 1, job.failed)
                 ELSE Job("dead", job.published, job.failed)
    /\ UNCHANGED <<deleted, sessionVars, addressVars, orders, cached, req, mailVars>>

\* cleanup_deleted_customer, in a worker that may never run, or run again: for an
\* earlier cycle, or for a dispatcher that died before it counted.
RunJob ==
    /\ job.at = "pending" /\ AccountRowFree
    /\ Forget
    /\ job' = Job("completed", job.published, job.failed)
    /\ UNCHANGED <<deleted, sessionVars, addressVars, orders, req, mailVars>>

\* Redis does not answer, or later a file cannot be deleted.
FailJob ==
    /\ job.at = "pending" /\ AccountRowFree
    /\ cached' \in {cached, FALSE}
    /\ job' = Job(IF job.failed + 1 >= MaxDeliveries THEN "dead" ELSE "pending",
                  job.published, job.failed + 1)
    /\ UNCHANGED <<deleted, sessionVars, addressVars, orders, req, mailVars>>

\* replay_failed_notification by an administrator.
ReplayJob ==
    /\ job.at = "dead"
    /\ job' = Job("pending", 0, 0)
    /\ UNCHANGED <<deleted, sessionVars, addressVars, orders, cached, req, mailVars>>

\* Errors, refusals and lost connections: the request ends, unwritten.
Fail(r) ==
    /\ req[r].at # "idle"
    /\ Finish(r)
    /\ UNCHANGED <<deleted, sessionVars, addressVars, orders, redisVars, mailVars>>

-----------------------------------------------------------------------------
(* Mails about the account.                                                *)

QueueMail(kind) ==
    /\ mail.at = "none" /\ ~deleted
    /\ mail' = Mail("queued", kind)
    /\ UNCHANGED <<deleted, sessionVars, addressVars, orders, redisVars, verified, req>>

ResendVerification == ~verified /\ QueueMail("verification")

\* A link to set a new password, or news of an order.
Notify == verified /\ QueueMail("notice")

\* checked_email_recipient: the row is locked and looked at again; a job without
\* its recipient, or with nothing left to verify, is dropped.
CheckRecipient ==
    /\ mail.at = "queued" /\ AccountRowFree
    /\ mail' = IF deleted \/ (verified /\ mail.kind = "verification")
                 THEN Mail("none", mail.kind) ELSE Mail("handing", mail.kind)
    /\ UNCHANGED <<deleted, sessionVars, addressVars, orders, redisVars, verified, req>>

\* The provider has the mail; or it refused, or the worker died, and the job runs
\* again.
HandOver ==
    /\ mail.at = "handing"
    /\ \E next \in {"none", "queued"} : mail' = Mail(next, mail.kind)
    /\ UNCHANGED <<deleted, sessionVars, addressVars, orders, redisVars, verified, req>>

-----------------------------------------------------------------------------
Sign(r) ==
    \/ StartVerify(r) \/ Verify(r) \/ StartSignIn(r) \/ Arrive(r)
    \/ ChangePassword(r) \/ StartReset(r) \/ ResetPassword(r)
    \/ \E k \in Token : SignIn(r, k) \/ StartRefresh(r, k) \/ Rotate(r, k) \/ SignOut(r, k)

Addressing(r) ==
    \/ \E a \in Address :
          \/ DeleteAddress(r, a)
          \/ \E chosen \in BOOLEAN : AddAddress(r, a, chosen)
          \/ \E how \in {"located", "locating"} : FindAddress(r, a, how)
    \/ \E chosen \in BOOLEAN : UpdateAddress(r, chosen)
    \/ SetDefault(r)

Own(r) == PlaceOrder(r) \/ WriteRedis(r) \/ DeleteAccount(r) \/ ClearNow(r)

AccountsNext ==
    \/ \E r \in Request : Sign(r) \/ Addressing(r) \/ Own(r) \/ Fail(r)
    \/ \E k \in Token : ExpireSession(k)
    \/ ResendVerification \/ Notify
    \/ OrderEnds \/ EmptyRedis \/ CheckRecipient \/ HandOver
    \/ PublishJob \/ RunJob \/ FailJob \/ ReplayJob

AccountsSpec == AccountsInit /\ [][AccountsNext]_accountsVars

(* The dispatcher is a cron job.  No worker need run what it publishes, Redis  *)
(* need not answer, and nobody need replay a dead letter.                      *)
AccountsFairSpec == AccountsSpec /\ WF_accountsVars(PublishJob)

-----------------------------------------------------------------------------
(* A deleted account leaves no session, address or active order behind,    *)
(* and none appears later: whoever passed the first check before the       *)
(* deletion finds out once it holds the row.                               *)
NothingOutlives ==
    deleted => sessions = {} /\ addresses = {} /\ orders = 0

(* A refresh token is exchanged at most once, however many tabs use it at  *)
(* the same time; what it was exchanged for cannot lead back to it.        *)
RotatedOnce ==
    \A k \in Token :
        /\ Cardinality(heirs[k]) =< 1
        /\ heirs[k] # {} => k \notin sessions

(* At most one address is the default one, and it exists. *)
OneDefault == Cardinality(default) =< 1 /\ default \subseteq addresses

(* What the provider is given is current: the account is not deleted, and  *)
(* a link to verify its address still has something to verify, until the   *)
(* mail is out of the worker's hands.                                      *)
MailIsCurrent ==
    mail.at = "handing" => ~deleted /\ (mail.kind = "verification" => ~verified)

(* What Redis kept of a deleted account is gone for good in the end, or    *)
(* its clean-up is a dead letter that an administrator sees and can replay *)
(* (and then again): it never just stays there, also when the clean-up     *)
(* right after the deletion failed.                                        *)
Forgotten == deleted ~> (job.at = "dead" \/ [](~cached))

(* At no time does Redis keep something of a deleted account that no event *)
(* stands for.                                                             *)
StillInHand == deleted /\ cached => job.at \in {"pending", "dead"}

=============================================================================
