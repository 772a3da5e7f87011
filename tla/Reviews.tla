------------------------------- MODULE Reviews -------------------------------
(***************************************************************************)
(* The reviews of one product: customers write, edit, illustrate and       *)
(* withdraw them or close their account, administrators moderate them, the *)
(* product keeps the aggregate of the approved ones, and photos live in    *)
(* object storage with durable clean-up jobs.                              *)
(*                                                                         *)
(* A transaction's writes are invisible until it commits.  Locks: a        *)
(* customer's own transactions hold the account's row; moderation, photo   *)
(* changes and withdrawal hold the review's row from their first read, an  *)
(* edit only from its UPDATE; whoever recomputes the rating holds the      *)
(* product's row until the commit.                                         *)
(***************************************************************************)
EXTENDS Naturals, FiniteSets, Functions

CONSTANTS
    Customer,       \* accounts, each with at most one review of the product
    Tab,            \* concurrent requests of customers
    Moderator,      \* administrators
    Photo,          \* identities (URLs) of review photos
    MaxPhotos,      \* MAX_REVIEW_IMAGES
    MaxRating,      \* ratings are 1 .. MaxRating
    NoOne           \* no customer

ASSUME ReviewsAssumption ==
    /\ IsFiniteSet(Customer)
    /\ MaxRating \in Nat \ {0} /\ MaxPhotos \in Nat
    /\ Tab \cap Moderator = {}
    /\ NoOne \notin Customer

VARIABLES
    review,     \* the committed reviews row of each customer
    product,    \* the aggregate shown: [sum, count] of the ratings
    closed,     \* accounts deleted
    files,      \* review photos in object storage
    jobs,       \* committed clean-up jobs, by photo
    erasing,    \* jobs that found no reference and are about to delete
    tx,         \* the transactions in progress
    view,       \* what each administrator has on screen
    seen        \* history: what the approval of each review was made on

vars == <<review, product, closed, files, jobs, erasing, tx, view, seen>>

Rating == 1 .. MaxRating
Actor == Tab \cup Moderator
Decision == {"approved", "rejected", "hidden"}

\* noted: the row holds an administrator's note or moderation time.
Review == [status: {"none", "pending"} \cup Decision, rating: Rating,
           noted: BOOLEAN, photos: SUBSET Photo]
Row(status, rating, noted, photos) ==
    [status |-> status, rating |-> rating, noted |-> noted, photos |-> photos]
NoReview == Row("none", 1, FALSE, {})

Aggregate == [sum: Nat, count: Nat]

\* No screen: the last decision was no approval, or did not name its version.
Unnamed == 0

\* A decision with, and one without the version it was made on.
Deciding == {"decide", "override"}

\* A transaction: how far it is, what it does to whose review, the row it writes.
Work(at, kind, of, new, photo, total) ==
    [at |-> at, kind |-> kind, of |-> of, new |-> new, photo |-> photo, total |-> total]
Nothing == [sum |-> 0, count |-> 0]
NoTx == Work("idle", "edit", NoOne, NoReview, {}, Nothing)

\* The rating stands for all the customer wrote.
Screen(of, rating, current) == [of |-> of, rating |-> rating, current |-> current]
NoView == Screen(NoOne, 1, FALSE)

TypeOK ==
    /\ review \in [Customer -> Review]
    /\ product \in Aggregate
    /\ closed \subseteq Customer
    /\ files \subseteq Photo /\ jobs \subseteq Photo /\ erasing \subseteq jobs
    /\ tx \in [Actor -> [at: {"idle", "read", "storing", "written", "counted"},
                         kind: {"edit", "photo", "unphoto", "withdraw"} \cup Deciding,
                         of: Customer \cup {NoOne}, new: Review,
                         photo: SUBSET Photo, total: Aggregate]]
    /\ view \in [Moderator -> [of: Customer \cup {NoOne}, rating: Rating, current: BOOLEAN]]
    /\ seen \in [Customer -> Rating \cup {Unnamed}]

Init ==
    /\ review = [c \in Customer |-> NoReview]
    /\ product = Nothing
    /\ closed = {}
    /\ files = {} /\ jobs = {} /\ erasing = {}
    /\ tx = [a \in Actor |-> NoTx]
    /\ view = [m \in Moderator |-> NoView]
    /\ seen = [c \in Customer |-> Unnamed]

-----------------------------------------------------------------------------
Written(c) == review[c].status # "none"
Referenced == UNION {review[c].photos : c \in Customer}

\* lock_active_user: taken by one request, and the account checked again.
AccountFree(c) == \A t \in Tab : tx[t].of # c
\* Mutant: the account's deletion is not checked again after the lock.
AccountLocked(c) == AccountFree(c)
ActiveAccount(c) == AccountFree(c) /\ c \notin closed

RowFree(c) ==
    \A a \in Actor : tx[a].of = c => tx[a].at \notin {"storing", "written", "counted"}

\* Mutant: the aggregate is recomputed without locking the product.
NoProductLock(a) == TRUE
ProductFree(a) == \A b \in Actor \ {a} : tx[b].at # "counted"

\* The aggregate a transaction computes: committed rows and its own.
Aggregated(rows) ==
    LET counted == {c \in Customer : rows[c].status = "approved"}
    IN  IF counted = {} THEN Nothing
        ELSE [sum |-> SumFunctionOnSet([c \in counted |-> rows[c].rating], counted),
              count |-> Cardinality(counted)]

Open(a, kind, c, step, new, p) ==
    tx' = [tx EXCEPT ![a] = Work(step, kind, c, new, p, Nothing)]

\* updated_at of row c changes: what administrators have on screen is old.
\* Mutant: an edit leaves updated_at alone.
Untouched(c) == UNCHANGED view
Touch(c) ==
    view' = [m \in Moderator |->
               IF view[m].of = c THEN Screen(c, view[m].rating, FALSE) ELSE view[m]]

-----------------------------------------------------------------------------
(* Customers. *)

Create(c, rating) ==
    /\ ActiveAccount(c) /\ ~Written(c)
    /\ review' = [review EXCEPT ![c] = Row("pending", rating, FALSE, {})]
    /\ UNCHANGED <<product, closed, files, jobs, erasing, tx, view, seen>>

\* The status is read without locking the row.
StartEdit(t, c) ==
    /\ tx[t].at = "idle" /\ ActiveAccount(c)
    /\ Written(c) /\ review[c].status # "rejected"
    /\ Open(t, "edit", c, "read", NoReview, {})
    /\ UNCHANGED <<review, product, closed, files, jobs, erasing, view, seen>>

Edited(v, rating) == Row("pending", rating, v.noted, v.photos)

WriteEdit(t, rating) ==
    LET c == tx[t].of
    IN  /\ tx[t].at = "read" /\ RowFree(c)
        /\ Open(t, "edit", c, "written", Edited(review[c], rating), {})
        /\ UNCHANGED <<review, product, closed, files, jobs, erasing, view, seen>>

\* ReviewPhotoService.owned: account, then row; only these may change.
OwnedPhotos(t, c) ==
    /\ tx[t].at = "idle" /\ ActiveAccount(c) /\ RowFree(c)
    /\ review[c].status \in {"pending", "approved"}

Unused == Photo \ (files \cup jobs \cup Referenced
                   \cup (UNION {tx[a].photo : a \in Actor}))

\* finish: back to moderation, without note or moderation time.
Changed(v, photos) == Row("pending", v.rating, FALSE, photos)

StartPhoto(t, c, p) ==
    /\ OwnedPhotos(t, c)
    /\ Cardinality(review[c].photos) < MaxPhotos
    /\ p \in Unused
    /\ Open(t, "photo", c, "storing", review[c], {p})
    /\ UNCHANGED <<review, product, closed, files, jobs, erasing, view, seen>>

StorePhoto(t) ==
    LET c == tx[t].of
    IN  /\ tx[t].at = "storing"
        /\ files' = files \cup tx[t].photo
        /\ Open(t, "photo", c, "written",
                Changed(review[c], review[c].photos \cup tx[t].photo), tx[t].photo)
        /\ UNCHANGED <<review, product, closed, jobs, erasing, view, seen>>

RemovePhoto(t, c, p) ==
    /\ OwnedPhotos(t, c) /\ p \in review[c].photos
    /\ Open(t, "unphoto", c, "written", Changed(review[c], review[c].photos \ {p}), {})
    /\ UNCHANGED <<review, product, closed, files, jobs, erasing, view, seen>>

Withdraw(t, c) ==
    /\ tx[t].at = "idle" /\ ActiveAccount(c) /\ RowFree(c) /\ Written(c)
    /\ Open(t, "withdraw", c, "written", NoReview, {})
    /\ UNCHANGED <<review, product, closed, files, jobs, erasing, view, seen>>

\* prepare_customer_cleanup: photo rows go, their files are listed in a
\* job, the texts are erased; rating and status stay.
CloseAccount(c) ==
    /\ ActiveAccount(c) /\ RowFree(c)
    /\ closed' = closed \cup {c}
    /\ review' = [review EXCEPT ![c] = Row(review[c].status, review[c].rating, review[c].noted, {})]
    /\ jobs' = jobs \cup review[c].photos
    /\ Touch(c)
    /\ UNCHANGED <<product, files, erasing, tx, seen>>

-----------------------------------------------------------------------------
(* Administrators decide; the panel names the version it shows, and the    *)
(* decision is refused unless that is still current.  A caller may leave   *)
(* the version out: such a decision is accepted whatever it was made on.   *)

Inspect(m, c) ==
    /\ Written(c) /\ tx[m].at = "idle"
    /\ view' = [view EXCEPT ![m] = Screen(c, review[c].rating, TRUE)]
    /\ UNCHANGED <<review, product, closed, files, jobs, erasing, tx, seen>>

CurrentView(m, c) == view[m].of = c /\ view[m].current

Decide(m, c, status, versioned) ==
    /\ tx[m].at = "idle" /\ RowFree(c) /\ Written(c)
    /\ versioned => CurrentView(m, c)
    /\ Open(m, IF versioned THEN "decide" ELSE "override", c, "written",
            Row(status, review[c].rating, TRUE, review[c].photos), {})
    /\ UNCHANGED <<review, product, closed, files, jobs, erasing, view, seen>>

-----------------------------------------------------------------------------
(* Every change recomputes the aggregate, then commits. *)

Count(a) ==
    /\ tx[a].at = "written" /\ ProductFree(a)
    /\ tx' = [tx EXCEPT ![a] =
                Work("counted", tx[a].kind, tx[a].of, tx[a].new, tx[a].photo,
                     Aggregated([review EXCEPT ![tx[a].of] = tx[a].new]))]
    /\ UNCHANGED <<review, product, closed, files, jobs, erasing, view, seen>>

\* The row is written by UPDATE only when a column changes: a photo added
\* to a review that already waits without a note changes none.
RowUpdated(a) ==
    LET old == review[tx[a].of]
    IN  tx[a].kind \in {"photo", "unphoto"}
          => (old.status # "pending" \/ old.noted)

\* Clean-up jobs that belong to the transaction; uncertain after an upload
\* whose commit was reported as failed.
Removed(a) == review[tx[a].of].photos \ tx[a].new.photos

\* What an approval that names its version was made on.
DecidedOn(a) ==
    IF tx[a].kind = "decide" /\ tx[a].new.status = "approved" THEN view[a].rating ELSE Unnamed

Commit(a, reported) ==
    LET c == tx[a].of
    IN  /\ tx[a].at = "counted"
        /\ reported \/ tx[a].kind = "photo"
        /\ review' = [review EXCEPT ![c] = tx[a].new]
        /\ product' = tx[a].total
        /\ jobs' = jobs \cup Removed(a) \cup (IF reported THEN {} ELSE tx[a].photo)
        /\ IF RowUpdated(a) THEN Touch(c) ELSE UNCHANGED view
        /\ seen' = IF tx[a].kind \in Deciding THEN [seen EXCEPT ![c] = DecidedOn(a)] ELSE seen
        /\ tx' = [tx EXCEPT ![a] = NoTx]
        /\ UNCHANGED <<closed, files, erasing>>

\* A failure rolls back; an upload then queues the clean-up of its file,
\* and may fail in that too.
Abort(a) ==
    /\ tx[a].at # "idle"
    /\ jobs' \in {jobs, jobs \cup tx[a].photo}
    /\ tx' = [tx EXCEPT ![a] = NoTx]
    /\ UNCHANGED <<review, product, closed, files, erasing, view, seen>>

-----------------------------------------------------------------------------
(* cleanup_review_photo and cleanup_deleted_customer, with retries: look   *)
(* for references first, then delete the file.                             *)

\* Mutant: the job deletes without looking for references.
FoundNowhere(p) == TRUE
Unreferenced(p) == p \notin Referenced

CheckJob(p) ==
    /\ p \in jobs \ erasing
    /\ IF Unreferenced(p)
         THEN erasing' = erasing \cup {p} /\ UNCHANGED jobs
         ELSE jobs' = jobs \ {p} /\ UNCHANGED erasing
    /\ UNCHANGED <<review, product, closed, files, tx, view, seen>>

EraseJob(p, deleted) ==
    /\ p \in erasing
    /\ erasing' = erasing \ {p}
    /\ files' = IF deleted THEN files \ {p} ELSE files
    /\ jobs' = IF deleted THEN jobs \ {p} ELSE jobs
    /\ UNCHANGED <<review, product, closed, tx, view, seen>>

-----------------------------------------------------------------------------
OfCustomers ==
    \E c \in Customer :
       \/ \E rating \in Rating : Create(c, rating)
       \/ CloseAccount(c)
       \/ \E t \in Tab :
             \/ StartEdit(t, c) \/ Withdraw(t, c)
             \/ \E p \in Photo : StartPhoto(t, c, p) \/ RemovePhoto(t, c, p)

OfTabs ==
    \E t \in Tab :
       \/ \E rating \in Rating : WriteEdit(t, rating)
       \/ StorePhoto(t)

OfModerators ==
    \E m \in Moderator, c \in Customer :
       \/ Inspect(m, c)
       \/ \E status \in Decision, versioned \in BOOLEAN : Decide(m, c, status, versioned)

OfDatabase ==
    \E a \in Actor :
       \/ Count(a) \/ Abort(a)
       \/ \E reported \in BOOLEAN : Commit(a, reported)

OfWorker ==
    \E p \in Photo : CheckJob(p) \/ \E deleted \in BOOLEAN : EraseJob(p, deleted)

Next == OfCustomers \/ OfTabs \/ OfModerators \/ OfDatabase \/ OfWorker

Spec == Init /\ [][Next]_vars

-----------------------------------------------------------------------------
(* The rating a product shows is that of its approved reviews, however     *)
(* edits, withdrawals and decisions on different reviews interleave.       *)
RatingAgrees == product = Aggregated(review)

(* What stands approved by a decision that named its version is the text   *)
(* and rating its administrator had on screen: an edit always goes back to *)
(* moderation, also when it races with the decision.  Decisions without a  *)
(* version have no such protection, and neither have photos: one added to  *)
(* a review that already waits leaves the version as it was.               *)
ApprovedAsRead ==
    \A c \in Customer :
        review[c].status = "approved" /\ seen[c] # Unnamed => seen[c] = review[c].rating

(* A photo a review shows is in storage: the clean-up of an upload whose   *)
(* commit was reported as failed never deletes a photo that was committed. *)
PhotosHaveFiles == Referenced \subseteq files

(* No photo of a deleted account is shown. *)
ClosedShowsNothing == \A c \in closed : review[c].photos = {}

=============================================================================
