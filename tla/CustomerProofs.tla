--------------------------- MODULE CustomerProofs ---------------------------
(***************************************************************************)
(* Theorems about what customers bring about: the reviews of a product     *)
(* (module Reviews), an account with its sessions and addresses (Accounts),*)
(* and the returns of what was bought (Returns).                           *)
(*                                                                         *)
(* The invariant of the reviews says what the row locks give: one writer   *)
(* of a row at a time, whose new row still differs from the committed one  *)
(* only in what it changes (Writers), one transaction that has counted     *)
(* (Counters), and screens that show what is committed while they are      *)
(* current (Screens).  Photos of uploads under way are nobody else's and   *)
(* in no job (Photos).                                                     *)
(*                                                                         *)
(* The invariants of the account count with Cardinality; the inductive     *)
(* ones say the same with "empty or a singleton" and add that a request    *)
(* that holds the account's row knows exactly one address.                 *)
(*                                                                         *)
(* The returns that count change with every decision; the invariant adds   *)
(* up columns over all returns, zero for those that do not count, and      *)
(* relates what is back on the shelf to the refunded ones.                 *)
(***************************************************************************)
EXTENDS Reviews, Accounts, Returns, Sums

-----------------------------------------------------------------------------
(* Reviews, for any customers, tabs, administrators and photos.            *)

Writing == {"written", "counted"}
Holding == {"storing"} \cup Writing

\* What a transaction may write over the committed row.
WritesWell(a) ==
    LET old == review[tx[a].of]
        new == tx[a].new
    IN  /\ new.photos \subseteq old.photos \cup tx[a].photo
        /\ new.rating = old.rating \/ tx[a].kind \in {"edit", "withdraw"}
        /\ new.status = "none" <=> tx[a].kind = "withdraw"
        /\ new.status = "approved" => tx[a].kind \in Deciding

\* The types, but for what the aggregate's sums are.
Typed ==
    /\ review \in [Customer -> Review]
    /\ closed \subseteq Customer
    /\ files \subseteq Photo /\ jobs \subseteq Photo /\ erasing \subseteq jobs
    /\ tx = [a \in Actor |-> tx[a]]
    /\ \A a \in Actor :
          /\ tx[a].at \in {"idle", "read", "storing", "written", "counted"}
          /\ tx[a].of \in Customer \cup {NoOne}
          /\ tx[a].at = "idle" <=> tx[a].of = NoOne
          /\ tx[a].new \in Review /\ tx[a].photo \subseteq Photo
    /\ view \in [Moderator -> [of: Customer \cup {NoOne}, rating: Rating, current: BOOLEAN]]
    /\ seen \in [Customer -> Rating \cup {Unnamed}]

\* Rows have a single writer and accounts a single request; a writer knows
\* the committed row.
Writers ==
    /\ \A a, b \in Actor :
          tx[a].at \in Holding /\ tx[b].at \in Holding /\ tx[a].of = tx[b].of => a = b
    /\ \A t, u \in Tab : tx[t].of = tx[u].of /\ tx[t].at # "idle" => t = u
    /\ \A a \in Actor : tx[a].at # "idle" =>
          /\ Written(tx[a].of)
          /\ a \in Tab => tx[a].of \notin closed
          /\ a \in Moderator <=> tx[a].kind \in Deciding
          /\ tx[a].at = "storing" => tx[a].kind = "photo"
          /\ tx[a].kind \in Deciding => tx[a].at \in Writing /\ tx[a].photo = {}
          /\ tx[a].kind = "decide" =>
                /\ view[a].of = tx[a].of
                /\ view[a].rating = review[tx[a].of].rating
    /\ \A a \in Actor : tx[a].at \in Writing => WritesWell(a)

\* A current screen shows the committed rating.
Screens ==
    \A m \in Moderator :
        view[m].current =>
            /\ view[m].of \in Customer /\ Written(view[m].of)
            /\ view[m].rating = review[view[m].of].rating

\* Who has counted is alone, and what it counted is what it will commit.
Counters ==
    /\ \A a, b \in Actor : tx[a].at = "counted" /\ tx[b].at = "counted" => a = b
    /\ \A a \in Actor : tx[a].at = "counted" =>
          tx[a].total = Aggregated([review EXCEPT ![tx[a].of] = tx[a].new])

\* An upload's photo is its own until the commit, and in no job.
Photos ==
    /\ \A a, b \in Actor : a # b => tx[a].photo \cap tx[b].photo = {}
    /\ \A a \in Actor :
          /\ tx[a].photo \cap (jobs \cup Referenced) = {}
          /\ tx[a].at = "idle" => tx[a].photo = {}
          /\ tx[a].at \in Writing => tx[a].photo \subseteq files
    /\ erasing \cap Referenced = {}

RevInv == /\ Typed /\ Writers /\ Screens /\ Counters /\ Photos
          /\ RatingAgrees /\ ApprovedAsRead /\ PhotosHaveFiles /\ ClosedShowsNothing

-----------------------------------------------------------------------------
(* Lemmas about the operators.                                             *)

\* The fields of a row, and of a transaction.
LEMMA RowFields ==
  ASSUME NEW state, NEW rating, NEW noted, NEW photos
  PROVE  LET v == Row(state, rating, noted, photos)
         IN  /\ v.status = state /\ v.rating = rating
             /\ v.noted = noted /\ v.photos = photos
  BY DEF Row

LEMMA WorkFields ==
  ASSUME NEW at, NEW kind, NEW of, NEW new, NEW photo, NEW total
  PROVE  LET w == Work(at, kind, of, new, photo, total)
         IN  /\ w.at = at /\ w.kind = kind /\ w.of = of
             /\ w.new = new /\ w.photo = photo /\ w.total = total
  BY DEF Work

LEMMA NoTxFields ==
  /\ NoTx.at = "idle" /\ NoTx.of = NoOne /\ NoTx.kind = "edit" /\ NoTx.photo = {}
  /\ NoTx.new \in Review
<1>1. NoReview \in Review
  BY ReviewsAssumption DEF NoReview, Row, Review, Rating
<1> QED
  BY <1>1, WorkFields DEF NoTx

\* Rows that approve the same ratings add up to the same.
LEMMA SameAggregate ==
  ASSUME NEW v, NEW w,
         \A c \in Customer : v[c].status = "approved" <=> w[c].status = "approved",
         \A c \in Customer : v[c].status = "approved" => v[c].rating = w[c].rating
  PROVE  Aggregated(v) = Aggregated(w)
<1>1. {c \in Customer : v[c].status = "approved"} = {c \in Customer : w[c].status = "approved"}
  OBVIOUS
<1> DEFINE S == {c \in Customer : v[c].status = "approved"}
<1>2. [c \in S |-> v[c].rating] = [c \in S |-> w[c].rating]
  OBVIOUS
<1> QED
  BY <1>1, <1>2 DEF Aggregated

-----------------------------------------------------------------------------
\* Before the first request there is nothing to agree on.
LEMMA RevInit == Init => RevInv
<1> SUFFICES ASSUME Init PROVE RevInv
  OBVIOUS
<1> USE ReviewsAssumption
<1>1. /\ review = [c \in Customer |-> NoReview] /\ NoReview \in Review
      /\ NoReview.status = "none" /\ NoReview.photos = {} /\ NoReview.rating = 1
  BY DEF Init, NoReview, Row, Review, Rating
<1>2. /\ NoView \in [of: Customer \cup {NoOne}, rating: Rating, current: BOOLEAN]
      /\ NoView.current = FALSE
  BY DEF NoView, Screen, Rating
<1>3. tx = [a \in Actor |-> NoTx]
  BY DEF Init
<1>4. Typed
  BY <1>1, <1>2, <1>3, NoTxFields DEF Init, Typed
<1>5. Writers /\ Screens /\ Counters
  BY <1>2, <1>3, NoTxFields DEF Init, Writers, Screens, Counters, Holding, Writing, Actor
<1>6. Referenced = {}
  BY <1>1 DEF Referenced
<1>7. Photos /\ PhotosHaveFiles
  BY <1>3, <1>6, NoTxFields DEF Init, Photos, PhotosHaveFiles, Writing
<1>8. RatingAgrees
  <2>1. {c \in Customer : review[c].status = "approved"} = {}
    BY <1>1
  <2> QED
    BY <2>1 DEF Init, RatingAgrees, Aggregated
<1>9. ApprovedAsRead /\ ClosedShowsNothing
  BY <1>1 DEF Init, ApprovedAsRead, ClosedShowsNothing
<1> QED
  BY <1>4, <1>5, <1>7, <1>8, <1>9 DEF RevInv

\* A transaction reads, or writes its row, under the locks it needs.
Opens(a, kind, c, step, new, p, G) ==
    /\ Open(a, kind, c, step, new, p) /\ files' = files \cup G
    /\ UNCHANGED <<review, product, closed, jobs, erasing, view, seen>>
    /\ Written(c) /\ tx[a].at # "counted"
    /\ a \in Tab => c \notin closed /\ \A t \in Tab \ {a} : tx[t].of # c
    /\ a \in Moderator <=> kind \in Deciding
    /\ step # "read" => \A b \in Actor \ {a} : tx[b].of = c => tx[b].at \notin Holding
    /\ step = "storing" => kind = "photo"
    /\ kind \in Deciding => step = "written" /\ p = {}
    /\ kind = "decide" => view[a].of = c /\ view[a].rating = review[c].rating
    /\ step = "written" => /\ new.photos \subseteq review[c].photos \cup p
                           /\ new.rating = review[c].rating \/ kind \in {"edit", "withdraw"}
                           /\ new.status = "none" <=> kind = "withdraw"
                           /\ new.status = "approved" => kind \in Deciding
                           /\ p \subseteq files'
    /\ p \cap (jobs \cup Referenced) = {}
    /\ \A b \in Actor \ {a} : p \cap tx[b].photo = {}

LEMMA OpenStep ==
  ASSUME RevInv, NEW a \in Actor, NEW kind, NEW c \in Customer,
         NEW step \in {"read", "storing", "written"},
         NEW new \in Review, NEW p \in SUBSET Photo, NEW G \in SUBSET Photo,
         Opens(a, kind, c, step, new, p, G)
  PROVE  RevInv'
<1> USE DEF Opens
<1> DEFINE w == Work(step, kind, c, new, p, Nothing)
<1>1. /\ w.at = step /\ w.kind = kind /\ w.of = c /\ w.new = new /\ w.photo = p
      /\ w.total = Nothing
  BY WorkFields
<1>2. tx' = [tx EXCEPT ![a] = w]
  BY DEF Open
<1> HIDE DEF w
<1> USE DEF RevInv
<1>3. \A b \in Actor : tx'[b] = IF b = a THEN w ELSE tx[b]
  BY <1>2 DEF Typed
<1>4. Typed'
  BY <1>1, <1>2, <1>3, ReviewsAssumption DEF Typed
<1>5. Writers'
  <2>1. \A b \in Actor : WritesWell(b)' <=> IF b = a THEN WritesWell(a)' ELSE WritesWell(b)
    BY <1>3 DEF WritesWell
  <2>2. step = "written" => WritesWell(a)'
    BY <1>1, <1>3 DEF WritesWell
  <2>3. \A x, y \in Actor :
           tx'[x].at \in Holding /\ tx'[y].at \in Holding /\ tx'[x].of = tx'[y].of => x = y
    BY <1>1, <1>3 DEF Writers, Holding, Writing
  <2>4. \A t, u \in Tab : tx'[t].of = tx'[u].of /\ tx'[t].at # "idle" => t = u
    <3>1. \A t \in Tab \ {a} : tx'[t] = tx[t]
      BY <1>3 DEF Actor
    <3>2. a \in Tab => tx'[a].of = c /\ \A t \in Tab \ {a} : tx[t].of # c
      BY <1>1, <1>3
    <3>3. \A t, u \in Tab : tx[t].of = tx[u].of /\ tx[t].at # "idle" => t = u
      BY DEF Writers
    <3> QED
      BY <3>1, <3>2, <3>3
  <2>5. \A b \in Actor : tx'[b].at \in Writing => WritesWell(b)'
    BY <1>1, <1>3, <2>1, <2>2 DEF Writers, Writing
  <2>6. ASSUME NEW b \in Actor, tx'[b].at # "idle"
        PROVE  /\ Written(tx[b].of)'
               /\ b \in Tab => tx'[b].of \notin closed'
               /\ b \in Moderator <=> tx'[b].kind \in Deciding
               /\ tx'[b].at = "storing" => tx'[b].kind = "photo"
               /\ tx'[b].kind \in Deciding => tx'[b].at \in Writing /\ tx'[b].photo = {}
               /\ tx'[b].kind = "decide" =>
                     /\ view'[b].of = tx'[b].of
                     /\ view'[b].rating = review'[tx'[b].of].rating
    <3>1. CASE b = a
      BY <1>1, <1>3, <3>1 DEF Written, Writing
    <3>2. CASE b # a
      BY <1>3, <2>6, <3>2 DEF Writers, Written
    <3> QED
      BY <3>1, <3>2
  <2> QED
    BY <2>3, <2>4, <2>5, <2>6 DEF Writers
<1>6. Screens'
  BY DEF Screens, Written
<1>7. Counters'
  BY <1>1, <1>3 DEF Counters
<1>8. Referenced' = Referenced
  BY DEF Referenced
<1>9. Photos'
  BY <1>1, <1>3, <1>8 DEF Photos, Typed, Writing
<1>10. RatingAgrees' /\ ApprovedAsRead' /\ PhotosHaveFiles' /\ ClosedShowsNothing'
  BY <1>8 DEF RatingAgrees, ApprovedAsRead, PhotosHaveFiles, ClosedShowsNothing
<1> QED
  BY <1>4, <1>5, <1>6, <1>7, <1>9, <1>10

\* A transaction ends without a commit, and may queue its photo's clean-up.
LEMMA AbortStep ==
  ASSUME RevInv, NEW a \in Actor, Abort(a)
  PROVE  RevInv'
<1> USE DEF RevInv
<1>1. /\ tx' = [tx EXCEPT ![a] = NoTx]
      /\ jobs' \in {jobs, jobs \cup tx[a].photo}
      /\ UNCHANGED <<review, product, closed, files, erasing, view, seen>>
  BY DEF Abort
<1>2. \A b \in Actor : tx'[b] = IF b = a THEN NoTx ELSE tx[b]
  BY <1>1 DEF Typed
<1>3. Typed'
  BY <1>1, <1>2, NoTxFields DEF Typed
<1>4. Writers'
  <2>1. \A b \in Actor : b # a => (WritesWell(b)' <=> WritesWell(b))
    BY <1>1, <1>2 DEF WritesWell
  <2> QED
    BY <1>1, <1>2, <2>1, NoTxFields DEF Writers, Typed, Holding, Writing, Written, Actor
<1>5. Screens' /\ Counters'
  BY <1>1, <1>2, NoTxFields DEF Screens, Written, Counters
<1>6. Referenced' = Referenced
  BY <1>1 DEF Referenced
<1>7. Photos'
  BY <1>1, <1>2, <1>6, NoTxFields DEF Photos, Writing
<1>8. RatingAgrees' /\ ApprovedAsRead' /\ PhotosHaveFiles' /\ ClosedShowsNothing'
  BY <1>1, <1>6 DEF RatingAgrees, ApprovedAsRead, PhotosHaveFiles, ClosedShowsNothing
<1> QED
  BY <1>3, <1>4, <1>5, <1>7, <1>8

\* The worker's steps.
LEMMA JobStep ==
  ASSUME RevInv, NEW p \in Photo,
         CheckJob(p) \/ \E gone \in BOOLEAN : EraseJob(p, gone)
  PROVE  RevInv'
<1> USE DEF RevInv
<1>1. UNCHANGED <<review, product, closed, tx, view, seen>>
  BY DEF CheckJob, EraseJob
<1>2. /\ jobs' \subseteq jobs /\ erasing' \subseteq jobs' /\ files' \subseteq files
      /\ files \ files' \subseteq erasing
      /\ erasing' \cap Referenced = {}
  BY DEF CheckJob, EraseJob, Unreferenced, Photos, Typed
<1>3. Typed' /\ Screens' /\ Counters'
  BY <1>1, <1>2 DEF Typed, Screens, Counters, Written
<1>4. Writers'
  BY <1>1 DEF Writers, WritesWell, Written
<1>5. Referenced' = Referenced
  BY <1>1 DEF Referenced
<1>6. Photos'
  BY <1>1, <1>2, <1>5 DEF Photos, Typed
<1>7. PhotosHaveFiles'
  BY <1>2, <1>5 DEF PhotosHaveFiles, Photos
<1>8. RatingAgrees' /\ ApprovedAsRead' /\ ClosedShowsNothing'
  BY <1>1 DEF RatingAgrees, ApprovedAsRead, ClosedShowsNothing
<1> QED
  BY <1>3, <1>4, <1>6, <1>7, <1>8

\* An administrator opens a review.
LEMMA InspectStep ==
  ASSUME RevInv, NEW m \in Moderator, NEW c \in Customer, Inspect(m, c)
  PROVE  RevInv'
<1> USE DEF RevInv
<1>1. /\ Written(c) /\ tx[m].at = "idle"
      /\ view' = [view EXCEPT ![m] = Screen(c, review[c].rating, TRUE)]
      /\ UNCHANGED <<review, product, closed, files, jobs, erasing, tx, seen>>
  BY DEF Inspect
<1> DEFINE w == Screen(c, review[c].rating, TRUE)
<1>2. /\ w \in [of: Customer \cup {NoOne}, rating: Rating, current: BOOLEAN]
      /\ w.of = c /\ w.rating = review[c].rating
  BY DEF Screen, Typed, Review
<1> HIDE DEF w
<1>3. view' = [view EXCEPT ![m] = w]
  BY <1>1 DEF w
<1>4. Typed' /\ Screens'
  <2>1. view' \in [Moderator -> [of: Customer \cup {NoOne}, rating: Rating, current: BOOLEAN]]
    BY <1>2, <1>3 DEF Typed
  <2>2. Typed'
    BY <1>1, <2>1 DEF Typed
  <2>3. \A x \in Moderator : view'[x] = IF x = m THEN w ELSE view[x]
    BY <1>3 DEF Typed
  <2>4. ASSUME NEW x \in Moderator, view'[x].current
        PROVE  /\ view'[x].of \in Customer /\ Written(view[x].of)'
               /\ view'[x].rating = review'[view'[x].of].rating
    <3>1. CASE x = m
      BY <1>1, <1>2, <2>3, <3>1 DEF Written
    <3>2. CASE x # m
      BY <1>1, <2>3, <2>4, <3>2 DEF Screens, Written
    <3> QED
      BY <3>1, <3>2
  <2>5. Screens'
    BY <2>4 DEF Screens
  <2> QED
    BY <2>2, <2>5
<1>5. Writers'
  <2>1. \A b \in Actor : WritesWell(b)' <=> WritesWell(b)
    BY <1>1 DEF WritesWell
  <2>2. \A b \in Actor \ {m} : view'[b] = view[b]
    BY <1>3
  <2> QED
    BY <1>1, <2>1, <2>2 DEF Writers, Written
<1>6. Counters' /\ Photos'
  BY <1>1 DEF Counters, Aggregated, Photos, Referenced
<1>7. RatingAgrees' /\ ApprovedAsRead' /\ PhotosHaveFiles' /\ ClosedShowsNothing'
  BY <1>1 DEF RatingAgrees, ApprovedAsRead, PhotosHaveFiles, ClosedShowsNothing, Aggregated,
              Referenced
<1> QED
  BY <1>4, <1>5, <1>6, <1>7

\* A row that changed makes the screens that show it old.
LEMMA TouchStep ==
  ASSUME RevInv, NEW c \in Customer, Touch(c)
  PROVE  /\ view' \in [Moderator -> [of: Customer \cup {NoOne}, rating: Rating,
                                     current: BOOLEAN]]
         /\ \A m \in Moderator : /\ view'[m].of = view[m].of
                                 /\ view'[m].rating = view[m].rating
                                 /\ view'[m].current => view[m].current /\ view[m].of # c
<1>1. ASSUME NEW m \in Moderator
      PROVE  /\ view'[m] \in [of: Customer \cup {NoOne}, rating: Rating, current: BOOLEAN]
             /\ view'[m].of = view[m].of /\ view'[m].rating = view[m].rating
             /\ view'[m].current => view[m].current /\ view[m].of # c
  <2>1. view[m] \in [of: Customer \cup {NoOne}, rating: Rating, current: BOOLEAN]
    BY DEF RevInv, Typed
  <2>2. CASE view[m].of = c
    BY <2>1, <2>2 DEF Touch, Screen
  <2>3. CASE view[m].of # c
    BY <2>1, <2>3 DEF Touch
  <2> QED
    BY <2>2, <2>3
<1> QED
  BY <1>1 DEF Touch

\* Changes of a row nobody writes, which neither approve nor rate anything.
LEMMA RowStep ==
  ASSUME RevInv, NEW c \in Customer, NEW new \in Review,
         review' = [review EXCEPT ![c] = new],
         \A a \in Actor : tx[a].of # c,
         closed' \in {closed, closed \cup {c}}, jobs' \in {jobs, jobs \cup review[c].photos},
         UNCHANGED <<product, files, erasing, tx, seen>>,
         new.photos = {}, new.status = "none" => review[c].status = "none",
         new.status = "approved" <=> review[c].status = "approved",
         new.status = "approved" => new.rating = review[c].rating,
         \/ view' = view /\ review[c].status = "none"
         \/ Touch(c)
  PROVE  RevInv'
<1> USE DEF RevInv
<1>1. \A x \in Customer : review'[x] = IF x = c THEN new ELSE review[x]
  BY DEF Typed
<1>1a. \A x \in Customer :
          /\ review[x].status = "approved" <=> review'[x].status = "approved"
          /\ review[x].status = "approved" => review[x].rating = review'[x].rating
  BY <1>1
<1>2. Referenced' \subseteq Referenced /\ review[c].photos \subseteq Referenced
  BY <1>1 DEF Referenced
<1>3. view' \in [Moderator -> [of: Customer \cup {NoOne}, rating: Rating, current: BOOLEAN]]
      /\ \A m \in Moderator : /\ view'[m].of = view[m].of /\ view'[m].rating = view[m].rating
                              /\ view'[m].current => view[m].current /\ view[m].of # c
  BY TouchStep DEF Typed, Screens, Written
<1>4. Typed'
  <2>1. /\ review' \in [Customer -> Review] /\ closed' \subseteq Customer
        /\ jobs' \subseteq Photo /\ erasing \subseteq jobs'
    BY DEF Typed, Review
  <2> QED
    BY <1>3, <2>1 DEF Typed
<1>5. Writers'
  <2>1. \A a \in Actor : tx[a].at # "idle" => review'[tx[a].of] = review[tx[a].of]
    BY <1>1 DEF Typed
  <2>2. \A a \in Actor : tx[a].at \in Writing => WritesWell(a)'
    BY <2>1 DEF WritesWell, Writers, Writing
  <2>3. ASSUME NEW a \in Actor, tx[a].at # "idle", tx[a].kind = "decide"
        PROVE  view'[a].of = view[a].of /\ view'[a].rating = view[a].rating
    BY <1>3, <2>3 DEF Writers, Deciding
  <2>4. ASSUME NEW a \in Actor, tx[a].at # "idle"
        PROVE  /\ Written(tx[a].of)'
               /\ a \in Tab => tx[a].of \notin closed'
               /\ tx[a].kind = "decide" =>
                     /\ view'[a].of = tx[a].of
                     /\ view'[a].rating = review'[tx[a].of].rating
    BY <2>1, <2>3, <2>4 DEF Writers, Written
  <2> QED
    BY <2>2, <2>4 DEF Writers
<1>6. Screens'
  BY <1>1, <1>3 DEF Screens, Written
<1>7. ASSUME NEW a \in Actor, tx[a].at = "counted"
      PROVE  tx[a].total = Aggregated([review' EXCEPT ![tx[a].of] = tx[a].new])
  <2> DEFINE v == [review EXCEPT ![tx[a].of] = tx[a].new]
             w == [review' EXCEPT ![tx[a].of] = tx[a].new]
  <2>1. \A x \in Customer : v[x] = IF x = tx[a].of THEN tx[a].new ELSE review[x]
    BY DEF Typed
  <2>2. \A x \in Customer : w[x] = IF x = tx[a].of THEN tx[a].new ELSE review'[x]
    BY DEF Typed
  <2> HIDE DEF v, w
  <2>3. /\ \A x \in Customer : v[x].status = "approved" <=> w[x].status = "approved"
        /\ \A x \in Customer : v[x].status = "approved" => v[x].rating = w[x].rating
    BY <1>1a, <2>1, <2>2
  <2>4. Aggregated(v) = Aggregated(w)
    BY <2>3, SameAggregate
  <2> QED
    BY <1>7, <2>4 DEF Counters, v, w
<1>8. Counters'
  BY <1>7 DEF Counters
<1>9. Photos'
  BY <1>2 DEF Photos, Typed
<1>10. RatingAgrees'
  <2>1. Aggregated(review) = Aggregated(review')
    BY <1>1a, SameAggregate
  <2> QED
    BY <2>1 DEF RatingAgrees, Aggregated
<1>11. ApprovedAsRead' /\ ClosedShowsNothing'
  BY <1>1 DEF ApprovedAsRead, ClosedShowsNothing, Typed
<1>12. PhotosHaveFiles'
  BY <1>2 DEF PhotosHaveFiles
<1> QED
  BY <1>4, <1>5, <1>6, <1>8, <1>9, <1>10, <1>11, <1>12

\* The aggregate is computed under the product's lock.
LEMMA CountStep ==
  ASSUME RevInv, NEW a \in Actor, Count(a)
  PROVE  RevInv'
<1> USE DEF RevInv
<1> DEFINE sum == Aggregated([review EXCEPT ![tx[a].of] = tx[a].new])
           w == Work("counted", tx[a].kind, tx[a].of, tx[a].new, tx[a].photo, sum)
<1>1. /\ tx[a].at = "written" /\ \A b \in Actor \ {a} : tx[b].at # "counted"
      /\ tx' = [tx EXCEPT ![a] = w]
      /\ UNCHANGED <<review, product, closed, files, jobs, erasing, view, seen>>
  BY DEF Count, ProductFree
<1>2. /\ w.at = "counted" /\ w.kind = tx[a].kind /\ w.of = tx[a].of
      /\ w.new = tx[a].new /\ w.photo = tx[a].photo /\ w.total = sum
  BY WorkFields
<1> HIDE DEF w
<1>3. \A b \in Actor : tx'[b] = IF b = a THEN w ELSE tx[b]
  BY <1>1 DEF Typed
<1>4. \A b \in Actor : /\ tx'[b].kind = tx[b].kind /\ tx'[b].of = tx[b].of
                       /\ tx'[b].new = tx[b].new /\ tx'[b].photo = tx[b].photo
                       /\ tx'[b].at = IF b = a THEN "counted" ELSE tx[b].at
  BY <1>2, <1>3
<1>5. Typed'
  BY <1>1, <1>4 DEF Typed
<1>6. Writers'
  <2>1. \A b \in Actor : WritesWell(b)' <=> WritesWell(b)
    BY <1>1, <1>4 DEF WritesWell
  <2>2. \A b \in Actor : /\ tx'[b].at \in Writing <=> tx[b].at \in Writing
                         /\ tx'[b].at \in Holding <=> tx[b].at \in Holding
                         /\ tx'[b].at = "storing" <=> tx[b].at = "storing"
                         /\ tx'[b].at # "idle" <=> tx[b].at # "idle"
    BY <1>1, <1>4 DEF Writing, Holding
  <2>3. /\ \A x, y \in Actor :
              tx'[x].at \in Holding /\ tx'[y].at \in Holding /\ tx'[x].of = tx'[y].of => x = y
        /\ \A t, u \in Tab : tx'[t].of = tx'[u].of /\ tx'[t].at # "idle" => t = u
    BY <1>4, <2>2 DEF Writers, Actor
  <2>4. ASSUME NEW b \in Actor, tx'[b].at # "idle"
        PROVE  /\ Written(tx[b].of)'
               /\ b \in Tab => tx'[b].of \notin closed'
               /\ b \in Moderator <=> tx'[b].kind \in Deciding
               /\ tx'[b].at = "storing" => tx'[b].kind = "photo"
               /\ tx'[b].kind \in Deciding => tx'[b].at \in Writing /\ tx'[b].photo = {}
               /\ tx'[b].kind = "decide" =>
                     /\ view'[b].of = tx'[b].of
                     /\ view'[b].rating = review'[tx'[b].of].rating
    BY <1>1, <1>4, <2>2, <2>4 DEF Writers, Written
  <2> QED
    BY <2>1, <2>2, <2>3, <2>4 DEF Writers
<1>7. Counters'
  <2>1. sum = Aggregated([review EXCEPT ![tx[a].of] = tx[a].new])
    OBVIOUS
  <2> HIDE DEF sum
  <2> QED
    BY <1>1, <1>2, <1>3, <2>1 DEF Counters
<1>8. Screens' /\ Photos'
  BY <1>1, <1>4 DEF Screens, Written, Photos, Referenced, Writing
<1>9. RatingAgrees' /\ ApprovedAsRead' /\ PhotosHaveFiles' /\ ClosedShowsNothing'
  BY <1>1 DEF RatingAgrees, ApprovedAsRead, PhotosHaveFiles, ClosedShowsNothing, Aggregated,
              Referenced
<1> QED
  BY <1>5, <1>6, <1>7, <1>8, <1>9

\* What was written and counted becomes visible.
LEMMA CommitStep ==
  ASSUME RevInv, NEW a \in Actor, NEW reported \in BOOLEAN, Commit(a, reported)
  PROVE  RevInv'
<1> USE DEF RevInv
<1> DEFINE c == tx[a].of
           new == tx[a].new
<1>1. /\ tx[a].at = "counted" /\ c \in Customer /\ new \in Review
      /\ review' = [review EXCEPT ![c] = new]
      /\ product' = tx[a].total
      /\ jobs' = jobs \cup (review[c].photos \ new.photos)
                      \cup (IF reported THEN {} ELSE tx[a].photo)
      /\ seen' = IF tx[a].kind \in Deciding THEN [seen EXCEPT ![c] = DecidedOn(a)] ELSE seen
      /\ DecidedOn(a) = IF tx[a].kind = "decide" /\ new.status = "approved"
                          THEN view[a].rating ELSE Unnamed
      /\ tx' = [tx EXCEPT ![a] = NoTx]
      /\ UNCHANGED <<closed, files, erasing>>
  BY DEF Commit, Removed, DecidedOn, Typed
<1>2. IF RowUpdated(a) THEN Touch(c) ELSE UNCHANGED view
  BY DEF Commit
<1>3. /\ Written(c)
      /\ a \in Tab => c \notin closed
      /\ a \in Moderator <=> tx[a].kind \in Deciding
      /\ tx[a].kind \in Deciding => tx[a].photo = {}
      /\ tx[a].kind = "decide" => view[a].rating = review[c].rating
  BY <1>1 DEF Writers
<1>4. /\ new.photos \subseteq review[c].photos \cup tx[a].photo
      /\ new.rating = review[c].rating \/ tx[a].kind \in {"edit", "withdraw"}
      /\ new.status = "none" <=> tx[a].kind = "withdraw"
      /\ new.status = "approved" => tx[a].kind \in Deciding
  BY <1>1 DEF Writers, Writing, WritesWell
<1>5. tx[a].photo \cap (jobs \cup Referenced) = {} /\ tx[a].photo \subseteq files
  BY <1>1 DEF Photos, Writing
<1>6. \A b \in Actor \ {a} :
         /\ tx[b].at \in Holding => tx[b].of # c
         /\ tx[b].of = c /\ tx[b].at # "idle" => new.status # "none"
  <2>1. ASSUME NEW b \in Actor \ {a}, tx[b].at \in Holding PROVE tx[b].of # c
    BY <1>1, <2>1 DEF Writers, Holding, Writing
  <2>2. ASSUME NEW b \in Actor \ {a}, tx[b].of = c, tx[b].at # "idle", new.status = "none"
        PROVE  FALSE
    <3>1. tx[b].at \notin Holding
      BY <2>1, <2>2
    <3>2. b \notin Moderator /\ b \in Tab
      BY <2>2, <3>1 DEF Writers, Holding, Actor
    <3>3. a \in Tab
      BY <1>3, <1>4, <2>2 DEF Actor, Deciding
    <3> QED
      BY <2>2, <3>2, <3>3 DEF Writers
  <2> QED
    BY <2>1, <2>2
<1>7. \A b \in Actor : tx'[b] = IF b = a THEN NoTx ELSE tx[b]
  BY <1>1 DEF Typed
<1>8. /\ view' \in [Moderator -> [of: Customer \cup {NoOne}, rating: Rating, current: BOOLEAN]]
      /\ \A m \in Moderator :
            /\ view'[m].of = view[m].of /\ view'[m].rating = view[m].rating
            /\ view'[m].current => view[m].current /\ (RowUpdated(a) => view[m].of # c)
  <2>1. CASE RowUpdated(a)
    BY <1>1, <1>2, <2>1, TouchStep
  <2>2. CASE ~RowUpdated(a)
    BY <1>2, <2>2 DEF Typed
  <2> QED
    BY <2>1, <2>2
<1> HIDE DEF c, new
<1>9. \A x \in Customer : review'[x] = IF x = c THEN new ELSE review[x]
  BY <1>1 DEF Typed
<1>10. Typed'
  <2>1. seen' \in [Customer -> Rating \cup {Unnamed}]
    BY <1>1, <1>3 DEF Typed
  <2>2. review' \in [Customer -> Review] /\ jobs' \subseteq Photo /\ erasing \subseteq jobs'
    BY <1>1 DEF Typed, Review
  <2>3. /\ tx' = [b \in Actor |-> tx'[b]]
        /\ \A b \in Actor :
              /\ tx'[b].at \in {"idle", "read", "storing", "written", "counted"}
              /\ tx'[b].of \in Customer \cup {NoOne}
              /\ tx'[b].at = "idle" <=> tx'[b].of = NoOne
              /\ tx'[b].new \in Review /\ tx'[b].photo \subseteq Photo
    BY <1>1, <1>7, NoTxFields DEF Typed
  <2> QED
    BY <1>1, <1>8, <2>1, <2>2, <2>3 DEF Typed
<1>11. Writers'
  <2>1. \A b \in Actor \ {a} : tx[b].at \in Writing => review'[tx[b].of] = review[tx[b].of]
    BY <1>6, <1>9 DEF Typed, Holding, Writing
  <2>2. \A b \in Actor \ {a} : tx[b].at \in Writing => WritesWell(b)'
    BY <1>7, <2>1 DEF WritesWell, Writers
  <2>3. ASSUME NEW b \in Actor \ {a}, tx[b].at # "idle"
        PROVE  Written(tx[b].of)'
    <3> DEFINE d == tx[b].of
    <3>1. d \in Customer /\ review[d].status # "none"
      BY <2>3 DEF Typed, Writers, Written
    <3>2. review'[d].status # "none"
      BY <1>6, <1>9, <2>3, <3>1
    <3> QED
      BY <1>7, <3>2 DEF Written
  <2>4. ASSUME NEW b \in Actor \ {a}, tx[b].at # "idle", tx[b].kind = "decide"
        PROVE  view'[b].of = tx[b].of /\ view'[b].rating = review'[tx[b].of].rating
    <3>1. b \in Moderator /\ tx[b].at \in Writing
      BY <2>4 DEF Writers, Deciding
    <3> QED
      BY <1>8, <2>1, <2>4, <3>1 DEF Writers
  <2>5. /\ \A x, y \in Actor :
              tx'[x].at \in Holding /\ tx'[y].at \in Holding /\ tx'[x].of = tx'[y].of => x = y
        /\ \A t, u \in Tab : tx'[t].of = tx'[u].of /\ tx'[t].at # "idle" => t = u
    <3>1. \A x \in Actor : tx'[x].at # "idle" => x # a
      BY <1>7, NoTxFields
    <3>2. \A x, y \in Actor :
             tx'[x].at \in Holding /\ tx'[y].at \in Holding /\ tx'[x].of = tx'[y].of => x = y
      BY <1>7, <3>1 DEF Writers, Holding, Writing
    <3>3. \A x \in Actor : tx'[x].at = "idle" <=> tx'[x].of = NoOne
      BY <1>10 DEF Typed
    <3>4. ASSUME NEW t \in Tab, NEW u \in Tab, tx'[t].of = tx'[u].of, tx'[t].at # "idle"
          PROVE  t = u
      <4>1. t \in Actor /\ u \in Actor /\ t # a /\ u # a
        BY <3>1, <3>3, <3>4 DEF Actor
      <4> QED
        BY <1>7, <3>4, <4>1 DEF Writers
    <3> QED
      BY <3>2, <3>4
  <2>6. \A b \in Actor : tx'[b].at \in Writing => WritesWell(b)'
    BY <1>7, <2>2, NoTxFields DEF Writing
  <2>7. ASSUME NEW b \in Actor, tx'[b].at # "idle"
        PROVE  /\ Written(tx[b].of)'
               /\ b \in Tab => tx'[b].of \notin closed'
               /\ b \in Moderator <=> tx'[b].kind \in Deciding
               /\ tx'[b].at = "storing" => tx'[b].kind = "photo"
               /\ tx'[b].kind \in Deciding => tx'[b].at \in Writing /\ tx'[b].photo = {}
               /\ tx'[b].kind = "decide" =>
                     /\ view'[b].of = tx'[b].of
                     /\ view'[b].rating = review'[tx'[b].of].rating
    <3>1. b # a /\ tx'[b] = tx[b]
      BY <1>7, <2>7, NoTxFields
    <3> QED
      BY <1>1, <2>3, <2>4, <2>7, <3>1 DEF Writers, Written
  <2> QED
    BY <2>5, <2>6, <2>7 DEF Writers
<1>12. ~RowUpdated(a) => new.rating = review[c].rating /\ new.status # "none"
  BY <1>4 DEF RowUpdated, c
<1>13. Screens'
  <2>1. ASSUME NEW m \in Moderator, view'[m].current
        PROVE  /\ view'[m].of \in Customer /\ Written(view[m].of)'
               /\ view'[m].rating = review'[view'[m].of].rating
    <3>1. /\ view'[m].of = view[m].of /\ view'[m].rating = view[m].rating
          /\ view[m].current /\ (RowUpdated(a) => view[m].of # c)
      BY <1>8, <2>1
    <3> QED
      BY <1>9, <1>12, <3>1 DEF Screens, Written
  <2> QED
    BY <1>8, <2>1 DEF Screens
<1>14. Counters'
  BY <1>1, <1>7, NoTxFields DEF Counters
<1>15. Referenced' \subseteq Referenced \cup tx[a].photo
  BY <1>4, <1>9 DEF Referenced
<1>16. review[c].photos \subseteq Referenced
  BY <1>1 DEF Referenced
<1>17. Photos'
  <2>1. \A x, y \in Actor : x # y => tx'[x].photo \cap tx'[y].photo = {}
    BY <1>7, NoTxFields DEF Photos
  <2>2. ASSUME NEW b \in Actor
        PROVE  /\ tx'[b].photo \cap (jobs' \cup Referenced') = {}
               /\ tx'[b].at = "idle" => tx'[b].photo = {}
               /\ tx'[b].at \in Writing => tx'[b].photo \subseteq files'
    <3>1. CASE b = a
      BY <1>7, <3>1, NoTxFields DEF Writing
    <3>2. CASE b # a
      BY <1>1, <1>7, <1>15, <1>16, <3>2 DEF Photos
    <3> QED
      BY <3>1, <3>2
  <2>3. erasing' \cap Referenced' = {}
    BY <1>1, <1>5, <1>15 DEF Photos, Typed
  <2> QED
    BY <2>1, <2>2, <2>3 DEF Photos
<1>18. RatingAgrees'
  <2>1. tx[a].total = Aggregated([review EXCEPT ![c] = new])
    BY <1>1 DEF Counters, c, new
  <2>2. product' = Aggregated(review')
    BY <1>1, <2>1
  <2> QED
    BY <2>2 DEF RatingAgrees, Aggregated
<1>19. ApprovedAsRead'
  <2>1. ASSUME NEW x \in Customer, review'[x].status = "approved",
               seen'[x] # Unnamed
        PROVE  seen'[x] = review'[x].rating
    <3>1. CASE x # c
      BY <1>1, <1>9, <2>1, <3>1 DEF ApprovedAsRead, Typed
    <3>2. CASE x = c
      <4>1. tx[a].kind \in Deciding /\ new.rating = review[c].rating
        BY <1>4, <1>9, <2>1, <3>2 DEF Deciding
      <4>2. seen'[c] = IF tx[a].kind = "decide" /\ new.status = "approved"
                         THEN view[a].rating ELSE Unnamed
        BY <1>1, <4>1 DEF Typed
      <4> QED
        BY <1>3, <1>9, <2>1, <3>2, <4>1, <4>2
    <3> QED
      BY <3>1, <3>2
  <2> QED
    BY <2>1 DEF ApprovedAsRead
<1>20. PhotosHaveFiles'
  BY <1>1, <1>5, <1>15 DEF PhotosHaveFiles
<1>21. ClosedShowsNothing'
  <2>1. c \in closed => tx[a].photo = {}
    BY <1>3 DEF Actor
  <2> QED
    BY <1>1, <1>4, <1>9, <2>1 DEF ClosedShowsNothing, Typed
<1> QED
  BY <1>10, <1>11, <1>13, <1>14, <1>17, <1>18, <1>19, <1>20, <1>21

-----------------------------------------------------------------------------
\* What the locks tell a request that starts on a customer's review.
LEMMA StartFacts ==
  ASSUME RevInv, NEW c \in Customer, ActiveAccount(c)
  PROVE  /\ c \notin closed /\ \A t \in Tab : tx[t].of # c
         /\ RowFree(c) => \A a \in Actor : tx[a].of # c
<1>1. c \notin closed /\ \A t \in Tab : tx[t].of # c
  BY DEF ActiveAccount, AccountFree
<1>2. ASSUME RowFree(c), NEW a \in Moderator PROVE tx[a].of # c
  <2>1. a \in Actor
    BY DEF Actor
  <2>2. tx[a].at # "idle" => tx[a].at \in Writing
    BY <2>1 DEF RevInv, Writers
  <2>3. tx[a].at = "idle" => tx[a].of = NoOne
    BY <2>1 DEF RevInv, Typed
  <2> QED
    BY <1>2, <2>1, <2>2, <2>3, ReviewsAssumption DEF RowFree, Writing
<1> QED
  BY <1>1, <1>2 DEF Actor

\* A customer's requests, step by step.
LEMMA RowSteps ==
  ASSUME RevInv, NEW c \in Customer,
         CloseAccount(c) \/ \E rating \in Rating : Create(c, rating)
  PROVE  RevInv'
<1>1. ASSUME NEW rating \in Rating, Create(c, rating) PROVE RevInv'
  <2> DEFINE new == Row("pending", rating, FALSE, {})
  <2>1. new.status = "pending" /\ new.photos = {} /\ new \in Review
    BY RowFields DEF Row, Review
  <2>2. /\ review' = [review EXCEPT ![c] = new] /\ review[c].status = "none"
        /\ UNCHANGED <<product, closed, files, jobs, erasing, tx, view, seen>>
    BY <1>1 DEF Create, Written
  <2> HIDE DEF new
  <2>3. \A a \in Actor : tx[a].of # c
    BY <2>2, ReviewsAssumption DEF RevInv, Writers, Typed, Written
  <2> QED
    BY <2>1, <2>2, <2>3, RowStep
<1>2. ASSUME CloseAccount(c) PROVE RevInv'
  <2> DEFINE new == Row(review[c].status, review[c].rating, review[c].noted, {})
  <2>1. /\ new.status = review[c].status /\ new.rating = review[c].rating
        /\ new.photos = {} /\ new \in Review
    BY RowFields DEF Row, Review, RevInv, Typed
  <2>2. /\ review' = [review EXCEPT ![c] = new] /\ closed' = closed \cup {c}
        /\ jobs' = jobs \cup review[c].photos /\ Touch(c)
        /\ UNCHANGED <<product, files, erasing, tx, seen>>
    BY <1>2 DEF CloseAccount
  <2> HIDE DEF new
  <2>3. \A a \in Actor : tx[a].of # c
    BY <1>2, StartFacts DEF CloseAccount
  <2> QED
    BY <2>1, <2>2, <2>3, RowStep
<1> QED
  BY <1>1, <1>2

LEMMA StartSteps ==
  ASSUME RevInv, NEW c \in Customer, NEW t \in Tab,
         \/ StartEdit(t, c) \/ Withdraw(t, c)
         \/ \E p \in Photo : StartPhoto(t, c, p) \/ RemovePhoto(t, c, p)
  PROVE  RevInv'
<1>1. t \in Actor /\ t \notin Moderator
  BY ReviewsAssumption DEF Actor
<1>2. /\ tx[t].at = "idle" /\ ActiveAccount(c) /\ Written(c)
      /\ UNCHANGED <<review, product, closed, files, jobs, erasing, view, seen>>
  BY DEF StartEdit, Withdraw, StartPhoto, RemovePhoto, OwnedPhotos, Written
<1>3. c \notin closed /\ \A u \in Tab \ {t} : tx[u].of # c
  BY <1>2, StartFacts
<1>4. RowFree(c) => \A a \in Actor : tx[a].of # c
  BY <1>2, StartFacts
<1>5. review[c] \in Review /\ NoReview \in Review /\ NoReview.status = "none" /\ NoReview.photos = {}
  BY ReviewsAssumption DEF RevInv, Typed, NoReview, Row, Review, Rating
<1>6. CASE StartEdit(t, c)
  <2>1. Open(t, "edit", c, "read", NoReview, {})
    BY <1>6 DEF StartEdit
  <2>2. Opens(t, "edit", c, "read", NoReview, {}, {})
    BY <1>1, <1>2, <1>3, <2>1 DEF Opens, Deciding
  <2> QED
    BY <1>1, <1>5, <2>2, OpenStep
<1>7. CASE Withdraw(t, c)
  <2>1. Open(t, "withdraw", c, "written", NoReview, {}) /\ RowFree(c)
    BY <1>7 DEF Withdraw
  <2>2. Opens(t, "withdraw", c, "written", NoReview, {}, {})
    BY <1>1, <1>2, <1>3, <1>4, <1>5, <2>1 DEF Opens, Deciding
  <2> QED
    BY <1>1, <1>5, <2>2, OpenStep
<1>8. ASSUME NEW p \in Photo, StartPhoto(t, c, p) PROVE RevInv'
  <2>1. Open(t, "photo", c, "storing", review[c], {p}) /\ RowFree(c) /\ p \in Unused
    BY <1>8 DEF StartPhoto, OwnedPhotos
  <2>2. {p} \cap (jobs \cup Referenced) = {} /\ \A b \in Actor : {p} \cap tx[b].photo = {}
    BY <2>1 DEF Unused
  <2>3. Opens(t, "photo", c, "storing", review[c], {p}, {})
    BY <1>1, <1>2, <1>3, <1>4, <2>1, <2>2 DEF Opens, Deciding
  <2> QED
    BY <1>1, <1>5, <2>3, OpenStep
<1>9. ASSUME NEW p \in Photo, RemovePhoto(t, c, p) PROVE RevInv'
  <2> DEFINE new == Changed(review[c], review[c].photos \ {p})
  <2>1. Open(t, "unphoto", c, "written", new, {}) /\ RowFree(c)
    BY <1>9 DEF RemovePhoto, OwnedPhotos
  <2>2. /\ new.status = "pending" /\ new.rating = review[c].rating
        /\ new.photos = review[c].photos \ {p} /\ new \in Review
    BY <1>5, RowFields DEF Changed, Row, Review
  <2> HIDE DEF new
  <2>3. Opens(t, "unphoto", c, "written", new, {}, {})
    BY <1>1, <1>2, <1>3, <1>4, <2>1, <2>2 DEF Opens, Deciding
  <2> QED
    BY <1>1, <2>2, <2>3, OpenStep
<1> QED
  BY <1>6, <1>7, <1>8, <1>9

LEMMA WriteSteps ==
  ASSUME RevInv, NEW t \in Tab,
         StorePhoto(t) \/ \E rating \in Rating : WriteEdit(t, rating)
  PROVE  RevInv'
<1> DEFINE c == tx[t].of
<1>1. t \in Actor /\ t \notin Moderator
  BY ReviewsAssumption DEF Actor
<1>2. /\ tx[t].at \in {"read", "storing"}
      /\ UNCHANGED <<review, product, closed, jobs, erasing, view, seen>>
  BY DEF StorePhoto, WriteEdit
<1>3. /\ c \in Customer /\ c \notin closed /\ Written(c)
      /\ \A u \in Tab \ {t} : tx[u].of # c
      /\ review[c] \in Review
  BY <1>1, <1>2 DEF RevInv, Typed, Writers
<1>4. ASSUME NEW rating \in Rating, WriteEdit(t, rating) PROVE RevInv'
  <2> DEFINE new == Edited(review[c], rating)
  <2>1. /\ new.status = "pending" /\ new.photos = review[c].photos /\ new \in Review
    BY <1>3, RowFields DEF Edited, Row, Review
  <2>2. Open(t, "edit", c, "written", new, {}) /\ RowFree(c) /\ files' = files \cup {}
    BY <1>4 DEF WriteEdit
  <2>3. \A b \in Actor \ {t} : tx[b].of = c => tx[b].at \notin Holding
    BY <2>2 DEF RowFree, Holding, Writing
  <2> HIDE DEF new
  <2>4. Opens(t, "edit", c, "written", new, {}, {})
    BY <1>1, <1>2, <1>3, <2>1, <2>2, <2>3 DEF Opens, Deciding
  <2> HIDE DEF c
  <2> QED
    BY <1>1, <1>3, <2>1, <2>4, OpenStep
<1>5. ASSUME StorePhoto(t) PROVE RevInv'
  <2> DEFINE p == tx[t].photo
             new == Changed(review[c], review[c].photos \cup p)
  <2>1. /\ tx[t].at = "storing" /\ p \in SUBSET Photo
        /\ p \cap (jobs \cup Referenced) = {} /\ \A b \in Actor \ {t} : p \cap tx[b].photo = {}
    BY <1>1, <1>5 DEF StorePhoto, RevInv, Typed, Photos
  <2>2. /\ new.status = "pending" /\ new.rating = review[c].rating
        /\ new.photos = review[c].photos \cup p /\ new \in Review
    BY <1>3, <2>1, RowFields DEF Changed, Row, Review
  <2>3. Open(t, "photo", c, "written", new, p) /\ files' = files \cup p
    BY <1>5 DEF StorePhoto
  <2>4. \A b \in Actor \ {t} : tx[b].of = c => tx[b].at \notin Holding
    BY <1>1, <2>1 DEF RevInv, Writers, Holding
  <2> HIDE DEF new
  <2>5. Opens(t, "photo", c, "written", new, p, p)
    BY <1>1, <1>2, <1>3, <2>1, <2>2, <2>3, <2>4 DEF Opens, Deciding
  <2> HIDE DEF c, p
  <2> QED
    BY <1>1, <1>3, <2>1, <2>2, <2>5, OpenStep
<1> QED
  BY <1>4, <1>5

\* A decision that names its version is on the row the administrator has on screen.
LEMMA DecideStep ==
  ASSUME RevInv, NEW m \in Moderator, NEW c \in Customer, NEW choice \in Decision,
         NEW versioned \in BOOLEAN, Decide(m, c, choice, versioned)
  PROVE  RevInv'
<1> DEFINE new == Row(choice, review[c].rating, TRUE, review[c].photos)
           kind == IF versioned THEN "decide" ELSE "override"
<1>1. /\ Open(m, kind, c, "written", new, {})
      /\ tx[m].at = "idle" /\ RowFree(c) /\ Written(c)
      /\ versioned => view[m].of = c /\ view[m].current
      /\ UNCHANGED <<review, product, closed, files, jobs, erasing, view, seen>>
  BY DEF Decide, CurrentView
<1>2. m \in Actor /\ m \notin Tab
  BY ReviewsAssumption DEF Actor
<1>3. /\ new.status = choice /\ new.rating = review[c].rating
      /\ new.photos = review[c].photos /\ new \in Review
  BY RowFields DEF Row, Review, RevInv, Typed
<1>4. choice # "none"
  BY DEF Decision
<1>5. versioned => view[m].rating = review[c].rating
  BY <1>1 DEF RevInv, Screens
<1>6. \A b \in Actor \ {m} : tx[b].of = c => tx[b].at \notin Holding
  BY <1>1 DEF RowFree, Holding, Writing
<1> HIDE DEF new
<1>7. Opens(m, kind, c, "written", new, {}, {})
  BY <1>1, <1>2, <1>3, <1>4, <1>5, <1>6 DEF Opens, Deciding
<1>8. {} \in SUBSET Photo /\ "written" \in {"read", "storing", "written"}
  OBVIOUS
<1> QED
  BY <1>2, <1>3, <1>7, <1>8, OpenStep

\* Every step keeps the invariant.
LEMMA RevStep == RevInv /\ [Next]_vars => RevInv'
<1> SUFFICES ASSUME RevInv, [Next]_vars PROVE RevInv'
  OBVIOUS
<1>1. CASE OfCustomers
  BY <1>1, RowSteps, StartSteps DEF OfCustomers
<1>2. CASE OfTabs
  BY <1>2, WriteSteps DEF OfTabs
<1>3. CASE OfModerators
  BY <1>3, InspectStep, DecideStep DEF OfModerators
<1>4. CASE OfDatabase
  BY <1>4, CountStep, AbortStep, CommitStep DEF OfDatabase
<1>5. CASE OfWorker
  BY <1>5, JobStep DEF OfWorker
<1>6. CASE UNCHANGED vars
  <2>1. Typed'
    BY <1>6 DEF vars, RevInv, Typed
  <2>2. Writers'
    BY <1>6 DEF vars, RevInv, Writers, WritesWell, Written
  <2>3. Screens' /\ Counters'
    BY <1>6 DEF vars, RevInv, Screens, Counters, Aggregated, Written
  <2>4. Photos' /\ PhotosHaveFiles'
    BY <1>6 DEF vars, RevInv, Photos, PhotosHaveFiles, Referenced
  <2>5. RatingAgrees' /\ ApprovedAsRead' /\ ClosedShowsNothing'
    BY <1>6 DEF vars, RevInv, RatingAgrees, Aggregated, ApprovedAsRead, ClosedShowsNothing
  <2> QED
    BY <2>1, <2>2, <2>3, <2>4, <2>5 DEF RevInv
<1> QED
  BY <1>1, <1>2, <1>3, <1>4, <1>5, <1>6 DEF Next

-----------------------------------------------------------------------------
(* What holds of every behaviour.                                          *)

\* The invariant holds of every reachable state.
LEMMA RevInvariant == Spec => []RevInv
  BY RevInit, RevStep, PTL DEF Spec

(* The product's rating is always that of its approved reviews: writers    *)
(* recompute it under the product's lock, from rows they hold or that      *)
(* nobody can change before they commit.                                   *)
THEOREM RatingIsCurrent == Spec => []RatingAgrees
<1>1. RevInv => RatingAgrees
  BY DEF RevInv
<1> QED
  BY <1>1, RevInvariant, PTL

(* Decisions that name their version approve the rating that was on the    *)
(* administrator's screen, with decisions that name none in between.       *)
THEOREM ApprovalsAreInformed == Spec => []ApprovedAsRead
<1>1. RevInv => ApprovedAsRead
  BY DEF RevInv
<1> QED
  BY <1>1, RevInvariant, PTL

(* Clean-up jobs never delete a photo a review shows.                      *)
THEOREM ShownPhotosExist == Spec => []PhotosHaveFiles
<1>1. RevInv => PhotosHaveFiles
  BY DEF RevInv
<1> QED
  BY <1>1, RevInvariant, PTL

(* A deleted account shows no photo, whatever was under way.               *)
THEOREM ClosedAccountsShowNothing == Spec => []ClosedShowsNothing
<1>1. RevInv => ClosedShowsNothing
  BY DEF RevInv
<1> QED
  BY <1>1, RevInvariant, PTL

\* What is summed up is a pair of natural numbers.
LEMMA AggregateTyped ==
  ASSUME NEW rows \in [Customer -> Review]
  PROVE  Aggregated(rows) \in Aggregate
<1> DEFINE counted == {c \in Customer : rows[c].status = "approved"}
           ratings == [c \in counted |-> rows[c].rating]
<1>1. IsFiniteSet(counted) /\ \A c \in counted : ratings[c] \in Nat
  BY ReviewsAssumption, FS_Subset DEF Review, Rating
<1>2. SumFunctionOnSet(ratings, counted) \in Nat /\ Cardinality(counted) \in Nat
  BY <1>1, SumNat, FS_CardinalityType
<1> HIDE DEF ratings
<1>3. CASE counted = {}
  BY <1>3 DEF Aggregated, Nothing, Aggregate
<1>4. CASE counted # {}
  <2>1. Aggregated(rows) = [sum |-> SumFunctionOnSet(ratings, counted),
                            count |-> Cardinality(counted)]
    BY <1>4 DEF Aggregated, ratings
  <2> QED
    BY <1>2, <2>1 DEF Aggregate
<1> QED
  BY <1>3, <1>4

\* What a transaction does, and what it has counted.
Kinds == {"edit", "photo", "unphoto", "withdraw"} \cup Deciding
Shape == [at: {"idle", "read", "storing", "written", "counted"}, kind: Kinds,
          of: Customer \cup {NoOne}, new: Review, photo: SUBSET Photo, total: Aggregate]

\* Every step leaves the transactions alone or replaces one.
LEMMA OneReplaced ==
  ASSUME RevInv, tx \in [Actor -> Shape], [Next]_vars
  PROVE  \/ UNCHANGED tx
         \/ \E a \in Actor, kind \in Kinds, total \in Aggregate : \E at, of, new, photo :
               tx' = [tx EXCEPT ![a] = Work(at, kind, of, new, photo, total)]
<1>1. Nothing \in Aggregate
  BY DEF Nothing, Aggregate
<1> DEFINE Replaced ==
             \E a \in Actor, kind \in Kinds, total \in Aggregate : \E at, of, new, photo :
                tx' = [tx EXCEPT ![a] = Work(at, kind, of, new, photo, total)]
<1>2. ASSUME NEW a \in Actor, NEW kind \in Kinds, NEW c, NEW step, NEW new, NEW p,
             Open(a, kind, c, step, new, p)
      PROVE  Replaced
  BY <1>1, <1>2 DEF Open
<1>3. ASSUME NEW a \in Actor, tx' = [tx EXCEPT ![a] = NoTx] PROVE Replaced
  BY <1>1, <1>3 DEF NoTx, Kinds
<1>4. ASSUME NEW a \in Actor, Count(a) PROVE Replaced
  <2>1. tx[a].at = "written" /\ tx[a].kind \in Kinds
    BY <1>4 DEF Count, Shape
  <2>2. [review EXCEPT ![tx[a].of] = tx[a].new] \in [Customer -> Review]
    BY <2>1 DEF RevInv, Typed
  <2> HIDE DEF Kinds
  <2> QED
    BY <1>4, <2>1, <2>2, AggregateTyped DEF Count
<1> HIDE DEF Replaced
<1>5. OfCustomers => UNCHANGED tx \/ Replaced
  BY <1>2 DEF OfCustomers, Create, CloseAccount, StartEdit, Withdraw, StartPhoto, RemovePhoto,
         Actor, Kinds
<1>6. OfTabs => Replaced
  BY <1>2 DEF OfTabs, WriteEdit, StorePhoto, Actor, Kinds
<1>7. OfModerators => UNCHANGED tx \/ Replaced
  <2>1. ASSUME NEW m \in Moderator, NEW c \in Customer, NEW choice \in Decision,
               NEW versioned \in BOOLEAN, Decide(m, c, choice, versioned)
        PROVE  Replaced
    BY <1>2, <2>1 DEF Decide, Actor, Kinds, Deciding
  <2> QED
    BY <2>1 DEF OfModerators, Inspect
<1>8. OfDatabase => Replaced
  BY <1>3, <1>4 DEF OfDatabase, Abort, Commit
<1>9. OfWorker => UNCHANGED tx
  BY DEF OfWorker, CheckJob, EraseJob
<1> QED
  BY <1>5, <1>6, <1>7, <1>8, <1>9 DEF Next, vars, Replaced

LEMMA ShapeStep ==
  ASSUME RevInv, tx \in [Actor -> Shape], [Next]_vars
  PROVE  tx' \in [Actor -> Shape]
<1>1. CASE UNCHANGED tx
  BY <1>1
<1>2. ASSUME NEW a \in Actor, NEW at, NEW of, NEW new, NEW photo, NEW kind \in Kinds,
             NEW total \in Aggregate,
             tx' = [tx EXCEPT ![a] = Work(at, kind, of, new, photo, total)]
      PROVE  tx' \in [Actor -> Shape]
  <2>1. Typed' /\ tx'[a] = Work(at, kind, of, new, photo, total)
    BY <1>2, RevStep DEF RevInv
  <2>2. /\ at \in {"idle", "read", "storing", "written", "counted"}
        /\ of \in Customer \cup {NoOne} /\ new \in Review /\ photo \subseteq Photo
    BY <2>1, WorkFields DEF Typed
  <2>3. Work(at, kind, of, new, photo, total) \in Shape
    BY <2>2 DEF Work, Shape
  <2> QED
    BY <1>2, <2>3
<1> QED
  BY <1>1, <1>2, OneReplaced

(* Type correctness: rows, screens and transactions keep their shapes, and *)
(* ratings shown are sums of ratings.                                      *)
THEOREM ReviewTypes == Spec => []TypeOK
<1>1. Init => tx \in [Actor -> Shape]
  <2>1. NoTx \in Shape
    BY NoTxFields DEF NoTx, Work, Shape, Kinds, Nothing, Aggregate
  <2> QED
    BY <2>1 DEF Init
<1>2. RevInv /\ tx \in [Actor -> Shape] /\ [Next]_vars => (tx \in [Actor -> Shape])'
  BY ShapeStep
<1>3. RevInv /\ tx \in [Actor -> Shape] => TypeOK
  BY AggregateTyped DEF RevInv, Typed, RatingAgrees, TypeOK, Shape, Kinds
<1> QED
  BY <1>1, <1>2, <1>3, RevInvariant, PTL DEF Spec

-----------------------------------------------------------------------------
(* One account, for any tokens, addresses, concurrent requests and bounds. *)

\* A token is exchanged for nothing or for one other, and is then gone.
Rotated ==
    \A k \in Token :
        /\ heirs[k] = {} \/ \E n \in Token : heirs[k] = {n}
        /\ heirs[k] # {} => k \notin sessions

\* No address is the default one, or one of the saved ones is.
LoneDefault == default = {} \/ \E a \in addresses : default = {a}

\* Whoever changes an address has found one.
OneFound ==
    \A r \in Request :
        req[r].at \in {"located", "locating"} => \E a \in Address : req[r].address = {a}

\* The clean-up's event is open only while it has a delivery left.
JobHasBudget == job.at = "pending" => job.failed < MaxDeliveries

AccountsInv ==
    /\ AccountsTypeOK
    /\ JobHasBudget
    /\ StillInHand
    /\ NothingOutlives
    /\ Rotated
    /\ LoneDefault
    /\ OneFound
    /\ MailIsCurrent

-----------------------------------------------------------------------------
\* The states of a request.
LEMMA RequestStates ==
  ASSUME NEW at \in {"idle", "arrived", "verifying", "signing_in", "resetting",
                     "refreshing", "located", "locating", "clearing"},
         NEW k \in Token \cup {NoToken}, NEW found \in SUBSET Address
  PROVE  /\ At(at, k, found) \in RequestState
         /\ At(at, k, found).at = at
         /\ At(at, k, found).token = k
         /\ At(at, k, found).address = found
  BY DEF At, RequestState

\* The states of the clean-up's event.
LEMMA JobStates ==
  ASSUME NEW at \in {"none", "pending", "completed", "dead"},
         NEW n \in 0..MaxPublications, NEW f \in 0..MaxDeliveries
  PROVE  /\ Job(at, n, f) \in JobState
         /\ Job(at, n, f).at = at
         /\ Job(at, n, f).published = n
         /\ Job(at, n, f).failed = f
  BY DEF Job, JobState

\* A new account satisfies the invariant.
LEMMA NewAccount == AccountsInit => AccountsInv
<1> SUFFICES ASSUME AccountsInit PROVE AccountsInv
  OBVIOUS
<1>1. Idle \in RequestState /\ Idle.at = "idle"
  BY RequestStates DEF Idle
<1>2. req \in [Request -> RequestState] /\ OneFound
  BY <1>1 DEF AccountsInit, OneFound
<1>3. orders \in 0..MaxOrders /\ heirs \in [Token -> SUBSET Token]
  BY AccountsAssumption DEF AccountsInit
<1>4. job \in JobState /\ JobHasBudget /\ StillInHand
  BY JobStates, AccountsAssumption DEF AccountsInit, JobHasBudget, StillInHand
<1> QED
  BY <1>2, <1>3, <1>4
  DEF AccountsInit, AccountsInv, AccountsTypeOK, NothingOutlives, Rotated, LoneDefault,
      MailIsCurrent, MailState, Mail, Kind

\* A request that moves on, or ends, stays a well-formed one.
LEMMA RequestStep ==
  ASSUME AccountsInv, NEW r \in Request, 
         NEW at \in {"idle", "arrived", "verifying", "signing_in", "resetting", "clearing"},
         Step(r, at)
  PROVE  /\ req' \in [Request -> RequestState]
         /\ OneFound'
<1>1. At(at, NoToken, {}) \in RequestState /\ At(at, NoToken, {}).at = at
  BY RequestStates
<1> QED
  BY <1>1 DEF Step, AccountsInv, AccountsTypeOK, OneFound

\* A request that ends is the idle one.
LEMMA FinishStep ==
  ASSUME NEW r \in Request, Finish(r)
  PROVE  Step(r, "idle")
  BY DEF Finish, Step, Idle

\* A new token has no session, was issued for none, and was never exchanged.
LEMMA NewTokenIsNew ==
  ASSUME NEW k \in NewToken
  PROVE  /\ k \in Token /\ k \notin sessions
         /\ \A x \in Token : k \notin heirs[x]
         /\ heirs[k] = {}
  BY DEF NewToken

\* Signing in, refreshing and signing out keep the invariant.
LEMMA SignStep ==
  ASSUME AccountsInv, NEW r \in Request, Sign(r)
  PROVE  AccountsInv'
<1> USE DEF sessionVars, addressVars, redisVars, mailVars, MailIsCurrent, JobHasBudget,
            StillInHand
<1>1. CASE StartSignIn(r)
  BY <1>1, RequestStep
  DEF StartSignIn, AccountsInv, AccountsTypeOK, NothingOutlives, Rotated, LoneDefault
<1>2. CASE Arrive(r)
  BY <1>2, RequestStep
  DEF Arrive, AccountsInv, AccountsTypeOK, NothingOutlives, Rotated, LoneDefault
<1>3. CASE ChangePassword(r) \/ ResetPassword(r)
  BY <1>3, RequestStep, FinishStep
  DEF ChangePassword, ResetPassword, SignOutEverywhere, AccountsInv, AccountsTypeOK,
      NothingOutlives, Rotated, LoneDefault
<1>8. CASE StartVerify(r)
  BY <1>8, RequestStep
  DEF StartVerify, AccountsInv, AccountsTypeOK, NothingOutlives, Rotated, LoneDefault
<1>9. CASE Verify(r)
  BY <1>9, RequestStep
  DEF Verify, AccountRowFree, AccountsInv, AccountsTypeOK, NothingOutlives, Rotated,
      LoneDefault
<1>10. CASE StartReset(r)
  BY <1>10, RequestStep
  DEF StartReset, AccountsInv, AccountsTypeOK, NothingOutlives, Rotated, LoneDefault
<1>4. ASSUME NEW k \in Token, SignIn(r, k) PROVE AccountsInv'
  BY <1>4, RequestStep, FinishStep, NewTokenIsNew
  DEF SignIn, LockActive, AccountsInv, AccountsTypeOK, NothingOutlives, Rotated, LoneDefault
<1>5. ASSUME NEW k \in Token, StartRefresh(r, k) PROVE AccountsInv'
  <2>1. req' = [req EXCEPT ![r] = At("refreshing", k, {})]
    BY <1>5 DEF StartRefresh
  <2>2. /\ At("refreshing", k, {}) \in RequestState
        /\ At("refreshing", k, {}).at = "refreshing"
    BY RequestStates
  <2>3. req' \in [Request -> RequestState] /\ OneFound'
    BY <2>1, <2>2 DEF AccountsInv, AccountsTypeOK, OneFound
  <2> QED
    BY <1>5, <2>3
    DEF StartRefresh, AccountsInv, AccountsTypeOK, NothingOutlives, Rotated, LoneDefault
<1>6. ASSUME NEW k \in Token, Rotate(r, k) PROVE AccountsInv'
  <2> DEFINE old == req[r].token
  <2>1. /\ old \in sessions /\ old \in Token
        /\ sessions' = (sessions \ {old}) \cup {k}
        /\ heirs' = [heirs EXCEPT ![old] = @ \cup {k}]
        /\ k \in NewToken /\ ~deleted
        /\ Finish(r)
        /\ UNCHANGED <<deleted, addresses, default, orders, cached, job, verified, mail>>
    BY <1>6 DEF Rotate, StillThere, LockActive, AccountsInv, AccountsTypeOK
  <2> HIDE DEF old
  <2>2. heirs[old] = {}
    BY <2>1 DEF AccountsInv, Rotated
  <2>3. heirs' = [heirs EXCEPT ![old] = {k}]
    BY <2>1, <2>2
  <2>4. heirs' \in [Token -> SUBSET Token] /\ sessions' \subseteq Token
    BY <2>1, <2>3 DEF AccountsInv, AccountsTypeOK
  <2>5. Rotated'
    BY <2>1, <2>3, NewTokenIsNew DEF AccountsInv, AccountsTypeOK, Rotated
  <2> QED
    BY <2>1, <2>4, <2>5, RequestStep, FinishStep
    DEF AccountsInv, AccountsTypeOK, NothingOutlives, LoneDefault
<1>7. ASSUME NEW k \in Token, SignOut(r, k) PROVE AccountsInv'
  BY <1>7, RequestStep, FinishStep
  DEF SignOut, AccountsInv, AccountsTypeOK, NothingOutlives, Rotated, LoneDefault
<1> QED
  BY <1>1, <1>2, <1>3, <1>4, <1>5, <1>6, <1>7, <1>8, <1>9, <1>10 DEF Sign

\* Changes of the addresses keep the invariant.
LEMMA AddressStep ==
  ASSUME AccountsInv, NEW r \in Request, Addressing(r)
  PROVE  AccountsInv'
<1> USE DEF sessionVars, addressVars, redisVars, mailVars, MailIsCurrent, JobHasBudget,
            StillInHand
<1>1. ASSUME NEW a \in Address, DeleteAddress(r, a) PROVE AccountsInv'
  BY <1>1, RequestStep, FinishStep
  DEF DeleteAddress, AccountsInv, AccountsTypeOK, NothingOutlives, Rotated, LoneDefault
<1>2. ASSUME NEW a \in Address, NEW chosen \in BOOLEAN, AddAddress(r, a, chosen)
      PROVE AccountsInv'
  BY <1>2, RequestStep, FinishStep
  DEF AddAddress, ClearDefaults, LockActive, AccountsInv, AccountsTypeOK, NothingOutlives,
      Rotated, LoneDefault
<1>3. ASSUME NEW a \in Address, NEW how \in {"located", "locating"}, FindAddress(r, a, how)
      PROVE AccountsInv'
  <2>1. req' = [req EXCEPT ![r] = At(how, NoToken, {a})]
    BY <1>3 DEF FindAddress
  <2>2. At(how, NoToken, {a}) \in RequestState /\ At(how, NoToken, {a}).address = {a}
    BY RequestStates
  <2>3. req' \in [Request -> RequestState] /\ OneFound'
    BY <2>1, <2>2 DEF AccountsInv, AccountsTypeOK, OneFound
  <2> QED
    BY <1>3, <2>3
    DEF FindAddress, AccountsInv, AccountsTypeOK, NothingOutlives, Rotated, LoneDefault
<1>4. ASSUME NEW chosen \in BOOLEAN, UpdateAddress(r, chosen) PROVE AccountsInv'
  <2>1. PICK a \in Address : req[r].address = {a}
    BY <1>4 DEF UpdateAddress, AccountsInv, OneFound
  <2>2. default' = IF chosen THEN {a} \cap addresses ELSE default \ {a}
    BY <1>4, <2>1 DEF UpdateAddress
  <2>3. LoneDefault' /\ default' \subseteq Address
    BY <1>4, <2>2 DEF UpdateAddress, AccountsInv, AccountsTypeOK, LoneDefault
  <2> QED
    BY <1>4, <2>3, RequestStep, FinishStep
    DEF UpdateAddress, AccountsInv, AccountsTypeOK, NothingOutlives, Rotated
<1>5. CASE SetDefault(r)
  <2>1. PICK a \in Address : req[r].address = {a}
    BY <1>5 DEF SetDefault, AccountsInv, OneFound
  <2>2. LoneDefault' /\ default' \subseteq Address
    BY <1>5, <2>1 DEF SetDefault, AccountsInv, AccountsTypeOK, LoneDefault
  <2> QED
    BY <1>5, <2>2, RequestStep, FinishStep
    DEF SetDefault, AccountsInv, AccountsTypeOK, NothingOutlives, Rotated
<1> QED
  BY <1>1, <1>2, <1>3, <1>4, <1>5 DEF Addressing

\* Orders, Redis and the deletion itself keep the invariant.
LEMMA OwnStep ==
  ASSUME AccountsInv, NEW r \in Request, Own(r) \/ Fail(r)
  PROVE  AccountsInv'
<1> USE AccountsAssumption
    DEF sessionVars, addressVars, redisVars, mailVars, MailIsCurrent, JobHasBudget, StillInHand
<1>1. CASE PlaceOrder(r)
  BY <1>1, RequestStep, FinishStep
  DEF PlaceOrder, LockActive, AccountsInv, AccountsTypeOK, NothingOutlives, Rotated,
      LoneDefault
<1>2. CASE WriteRedis(r)
  BY <1>2, RequestStep, FinishStep
  DEF WriteRedis, LockActive, AccountsInv, AccountsTypeOK, NothingOutlives, Rotated, LoneDefault
<1>3. CASE DeleteAccount(r)
  <2>1. job' \in JobState /\ job'.at = "pending" /\ job'.failed = 0
    BY <1>3, JobStates DEF DeleteAccount
  <2> QED
    BY <1>3, <2>1, RequestStep
    DEF DeleteAccount, LockActive, AccountRowFree, Unblocked, AccountsInv, AccountsTypeOK,
        NothingOutlives, Rotated, LoneDefault
<1>4. CASE ClearNow(r)
  BY <1>4, RequestStep, FinishStep
  DEF ClearNow, AccountsInv, AccountsTypeOK, NothingOutlives, Rotated, LoneDefault
<1>5. CASE Fail(r)
  BY <1>5, RequestStep, FinishStep
  DEF Fail, AccountsInv, AccountsTypeOK, NothingOutlives, Rotated, LoneDefault
<1> QED
  BY <1>1, <1>2, <1>3, <1>4, <1>5 DEF Own

\* So does what happens without a request.
LEMMA BackgroundStep ==
  ASSUME AccountsInv,
         \/ \E k \in Token : ExpireSession(k)
         \/ ResendVerification \/ Notify
         \/ OrderEnds \/ EmptyRedis \/ CheckRecipient \/ HandOver
         \/ PublishJob \/ RunJob \/ FailJob \/ ReplayJob
         \/ UNCHANGED accountsVars
  PROVE  AccountsInv'
<1> USE AccountsAssumption
    DEF AccountsInv, AccountsTypeOK, NothingOutlives, Rotated, LoneDefault, OneFound,
        sessionVars, addressVars, redisVars, mailVars, MailIsCurrent, JobHasBudget, StillInHand
<1>1. ASSUME NEW k \in Token, ExpireSession(k) PROVE AccountsInv'
  BY <1>1 DEF ExpireSession
<1>2. CASE OrderEnds
  BY <1>2 DEF OrderEnds
<1>3. CASE EmptyRedis
  BY <1>3 DEF EmptyRedis
<1>4. CASE PublishJob \/ RunJob \/ FailJob \/ ReplayJob
  <2>1. /\ job.published \in 0..MaxPublications /\ job.failed \in 0..MaxDeliveries
        /\ job.at \in {"pending", "dead"}
    BY <1>4 DEF JobState, PublishJob, RunJob, FailJob, ReplayJob
  <2>2. CASE PublishJob
    <3>1. \/ /\ job.published + 1 \in 0..MaxPublications
             /\ job' = Job("pending", job.published + 1, job.failed)
          \/ job' = Job("dead", job.published, job.failed)
      BY <2>1, <2>2 DEF PublishJob
    <3>2. job' \in JobState /\ job'.at \in {"pending", "dead"} /\ job'.failed = job.failed
      BY <2>1, <3>1, JobStates
    <3> QED
      BY <2>2, <3>2 DEF PublishJob
  <2>3. CASE RunJob
    <3>1. job' \in JobState /\ job'.at = "completed"
      BY <2>1, <2>3, JobStates DEF RunJob
    <3> QED
      BY <2>3, <3>1 DEF RunJob, Forget
  <2>4. CASE FailJob
    <3>1. job.failed + 1 \in 0..MaxDeliveries
      BY <2>1, <2>4 DEF FailJob
    <3>2. /\ job' \in JobState /\ job'.at \in {"pending", "dead"}
          /\ job'.at = "pending" => job'.failed < MaxDeliveries
      BY <2>1, <2>4, <3>1, JobStates DEF FailJob
    <3> QED
      BY <2>4, <3>2 DEF FailJob
  <2>5. CASE ReplayJob
    <3>1. job' \in JobState /\ job'.at = "pending" /\ job'.failed = 0
      BY <2>5, JobStates DEF ReplayJob
    <3> QED
      BY <2>5, <3>1 DEF ReplayJob
  <2> QED
    BY <1>4, <2>2, <2>3, <2>4, <2>5
<1>5. CASE UNCHANGED accountsVars
  BY <1>5 DEF accountsVars
<1>6. CASE ResendVerification \/ Notify
  BY <1>6 DEF ResendVerification, Notify, QueueMail, MailState, Mail, Kind
<1>7. CASE CheckRecipient
  BY <1>7 DEF CheckRecipient, MailState, Mail
<1>8. CASE HandOver
  BY <1>8 DEF HandOver, MailState, Mail
<1> QED
  BY <1>1, <1>2, <1>3, <1>4, <1>5, <1>6, <1>7, <1>8

\* The empty set and singletons have at most one element.
LEMMA LoneCounts ==
  ASSUME NEW S, S = {} \/ \E x : S = {x}
  PROVE  Cardinality(S) =< 1
<1>1. CASE S = {}
  BY <1>1, FS_EmptySet
<1>2. ASSUME NEW x, S = {x} PROVE Cardinality(S) =< 1
  BY <1>2, FS_Singleton
<1> QED
  BY <1>1, <1>2

\* The invariant holds of every reachable state.
LEMMA AccountsInvariant == AccountsSpec => []AccountsInv
<1>1. AccountsInv /\ [AccountsNext]_accountsVars => AccountsInv'
  BY SignStep, AddressStep, OwnStep, BackgroundStep DEF AccountsNext
<1> QED
  BY NewAccount, <1>1, PTL DEF AccountsSpec

-----------------------------------------------------------------------------
(* The rows keep their types. *)
THEOREM AccountTypes == AccountsSpec => []AccountsTypeOK
  BY AccountsInvariant, PTL DEF AccountsInv

(* Nothing of a deleted account survives its deletion or is written after  *)
(* it: every writer looks at deleted_at again under the row's lock.        *)
THEOREM DeletionIsFinal == AccountsSpec => []NothingOutlives
  BY AccountsInvariant, PTL DEF AccountsInv

(* Two tabs that refresh with one token: the second finds it gone under    *)
(* the lock, whatever it had read before.                                  *)
THEOREM TokensRotateOnce == AccountsSpec => []RotatedOnce
<1>1. AccountsInv => RotatedOnce
  BY LoneCounts DEF AccountsInv, Rotated, RotatedOnce
<1> QED
  BY AccountsInvariant, <1>1, PTL

(* No mail is handed over for an account deleted meanwhile, nor a link for *)
(* an address verified meanwhile: the job holds the account's row.         *)
THEOREM MailsAreCurrent == AccountsSpec => []MailIsCurrent
  BY AccountsInvariant, PTL DEF AccountsInv

(* What Redis kept of a deleted account is always in the hands of an event *)
(* of the outbox, to be published or, as a dead letter, to be replayed.    *)
THEOREM CleanUpStaysInHand == AccountsSpec => []StillInHand
  BY AccountsInvariant, PTL DEF AccountsInv

(* Concurrent changes leave at most one default address, and a saved one.  *)
THEOREM AtMostOneDefault == AccountsSpec => []OneDefault
<1>1. AccountsInv => OneDefault
  BY LoneCounts DEF AccountsInv, LoneDefault, OneDefault
<1> QED
  BY AccountsInvariant, <1>1, PTL

-----------------------------------------------------------------------------
(* Returns, for any parts, items, quantities and returns.                  *)

\* The units of i in active returns, and those in refunded ones, by return.
Active(i) == [r \in Return |-> IF status[r] \in {"none", "rejected"} THEN 0 ELSE claim[r][i]]
Given(i) == [r \in Return |-> IF status[r] = "refunded" THEN claim[r][i] ELSE 0]

ActiveOf(i) == SumFunctionOnSet(Active(i), Return)
GivenOf(i) == SumFunctionOnSet(Given(i), Return)

UnitsFit == \A i \in Item : ActiveOf(i) <= Bought[i] /\ restocked[i] = GivenOf(i)

\* A return that is not yet received has no refund; its refund ends with it.
RefundsFollow ==
    \A r \in Return : /\ refund[r] = "pending" => status[r] = "received"
                      /\ refund[r] = "done" <=> status[r] = "refunded"

ReturnsInv == ReturnsTypeOK /\ UnitsFit /\ RefundsFollow

\* The columns are made of natural numbers.
LEMMA Columns ==
    ASSUME ReturnsTypeOK, NEW i \in Item
    PROVE  /\ \A r \in Return :
                 claim[r][i] \in Nat /\ Active(i)[r] \in Nat /\ Given(i)[r] \in Nat
           /\ ActiveOf(i) \in Nat /\ GivenOf(i) \in Nat
           /\ IsFiniteSet(Return) /\ Bought[i] \in Nat
<1>1. \A r \in Return : claim[r][i] \in Nat /\ Active(i)[r] \in Nat /\ Given(i)[r] \in Nat
  BY DEF ReturnsTypeOK, Active, Given
<1>2. ActiveOf(i) \in Nat /\ GivenOf(i) \in Nat
  BY <1>1, ReturnsAssumption, SumNat DEF ActiveOf, GivenOf
<1> QED
  BY <1>1, <1>2, ReturnsAssumption

\* What a set of active returns claims besides is part of what all of them claim.
LEMMA ClaimedWithin ==
    ASSUME ReturnsTypeOK, NEW i \in Item, NEW R \in SUBSET Return
    PROVE  /\ Claimed(R, i) \in Nat
           /\ (/\ \A r \in R : Active(i)[r] = claim[r][i]
               /\ \A r \in Return \ R : Active(i)[r] = 0)
              => Claimed(R, i) = ActiveOf(i)
           /\ (/\ \A r \in R : Given(i)[r] = claim[r][i]
               /\ \A r \in Return \ R : Given(i)[r] = 0)
              => Claimed(R, i) = GivenOf(i)
<1> DEFINE f == [r \in R |-> claim[r][i]]
<1>1. IsFiniteSet(R) /\ IsFiniteSet(Return)
  BY ReturnsAssumption, FS_Subset
<1>2. \A r \in R : f[r] \in Nat /\ f[r] = claim[r][i]
  BY DEF ReturnsTypeOK
<1> HIDE DEF f
<1>3. SumFunctionOnSet(f, R) \in Nat
  BY <1>1, <1>2, SumNat
<1>4. ASSUME \A r \in R : Active(i)[r] = claim[r][i], \A r \in Return \ R : Active(i)[r] = 0
      PROVE  SumFunctionOnSet(f, R) = ActiveOf(i)
  <2>1. Extends(Active(i), Return, f, R)
    BY <1>2, <1>4 DEF Extends
  <2> QED
    BY <1>1, <2>1, SumExtend DEF ActiveOf
<1>5. ASSUME \A r \in R : Given(i)[r] = claim[r][i], \A r \in Return \ R : Given(i)[r] = 0
      PROVE  SumFunctionOnSet(f, R) = GivenOf(i)
  <2>1. Extends(Given(i), Return, f, R)
    BY <1>2, <1>5 DEF Extends
  <2> QED
    BY <1>1, <2>1, SumExtend DEF GivenOf
<1> QED
  BY <1>3, <1>4, <1>5 DEF f, Claimed

\* When one return moves, its columns do.
LEMMA OneMoves ==
    ASSUME ReturnsTypeOK, ReturnsTypeOK', NEW i \in Item, NEW r \in Return,
           \A q \in Return : q # r => status'[q] = status[q] /\ claim'[q] = claim[q]
    PROVE  /\ ActiveOf(i)' = ActiveOf(i) + Active(i)'[r] - Active(i)[r]
           /\ GivenOf(i)' = GivenOf(i) + Given(i)'[r] - Given(i)[r]
<1>1. /\ \A q \in Return : Active(i)[q] \in Nat /\ Given(i)[q] \in Nat
      /\ \A q \in Return : Active(i)'[q] \in Nat /\ Given(i)'[q] \in Nat
  BY DEF ReturnsTypeOK, Active, Given
<1>2. DifferAt(Active(i), Active(i)', Return, r) /\ DifferAt(Given(i), Given(i)', Return, r)
  BY <1>1 DEF DifferAt, Active, Given
<1>3. SumFunctionOnSet(Active(i)', Return)
        = SumFunctionOnSet(Active(i), Return) + Active(i)'[r] - Active(i)[r]
  BY <1>2, ReturnsAssumption, SumChange
<1>4. SumFunctionOnSet(Given(i)', Return)
        = SumFunctionOnSet(Given(i), Return) + Given(i)'[r] - Given(i)[r]
  BY <1>2, ReturnsAssumption, SumChange
<1> QED
  BY <1>3, <1>4 DEF ActiveOf, GivenOf

\* What a return that claims nothing yet may claim.
LEMMA FitsBeside ==
    ASSUME ReturnsTypeOK, NEW r \in Return, status[r] \in {"none", "rejected"},
           NEW c, QuantitiesFit(r, c)
    PROVE  \A i \in Item : c[i] + ActiveOf(i) <= Bought[i]
<1> SUFFICES ASSUME NEW i \in Item PROVE c[i] + ActiveOf(i) <= Bought[i]
  OBVIOUS
<1>1. c[i] + Claimed(Claiming \ {r}, i) <= Bought[i]
  BY DEF QuantitiesFit
<1>2. Claiming \ {r} \in SUBSET Return
  BY DEF Claiming
<1>3. /\ \A q \in Claiming \ {r} : Active(i)[q] = claim[q][i]
      /\ \A q \in Return \ (Claiming \ {r}) : Active(i)[q] = 0
  BY DEF Claiming, Active
<1>4. Claimed(Claiming \ {r}, i) = ActiveOf(i)
  BY <1>2, <1>3, ClaimedWithin
<1> QED
  BY <1>1, <1>4

\* At first nothing is claimed.
LEMMA NoReturns == ReturnsInit => ReturnsInv
<1> SUFFICES ASSUME ReturnsInit PROVE ReturnsInv
  OBVIOUS
<1>1. ReturnsTypeOK /\ RefundsFollow
  BY DEF ReturnsInit, ReturnsTypeOK, RefundsFollow
<1>2. ASSUME NEW i \in Item PROVE ActiveOf(i) = 0 /\ GivenOf(i) = 0
  <2>1. \A r \in Return : Active(i)[r] = 0 /\ Given(i)[r] = 0
    BY DEF ReturnsInit, Active, Given
  <2> QED
    BY <2>1, ReturnsAssumption, SumZero DEF ActiveOf, GivenOf
<1>3. UnitsFit
  BY <1>2, ReturnsAssumption DEF UnitsFit, ReturnsInit
<1> QED
  BY <1>1, <1>3 DEF ReturnsInv

\* A request claims units that nobody else claims.
LEMMA RequestReturnStep ==
    ASSUME ReturnsInv, NEW r \in Return, NEW p \in Part, NEW c \in [Item -> 0..MaxBought],
           RequestReturn(r, p, c)
    PROVE  ReturnsInv'
<1> USE DEF ReturnsInv
<1>1. /\ status[r] = "none" /\ QuantitiesFit(r, c)
      /\ status' = [status EXCEPT ![r] = "requested"]
      /\ part' = [part EXCEPT ![r] = p]
      /\ claim' = [claim EXCEPT ![r] = c]
      /\ UNCHANGED <<dispute, refund, restocked, mature, released>>
  BY DEF RequestReturn, SetStatus
<1>2. \A i \in Item : c[i] \in Nat
  OBVIOUS
<1>3. ReturnsTypeOK' /\ RefundsFollow'
  BY <1>1, <1>2 DEF ReturnsTypeOK, RefundsFollow, ReturnStatus
<1>4. ASSUME NEW i \in Item PROVE ActiveOf(i)' <= Bought[i] /\ restocked'[i] = GivenOf(i)'
  <2>1. ActiveOf(i)' = ActiveOf(i) + c[i] /\ GivenOf(i)' = GivenOf(i)
    <3>1. /\ Active(i)'[r] = c[i] /\ Active(i)[r] = 0 /\ Given(i)'[r] = 0 /\ Given(i)[r] = 0
          /\ \A q \in Return : q # r => status'[q] = status[q] /\ claim'[q] = claim[q]
      BY <1>1 DEF Active, Given, ReturnsTypeOK
    <3> QED
      BY <1>2, <1>3, <3>1, OneMoves, Columns
  <2>2. c[i] + ActiveOf(i) <= Bought[i]
    BY <1>1, FitsBeside
  <2> QED
    BY <1>1, <1>2, <2>1, <2>2, Columns DEF UnitsFit
<1>5. UnitsFit'
  BY <1>4 DEF UnitsFit
<1> QED
  BY <1>3, <1>5

\* Decisions that keep or give up what a return claims; everything but statuses and
\* disputes stays.
LEMMA DecisionStep ==
    ASSUME ReturnsInv, NEW r \in Return,
           \/ ApproveReturn(r) \/ RejectReturn(r) \/ MarkReceived(r)
           \/ OpenDispute(r) \/ AnswerDispute(r) \/ ResolveForSeller(r)
    PROVE  ReturnsInv'
<1> USE DEF ReturnsInv
<1>1. CASE OpenDispute(r) \/ AnswerDispute(r) \/ ResolveForSeller(r)
  <2>1. UNCHANGED <<status, claim, refund, restocked>> /\ ReturnsTypeOK'
    BY <1>1
    DEF OpenDispute, AnswerDispute, ResolveForSeller, SetDispute, ReturnsTypeOK,
        DisputeStatus
  <2>2. \A i : ActiveOf(i)' = ActiveOf(i) /\ GivenOf(i)' = GivenOf(i)
    BY <2>1 DEF ActiveOf, Active, GivenOf, Given
  <2> QED
    BY <2>1, <2>2 DEF UnitsFit, RefundsFollow
<1>2. ASSUME NEW from, NEW to \in {"approved", "rejected", "received"},
             DecideReturn(r, from, to),
             from \in {"requested", "approved"}
      PROVE  ReturnsInv'
  <2>1. /\ status[r] = from /\ status' = [status EXCEPT ![r] = to]
        /\ UNCHANGED <<part, claim, dispute, refund, restocked, mature, released>>
    BY <1>2 DEF DecideReturn, SetStatus
  <2>2. ReturnsTypeOK' /\ RefundsFollow'
    BY <1>2, <2>1 DEF ReturnsTypeOK, RefundsFollow, ReturnStatus
  <2>3. ASSUME NEW i \in Item PROVE ActiveOf(i)' <= Bought[i] /\ restocked'[i] = GivenOf(i)'
    <3>1. /\ Active(i)'[r] \in {0, claim[r][i]} /\ Active(i)[r] = claim[r][i]
          /\ Given(i)'[r] = 0 /\ Given(i)[r] = 0
          /\ \A q \in Return : q # r => status'[q] = status[q] /\ claim'[q] = claim[q]
      BY <1>2, <2>1 DEF Active, Given, ReturnsTypeOK
    <3>2. /\ ActiveOf(i)' = ActiveOf(i) + Active(i)'[r] - Active(i)[r]
          /\ GivenOf(i)' = GivenOf(i) + Given(i)'[r] - Given(i)[r]
      BY <2>2, <3>1, OneMoves
    <3> QED
      BY <2>1, <3>1, <3>2, Columns DEF UnitsFit
  <2> QED
    BY <2>2, <2>3 DEF UnitsFit
<1>3. CASE ApproveReturn(r) \/ RejectReturn(r) \/ MarkReceived(r)
  BY <1>2, <1>3 DEF ApproveReturn, RejectReturn, MarkReceived
<1> QED
  BY <1>1, <1>3

\* A return won in a dispute claims its units anew, if they are still free.
LEMMA ResolveForCustomerStep ==
    ASSUME ReturnsInv, NEW r \in Return, ResolveForCustomer(r)
    PROVE  ReturnsInv'
<1> USE DEF ReturnsInv
<1>1. /\ status[r] = "rejected" /\ QuantitiesFit(r, claim[r])
      /\ status' = [status EXCEPT ![r] = "approved"]
      /\ dispute' = [dispute EXCEPT ![r] = "resolved_customer"]
      /\ UNCHANGED <<part, claim, refund, restocked, mature, released>>
  BY DEF ResolveForCustomer, SetStatus, SetDispute
<1>2. ReturnsTypeOK' /\ RefundsFollow'
  BY <1>1 DEF ReturnsTypeOK, RefundsFollow, ReturnStatus, DisputeStatus
<1>3. ASSUME NEW i \in Item PROVE ActiveOf(i)' <= Bought[i] /\ restocked'[i] = GivenOf(i)'
  <2>1. /\ Active(i)'[r] = claim[r][i] /\ Active(i)[r] = 0
        /\ Given(i)'[r] = 0 /\ Given(i)[r] = 0
        /\ \A q \in Return : q # r => status'[q] = status[q] /\ claim'[q] = claim[q]
    BY <1>1 DEF Active, Given, ReturnsTypeOK
  <2>2. ActiveOf(i)' = ActiveOf(i) + claim[r][i] /\ GivenOf(i)' = GivenOf(i)
    BY <1>2, <2>1, OneMoves, Columns
  <2>3. claim[r][i] + ActiveOf(i) <= Bought[i]
    BY <1>1, FitsBeside
  <2> QED
    BY <1>1, <2>2, <2>3, Columns DEF UnitsFit
<1> QED
  BY <1>2, <1>3 DEF UnitsFit

\* A confirmed refund puts the claimed units back, and the return keeps claiming them.
LEMMA ConfirmStep ==
    ASSUME ReturnsInv, NEW r \in Return, ProcessRefund(r) \/ ConfirmRefund(r)
    PROVE  ReturnsInv'
<1> USE DEF ReturnsInv
<1>1. CASE ProcessRefund(r)
  <2>1. /\ status[r] = "received" /\ refund[r] = "none"
        /\ refund' = [refund EXCEPT ![r] = "pending"]
        /\ UNCHANGED <<status, part, claim, dispute, restocked, mature, released>>
    BY <1>1 DEF ProcessRefund
  <2>2. \A i : ActiveOf(i)' = ActiveOf(i) /\ GivenOf(i)' = GivenOf(i)
    BY <2>1 DEF ActiveOf, Active, GivenOf, Given
  <2> QED
    BY <2>1, <2>2 DEF ReturnsTypeOK, RefundsFollow, UnitsFit
<1>2. CASE ConfirmRefund(r)
  <2>1. /\ status[r] = "received" /\ refund[r] = "pending"
        /\ restocked' = [i \in Item |-> restocked[i] + claim[r][i]]
        /\ status' = [status EXCEPT ![r] = "refunded"]
        /\ refund' = [refund EXCEPT ![r] = "done"]
        /\ UNCHANGED <<part, claim, dispute, mature, released>>
    BY <1>2 DEF ConfirmRefund, SetStatus
  <2>2. ReturnsTypeOK' /\ RefundsFollow'
    BY <2>1 DEF ReturnsTypeOK, RefundsFollow, ReturnStatus
  <2>3. ASSUME NEW i \in Item PROVE ActiveOf(i)' <= Bought[i] /\ restocked'[i] = GivenOf(i)'
    <3>1. /\ Active(i)'[r] = claim[r][i] /\ Active(i)[r] = claim[r][i]
          /\ Given(i)'[r] = claim[r][i] /\ Given(i)[r] = 0
          /\ \A q \in Return : q # r => status'[q] = status[q] /\ claim'[q] = claim[q]
      BY <2>1 DEF Active, Given, ReturnsTypeOK
    <3>2. ActiveOf(i)' = ActiveOf(i) /\ GivenOf(i)' = GivenOf(i) + claim[r][i]
      BY <2>2, <3>1, OneMoves, Columns
    <3> QED
      BY <2>1, <3>2, Columns DEF UnitsFit
  <2> QED
    BY <2>2, <2>3 DEF UnitsFit
<1> QED
  BY <1>1, <1>2

\* Every step keeps the invariant.
LEMMA ReturnsStep == ReturnsInv /\ [ReturnsNext]_returnsVars => ReturnsInv'
<1> SUFFICES ASSUME ReturnsInv, [ReturnsNext]_returnsVars PROVE ReturnsInv'
  OBVIOUS
<1>1. ASSUME NEW r \in Return, ByCustomer(r) \/ ByBrand(r) \/ ByAdministrator(r)
      PROVE  ReturnsInv'
  BY <1>1, RequestReturnStep, DecisionStep, ResolveForCustomerStep, ConfirmStep
  DEF ByCustomer, ByBrand, ByAdministrator
<1>2. CASE (\E p \in Part : Mature(p)) \/ ReleaseMature \/ UNCHANGED returnsVars
  <2>1. UNCHANGED rowVars /\ UNCHANGED restocked /\ ReturnsTypeOK'
    BY <1>2 DEF Mature, ReleaseMature, returnsVars, rowVars, ReturnsInv, ReturnsTypeOK
  <2>2. \A i : ActiveOf(i)' = ActiveOf(i) /\ GivenOf(i)' = GivenOf(i)
    BY <2>1 DEF ActiveOf, Active, GivenOf, Given, rowVars
  <2> QED
    BY <2>1, <2>2 DEF ReturnsInv, UnitsFit, RefundsFollow, rowVars
<1> QED
  BY <1>1, <1>2 DEF ReturnsNext

\* The invariant holds of every reachable state.
LEMMA ReturnsInvariant == ReturnsSpec => []ReturnsInv
  BY NoReturns, ReturnsStep, PTL DEF ReturnsSpec

(* Returns keep their types: no quantity goes below zero.                  *)
THEOREM ReturnTypes == ReturnsSpec => []ReturnsTypeOK
  BY ReturnsInvariant, PTL DEF ReturnsInv

(* The returns that stand never claim more units than were bought, whatever*)
(* was rejected, disputed, claimed anew and decided in between.            *)
THEOREM ReturnsClaimWhatWasBought == ReturnsSpec => []ClaimsFit
<1>1. ReturnsInv => ClaimsFit
  <2> SUFFICES ASSUME ReturnsInv, NEW i \in Item PROVE Claimed(Claiming, i) <= Bought[i]
    BY DEF ClaimsFit
  <2>1. Claiming \in SUBSET Return
    BY DEF Claiming
  <2>2. /\ \A r \in Claiming : Active(i)[r] = claim[r][i]
        /\ \A r \in Return \ Claiming : Active(i)[r] = 0
    BY DEF Claiming, Active
  <2> QED
    BY <2>1, <2>2, ClaimedWithin DEF ReturnsInv, UnitsFit
<1> QED
  BY <1>1, ReturnsInvariant, PTL

\* The units of refunded returns are some of those of the active ones.
LEMMA GivenWithin ==
    ASSUME ReturnsTypeOK, NEW i \in Item
    PROVE  /\ GivenOf(i) <= ActiveOf(i)
           /\ \A r \in Return : status[r] = "received" =>
                 claim[r][i] + GivenOf(i) <= ActiveOf(i)
<1>1. GivenOf(i) <= ActiveOf(i)
  <2>1. \A r \in Return : /\ Given(i)[r] \in Int /\ Active(i)[r] \in Int
                          /\ Given(i)[r] <= Active(i)[r]
    BY DEF ReturnsTypeOK, Given, Active
  <2> QED
    BY <2>1, ReturnsAssumption, SumAtMost DEF GivenOf, ActiveOf
<1>2. ASSUME NEW r \in Return, status[r] = "received"
      PROVE  claim[r][i] + GivenOf(i) <= ActiveOf(i)
  <2> DEFINE both == [q \in Return |-> IF q = r THEN claim[r][i] ELSE Given(i)[q]]
  <2>1. \A q \in Return : /\ both[q] \in Int /\ Active(i)[q] \in Int
                          /\ both[q] <= Active(i)[q]
    BY <1>2 DEF ReturnsTypeOK, Given, Active
  <2>2. DifferAt(Given(i), both, Return, r) /\ Given(i)[r] = 0 /\ both[r] = claim[r][i]
    BY <1>2 DEF DifferAt, ReturnsTypeOK, Given
  <2> HIDE DEF both
  <2>3. SumFunctionOnSet(both, Return)
          = SumFunctionOnSet(Given(i), Return) + both[r] - Given(i)[r]
    BY <2>2, ReturnsAssumption, SumChange
  <2>4. SumFunctionOnSet(both, Return) <= SumFunctionOnSet(Active(i), Return)
    BY <2>1, ReturnsAssumption, SumAtMost
  <2> QED
    BY <2>2, <2>3, <2>4, Columns DEF GivenOf, ActiveOf
<1> QED
  BY <1>1, <1>2

(* Units come back to the shelf with the refund of the return that claims  *)
(* them, once, and never more than were bought.                            *)
THEOREM UnitsComeBackOnce == ReturnsSpec => []RestockedOnce
<1>1. ReturnsInv => RestockedOnce
  <2> SUFFICES ASSUME ReturnsInv, NEW i \in Item
               PROVE  /\ restocked[i] = Claimed({r \in Return : refund[r] = "done"}, i)
                      /\ restocked[i] <= Bought[i]
    BY DEF RestockedOnce
  <2> DEFINE R == {r \in Return : refund[r] = "done"}
  <2>1. /\ \A r \in R : Given(i)[r] = claim[r][i]
        /\ \A r \in Return \ R : Given(i)[r] = 0
    BY DEF Given, ReturnsInv, RefundsFollow
  <2>2. Claimed(R, i) = GivenOf(i)
    BY <2>1, ClaimedWithin DEF ReturnsInv
  <2> QED
    BY <2>2, GivenWithin, Columns DEF ReturnsInv, UnitsFit
<1> QED
  BY <1>1, ReturnsInvariant, PTL

(* No confirmation is refused for its quantities: whoever else claimed     *)
(* units in between, those of a pending refund are still its own.          *)
THEOREM PendingRefundsStayValid == ReturnsSpec => []PendingRefundsFit
<1>1. ReturnsInv => PendingRefundsFit
  <2> SUFFICES ASSUME ReturnsInv, NEW r \in Return, refund[r] = "pending"
               PROVE  /\ status[r] = "received"
                      /\ \A i \in Item :
                            claim[r][i]
                               + Claimed({q \in Return \ {r} : status[q] = "refunded"}, i)
                                  <= Bought[i]
    BY DEF PendingRefundsFit
  <2>1. status[r] = "received"
    BY DEF ReturnsInv, RefundsFollow
  <2>2. ASSUME NEW i \in Item
        PROVE  claim[r][i] + Claimed({q \in Return \ {r} : status[q] = "refunded"}, i)
                  <= Bought[i]
    <3> DEFINE R == {q \in Return \ {r} : status[q] = "refunded"}
    <3>1. /\ \A q \in R : Given(i)[q] = claim[q][i]
          /\ \A q \in Return \ R : Given(i)[q] = 0
      BY <2>1 DEF Given
    <3>2. Claimed(R, i) = GivenOf(i)
      BY <3>1, ClaimedWithin DEF ReturnsInv
    <3> QED
      BY <2>1, <3>2, GivenWithin, Columns DEF ReturnsInv, UnitsFit
  <2> QED
    BY <2>1, <2>2
<1> QED
  BY <1>1, ReturnsInvariant, PTL

=============================================================================
