------------------------------ MODULE Listings ------------------------------
(***************************************************************************)
(* A brand, its listings and their images: registration and the decisions  *)
(* of administrators, the seller's requests about products, slots and      *)
(* images, and the nightly sweep of stored files nobody refers to.         *)
(*                                                                         *)
(* A seller's request passes the gate (require_seller, no lock), then      *)
(* locks the brand's row and reads what it decides on, then writes and     *)
(* commits.  Several requests of one brand, the administrators and the     *)
(* sweep interleave between those steps.  A request that fails, whatever   *)
(* the reason, rolls back; files it stored or meant to erase stay behind.  *)
(***************************************************************************)
EXTENDS Naturals, FiniteSets

CONSTANTS
    Product,        \* products the brand may create
    Image,          \* identities (URLs) of product images
    Request,        \* concurrent requests of the seller
    MaxImages,      \* MAX_IMAGES_PER_PRODUCT
    BaseSlots,      \* slots a registration comes with
    MaxSlots,       \* bound: most slots the brand buys up to
    NoProduct       \* of a request that has none

ASSUME ListingsAssumption ==
    /\ IsFiniteSet(Product) /\ IsFiniteSet(Image)
    /\ MaxImages \in Nat /\ BaseSlots \in Nat /\ MaxSlots \in Nat

VARIABLES
    status,     \* the sellers row: status of the brand,
    settled,    \*   whether the registration fee is paid or was waived,
    used,       \*   slots_used
    total,      \*   and total_slots
    state,      \* the products rows: draft, published, deleted,
    variants,   \*   whether there are variants, inactive ones included,
    images,     \*   the image rows
    primary,    \*   and those marked as the cover
    files,      \* product images in object storage
    fresh,      \* of these, the ones stored less than 24 hours ago
    req,        \* the seller's requests in progress
    sweep       \* the files the orphan sweep decided to delete

vars == <<status, settled, used, total, state, variants, images, primary,
          files, fresh, req, sweep>>
brandVars == <<status, settled, used, total>>
productVars == <<state, variants, images, primary>>
fileVars == <<files, fresh>>

Status == {"pending_payment", "pending_approval", "active", "suspended",
           "rejected"}

\* A request: how far it came, the product it works on, the images it stores
\* or erases, and what it read once it held the brand's row.
State == {"none", "draft", "published", "deleted"}
Snapshot == [used: Nat, total: Nat, status: Status, state: State, variants: BOOLEAN,
             images: SUBSET Image, primary: SUBSET Image]
NoSnapshot == [used |-> 0, total |-> 0, status |-> "active", state |-> "none",
               variants |-> FALSE, images |-> {}, primary |-> {}]
RequestState == [at: {"idle", "gated", "locked", "storing", "erasing"},
                 product: Product \cup {NoProduct}, images: SUBSET Image, seen: Snapshot]
At(at, p, some, seen) == [at |-> at, product |-> p, images |-> some, seen |-> seen]
Idle == At("idle", NoProduct, {}, NoSnapshot)

TypeOK ==
    /\ status \in Status /\ settled \in BOOLEAN
    /\ used \in Nat /\ total \in Nat
    /\ state \in [Product -> State] /\ variants \in [Product -> BOOLEAN]
    /\ images \in [Product -> SUBSET Image] /\ primary \in [Product -> SUBSET Image]
    /\ files \subseteq Image /\ fresh \subseteq files
    /\ req \in [Request -> RequestState]
    /\ sweep \subseteq Image

(* A registration may owe no fee: then it waits for approval at once. *)
Init ==
    /\ settled \in BOOLEAN
    /\ status = IF settled THEN "pending_approval" ELSE "pending_payment"
    /\ used = 0 /\ total = BaseSlots
    /\ state = [p \in Product |-> "none"]
    /\ variants = [p \in Product |-> FALSE]
    /\ images = [p \in Product |-> {}] /\ primary = [p \in Product |-> {}]
    /\ files = {} /\ fresh = {}
    /\ req = [r \in Request |-> Idle]
    /\ sweep = {}

-----------------------------------------------------------------------------
Published == {p \in Product : state[p] = "published"}
Referenced == UNION {images[p] : p \in Product}

Holding(r) == req[r].at \in {"locked", "storing"}

\* SELECT ... FOR UPDATE of the brand's row: one holder at a time.
\* Mutant: the request reads the row without locking it.
NoLock == TRUE
BrandLockFree == \A r \in Request : ~Holding(r)

\* Images whose identity something still knows; others may be taken anew.
InUse == files \cup Referenced \cup sweep
         \cup (UNION {req[r].images : r \in Request})

Move(r, to) == req' = [req EXCEPT ![r] = to]
Finish(r) == Move(r, Idle)

-----------------------------------------------------------------------------
(* Administrators: each decision locks the brand's row, checks and writes. *)

Decide(from, to) ==
    /\ BrandLockFree
    /\ status \in from
    /\ status' = to
    /\ UNCHANGED <<settled, used, total, productVars, fileVars, req, sweep>>

RecordPayment ==
    /\ BrandLockFree
    /\ status = "pending_payment" /\ ~settled
    /\ settled' = TRUE /\ status' = "pending_approval"
    /\ UNCHANGED <<used, total, productVars, fileVars, req, sweep>>

Approve == Decide({"pending_approval"}, "active")
Reject == Decide({"pending_approval", "pending_payment"}, "rejected")
Suspend == Decide({"active"}, "suspended")
Reinstate == Decide({"suspended"}, "active")

-----------------------------------------------------------------------------
(* A seller's request. *)

\* require_seller: the brand is active as the request arrives.
Gate(r) ==
    /\ req[r].at = "idle"
    /\ status = "active"
    /\ Move(r, At("gated", NoProduct, {}, NoSnapshot))
    /\ UNCHANGED <<brandVars, productVars, fileVars, sweep>>

ReadBrand == [used |-> used, total |-> total, status |-> status, state |-> "none",
              variants |-> FALSE, images |-> {}, primary |-> {}]
Read(p) == [used |-> used, total |-> total, status |-> status, state |-> state[p],
            variants |-> variants[p], images |-> images[p], primary |-> primary[p]]

\* Lock the brand's row, with a product or (for slots) without, then read.
Lock(r, p) ==
    /\ req[r].at = "gated"
    /\ BrandLockFree
    /\ Move(r, At("locked", p, {}, Read(p)))
    /\ UNCHANGED <<brandVars, productVars, fileVars, sweep>>

LockBrand(r) ==
    /\ req[r].at = "gated"
    /\ BrandLockFree
    /\ Move(r, At("locked", NoProduct, {}, ReadBrand))
    /\ UNCHANGED <<brandVars, productVars, fileVars, sweep>>

\* The request holds the lock and found a product that is not deleted.
Locked(r) ==
    /\ req[r].at = "locked" /\ req[r].product # NoProduct
    /\ req[r].seen.state \in {"draft", "published"}
SlotLeft(s) == s.used < s.total

\* slots_used moves in SQL, within 0 .. total_slots (CHECK constraints).
OccupySlot == /\ used < total
              /\ used' = used + 1
FreeSlot == used' = IF used > 0 THEN used - 1 ELSE 0

\* Publishing at once needs a slot; it happens only with variants.
Create(r, live, withVariants) ==
    LET p == req[r].product
    IN  /\ req[r].at = "locked" /\ p # NoProduct
        /\ req[r].seen.status = "active"
        /\ live => SlotLeft(req[r].seen)
        /\ state[p] = "none"
        /\ state' = [state EXCEPT ![p] = IF live /\ withVariants THEN "published" ELSE "draft"]
        /\ variants' = [variants EXCEPT ![p] = withVariants]
        /\ IF live /\ withVariants THEN OccupySlot ELSE used' = used
        /\ Finish(r)
        /\ UNCHANGED <<status, settled, total, images, primary, fileVars, sweep>>

Publish(r) ==
    LET s == req[r].seen
    IN  /\ Locked(r)
        /\ s.state = "draft"
        /\ s.variants /\ s.images # {}
        /\ SlotLeft(s)
        /\ state' = [state EXCEPT ![req[r].product] = "published"]
        /\ OccupySlot
        /\ Finish(r)
        /\ UNCHANGED <<status, settled, total, variants, images, primary, fileVars, sweep>>

Unpublish(r) ==
    /\ Locked(r)
    /\ req[r].seen.state = "published"
    /\ state' = [state EXCEPT ![req[r].product] = "draft"]
    /\ FreeSlot
    /\ Finish(r)
    /\ UNCHANGED <<status, settled, total, variants, images, primary, fileVars, sweep>>

Delete(r) ==
    /\ Locked(r)
    /\ state' = [state EXCEPT ![req[r].product] = "deleted"]
    /\ IF req[r].seen.state = "published" THEN FreeSlot ELSE used' = used
    /\ Finish(r)
    /\ UNCHANGED <<status, settled, total, variants, images, primary, fileVars, sweep>>

AddVariant(r) ==
    /\ Locked(r)
    /\ variants' = [variants EXCEPT ![req[r].product] = TRUE]
    /\ Finish(r)
    /\ UNCHANGED <<brandVars, state, images, primary, fileVars, sweep>>

BuySlots(r) ==
    /\ req[r].at = "locked" /\ req[r].product = NoProduct
    /\ total < MaxSlots
    /\ total' = total + 1
    /\ Finish(r)
    /\ UNCHANGED <<status, settled, used, productVars, fileVars, sweep>>

-----------------------------------------------------------------------------
(* Images.  An upload stores its files while it holds the locks, then      *)
(* attaches their rows and commits.                                        *)

ChooseImages(r, new) ==
    /\ Locked(r)
    /\ new # {} /\ new \cap InUse = {}
    /\ Cardinality(req[r].seen.images) + Cardinality(new) =< MaxImages
    /\ Move(r, At("storing", req[r].product, new, req[r].seen))
    /\ UNCHANGED <<brandVars, productVars, fileVars, sweep>>

StoreFile(r) ==
    /\ req[r].at = "storing"
    /\ \E i \in req[r].images \ files :
          /\ files' = files \cup {i}
          /\ fresh' = fresh \cup {i}
    /\ UNCHANGED <<brandVars, productVars, req, sweep>>

\* The first image of an empty product becomes its cover.
FirstOf(had, new) == IF had = {} THEN {{i} : i \in new} ELSE {{}}

AttachImages(r) ==
    LET p == req[r].product
        new == req[r].images
    IN  /\ req[r].at = "storing"
        /\ new \subseteq files
        /\ \E cover \in FirstOf(req[r].seen.images, new) :
              primary' = [primary EXCEPT ![p] = @ \cup cover]
        /\ images' = [images EXCEPT ![p] = @ \cup new]
        /\ Finish(r)
        /\ UNCHANGED <<brandVars, state, variants, fileVars, sweep>>

ChooseCover(r, i) ==
    /\ Locked(r)
    /\ i \in req[r].seen.images
    /\ primary' = [primary EXCEPT ![req[r].product] = {i}]
    /\ Finish(r)
    /\ UNCHANGED <<brandVars, state, variants, images, fileVars, sweep>>

\* Mutant: erasing the cover promotes no other image.
PromoteNone(s, i) == {s.primary \ {i}}
\* The covers that may remain once image i is gone.
Promote(s, i) ==
    IF i \in s.primary /\ s.images # {i}
      THEN {{j} : j \in s.images \ {i}}
      ELSE {s.primary \ {i}}

MayErase(s, i) == i \in s.images /\ ~(s.state = "published" /\ s.images = {i})

(* The row goes first; the file only once that is committed. *)
EraseRow(r, i) ==
    LET p == req[r].product
        s == req[r].seen
    IN  /\ Locked(r)
        /\ MayErase(s, i)
        /\ \E cover \in Promote(s, i) : primary' = [primary EXCEPT ![p] = cover]
        /\ images' = [images EXCEPT ![p] = @ \ {i}]
        /\ Move(r, At("erasing", NoProduct, {i}, NoSnapshot))
        /\ UNCHANGED <<brandVars, state, variants, fileVars, sweep>>

EraseFile(r) ==
    /\ req[r].at = "erasing"
    /\ files' = files \ req[r].images
    /\ fresh' = fresh \ req[r].images
    /\ Finish(r)
    /\ UNCHANGED <<brandVars, productVars, sweep>>

(* A refused rule, an exception, a lost connection or a crash: nothing is  *)
(* written, and what was done in storage stays.                            *)
Fail(r) ==
    /\ req[r].at # "idle"
    /\ Finish(r)
    /\ UNCHANGED <<brandVars, productVars, fileVars, sweep>>

-----------------------------------------------------------------------------
(* cleanup_orphaned_images: read the referenced URLs, list the files, and  *)
(* delete those without a reference that are older than a day.  No upload  *)
(* lasts a day.                                                            *)

GrowOld(i) ==
    /\ i \in fresh
    /\ \A r \in Request : i \in req[r].images => req[r].at # "storing"
    /\ fresh' = fresh \ {i}
    /\ UNCHANGED <<brandVars, productVars, files, req, sweep>>

\* Mutant: files of any age count as left behind.
StoredByNow == files
StoredLongAgo == files \ fresh

\* The age limit is taken first, then the references.
SweepReads ==
    /\ sweep = {}
    /\ sweep' = StoredLongAgo \ Referenced
    /\ UNCHANGED <<brandVars, productVars, fileVars, req>>

\* Storage may refuse, or the worker die: then the file stays.
SweepTakes(i, deleted) ==
    /\ i \in sweep
    /\ files' = IF deleted THEN files \ {i} ELSE files
    /\ fresh' = IF deleted THEN fresh \ {i} ELSE fresh
    /\ sweep' = sweep \ {i}
    /\ UNCHANGED <<brandVars, productVars, req>>

-----------------------------------------------------------------------------
Administer == RecordPayment \/ Approve \/ Reject \/ Suspend \/ Reinstate

Serve(r) ==
    \/ Gate(r)
    \/ LockBrand(r)
    \/ \E p \in Product : Lock(r, p)
    \/ \E live, withVariants \in BOOLEAN : Create(r, live, withVariants)
    \/ Publish(r) \/ Unpublish(r) \/ Delete(r) \/ BuySlots(r)
    \/ AddVariant(r)
    \/ \E new \in SUBSET Image : ChooseImages(r, new)
    \/ StoreFile(r) \/ AttachImages(r)
    \/ \E i \in Image : ChooseCover(r, i) \/ EraseRow(r, i)
    \/ EraseFile(r)
    \/ Fail(r)

Sweep ==
    \/ \E i \in Image : GrowOld(i) \/ \E deleted \in BOOLEAN : SweepTakes(i, deleted)
    \/ SweepReads

Next == Administer \/ (\E r \in Request : Serve(r)) \/ Sweep

Spec == Init /\ [][Next]_vars

-----------------------------------------------------------------------------
(* Every published listing occupies exactly one slot the brand owns,       *)
(* however publish, unpublish, delete and creation of two requests         *)
(* interleave (slots_used is a counter kept beside the products).          *)
SlotsAccounted ==
    /\ used = Cardinality(Published)
    /\ used =< total

(* A product with images has exactly one cover, one of them, and never     *)
(* more images than the limit, also when two requests add, promote and     *)
(* erase images at once.                                                   *)
OneCover ==
    \A p \in Product :
        /\ Cardinality(images[p]) =< MaxImages
        /\ primary[p] \subseteq images[p]
        /\ Cardinality(primary[p])
              = IF images[p] = {} THEN 0 ELSE 1

(* An image row always has its file: neither an erasure, a failed upload   *)
(* nor the sweep removes a file some product still shows.                  *)
RowsHaveFiles == Referenced \subseteq files

(* No brand trades before its registration fee is recorded. *)
OnlyPaidTrade == status \in {"active", "suspended"} => settled

(* A published listing that shows an image never loses its last one. *)
KeepsLastImage ==
    [][\A p \in Product :
          (/\ state[p] = "published" /\ images[p] # {}
           /\ state'[p] = "published")
          => images'[p] # {}]_vars

=============================================================================
