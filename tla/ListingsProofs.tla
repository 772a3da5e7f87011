--------------------------- MODULE ListingsProofs ---------------------------
(***************************************************************************)
(* Theorems about Listings, for any finite sets of products and images,    *)
(* any requests and bounds.                                                *)
(*                                                                         *)
(* The argument comes in layers, each an invariant that may use the ones   *)
(* before it: the brand's lock makes what its holder read stay true        *)
(* (LockInv); therefore the slot counter follows the listings (SlotInv);   *)
(* images change hands without two owners (ImageInv); and covers follow    *)
(* the images (CoverInv).                                                  *)
(***************************************************************************)
EXTENDS Listings, FiniteSetTheorems, TLAPS

-----------------------------------------------------------------------------
(* The lock.                                                               *)

\* One request at a time holds the brand's row.
Mutex == \A r, s \in Request : Holding(r) /\ Holding(s) => r = s

\* What the holder read is what the rows say.
Current ==
    \A r \in Request :
        Holding(r) /\ req[r].product # NoProduct => req[r].seen = Read(req[r].product)

\* Files are stored for a product.
StoresForProduct ==
    \A r \in Request : req[r].at = "storing" => req[r].product # NoProduct

LockInv == TypeOK /\ Mutex /\ Current /\ StoresForProduct

\* The states of a request.
LEMMA RequestStates ==
  ASSUME NEW at \in {"idle", "gated", "locked", "storing", "erasing"},
         NEW p \in Product \cup {NoProduct}, NEW some \in SUBSET Image, NEW s \in Snapshot
  PROVE  /\ At(at, p, some, s) \in RequestState
         /\ At(at, p, some, s).at = at
         /\ At(at, p, some, s).product = p
         /\ At(at, p, some, s).images = some
         /\ At(at, p, some, s).seen = s
  BY DEF At, RequestState

\* What can be read is a snapshot.
LEMMA Snapshots ==
  /\ NoSnapshot \in Snapshot
  /\ TypeOK => ReadBrand \in Snapshot
  /\ TypeOK => \A p \in Product : Read(p) \in Snapshot
<1>1. NoSnapshot \in Snapshot
  BY DEF NoSnapshot, Snapshot, Status, State
<1>2. TypeOK => ReadBrand \in Snapshot
  BY DEF TypeOK, ReadBrand, Snapshot, State
<1>3. TypeOK => \A p \in Product : Read(p) \in Snapshot
  BY DEF TypeOK, Read, Snapshot
<1> QED
  BY <1>1, <1>2, <1>3

\* The idle request is one.
LEMMA IdleRequest ==
  /\ Idle \in RequestState
  /\ Idle.at = "idle" /\ Idle.images = {} /\ Idle.product = NoProduct
  BY Snapshots, RequestStates DEF Idle

\* The parts of a request.
LEMMA RequestParts ==
  ASSUME LockInv, NEW r \in Request
  PROVE  /\ req[r] \in RequestState /\ req[r].seen \in Snapshot
         /\ req[r].images \in SUBSET Image /\ req[r].product \in Product \cup {NoProduct}
  BY DEF LockInv, TypeOK, RequestState

\* A move changes one request.
LEMMA Moves ==
  ASSUME TypeOK, NEW r \in Request, NEW to \in RequestState, Move(r, to)
  PROVE  /\ req' \in [Request -> RequestState]
         /\ req'[r] = to
         /\ \A s \in Request : s # r => req'[s] = req[s]
  BY DEF TypeOK, Move

\* When the holder lets go, nobody holds the row.
LEMMA LetsGo ==
  ASSUME LockInv, NEW r \in Request, Holding(r),
         NEW to \in RequestState, to.at \notin {"locked", "storing"}, Move(r, to)
  PROVE  /\ req' \in [Request -> RequestState]
         /\ Mutex' /\ Current' /\ StoresForProduct'
<1>1. /\ req' \in [Request -> RequestState] /\ req'[r] = to
      /\ \A s \in Request : s # r => req'[s] = req[s]
  BY Moves DEF LockInv
<1>2. \A s \in Request : ~Holding(s)'
  BY <1>1 DEF LockInv, Mutex, Holding
<1> QED
  BY <1>1, <1>2 DEF Mutex, Current, StoresForProduct, Holding

\* A request without the lock moves on while the rows stay as they are.
LEMMA Passes ==
  ASSUME LockInv, NEW r \in Request,
         NEW to \in RequestState, to.at \notin {"locked", "storing"}, Move(r, to),
         UNCHANGED <<brandVars, productVars>>
  PROVE  /\ req' \in [Request -> RequestState]
         /\ Mutex' /\ Current' /\ StoresForProduct'
<1>1. /\ req' \in [Request -> RequestState] /\ req'[r] = to
      /\ \A s \in Request : s # r => req'[s] = req[s]
  BY Moves DEF LockInv
<1>2. \A s \in Request : Holding(s)' => s # r /\ req'[s] = req[s] /\ Holding(s)
  BY <1>1 DEF Holding
<1>3. \A p : Read(p)' = Read(p)
  BY DEF Read, brandVars, productVars
<1>4. Mutex' /\ Current'
  BY <1>2, <1>3 DEF LockInv, Mutex, Current
<1>5. StoresForProduct'
  BY <1>1 DEF LockInv, StoresForProduct
<1> QED
  BY <1>1, <1>4, <1>5

\* A row nobody holds may change while no request moves.
LEMMA Unheld ==
  ASSUME LockInv, BrandLockFree, req' = req
  PROVE  Mutex' /\ Current' /\ StoresForProduct'
<1>1. \A s \in Request : ~Holding(s)'
  BY DEF BrandLockFree, Holding
<1> QED
  BY <1>1 DEF Mutex, Current, StoresForProduct, Holding

\* The initial state.
LEMMA LockInit == Init => LockInv
<1> SUFFICES ASSUME Init PROVE LockInv
  OBVIOUS
<1>1. req \in [Request -> RequestState] /\ \A r \in Request : req[r].at = "idle"
  BY IdleRequest DEF Init
<1>2. Mutex /\ Current /\ StoresForProduct
  BY <1>1 DEF Mutex, Current, StoresForProduct, Holding
<1>3. status \in Status /\ settled \in BOOLEAN /\ used \in Nat /\ total \in Nat
  BY ListingsAssumption DEF Init, Status
<1>4. /\ state \in [Product -> State] /\ variants \in [Product -> BOOLEAN]
      /\ images \in [Product -> SUBSET Image] /\ primary \in [Product -> SUBSET Image]
  BY DEF Init, State
<1>5. files \subseteq Image /\ fresh \subseteq files /\ sweep \subseteq Image
  BY DEF Init
<1> QED
  BY <1>1, <1>2, <1>3, <1>4, <1>5 DEF LockInv, TypeOK

\* Administrators decide while nobody holds the row.
LEMMA AdministerLock ==
  ASSUME LockInv, Administer
  PROVE  LockInv'
<1> USE DEF productVars, fileVars
<1>1. ASSUME NEW from, NEW to \in Status, Decide(from, to) PROVE LockInv'
  BY <1>1, Unheld DEF Decide, LockInv, TypeOK
<1>2. CASE RecordPayment
  <2>1. status' \in Status
    BY <1>2 DEF RecordPayment, Status
  <2> QED
    BY <1>2, <2>1, Unheld DEF RecordPayment, LockInv, TypeOK
<1>3. {"active", "rejected", "suspended"} \subseteq Status
  BY DEF Status
<1> QED
  BY <1>1, <1>2, <1>3 DEF Administer, Approve, Reject, Suspend, Reinstate

\* The sweep touches neither rows nor requests.
LEMMA SweepLock ==
  ASSUME LockInv, Sweep \/ UNCHANGED vars
  PROVE  LockInv'
<1> USE DEF vars, brandVars, productVars, fileVars
<1>1. /\ UNCHANGED <<brandVars, productVars, req>>
      /\ files' \subseteq Image /\ fresh' \subseteq files' /\ sweep' \subseteq Image
  <2>1. ASSUME NEW i \in Image, GrowOld(i) PROVE <1>1!:
    BY <2>1 DEF GrowOld, LockInv, TypeOK
  <2>2. ASSUME NEW i \in Image, NEW deleted \in BOOLEAN, SweepTakes(i, deleted) PROVE <1>1!:
    BY <2>2 DEF SweepTakes, LockInv, TypeOK
  <2>3. CASE SweepReads
    BY <2>3 DEF SweepReads, StoredLongAgo, LockInv, TypeOK
  <2>4. CASE UNCHANGED vars
    BY <2>4 DEF LockInv, TypeOK
  <2> QED
    BY <2>1, <2>2, <2>3, <2>4 DEF Sweep
<1>2. \A p : Read(p)' = Read(p)
  BY <1>1 DEF Read
<1> QED
  BY <1>1, <1>2 DEF LockInv, TypeOK, Mutex, Current, StoresForProduct, Holding

\* What a request does to the rows, and how it goes on.
LEMMA ServeLock ==
  ASSUME LockInv, NEW r \in Request, Serve(r)
  PROVE  LockInv'
<1> USE DEF brandVars, productVars, fileVars
<1>0. TypeOK /\ req[r] \in RequestState /\ req[r].seen \in Snapshot
      /\ req[r].images \subseteq Image /\ req[r].product \in Product \cup {NoProduct}
  BY RequestParts DEF LockInv
<1>1. CASE Gate(r)
  <2>1. /\ At("gated", NoProduct, {}, NoSnapshot) \in RequestState
        /\ At("gated", NoProduct, {}, NoSnapshot).at = "gated"
    BY RequestStates, Snapshots
  <2>2. req' \in [Request -> RequestState] /\ Mutex' /\ Current' /\ StoresForProduct'
    BY <1>1, <2>1, Passes DEF Gate
  <2> QED
    BY <1>1, <2>2 DEF Gate, LockInv, TypeOK
<1>2. ASSUME NEW to \in RequestState, to.at = "locked", Move(r, to), BrandLockFree,
             to.product # NoProduct => to.seen = Read(to.product),
             UNCHANGED <<brandVars, productVars, fileVars, sweep>>
      PROVE  LockInv'
  <2>1. /\ req' \in [Request -> RequestState] /\ req'[r] = to
        /\ \A s \in Request : s # r => req'[s] = req[s]
    BY <1>0, <1>2, Moves
  <2>2. \A s \in Request : Holding(s)' => s = r
    BY <1>2, <2>1 DEF BrandLockFree, Holding
  <2>3. \A p : Read(p)' = Read(p)
    BY <1>2 DEF Read
  <2>4. Mutex' /\ Current'
    BY <1>2, <2>1, <2>2, <2>3 DEF Mutex, Current
  <2>5. StoresForProduct'
    BY <1>2, <2>1 DEF LockInv, StoresForProduct
  <2> QED
    BY <1>2, <2>1, <2>4, <2>5 DEF LockInv, TypeOK
<1>3. CASE LockBrand(r)
  BY <1>0, <1>2, <1>3, RequestStates, Snapshots DEF LockBrand
<1>4. ASSUME NEW p \in Product, Lock(r, p) PROVE LockInv'
  BY <1>0, <1>2, <1>4, RequestStates, Snapshots DEF Lock
<1>5. ASSUME Holding(r), Finish(r),
             status' \in Status /\ settled' \in BOOLEAN /\ used' \in Nat /\ total' \in Nat,
             state' \in [Product -> State] /\ variants' \in [Product -> BOOLEAN],
             images' \in [Product -> SUBSET Image] /\ primary' \in [Product -> SUBSET Image],
             UNCHANGED <<fileVars, sweep>>
      PROVE  LockInv'
  BY <1>0, <1>5, LetsGo, IdleRequest DEF Finish, LockInv, TypeOK
<1>6. ASSUME NEW live \in BOOLEAN, NEW withVariants \in BOOLEAN, Create(r, live, withVariants)
      PROVE  LockInv'
  <2>1. used' \in Nat
    BY <1>0, <1>6 DEF Create, OccupySlot, TypeOK
  <2>2. state' \in [Product -> State] /\ variants' \in [Product -> BOOLEAN]
    BY <1>0, <1>6 DEF Create, TypeOK, State
  <2> QED
    BY <1>0, <1>5, <1>6, <2>1, <2>2 DEF Create, Holding, TypeOK
<1>7. CASE Publish(r) \/ Unpublish(r) \/ Delete(r)
  <2>1. used' \in Nat
    BY <1>0, <1>7 DEF Publish, Unpublish, Delete, OccupySlot, FreeSlot, TypeOK
  <2>2. state' \in [Product -> State]
    BY <1>0, <1>7 DEF Publish, Unpublish, Delete, TypeOK, State
  <2> QED
    BY <1>0, <1>5, <1>7, <2>1, <2>2 DEF Publish, Unpublish, Delete, Locked, Holding, TypeOK
<1>8. CASE AddVariant(r)
  BY <1>0, <1>5, <1>8 DEF AddVariant, Locked, Holding, TypeOK
<1>9. CASE BuySlots(r)
  BY <1>0, <1>5, <1>9 DEF BuySlots, Holding, TypeOK
<1>10. ASSUME NEW new \in SUBSET Image, ChooseImages(r, new) PROVE LockInv'
  <2> DEFINE to == At("storing", req[r].product, new, req[r].seen)
  <2>1. /\ to \in RequestState /\ to.at = "storing" /\ to.product = req[r].product
        /\ to.seen = req[r].seen
    BY <1>0, RequestStates
  <2>2. Move(r, to) /\ Holding(r) /\ req[r].product # NoProduct
    BY <1>10 DEF ChooseImages, Locked, Holding
  <2> HIDE DEF to
  <2>3. /\ req' \in [Request -> RequestState] /\ req'[r] = to
        /\ \A s \in Request : s # r => req'[s] = req[s]
    BY <1>0, <2>1, <2>2, Moves
  <2>4. \A s \in Request : Holding(s)' => s = r
    BY <2>2, <2>3 DEF LockInv, Mutex, Holding
  <2>5. \A p : Read(p)' = Read(p)
    BY <1>10 DEF ChooseImages, Read
  <2>6. Mutex' /\ Current'
    BY <2>1, <2>2, <2>3, <2>4, <2>5 DEF LockInv, Mutex, Current
  <2>7. StoresForProduct'
    BY <2>1, <2>2, <2>3 DEF LockInv, StoresForProduct
  <2> QED
    BY <1>0, <1>10, <2>3, <2>6, <2>7 DEF ChooseImages, LockInv, TypeOK
<1>11. CASE StoreFile(r)
  <2>1. /\ UNCHANGED <<brandVars, productVars, req, sweep>>
        /\ files' \subseteq Image /\ fresh' \subseteq files'
    BY <1>0, <1>11 DEF StoreFile, TypeOK
  <2>2. \A p : Read(p)' = Read(p)
    BY <2>1 DEF Read
  <2> QED
    BY <2>1, <2>2 DEF LockInv, TypeOK, Mutex, Current, StoresForProduct, Holding
<1>12. CASE AttachImages(r)
  <2>1. PICK cover \in FirstOf(req[r].seen.images, req[r].images) :
           primary' = [primary EXCEPT ![req[r].product] = @ \cup cover]
    BY <1>12 DEF AttachImages
  <2>2. cover \subseteq Image
    BY <1>0 DEF FirstOf
  <2>3. primary' \in [Product -> SUBSET Image] /\ images' \in [Product -> SUBSET Image]
    BY <1>0, <1>12, <2>1, <2>2 DEF AttachImages, TypeOK
  <2> QED
    BY <1>0, <1>5, <1>12, <2>3 DEF AttachImages, Holding, TypeOK
<1>13. ASSUME NEW i \in Image, ChooseCover(r, i) PROVE LockInv'
  <2>1. primary' \in [Product -> SUBSET Image]
    BY <1>0, <1>13 DEF ChooseCover, TypeOK
  <2> QED
    BY <1>0, <1>5, <1>13, <2>1 DEF ChooseCover, Locked, Holding, TypeOK
<1>14. ASSUME NEW i \in Image, EraseRow(r, i) PROVE LockInv'
  <2> DEFINE to == At("erasing", NoProduct, {i}, NoSnapshot)
  <2>1. to \in RequestState /\ to.at = "erasing"
    BY RequestStates, Snapshots
  <2>2. Move(r, to) /\ Holding(r)
    BY <1>14 DEF EraseRow, Locked, Holding
  <2> HIDE DEF to
  <2>3. req' \in [Request -> RequestState] /\ Mutex' /\ Current' /\ StoresForProduct'
    BY <2>1, <2>2, LetsGo
  <2>4. PICK cover \in Promote(req[r].seen, i) :
           primary' = [primary EXCEPT ![req[r].product] = cover]
    BY <1>14 DEF EraseRow
  <2>5. cover \subseteq Image
    BY <1>0 DEF Promote, Snapshot
  <2>6. primary' \in [Product -> SUBSET Image] /\ images' \in [Product -> SUBSET Image]
    BY <1>0, <1>14, <2>4, <2>5 DEF EraseRow, TypeOK
  <2> QED
    BY <1>0, <1>14, <2>3, <2>6 DEF EraseRow, LockInv, TypeOK
<1>15. CASE EraseFile(r) \/ Fail(r)
  <2>1. req' \in [Request -> RequestState] /\ Mutex' /\ Current' /\ StoresForProduct'
    BY <1>15, Passes, IdleRequest DEF EraseFile, Fail, Finish
  <2>2. files' \subseteq Image /\ fresh' \subseteq files' /\ sweep' = sweep
    BY <1>0, <1>15 DEF EraseFile, Fail, TypeOK
  <2> QED
    BY <1>0, <1>15, <2>1, <2>2 DEF EraseFile, Fail, LockInv, TypeOK
<1> QED
  BY <1>1, <1>3, <1>4, <1>6, <1>7, <1>8, <1>9, <1>10, <1>11, <1>12, <1>13, <1>14, <1>15
  DEF Serve

\* The lock's invariant holds of every reachable state.
LEMMA LockInvariant == Spec => []LockInv
<1>1. LockInv /\ [Next]_vars => LockInv'
  BY AdministerLock, SweepLock, ServeLock DEF Next
<1> QED
  BY LockInit, <1>1, PTL DEF Spec

-----------------------------------------------------------------------------
(* Slots and trade.                                                        *)

\* A brand waits for its fee, was rejected, or has settled.
Settles == status \in {"pending_approval", "active", "suspended"} => settled

SlotInv == SlotsAccounted /\ Settles

\* Only finitely many products can be published.
LEMMA PublishedFinite == IsFiniteSet(Published) /\ Cardinality(Published) \in Nat
<1>1. Published \subseteq Product
  BY DEF Published
<1> QED
  BY <1>1, FS_Subset, FS_CardinalityType, ListingsAssumption

\* A listing goes live and takes a slot.
LEMMA GoesLive ==
  ASSUME TypeOK, SlotsAccounted, OccupySlot, total' = total,
         NEW p \in Product, p \notin Published, state' = [state EXCEPT ![p] = "published"]
  PROVE  SlotsAccounted'
<1>1. Published' = Published \cup {p}
  BY DEF TypeOK, Published
<1>2. Cardinality(Published') = Cardinality(Published) + 1
  BY <1>1, PublishedFinite, FS_AddElement
<1> QED
  BY <1>2 DEF OccupySlot, SlotsAccounted, TypeOK

\* A listing goes down and frees its slot.
LEMMA GoesDown ==
  ASSUME TypeOK, SlotsAccounted, FreeSlot, total' = total,
         NEW p \in Published, NEW to \in State, to # "published",
         state' = [state EXCEPT ![p] = to]
  PROVE  SlotsAccounted'
<1>1. Published' = Published \ {p}
  BY DEF TypeOK, Published
<1>2. Cardinality(Published') = Cardinality(Published) - 1
  BY <1>1, PublishedFinite, FS_RemoveElement
<1>3. Cardinality(Published) > 0
  BY PublishedFinite, FS_EmptySet
<1> QED
  BY <1>2, <1>3, PublishedFinite DEF FreeSlot, SlotsAccounted, TypeOK

\* A listing that is not live stays off the counter.
LEMMA StaysDown ==
  ASSUME TypeOK, SlotsAccounted, used' = used, total' = total,
         NEW p \in Product, p \notin Published, NEW to \in State, to # "published",
         state' = [state EXCEPT ![p] = to]
  PROVE  SlotsAccounted'
<1>1. Published' = Published
  BY DEF TypeOK, Published
<1> QED
  BY <1>1 DEF SlotsAccounted

\* No slot is taken or lost while no listing changes its state.
LEMMA SlotsStay ==
  ASSUME TypeOK, SlotsAccounted, used' = used, total' \in Nat, total =< total', state' = state
  PROVE  SlotsAccounted'
<1>1. Published' = Published
  BY DEF Published
<1> QED
  BY <1>1 DEF SlotsAccounted, TypeOK

\* The initial state has neither listings nor used slots.
LEMMA SlotInit == Init => SlotInv
<1> SUFFICES ASSUME Init PROVE SlotInv
  OBVIOUS
<1>1. Published = {}
  BY DEF Init, Published
<1> QED
  BY <1>1, FS_EmptySet, ListingsAssumption DEF Init, SlotInv, SlotsAccounted, Settles

\* A request that holds the row decides on what the rows say.
LEMMA HolderKnows ==
  ASSUME LockInv, NEW r \in Request, Holding(r), req[r].product # NoProduct
  PROVE  /\ req[r].product \in Product
         /\ req[r].seen.state = state[req[r].product]
         /\ req[r].seen.images = images[req[r].product]
         /\ req[r].seen.primary = primary[req[r].product]
<1>1. req[r].product \in Product
  BY DEF LockInv, TypeOK, RequestState
<1>2. req[r].seen = Read(req[r].product)
  BY DEF LockInv, Current
<1> QED
  BY <1>1, <1>2 DEF Read

\* What a seller's request does to the slots.
LEMMA ServeSlots ==
  ASSUME LockInv, SlotInv, NEW r \in Request, Serve(r)
  PROVE  SlotInv'
<1> USE DEF brandVars, productVars
<1>0. TypeOK /\ SlotsAccounted
  BY DEF LockInv, SlotInv
<1>1. Settles'
  <2>1. status' = status /\ settled' = settled
    BY DEF Serve, Gate, LockBrand, Lock, Create, Publish, Unpublish, Delete, AddVariant,
           BuySlots, ChooseImages, StoreFile, AttachImages, ChooseCover, EraseRow, EraseFile,
           Fail
  <2> QED
    BY <2>1 DEF SlotInv, Settles
<1> SUFFICES SlotsAccounted'
  BY <1>1 DEF SlotInv
<1>2. ASSUME NEW live \in BOOLEAN, NEW withVariants \in BOOLEAN, Create(r, live, withVariants)
      PROVE  SlotsAccounted'
  <2> DEFINE p == req[r].product
  <2>1. p \in Product /\ state[p] = "none" /\ total' = total
    BY <1>2 DEF Create, LockInv, TypeOK, RequestState
  <2>2. p \notin Published
    BY <2>1 DEF Published
  <2> HIDE DEF p
  <2>3. CASE live /\ withVariants
    <3>1. OccupySlot /\ state' = [state EXCEPT ![p] = "published"]
      BY <1>2, <2>3 DEF Create, p
    <3> QED
      BY <1>0, <2>1, <2>2, <3>1, GoesLive
  <2>4. CASE ~(live /\ withVariants)
    <3>1. used' = used /\ state' = [state EXCEPT ![p] = "draft"]
      BY <1>2, <2>4 DEF Create, p
    <3>2. "draft" \in State
      BY DEF State
    <3> QED
      BY <1>0, <2>1, <2>2, <3>1, <3>2, StaysDown
  <2> QED
    BY <2>3, <2>4
<1>3. CASE Publish(r) \/ Unpublish(r) \/ Delete(r)
  <2> DEFINE p == req[r].product
  <2>1. p \in Product /\ state[p] = req[r].seen.state /\ total' = total
    BY <1>3, HolderKnows DEF Publish, Unpublish, Delete, Locked, Holding
  <2>2. p \in Published <=> state[p] = "published"
    BY <2>1 DEF Published
  <2>3. {"draft", "deleted"} \subseteq State
    BY DEF State
  <2> HIDE DEF p
  <2>4. CASE Publish(r)
    <3>1. OccupySlot /\ state' = [state EXCEPT ![p] = "published"] /\ state[p] = "draft"
      BY <2>1, <2>4 DEF Publish, p
    <3> QED
      BY <1>0, <2>1, <2>2, <3>1, GoesLive
  <2>5. CASE Unpublish(r)
    <3>1. FreeSlot /\ state' = [state EXCEPT ![p] = "draft"] /\ state[p] = "published"
      BY <2>1, <2>5 DEF Unpublish, p
    <3> QED
      BY <1>0, <2>1, <2>2, <2>3, <3>1, GoesDown
  <2>6. CASE Delete(r)
    <3>1. /\ state' = [state EXCEPT ![p] = "deleted"]
          /\ IF state[p] = "published" THEN FreeSlot ELSE used' = used
      BY <2>1, <2>6 DEF Delete, p
    <3>2. CASE state[p] = "published"
      BY <1>0, <2>1, <2>2, <2>3, <3>1, <3>2, GoesDown
    <3>3. CASE state[p] # "published"
      BY <1>0, <2>1, <2>2, <2>3, <3>1, <3>3, StaysDown
    <3> QED
      BY <3>2, <3>3
  <2> QED
    BY <1>3, <2>4, <2>5, <2>6
<1>4. CASE BuySlots(r)
  BY <1>0, <1>4, SlotsStay DEF BuySlots, TypeOK
<1>5. ASSUME UNCHANGED <<brandVars, state>> PROVE SlotsAccounted'
  BY <1>0, <1>5, SlotsStay DEF TypeOK
<1>6. CASE \/ Gate(r) \/ LockBrand(r) \/ \E p \in Product : Lock(r, p)
           \/ AddVariant(r)
           \/ \E new \in SUBSET Image : ChooseImages(r, new)
           \/ StoreFile(r) \/ AttachImages(r)
           \/ \E i \in Image : ChooseCover(r, i) \/ EraseRow(r, i)
           \/ EraseFile(r) \/ Fail(r)
  BY <1>5, <1>6 DEF Gate, LockBrand, Lock, AddVariant, ChooseImages, StoreFile, AttachImages,
                    ChooseCover, EraseRow, EraseFile, Fail
<1> QED
  BY <1>2, <1>3, <1>4, <1>6 DEF Serve

\* Decisions and the sweep leave the slots alone.
LEMMA OtherSlots ==
  ASSUME LockInv, SlotInv, Administer \/ Sweep \/ UNCHANGED vars
  PROVE  SlotInv'
<1>1. UNCHANGED <<used, total, state>>
  BY DEF Administer, Approve, Reject, Suspend, Reinstate, Decide, RecordPayment, Sweep,
         GrowOld, SweepReads, SweepTakes, vars, brandVars, productVars
<1>2. SlotsAccounted'
  BY <1>1, SlotsStay DEF LockInv, SlotInv, TypeOK
<1>3. Settles'
  BY DEF Administer, Approve, Reject, Suspend, Reinstate, Decide, RecordPayment, Sweep,
         GrowOld, SweepReads, SweepTakes, vars, brandVars, SlotInv, Settles
<1> QED
  BY <1>2, <1>3 DEF SlotInv

\* The counter and the fee hold in every reachable state.
LEMMA SlotInvariant == Spec => []SlotInv
<1>1. LockInv /\ SlotInv /\ [Next]_vars => SlotInv'
  BY ServeSlots, OtherSlots DEF Next
<1> QED
  BY SlotInit, LockInvariant, <1>1, PTL DEF Spec

-----------------------------------------------------------------------------
(* Images and files.                                                       *)

\* No image belongs to two products.
OneOwner == \A p, q \in Product : p # q => images[p] \cap images[q] = {}

\* Only a request that stores or erases has images in hand.
InHand ==
    \A r \in Request : req[r].at \notin {"storing", "erasing"} => req[r].images = {}

\* What a request has in hand belongs to no product and to no other request.
Apart ==
    \A r \in Request :
        /\ \A p \in Product : req[r].images \cap images[p] = {}
        /\ \A s \in Request : s # r => req[r].images \cap req[s].images = {}

\* Files being stored are young, and the sweep has not chosen them.
Young ==
    \A r \in Request :
        req[r].at = "storing" =>
            /\ req[r].images \cap sweep = {}
            /\ req[r].images \cap files \subseteq fresh

\* The sweep has chosen no image of a product.
SweepApart == \A p \in Product : sweep \cap images[p] = {}

\* Every image of a product has its file.
HaveFiles == \A p \in Product : images[p] \subseteq files

ImageInv == OneOwner /\ InHand /\ Apart /\ Young /\ SweepApart /\ HaveFiles

\* The initial state has no images.
LEMMA ImageInit == Init => ImageInv
<1> SUFFICES ASSUME Init PROVE ImageInv
  OBVIOUS
<1>1. \A r \in Request : req[r].at = "idle" /\ req[r].images = {}
  BY IdleRequest DEF Init
<1>2. \A p \in Product : images[p] = {}
  BY DEF Init
<1> QED
  BY <1>1, <1>2 DEF ImageInv, OneOwner, InHand, Apart, Young, SweepApart, HaveFiles

\* A request that takes no images in hand, or lets go of them.
LEMMA EmptyHanded ==
  ASSUME TypeOK, ImageInv, NEW r \in Request, NEW to \in RequestState, Move(r, to),
         to.images = {}, to.at # "storing",
         UNCHANGED <<images, fileVars, sweep>>
  PROVE  ImageInv'
<1>1. /\ req' \in [Request -> RequestState] /\ req'[r] = to
      /\ \A s \in Request : s # r => req'[s] = req[s]
  BY Moves
<1>2. OneOwner' /\ SweepApart' /\ HaveFiles'
  BY DEF ImageInv, OneOwner, SweepApart, HaveFiles, fileVars
<1>3. InHand'
  BY <1>1 DEF ImageInv, InHand
<1>4. Apart'
  BY <1>1 DEF ImageInv, Apart
<1>5. Young'
  BY <1>1 DEF ImageInv, Young, fileVars
<1> QED
  BY <1>2, <1>3, <1>4, <1>5 DEF ImageInv

\* No request moves, and neither images nor files change.
LEMMA ImagesStay ==
  ASSUME ImageInv, UNCHANGED <<images, fileVars, sweep, req>>
  PROVE  ImageInv'
  BY DEF ImageInv, OneOwner, InHand, Apart, Young, SweepApart, HaveFiles, fileVars

\* A request takes new images in hand.
LEMMA ChooseImagesStep ==
  ASSUME LockInv, ImageInv, NEW r \in Request, NEW new \in SUBSET Image, ChooseImages(r, new)
  PROVE  ImageInv'
<1> DEFINE to == At("storing", req[r].product, new, req[r].seen)
<1>1. to \in RequestState /\ to.at = "storing" /\ to.images = new
  BY RequestStates, RequestParts
<1>2. Move(r, to)
  BY DEF ChooseImages
<1> HIDE DEF to
<1>3. /\ req' \in [Request -> RequestState] /\ req'[r] = to
      /\ \A s \in Request : s # r => req'[s] = req[s]
  BY <1>1, <1>2, Moves DEF LockInv
<1>4. UNCHANGED <<images, files, fresh, sweep>>
  BY DEF ChooseImages, productVars, fileVars
<1>5. /\ new \cap files = {} /\ new \cap sweep = {}
      /\ \A p \in Product : new \cap images[p] = {}
      /\ \A s \in Request : new \cap req[s].images = {}
  <2>1. new \cap InUse = {}
    BY DEF ChooseImages
  <2>2. files \subseteq InUse /\ sweep \subseteq InUse
    BY DEF InUse
  <2>3. ASSUME NEW p \in Product PROVE images[p] \subseteq InUse
    BY DEF InUse, Referenced
  <2>4. ASSUME NEW s \in Request PROVE req[s].images \subseteq InUse
    BY DEF InUse
  <2> QED
    BY <2>1, <2>2, <2>3, <2>4
<1>6. OneOwner' /\ SweepApart' /\ HaveFiles'
  BY <1>4 DEF ImageInv, OneOwner, SweepApart, HaveFiles
<1>7. InHand'
  BY <1>1, <1>3 DEF ImageInv, InHand
<1>8. Apart'
  BY <1>1, <1>3, <1>4, <1>5 DEF ImageInv, Apart
<1>9. Young'
  BY <1>1, <1>3, <1>4, <1>5 DEF ImageInv, Young
<1> QED
  BY <1>6, <1>7, <1>8, <1>9 DEF ImageInv

\* The holder attaches the images it stored to its product.
LEMMA AttachImagesStep ==
  ASSUME LockInv, ImageInv, NEW r \in Request, AttachImages(r)
  PROVE  ImageInv'
<1> DEFINE p == req[r].product
           new == req[r].images
<1>1. p \in Product /\ new \in SUBSET Image /\ new \subseteq files /\ req[r].at = "storing"
  BY DEF AttachImages, LockInv, StoresForProduct, TypeOK, RequestState
<1>2. /\ req' \in [Request -> RequestState] /\ req'[r] = Idle
      /\ \A s \in Request : s # r => req'[s] = req[s]
  BY IdleRequest, Moves DEF AttachImages, Finish, LockInv
<1>3. UNCHANGED <<files, fresh, sweep>>
  BY DEF AttachImages, fileVars
<1>4. images' = [images EXCEPT ![p] = images[p] \cup new]
  BY DEF AttachImages
<1>5. images \in [Product -> SUBSET Image]
  BY DEF LockInv, TypeOK
<1>6. /\ \A q \in Product : new \cap images[q] = {}
      /\ \A s \in Request : s # r => new \cap req[s].images = {}
      /\ new \cap sweep = {}
  BY <1>1 DEF ImageInv, Apart, Young
<1> HIDE DEF p, new
<1>7. \A q \in Product : images'[q] = IF q = p THEN images[p] \cup new ELSE images[q]
  BY <1>1, <1>4, <1>5
<1>8. OneOwner' /\ SweepApart' /\ HaveFiles'
  BY <1>1, <1>3, <1>6, <1>7 DEF ImageInv, OneOwner, SweepApart, HaveFiles
<1>9. InHand'
  BY <1>2, IdleRequest DEF ImageInv, InHand
<1>10. Apart'
  BY <1>1, <1>2, <1>6, <1>7, IdleRequest DEF ImageInv, Apart
<1>11. Young'
  BY <1>2, <1>3, IdleRequest DEF ImageInv, Young
<1> QED
  BY <1>8, <1>9, <1>10, <1>11 DEF ImageInv

\* The holder takes an image's row away and has its file in hand.
LEMMA EraseRowStep ==
  ASSUME LockInv, ImageInv, NEW r \in Request, NEW i \in Image, EraseRow(r, i)
  PROVE  ImageInv'
<1> DEFINE p == req[r].product
           to == At("erasing", NoProduct, {i}, NoSnapshot)
<1>1. to \in RequestState /\ to.at = "erasing" /\ to.images = {i}
  BY RequestStates, Snapshots
<1>2. Move(r, to) /\ images' = [images EXCEPT ![p] = images[p] \ {i}]
  BY DEF EraseRow
<1>3. p \in Product /\ i \in images[p]
  BY HolderKnows DEF EraseRow, Locked, Holding, MayErase
<1>4. UNCHANGED <<files, fresh, sweep>>
  BY DEF EraseRow, fileVars
<1> HIDE DEF p, to
<1>5. /\ req' \in [Request -> RequestState] /\ req'[r] = to
      /\ \A s \in Request : s # r => req'[s] = req[s]
  BY <1>1, <1>2, Moves DEF LockInv
<1>6. \A q \in Product : images'[q] = IF q = p THEN images[p] \ {i} ELSE images[q]
  BY <1>2, <1>3 DEF LockInv, TypeOK
<1>7. OneOwner' /\ SweepApart' /\ HaveFiles'
  BY <1>4, <1>6 DEF ImageInv, OneOwner, SweepApart, HaveFiles
<1>8. InHand'
  BY <1>1, <1>5 DEF ImageInv, InHand
<1>9. \A q \in Product : {i} \cap images'[q] = {}
  BY <1>3, <1>6 DEF ImageInv, OneOwner
<1>10. \A s \in Request : i \notin req[s].images
  BY <1>3 DEF ImageInv, Apart
<1>11. Apart'
  BY <1>1, <1>5, <1>6, <1>9, <1>10 DEF ImageInv, Apart
<1>12. Young'
  BY <1>1, <1>4, <1>5 DEF ImageInv, Young
<1> QED
  BY <1>7, <1>8, <1>11, <1>12 DEF ImageInv

\* A file is stored, or erased.
LEMMA FileStep ==
  ASSUME LockInv, ImageInv, NEW r \in Request, StoreFile(r) \/ EraseFile(r)
  PROVE  ImageInv'
<1>1. CASE StoreFile(r)
  <2>1. PICK i \in req[r].images \ files : files' = files \cup {i} /\ fresh' = fresh \cup {i}
    BY <1>1 DEF StoreFile
  <2>2. UNCHANGED <<images, req, sweep>>
    BY <1>1 DEF StoreFile, productVars
  <2> QED
    BY <2>1, <2>2
    DEF ImageInv, OneOwner, InHand, Apart, Young, SweepApart, HaveFiles
<1>2. CASE EraseFile(r)
  <2>1. /\ req' \in [Request -> RequestState] /\ req'[r] = Idle
        /\ \A s \in Request : s # r => req'[s] = req[s]
    BY <1>2, IdleRequest, Moves DEF EraseFile, Finish, LockInv
  <2>2. /\ files' = files \ req[r].images /\ fresh' = fresh \ req[r].images
        /\ UNCHANGED <<images, sweep>>
    BY <1>2 DEF EraseFile, productVars
  <2>3. OneOwner' /\ SweepApart' /\ HaveFiles'
    BY <2>2 DEF ImageInv, OneOwner, SweepApart, HaveFiles, Apart
  <2>4. InHand' /\ Apart'
    BY <2>1, <2>2, IdleRequest DEF ImageInv, InHand, Apart
  <2>5. Young'
    BY <2>1, <2>2, IdleRequest DEF ImageInv, Young
  <2> QED
    BY <2>3, <2>4, <2>5 DEF ImageInv
<1> QED
  BY <1>1, <1>2

\* What a seller's request does to the images.
LEMMA ServeImages ==
  ASSUME LockInv, ImageInv, NEW r \in Request, Serve(r)
  PROVE  ImageInv'
<1> USE DEF brandVars, productVars
<1>1. ASSUME NEW to \in RequestState, Move(r, to), to.images = {}, to.at # "storing",
             UNCHANGED <<images, fileVars, sweep>>
      PROVE  ImageInv'
  BY <1>1, EmptyHanded DEF LockInv
<1>2. CASE Gate(r)
  BY <1>1, <1>2, RequestStates, Snapshots DEF Gate
<1>3. CASE LockBrand(r)
  BY <1>1, <1>3, RequestStates, Snapshots DEF LockBrand, LockInv
<1>4. ASSUME NEW p \in Product, Lock(r, p) PROVE ImageInv'
  BY <1>1, <1>4, RequestStates, Snapshots DEF Lock, LockInv
<1>5. ASSUME Finish(r), UNCHANGED <<images, fileVars, sweep>> PROVE ImageInv'
  BY <1>1, <1>5, IdleRequest DEF Finish
<1>6. CASE \/ \E live, withVariants \in BOOLEAN : Create(r, live, withVariants)
           \/ Publish(r) \/ Unpublish(r) \/ Delete(r) \/ BuySlots(r)
           \/ AddVariant(r)
           \/ \E i \in Image : ChooseCover(r, i)
           \/ Fail(r)
  BY <1>5, <1>6
  DEF Create, Publish, Unpublish, Delete, AddVariant, BuySlots, ChooseCover, Fail
<1> QED
  BY <1>2, <1>3, <1>4, <1>6, ChooseImagesStep, AttachImagesStep, EraseRowStep, FileStep
  DEF Serve

\* Decisions leave images alone; the sweep takes only what nobody shows.
LEMMA OtherImages ==
  ASSUME LockInv, ImageInv, Administer \/ Sweep \/ UNCHANGED vars
  PROVE  ImageInv'
<1>1. CASE Administer \/ UNCHANGED vars
  BY <1>1, ImagesStay
  DEF Administer, Approve, Reject, Suspend, Reinstate, Decide, RecordPayment, vars,
      productVars, fileVars
<1>2. ASSUME NEW i \in Image, GrowOld(i) PROVE ImageInv'
  <2>1. UNCHANGED <<images, files, req, sweep>> /\ fresh' = fresh \ {i}
    BY <1>2 DEF GrowOld, productVars
  <2>2. Young'
    BY <1>2, <2>1 DEF GrowOld, ImageInv, Young
  <2> QED
    BY <2>1, <2>2 DEF ImageInv, OneOwner, InHand, Apart, SweepApart, HaveFiles
<1>3. CASE SweepReads
  <2>1. UNCHANGED <<images, files, fresh, req>> /\ sweep' = (files \ fresh) \ Referenced
    BY <1>3 DEF SweepReads, StoredLongAgo, productVars, fileVars
  <2>2. SweepApart'
    BY <2>1 DEF SweepApart, Referenced
  <2>3. Young'
    BY <2>1 DEF ImageInv, Young
  <2> QED
    BY <2>1, <2>2, <2>3 DEF ImageInv, OneOwner, InHand, Apart, HaveFiles
<1>4. ASSUME NEW i \in Image, NEW deleted \in BOOLEAN, SweepTakes(i, deleted) PROVE ImageInv'
  <2>1. /\ UNCHANGED <<images, req>> /\ i \in sweep /\ sweep' = sweep \ {i}
        /\ \/ files' = files \ {i} /\ fresh' = fresh \ {i}
           \/ files' = files /\ fresh' = fresh
    BY <1>4 DEF SweepTakes, productVars
  <2>2. HaveFiles'
    BY <2>1 DEF ImageInv, SweepApart, HaveFiles
  <2>3. Young' /\ SweepApart'
    BY <2>1 DEF ImageInv, Young, SweepApart
  <2> QED
    BY <2>1, <2>2, <2>3 DEF ImageInv, OneOwner, InHand, Apart
<1> QED
  BY <1>1, <1>2, <1>3, <1>4 DEF Sweep

\* The images' invariant holds of every reachable state.
LEMMA ImageInvariant == Spec => []ImageInv
<1>1. LockInv /\ ImageInv /\ [Next]_vars => ImageInv'
  BY ServeImages, OtherImages DEF Next
<1> QED
  BY ImageInit, LockInvariant, <1>1, PTL DEF Spec

-----------------------------------------------------------------------------
(* Covers.                                                                 *)

\* At most the permitted number of images, and one cover when there is one.
Covered(some, cover) ==
    /\ IsFiniteSet(some) /\ Cardinality(some) =< MaxImages
    /\ some = {} => cover = {}
    /\ some # {} => \E i \in some : cover = {i}

CoverInv == \A p \in Product : Covered(images[p], primary[p])

\* The counting invariant of the model follows.
LEMMA CoversCounted == TypeOK /\ CoverInv => OneCover
<1> SUFFICES ASSUME TypeOK, CoverInv, NEW p \in Product
             PROVE  /\ Cardinality(images[p]) =< MaxImages
                    /\ primary[p] \subseteq images[p]
                    /\ Cardinality(primary[p]) = IF images[p] = {} THEN 0 ELSE 1
  BY DEF OneCover
<1>1. Covered(images[p], primary[p])
  BY DEF CoverInv
<1> QED
  BY <1>1, FS_EmptySet, FS_Singleton DEF Covered

\* The initial state has neither images nor covers.
LEMMA CoverInit == Init => CoverInv
  BY FS_EmptySet, ListingsAssumption DEF Init, CoverInv, Covered

\* The holder adds images: the count was checked, and an empty product gets
\* its cover.
LEMMA AttachKeepsCover ==
  ASSUME LockInv, ImageInv, CoverInv, NEW r \in Request, AttachImages(r),
         req[r].images # {}, IsFiniteSet(req[r].images),
         Cardinality(req[r].seen.images) + Cardinality(req[r].images) =< MaxImages
  PROVE  CoverInv'
<1> DEFINE p == req[r].product
           new == req[r].images
<1>1. p \in Product /\ req[r].seen.images = images[p]
  BY HolderKnows DEF AttachImages, LockInv, StoresForProduct, Holding
<1>2. PICK cover \in FirstOf(images[p], new) :
         primary' = [primary EXCEPT ![p] = primary[p] \cup cover]
  BY <1>1 DEF AttachImages
<1>3. images' = [images EXCEPT ![p] = images[p] \cup new]
  BY DEF AttachImages
<1>4. Covered(images[p], primary[p])
  BY <1>1 DEF CoverInv
<1>5. new \cap images[p] = {}
  BY <1>1 DEF ImageInv, Apart
<1>6. IsFiniteSet(images[p] \cup new) /\ Cardinality(images[p] \cup new) =< MaxImages
  <2>1. IsFiniteSet(images[p]) /\ IsFiniteSet(new)
    BY <1>4 DEF Covered
  <2>2. /\ IsFiniteSet(images[p] \cup new)
        /\ Cardinality(images[p] \cup new)
              = Cardinality(images[p]) + Cardinality(new) - Cardinality(images[p] \cap new)
    BY <2>1, FS_Union
  <2>3. Cardinality(images[p] \cap new) = 0
    BY <1>5, FS_EmptySet
  <2>4. Cardinality(images[p]) \in Nat /\ Cardinality(new) \in Nat
    BY <2>1, FS_CardinalityType
  <2> QED
    BY <1>1, <2>2, <2>3, <2>4
<1>7. \E i \in images[p] \cup new : primary[p] \cup cover = {i}
  <2>1. CASE images[p] = {}
    BY <1>2, <1>4, <2>1 DEF Covered, FirstOf
  <2>2. CASE images[p] # {}
    BY <1>2, <1>4, <2>2 DEF Covered, FirstOf
  <2> QED
    BY <2>1, <2>2
<1>8. Covered(images[p] \cup new, primary[p] \cup cover)
  BY <1>6, <1>7 DEF Covered
<1> HIDE DEF p, new
<1>9. \A q \in Product : /\ images'[q] = IF q = p THEN images[p] \cup new ELSE images[q]
                         /\ primary'[q] = IF q = p THEN primary[p] \cup cover ELSE primary[q]
  BY <1>1, <1>2, <1>3 DEF LockInv, TypeOK
<1> QED
  BY <1>8, <1>9 DEF CoverInv

\* The holder erases an image: another becomes the cover if it was the cover.
LEMMA EraseKeepsCover ==
  ASSUME LockInv, CoverInv, NEW r \in Request, NEW i \in Image, EraseRow(r, i)
  PROVE  CoverInv'
<1> DEFINE p == req[r].product
<1>1. /\ p \in Product
      /\ req[r].seen.images = images[p] /\ req[r].seen.primary = primary[p]
  BY HolderKnows DEF EraseRow, Locked, Holding
<1>2. PICK cover \in Promote(req[r].seen, i) : primary' = [primary EXCEPT ![p] = cover]
  BY DEF EraseRow
<1>3. images' = [images EXCEPT ![p] = images[p] \ {i}] /\ i \in images[p]
  BY <1>1 DEF EraseRow, MayErase
<1>4. Covered(images[p], primary[p])
  BY <1>1 DEF CoverInv
<1>5. IsFiniteSet(images[p] \ {i}) /\ Cardinality(images[p] \ {i}) =< MaxImages
  <2>1. IsFiniteSet(images[p])
    BY <1>4 DEF Covered
  <2>2. /\ IsFiniteSet(images[p] \ {i})
        /\ Cardinality(images[p] \ {i}) =< Cardinality(images[p])
    BY <2>1, FS_Subset
  <2>3. Cardinality(images[p] \ {i}) \in Nat /\ Cardinality(images[p]) \in Nat
    BY <2>1, <2>2, FS_CardinalityType
  <2> QED
    BY <1>4, <2>2, <2>3, ListingsAssumption DEF Covered
<1>6. PICK j \in images[p] : primary[p] = {j}
  BY <1>3, <1>4 DEF Covered
<1>7. Covered(images[p] \ {i}, cover)
  <2>1. CASE images[p] = {i}
    <3>1. cover = {}
      BY <1>1, <1>2, <1>6, <2>1 DEF Promote
    <3> QED
      BY <1>5, <2>1, <3>1 DEF Covered
  <2>2. CASE images[p] # {i}
    <3>1. \E k \in images[p] \ {i} : cover = {k}
      BY <1>1, <1>2, <1>6, <2>2 DEF Promote
    <3> QED
      BY <1>5, <3>1 DEF Covered
  <2> QED
    BY <2>1, <2>2
<1> HIDE DEF p
<1>8. \A q \in Product : /\ images'[q] = IF q = p THEN images[p] \ {i} ELSE images[q]
                         /\ primary'[q] = IF q = p THEN cover ELSE primary[q]
  BY <1>1, <1>2, <1>3 DEF LockInv, TypeOK
<1> QED
  BY <1>7, <1>8 DEF CoverInv

\* What was counted when the images were chosen stays true until they are
\* attached: the brand's row is held.
Counted ==
    \A r \in Request :
        req[r].at = "storing" =>
            /\ req[r].images # {} /\ IsFiniteSet(req[r].images)
            /\ Cardinality(req[r].seen.images) + Cardinality(req[r].images) =< MaxImages

\* Counting stays true.
LEMMA CountedStep ==
  ASSUME LockInv, Counted, [Next]_vars
  PROVE  Counted'
<1>1. ASSUME req' = req PROVE Counted'
  BY <1>1 DEF Counted
<1>2. ASSUME NEW r \in Request, NEW to \in RequestState, Move(r, to), to.at # "storing"
      PROVE  Counted'
  BY <1>2, Moves DEF LockInv, Counted
<1>3. ASSUME NEW r \in Request, NEW new \in SUBSET Image, ChooseImages(r, new)
      PROVE  Counted'
  <2> DEFINE to == At("storing", req[r].product, new, req[r].seen)
  <2>1. to \in RequestState /\ to.images = new /\ to.seen = req[r].seen
    BY RequestStates, RequestParts
  <2>2. /\ Move(r, to) /\ new # {} /\ IsFiniteSet(new)
        /\ Cardinality(req[r].seen.images) + Cardinality(new) =< MaxImages
    BY <1>3, FS_Subset, ListingsAssumption DEF ChooseImages
  <2> HIDE DEF to
  <2> QED
    BY <2>1, <2>2, Moves DEF LockInv, Counted
<1>4. ASSUME NEW r \in Request, Serve(r) PROVE Counted'
  <2>1. ASSUME Finish(r) PROVE Counted'
    BY <1>2, <2>1, IdleRequest DEF Finish
  <2>2. CASE Gate(r)
    BY <1>2, <2>2, RequestStates, Snapshots DEF Gate
  <2>3. CASE LockBrand(r)
    BY <1>2, <2>3, RequestStates, Snapshots DEF LockBrand, LockInv
  <2>4. ASSUME NEW p \in Product, Lock(r, p) PROVE Counted'
    BY <1>2, <2>4, RequestStates, Snapshots DEF Lock, LockInv
  <2>5. ASSUME NEW i \in Image, EraseRow(r, i) PROVE Counted'
    BY <1>2, <2>5, RequestStates, Snapshots DEF EraseRow
  <2>6. CASE StoreFile(r)
    BY <1>1, <2>6 DEF StoreFile
  <2>7. CASE \/ \E live, withVariants \in BOOLEAN : Create(r, live, withVariants)
             \/ Publish(r) \/ Unpublish(r) \/ Delete(r) \/ BuySlots(r)
             \/ AddVariant(r)
             \/ AttachImages(r) \/ \E i \in Image : ChooseCover(r, i)
             \/ EraseFile(r) \/ Fail(r)
    BY <2>1, <2>7 DEF Create, Publish, Unpublish, Delete, AddVariant, BuySlots, AttachImages,
                      ChooseCover, EraseFile, Fail
  <2> QED
    BY <1>3, <1>4, <2>2, <2>3, <2>4, <2>5, <2>6, <2>7 DEF Serve
<1>5. CASE Administer \/ Sweep \/ UNCHANGED vars
  BY <1>1, <1>5 DEF Administer, Approve, Reject, Suspend, Reinstate, Decide, RecordPayment,
                    Sweep, GrowOld, SweepReads, SweepTakes, vars
<1> QED
  BY <1>4, <1>5 DEF Next

\* Every step keeps the covers.
LEMMA CoverStep ==
  ASSUME LockInv, ImageInv, Counted, CoverInv, [Next]_vars
  PROVE  CoverInv'
<1> USE DEF brandVars, productVars
<1>1. ASSUME UNCHANGED <<images, primary>> PROVE CoverInv'
  BY <1>1 DEF CoverInv
<1>2. ASSUME NEW r \in Request, NEW i \in Image, ChooseCover(r, i) PROVE CoverInv'
  <2> DEFINE p == req[r].product
  <2>1. p \in Product /\ i \in images[p]
    BY <1>2, HolderKnows DEF ChooseCover, Locked, Holding
  <2>2. primary' = [primary EXCEPT ![p] = {i}] /\ images' = images
    BY <1>2 DEF ChooseCover
  <2>3. Covered(images[p], {i})
    BY <2>1 DEF CoverInv, Covered
  <2> HIDE DEF p
  <2> QED
    BY <2>1, <2>2, <2>3 DEF CoverInv, LockInv, TypeOK
<1>3. ASSUME NEW r \in Request, Serve(r) PROVE CoverInv'
  <2>1. CASE AttachImages(r)
    <3>1. /\ req[r].images # {} /\ IsFiniteSet(req[r].images)
          /\ Cardinality(req[r].seen.images) + Cardinality(req[r].images) =< MaxImages
      BY <2>1 DEF AttachImages, Counted
    <3> QED
      BY <2>1, <3>1, AttachKeepsCover
  <2>2. CASE \/ Gate(r) \/ LockBrand(r) \/ \E p \in Product : Lock(r, p)
             \/ \E live, withVariants \in BOOLEAN : Create(r, live, withVariants)
             \/ Publish(r) \/ Unpublish(r) \/ Delete(r) \/ BuySlots(r)
             \/ AddVariant(r)
             \/ \E new \in SUBSET Image : ChooseImages(r, new)
             \/ StoreFile(r) \/ EraseFile(r) \/ Fail(r)
    BY <1>1, <2>2 DEF Gate, LockBrand, Lock, Create, Publish, Unpublish, Delete, AddVariant,
                      BuySlots, ChooseImages, StoreFile, EraseFile, Fail
  <2> QED
    BY <1>2, <1>3, <2>1, <2>2, EraseKeepsCover DEF Serve
<1>4. CASE Administer \/ Sweep \/ UNCHANGED vars
  BY <1>1, <1>4 DEF Administer, Approve, Reject, Suspend, Reinstate, Decide, RecordPayment,
                    Sweep, GrowOld, SweepReads, SweepTakes, vars
<1> QED
  BY <1>3, <1>4 DEF Next

\* A published listing's images only ever shrink to a non-empty set.
LEMMA LastImageStep ==
  ASSUME LockInv, [Next]_vars, NEW p \in Product,
         state[p] = "published", images[p] # {}, state'[p] = "published"
  PROVE  images'[p] # {}
<1> USE DEF brandVars, productVars
<1>1. ASSUME NEW r \in Request, NEW i \in Image, EraseRow(r, i) PROVE images'[p] # {}
  <2> DEFINE q == req[r].product
  <2>1. q \in Product /\ req[r].seen.images = images[q] /\ req[r].seen.state = state[q]
    BY <1>1, HolderKnows DEF EraseRow, Locked, Holding
  <2>2. /\ images' = [images EXCEPT ![q] = images[q] \ {i}]
        /\ ~(state[q] = "published" /\ images[q] = {i})
    BY <1>1, <2>1 DEF EraseRow, MayErase
  <2> HIDE DEF q
  <2> QED
    BY <2>1, <2>2 DEF LockInv, TypeOK
<1>2. ASSUME NEW r \in Request, AttachImages(r) PROVE images'[p] # {}
  BY <1>2 DEF AttachImages, LockInv, TypeOK
<1>3. ASSUME images' = images PROVE images'[p] # {}
  BY <1>3
<1>4. ASSUME NEW r \in Request, Serve(r) PROVE images'[p] # {}
  <2>1. CASE \/ Gate(r) \/ LockBrand(r) \/ \E x \in Product : Lock(r, x)
             \/ \E live, withVariants \in BOOLEAN : Create(r, live, withVariants)
             \/ Publish(r) \/ Unpublish(r) \/ Delete(r) \/ BuySlots(r)
             \/ AddVariant(r)
             \/ \E new \in SUBSET Image : ChooseImages(r, new)
             \/ \E i \in Image : ChooseCover(r, i)
             \/ StoreFile(r) \/ EraseFile(r) \/ Fail(r)
    BY <1>3, <2>1 DEF Gate, LockBrand, Lock, Create, Publish, Unpublish, Delete, AddVariant,
                      BuySlots, ChooseImages, ChooseCover, StoreFile, EraseFile, Fail
  <2> QED
    BY <1>1, <1>2, <1>4, <2>1 DEF Serve
<1>5. CASE Administer \/ Sweep \/ UNCHANGED vars
  BY <1>3, <1>5 DEF Administer, Approve, Reject, Suspend, Reinstate, Decide, RecordPayment,
                    Sweep, GrowOld, SweepReads, SweepTakes, vars
<1> QED
  BY <1>4, <1>5 DEF Next

-----------------------------------------------------------------------------
(* The rows, requests and files keep their types. *)
THEOREM ListingTypes == Spec => []TypeOK
<1>1. LockInv => TypeOK
  BY DEF LockInv
<1> QED
  BY LockInvariant, <1>1, PTL

(* slots_used always equals the number of published listings and stays     *)
(* within what the brand owns, for any number of concurrent requests.      *)
THEOREM SlotsAreAccounted == Spec => []SlotsAccounted
<1>1. SlotInv => SlotsAccounted
  BY DEF SlotInv
<1> QED
  BY SlotInvariant, <1>1, PTL

(* A brand that is active, or was and is suspended, has settled its fee. *)
THEOREM TradeIsPaid == Spec => []OnlyPaidTrade
<1>1. SlotInv => OnlyPaidTrade
  BY DEF SlotInv, Settles, OnlyPaidTrade
<1> QED
  BY SlotInvariant, <1>1, PTL

(* No image row is ever without its file, whatever uploads, erasures and   *)
(* sweeps run at the same time, fail, or die half-way.                     *)
THEOREM FilesBackRows == Spec => []RowsHaveFiles
<1>1. ImageInv => RowsHaveFiles
  BY DEF ImageInv, HaveFiles, RowsHaveFiles, Referenced
<1> QED
  BY ImageInvariant, <1>1, PTL

(* Every product has at most the permitted images and exactly one cover    *)
(* among them.                                                             *)
THEOREM CoversAreUnique == Spec => []OneCover
<1>1. Init => Counted
  BY IdleRequest DEF Init, Counted
<1>2. LockInv /\ CoverInv => OneCover
  BY CoversCounted DEF LockInv
<1> QED
  BY LockInvariant, ImageInvariant, CoverInit, CoverStep, CountedStep, <1>1, <1>2, PTL DEF Spec

(* A published listing that shows an image never loses its last one. *)
THEOREM LastImageStays == Spec => KeepsLastImage
<1>1. LockInv /\ [Next]_vars =>
        [\A p \in Product :
            (/\ state[p] = "published" /\ images[p] # {}
             /\ state'[p] = "published")
            => images'[p] # {}]_vars
  BY LastImageStep
<1> QED
  BY LockInvariant, <1>1, PTL DEF Spec, KeepsLastImage

=============================================================================
