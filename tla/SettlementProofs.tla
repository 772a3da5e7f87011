-------------------------- MODULE SettlementProofs --------------------------
(***************************************************************************)
(* Theorems about Settlement, for any orders, brands, subtotals, rates and *)
(* refunds.                                                                *)
(*                                                                         *)
(* The model adds up ledgers, refunds and payouts that its conditions      *)
(* select (those on hold, those confirmed, ...); the invariant MoneyInv    *)
(* adds up columns over all parts, refunds and payouts, with zero where    *)
(* the condition does not hold, so that a step changes columns and never   *)
(* the set that is summed.  It says of every ledger that it is Fitting     *)
(* (both sides of it are explained and not below zero), of every wallet    *)
(* which columns it equals, and of the refunds what they leave of each     *)
(* part, fee and payment: without these bounds a confirmation could        *)
(* reverse more than a ledger has.                                         *)
(***************************************************************************)
EXTENDS Settlement, Sums

-----------------------------------------------------------------------------
(* Commission, reversal and split of an amount.                            *)

\* Multiplication by a natural number keeps the order.
LEMMA Monotone ==
    ASSUME NEW a \in Nat, NEW b \in Nat, NEW c \in Nat, b <= c
    PROVE  a * b <= a * c /\ a * b \in Nat /\ a * c \in Nat
OBVIOUS

\* What the provers need to know of integer division.
LEMMA Quotient ==
    ASSUME NEW x \in Nat, NEW y \in Nat \ {0}
    PROVE  /\ x \div y \in Nat
           /\ y * (x \div y) <= x
           /\ x < y * (x \div y) + y
OBVIOUS

\* The commission on an amount is part of it.
LEMMA CommissionBounds ==
    ASSUME NEW amount \in Nat, NEW rate \in 0..RateScale
    PROVE  Commission(amount, rate) \in 0..amount
<1> DEFINE z == amount * rate
<1>1. z \in Nat /\ z <= amount * 10000
  BY Monotone DEF RateScale
<1>2. Commission(amount, rate) = (2 * z + 10000) \div 20000
  BY DEF Commission, RoundHalfUp, RateScale
<1> HIDE DEF z
<1>3. (2 * z + 10000) \div 20000 \in 0..amount
  BY <1>1
<1> QED
  BY <1>2, <1>3

\* What is taken back is the whole amount, and neither side goes below zero.
LEMMA ReversalBounds ==
    ASSUME NEW amount \in Nat, NEW rate \in 0..RateScale, NEW cl \in Nat, NEW sl \in Nat,
           amount <= cl + sl
    PROVE  /\ Reversal(amount, rate, cl, sl).commission \in 0..cl
           /\ Reversal(amount, rate, cl, sl).seller \in 0..sl
           /\ Reversal(amount, rate, cl, sl).commission + Reversal(amount, rate, cl, sl).seller
                 = amount
<1> DEFINE c == Commission(amount, rate)
<1>1. c \in 0..amount
  BY CommissionBounds
<1> HIDE DEF c
<1>2. Lesser(amount - Lesser(c, cl), sl) \in 0..sl
      /\ amount - Lesser(amount - Lesser(c, cl), sl) \in 0..cl
  BY <1>1 DEF Lesser
<1> QED
  BY <1>2 DEF Reversal, c

\* The proportion of a part stays within its capacity, and what is left of the amount
\* within the capacity of the others.
LEMMA ProportionBounds ==
    ASSUME NEW amount \in Nat, NEW cap \in Nat, NEW room \in Nat \ {0}, cap <= room, amount <= room
    PROVE  /\ Lesser(cap, RoundHalfUp(amount * cap, room)) \in 0..cap
           /\ amount - Lesser(cap, RoundHalfUp(amount * cap, room)) \in 0..(room - cap)
<1> DEFINE z == amount * cap
           q == (2 * z + room) \div (2 * room)
<1>1. z \in Nat /\ z <= amount * room /\ amount * room \in Nat
  BY Monotone
<1>2. /\ q \in Nat /\ (2 * room) * q <= 2 * z + room
      /\ 2 * z + room < (2 * room) * q + 2 * room
  <2> HIDE DEF z
  <2>1. 2 * z + room \in Nat /\ 2 * room \in Nat \ {0}
    BY <1>1
  <2> QED
    BY <2>1, Quotient
<1>3. RoundHalfUp(amount * cap, room) = q
  BY DEF RoundHalfUp
<1>4. q <= amount
  <2> SUFFICES ASSUME q >= amount + 1 PROVE FALSE
    BY <1>2
  <2>1. room * (amount + 1) <= room * q
    <3> HIDE DEF q
    <3> QED
      BY <1>2, Monotone
  <2>3. room * (amount + 1) = amount * room + room
    OBVIOUS
  <2>2. (2 * room) * q = 2 * (room * q) /\ room * q \in Nat
    BY <1>2
  <2> HIDE DEF q, z
  <2> QED
    BY <1>1, <1>2, <2>1, <2>2, <2>3
<1>5. amount - q <= room - cap
  <2> DEFINE d == room - amount
  <2> SUFFICES ASSUME q + 1 <= cap - d PROVE FALSE
    BY <1>2
  <2>0. d \in Nat /\ cap - d \in Nat /\ q + 1 \in Nat
    BY <1>2
  <2>1. room * (q + 1) <= room * (cap - d)
    <3> HIDE DEF d, q
    <3> QED BY <2>0, Monotone
  <2>2. room * (q + 1) = room * q + room /\ room * q \in Nat
    BY <1>2
  <2>3. room * (cap - d) = room * cap - room * d /\ room * cap \in Nat /\ room * d \in Nat
    OBVIOUS
  <2>4. z = room * cap - cap * d /\ cap * d \in Nat
    OBVIOUS
  <2>5. cap * d <= room * d
    <3>1. d * cap <= d * room
      BY <2>0, Monotone
    <3> HIDE DEF d
    <3> QED BY <2>0, <3>1
  <2>6. (2 * room) * q = 2 * (room * q)
    BY <1>2
  <2> HIDE DEF d, q, z
  <2> QED
    BY <1>1, <1>2, <2>0, <2>1, <2>2, <2>3, <2>4, <2>5, <2>6
<1> HIDE DEF q, z
<1>6. Lesser(cap, q) \in 0..cap /\ amount - Lesser(cap, q) \in 0..(room - cap)
  BY <1>2, <1>4, <1>5 DEF Lesser
<1> QED
  BY <1>3, <1>6


\* A finite set of numbers has a greatest element.
LEMMA MaxExists ==
    ASSUME NEW S, IsFiniteSet(S), S \subseteq Nat, S # {}
    PROVE  Max(S) \in S /\ \A y \in S : Max(S) >= y
<1> DEFINE Good == {T \in SUBSET S : T # {} => \E x \in T : \A y \in T : x >= y}
<1>1. ASSUME NEW T \in SUBSET S, \A U \in SUBSET T : U # T => U \in Good
      PROVE  T \in Good
  <2> SUFFICES ASSUME NEW e \in T PROVE \E x \in T : \A y \in T : x >= y
    OBVIOUS
  <2>1. CASE T \ {e} = {}
    BY <2>1
  <2>2. CASE T \ {e} # {}
    <3>0. T \ {e} \in Good
      BY <1>1
    <3>1. PICK m \in T \ {e} : \A y \in T \ {e} : m >= y
      BY <2>2, <3>0
    <3>2. CASE m >= e
      BY <3>1, <3>2
    <3>3. CASE m < e
      BY <3>1, <3>3
    <3> QED
      BY <3>2, <3>3
  <2> QED
    BY <2>1, <2>2
<1> HIDE DEF Good
<1>2. S \in Good
  BY <1>1, SubsetInduction
<1> QED
  BY <1>2 DEF Good, Max

\* What is left while a refund is split.
Portions(parts) == [amount : Int, room : Int, share : [parts -> Int]]
Whole(amount, parts, capacity) ==
    [amount |-> amount, room |-> SumFunctionOnSet(capacity, parts),
     share |-> [p \in parts |-> 0]]

\* A step of the split keeps whole numbers, and uses up the capacity of its part.
LEMMA TakeType ==
    ASSUME NEW parts, NEW capacity \in [parts -> Nat], NEW eligible, NEW p \in parts,
           NEW left \in Portions(parts), left.room > 0
    PROVE  /\ TakeShare(eligible, capacity, p, left) \in Portions(parts)
           /\ TakeShare(eligible, capacity, p, left).room = left.room - capacity[p]
<1> DEFINE s == IF p = Max(eligible) THEN left.amount
                ELSE Lesser(capacity[p], RoundHalfUp(left.amount * capacity[p], left.room))
<1>1. /\ left.amount \in Int /\ left.room \in Nat \ {0}
      /\ capacity[p] \in Nat /\ left.share \in [parts -> Int]
  BY DEF Portions
<1>2. RoundHalfUp(left.amount * capacity[p], left.room) \in Int
  <2>1. (left.amount * capacity[p]) \in Int
    BY <1>1
  <2> DEFINE z == left.amount * capacity[p]
  <2> HIDE DEF z
  <2>2. z \in Int => (2 * z + left.room) \div (2 * left.room) \in Int
    BY <1>1
  <2> QED
    BY <2>1, <2>2 DEF RoundHalfUp, z
<1>3. s \in Int
  BY <1>1, <1>2 DEF Lesser
<1>4. TakeShare(eligible, capacity, p, left) =
        [amount |-> left.amount - s, room |-> left.room - capacity[p],
         share |-> [left.share EXCEPT ![p] = s]]
  BY DEF TakeShare
<1> HIDE DEF s
<1> QED
  BY <1>1, <1>3, <1>4 DEF Portions

\* The recursion that Split is.
Splitting(amount, parts, capacity) ==
    LET eligible == Eligible(parts, capacity) IN
    {f \in [SUBSET eligible -> Portions(parts)] :
        /\ f[{}] = Whole(amount, parts, capacity)
        /\ \A T \in SUBSET eligible : T # {} =>
              /\ Max(T) \in T
              /\ f[T] = TakeShare(eligible, capacity, Max(T), f[T \ {Max(T)}])
        /\ \A T \in SUBSET eligible :
              f[T].room = SumFunctionOnSet(capacity, eligible \ T)
        /\ Split(amount, parts, capacity) = f[eligible].share}

\* Split is a fold over the set of eligible parts; it is the result of the recursion
\* that takes off the greatest part last.
LEMMA SplitFold ==
    ASSUME NEW parts \in SUBSET Nat, IsFiniteSet(parts), NEW capacity \in [parts -> Nat],
           NEW amount \in Nat
    PROVE  Splitting(amount, parts, capacity) # {}
<1> DEFINE E == Eligible(parts, capacity)
           V == Portions(parts)
           whole == Whole(amount, parts, capacity)
           pick == [T \in SUBSET E |-> Max(T)]
           Round(p, left) == TakeShare(E, capacity, p, left)
           F == [p \in E |-> [left \in V |-> IF left.room > 0 THEN Round(p, left) ELSE left]]
           Room(T) == SumFunctionOnSet(capacity, E \ T)
           Rec(h) == h = [T \in SUBSET E |-> IF T = {} THEN whole
                             ELSE Round(Max(T), h[T \ {Max(T)}])]
<1>0. \A p \in parts : capacity[p] \in Nat /\ capacity[p] \in Int
  OBVIOUS
<1>1. IsFiniteSet(E) /\ E \subseteq parts /\ E \subseteq Nat /\ \A p \in E : capacity[p] > 0
  BY FS_Subset DEF Eligible
<1>2. \A T \in SUBSET E : T # {} => Max(T) \in T
  BY <1>1, FS_Subset, MaxExists
<1>3. whole \in V /\ whole.room = Room({})
  <2>1. SumFunctionOnSet(capacity, parts) \in Int
    BY <1>0, SumInt
  <2>2. SumFunctionOnSet(capacity, parts) = SumFunctionOnSet(capacity, E)
    <3>1. /\ parts = E \cup (parts \ E) /\ E \cap (parts \ E) = {}
          /\ IsFiniteSet(parts \ E) /\ \A p \in parts \ E : capacity[p] = 0
      BY <1>1, FS_Subset DEF Eligible
    <3>2. SumFunctionOnSet(capacity, parts \ E) = 0
      BY <3>1, SumZero
    <3>3. SumFunctionOnSet(capacity, parts) =
             SumFunctionOnSet(capacity, E) + SumFunctionOnSet(capacity, parts \ E)
      <4> HIDE DEF E
      <4>1. \A p \in E \cup (parts \ E) : capacity[p] \in Int
        BY <1>0, <1>1
      <4> QED
        BY <1>1, <3>1, <4>1, SumUnion
    <3>4. SumFunctionOnSet(capacity, E) \in Int
      BY <1>1, SumInt
    <3> QED
      BY <3>2, <3>3, <3>4
  <2>3. E \ {} = E
    OBVIOUS
  <2> QED
    BY <2>1, <2>2, <2>3 DEF Whole, Portions
<1>4. PICK f \in Folding(E, V, whole, pick, F) : TRUE
  <2>1. F \in [E -> [V -> V]]
    <3>1. \A p \in E, left \in V : left.room > 0 => Round(p, left) \in V
      BY <1>1, TakeType
    <3> HIDE DEF E, V, Round
    <3> QED
      BY <3>1
  <2>2. Picks(pick, E)
    <3> HIDE DEF E
    <3> QED
      BY <1>2 DEF Picks
  <2>3. whole \in V
    BY <1>3
  <2> HIDE DEF F, pick, E, V, whole
  <2>4. Folding(E, V, whole, pick, F) # {}
    BY <1>1, <2>1, <2>2, <2>3, FoldingExists
  <2> QED
    BY <2>4
<1>5. f \in [SUBSET E -> V] /\ f[{}] = whole
  <2> HIDE DEF F, pick, E, V, whole
  <2> QED
    BY <1>4 DEF Folding
<1>6. ASSUME NEW T \in SUBSET E, T # {}, f[T \ {Max(T)}].room > 0
      PROVE  f[T] = Round(Max(T), f[T \ {Max(T)}])
  <2>1. Max(T) \in E /\ T \ {Max(T)} \in SUBSET E /\ pick[T] = Max(T)
    BY <1>2, <1>6
  <2>2. f[T \ {Max(T)}] \in V
    BY <1>5, <2>1
  <2>3. f[T] = F[Max(T)][f[T \ {Max(T)}]]
    <3> HIDE DEF F, pick, E, V, whole
    <3> QED
      BY <1>4, <1>6, <2>1 DEF Folding
  <2> HIDE DEF E, V, Round, whole, pick
  <2> QED
    BY <1>6, <2>1, <2>2, <2>3
<1>16. \A p \in parts, left \in V :
          left.room > 0 => Round(p, left).room = left.room - capacity[p]
  <2> SUFFICES ASSUME NEW p \in parts, NEW left \in Portions(parts), left.room > 0
               PROVE  TakeShare(E, capacity, p, left).room = left.room - capacity[p]
    OBVIOUS
  <2> HIDE DEF E
  <2> QED
    BY DEF TakeShare
<1>7. ASSUME NEW T \in SUBSET E, T # {}, f[T \ {Max(T)}].room = Room(T \ {Max(T)})
      PROVE  f[T \ {Max(T)}].room > 0 /\ f[T].room = Room(T)
  <2> DEFINE m == Max(T)
  <2>1. m \in T /\ m \in E /\ m \in parts
    BY <1>1, <1>2, <1>7
  <2>2. E \ (T \ {m}) = (E \ T) \cup {m} /\ m \notin E \ T /\ IsFiniteSet(E \ T)
    BY <1>1, <2>1, FS_Subset
  <2>3. Room(T \ {m}) = capacity[m] + Room(T)
    <3>1. \A x \in (E \ T) \cup {m} : capacity[x] \in Int
      BY <1>1, <2>1
    <3> HIDE DEF E, m
    <3> QED
      BY <2>2, <3>1, SumAdd
  <2>4. Room(T) \in Nat
    BY <1>1, <2>2, SumNat
  <2>5. capacity[m] \in Nat /\ capacity[m] > 0
    BY <1>1, <2>1
  <2> HIDE DEF m, Room
  <2>6. f[T \ {m}].room > 0
    BY <1>7, <2>3, <2>4, <2>5 DEF m
  <2>7. f[T] = Round(m, f[T \ {m}])
    BY <1>6, <1>7, <2>6 DEF m
  <2>8. f[T \ {m}] \in V
    BY <1>5
  <2>9. f[T].room = f[T \ {m}].room - capacity[m]
    <3>1. Round(m, f[T \ {m}]).room = f[T \ {m}].room - capacity[m]
      <4> HIDE DEF E, Round, V
      <4> QED
        BY <1>16, <2>1, <2>6, <2>8
    <3> QED
      BY <2>7, <3>1
  <2> QED
    BY <1>7, <2>3, <2>4, <2>5, <2>6, <2>9 DEF m
<1>8. \A T \in SUBSET E : f[T].room = Room(T)
  <2> DEFINE Good == {T \in SUBSET E : f[T].room = Room(T)}
  <2>1. ASSUME NEW T \in SUBSET E, \A U \in SUBSET T : U # T => U \in Good
        PROVE  T \in Good
    <3>1. CASE T = {}
      BY <1>3, <1>5, <3>1
    <3>2. CASE T # {}
      <4>1. T \ {Max(T)} \in Good
        BY <1>2, <2>1, <3>2
      <4> HIDE DEF Room, E
      <4> QED
        BY <1>7, <3>2, <4>1
    <3> QED
      BY <3>1, <3>2
  <2> HIDE DEF Good
  <2>2. \A T \in SUBSET E : T \in Good
    BY <1>1, <2>1, SubsetInduction
  <2> QED
    BY <2>2 DEF Good
<1>9. \A T \in SUBSET E : T # {} => f[T] = Round(Max(T), f[T \ {Max(T)}])
  <2> SUFFICES ASSUME NEW T \in SUBSET E, T # {} PROVE f[T] = Round(Max(T), f[T \ {Max(T)}])
    OBVIOUS
  <2>1. T \ {Max(T)} \in SUBSET E
    OBVIOUS
  <2> HIDE DEF Room, E, Round
  <2> QED
    BY <1>6, <1>7, <1>8, <2>1
<1>10. Rec(f)
  <2> HIDE DEF E, V, whole, Round
  <2> QED
    BY <1>5, <1>9
<1> DEFINE h == CHOOSE h : Rec(h)
<1>11. Rec(h)
  <2> HIDE DEF Rec
  <2> QED
    BY <1>10
<1>12. \A T \in SUBSET E : h[T] = f[T]
  <2> DEFINE Good == {T \in SUBSET E : h[T] = f[T]}
  <2>1. ASSUME NEW T \in SUBSET E, \A U \in SUBSET T : U # T => U \in Good
        PROVE  T \in Good
    <3>1. CASE T = {}
      <4> HIDE DEF Round, E, h, whole
      <4> QED
        BY <1>5, <1>11, <3>1
    <3>2. CASE T # {}
      <4>1. T \ {Max(T)} \in Good
        BY <1>2, <2>1, <3>2
      <4> HIDE DEF Round, E, h, whole
      <4>2. h[T] = Round(Max(T), h[T \ {Max(T)}])
        BY <1>11, <3>2
      <4> QED
        BY <1>9, <3>2, <4>1, <4>2
    <3> QED
      BY <3>1, <3>2
  <2> HIDE DEF Good, h
  <2>2. \A T \in SUBSET E : T \in Good
    BY <1>1, <2>1, SubsetInduction
  <2> QED
    BY <2>2 DEF Good
<1>13. Split(amount, parts, capacity) = h[E].share
  BY DEF Split, MapThenFoldSet, Whole
<1>14. Split(amount, parts, capacity) = f[E].share
  <2> HIDE DEF h, E
  <2> QED
    BY <1>12, <1>13
<1>15. f \in Splitting(amount, parts, capacity)
  <2> HIDE DEF h, F, pick, whole, V
  <2> QED
    BY <1>2, <1>5, <1>8, <1>9, <1>14 DEF Splitting, whole, V
<1> QED
  BY <1>15

\* A refund within the capacities is split exactly, and no part is asked for more than
\* its capacity.
LEMMA SplitFits ==
    ASSUME NEW parts \in SUBSET Nat, IsFiniteSet(parts), NEW capacity \in [parts -> Nat],
           NEW amount \in 0..SumFunctionOnSet(capacity, parts)
    PROVE  LET split == Split(amount, parts, capacity) IN
           /\ split \in [parts -> Nat]
           /\ \A p \in parts : split[p] <= capacity[p]
           /\ SumFunctionOnSet(split, parts) = amount
<1> DEFINE E == Eligible(parts, capacity)
           V == Portions(parts)
           total == SumFunctionOnSet(capacity, parts)
           last == Max(E)
<1>0. /\ total \in Nat /\ amount \in Nat /\ amount <= total
      /\ \A p \in parts : capacity[p] \in Nat /\ capacity[p] \in Int
  <2>1. \A p \in parts : capacity[p] \in Nat /\ capacity[p] \in Int
    OBVIOUS
  <2>2. total \in Nat
    BY <2>1, SumNat
  <2> HIDE DEF total
  <2> QED
    BY <2>1, <2>2 DEF total
<1>1. IsFiniteSet(E) /\ E \subseteq parts /\ \A p \in E : capacity[p] > 0
  BY FS_Subset DEF Eligible
<1>2. PICK f \in Splitting(amount, parts, capacity) : TRUE
  BY <1>0, SplitFold
<1> HIDE DEF total
<1>3. /\ f \in [SUBSET E -> V]
      /\ f[{}] = Whole(amount, parts, capacity)
      /\ \A T \in SUBSET E : T # {} =>
            /\ Max(T) \in T
            /\ f[T] = TakeShare(E, capacity, Max(T), f[T \ {Max(T)}])
      /\ \A T \in SUBSET E : f[T].room = SumFunctionOnSet(capacity, E \ T)
      /\ Split(amount, parts, capacity) = f[E].share
  BY <1>2 DEF Splitting
<1> DEFINE Given(T) == SumFunctionOnSet(f[T].share, parts)
           FitsRoom(T) == /\ f[T].amount \in 0..f[T].room
                          /\ f[T].share \in [parts -> Nat]
                          /\ \A p \in parts : f[T].share[p] <= capacity[p]
                          /\ \A p \in parts \ T : f[T].share[p] = 0
                          /\ Given(T) = amount - f[T].amount
           Good == {T \in SUBSET E : (last \notin T \/ T = E) => FitsRoom(T)}
\* Taking a share that fits.
<1>4. ASSUME NEW T \in SUBSET E, T # {}, NEW m, m = Max(T), NEW left, left = f[T \ {m}],
             FitsRoom(T \ {m}), NEW s \in Nat, s <= capacity[m],
             left.amount - s \in 0..(left.room - capacity[m]),
             f[T] = [amount |-> left.amount - s, room |-> left.room - capacity[m],
                     share |-> [left.share EXCEPT ![m] = s]]
      PROVE  FitsRoom(T)
  <2>1. m \in T /\ m \in parts /\ m \notin T \ {m}
    BY <1>1, <1>3, <1>4
  <2>2. /\ left.share \in [parts -> Nat] /\ left.share[m] = 0
        /\ \A p \in parts : left.share[p] <= capacity[p]
        /\ \A p \in parts \ (T \ {m}) : left.share[p] = 0
    BY <1>4, <2>1
  <2>3. /\ f[T].share = [left.share EXCEPT ![m] = s] /\ f[T].amount = left.amount - s
        /\ f[T].room = left.room - capacity[m]
    BY <1>4
  <2>4. /\ f[T].share \in [parts -> Nat] /\ f[T].share[m] = s
        /\ \A p \in parts \ {m} : f[T].share[p] = left.share[p]
    BY <1>4, <2>1, <2>2, <2>3
  <2>5. Given(T) = Given(T \ {m}) + s
    <3> DEFINE old == left.share
               new == f[T].share
    <3> HIDE DEF old, new, FitsRoom
    <3>1. /\ \A p \in parts : old[p] \in Int /\ new[p] \in Int
          /\ \A p \in parts \ {m} : new[p] = old[p]
          /\ new[m] = s /\ old[m] = 0
      <4>1. old \in [parts -> Nat] /\ old[m] = 0
        BY <2>2 DEF old
      <4>2. new \in [parts -> Nat] /\ new[m] = s
        BY <2>4 DEF new
      <4>3. \A p \in parts \ {m} : new[p] = old[p]
        BY <2>4 DEF old, new
      <4> HIDE DEF E, V
      <4> QED
        BY <4>1, <4>2, <4>3
    <3> HIDE DEF E, V
    <3>2. SumFunctionOnSet(new, parts) = SumFunctionOnSet(old, parts) + new[m] - old[m]
      <4>1. m \in parts /\ DifferAt(old, new, parts, m)
        BY <2>1, <3>1 DEF DifferAt
      <4> QED
        BY <4>1, SumChange
    <3>3. SumFunctionOnSet(old, parts) \in Int
      BY <3>1, SumInt
    <3>4. Given(T) = SumFunctionOnSet(new, parts)
          /\ Given(T \ {m}) = SumFunctionOnSet(old, parts)
      BY <1>4 DEF old, new
    <3> HIDE DEF Given
    <3> QED
      BY <1>4, <3>1, <3>2, <3>3, <3>4
  <2>6. Given(T) = amount - f[T].amount
    <3>1. Given(T \ {m}) = amount - left.amount /\ left.amount \in Int
      BY <1>4
    <3> HIDE DEF Given, FitsRoom
    <3> QED
      BY <1>0, <1>4, <2>3, <2>5, <3>1
  <2>7. \A p \in parts \ T : f[T].share[p] = 0
    BY <2>1, <2>2, <2>4
  <2>8. \A p \in parts : f[T].share[p] <= capacity[p]
    BY <1>4, <2>2, <2>4
  <2> HIDE DEF Given
  <2> QED
    BY <1>4, <2>3, <2>4, <2>6, <2>7, <2>8
<1>5. ASSUME NEW T \in SUBSET E, \A U \in SUBSET T : U # T => U \in Good,
             last \notin T \/ T = E
      PROVE  FitsRoom(T)
  <2> HIDE DEF last
  <2>1. CASE T = {}
    <3>1. /\ f[T].amount = amount /\ f[T].room = total
          /\ f[T].share = [p \in parts |-> 0]
      BY <1>3, <2>1 DEF Whole, total
    <3>2. Given(T) = 0
      BY <3>1, SumZero
    <3> HIDE DEF Given
    <3> QED
      BY <1>0, <3>1, <3>2
  <2>2. CASE T # {}
    <3> DEFINE m == Max(T)
               left == f[T \ {m}]
    <3>1. /\ m \in T /\ m \in parts /\ T \ {m} \in SUBSET E /\ m \in E
          /\ f[T] = TakeShare(E, capacity, m, left)
      BY <1>1, <1>3, <2>2
    <3>2. T = E => m = last
      BY DEF last
    <3>3. T \ {m} \in Good /\ last \notin T \ {m}
      <4>1. T \ {m} \in SUBSET T /\ T \ {m} # T
        BY <3>1
      <4>2. last \notin T \ {m}
        BY <1>5, <3>2
      <4>3. T \ {m} \in Good
        <5> HIDE DEF Good, m
        <5> QED
          BY <1>5, <4>1
      <4> QED
        BY <4>2, <4>3
    <3>4. FitsRoom(T \ {m}) /\ left \in V
      BY <1>3, <3>1, <3>3
    <3>5. /\ left.amount \in 0..left.room /\ left.amount \in Int /\ left.room \in Int
          /\ left.room = SumFunctionOnSet(capacity, E \ (T \ {m}))
      BY <1>3, <3>1, <3>4 DEF Portions
    <3>6. capacity[m] \in Nat \ {0} /\ capacity[m] <= left.room
      <4>1. m \in E \ (T \ {m}) /\ IsFiniteSet(E \ (T \ {m}))
        BY <1>1, <3>1, FS_Subset
      <4>2. \A x \in E \ (T \ {m}) : capacity[x] \in Nat
        BY <1>0, <1>1
      <4> DEFINE R == E \ (T \ {m})
      <4>3. SumFunctionOnSet(capacity, R) = capacity[m] + SumFunctionOnSet(capacity, R \ {m})
        <5> HIDE DEF R, m
        <5>1. m \in R /\ IsFiniteSet(R) /\ \A x \in R : capacity[x] \in Int
          BY <4>1, <4>2 DEF R
        <5> QED
          BY <5>1, SumRemove
      <4>4. SumFunctionOnSet(capacity, R \ {m}) \in Nat
        <5>1. IsFiniteSet(R \ {m}) /\ \A x \in R \ {m} : capacity[x] \in Nat
          BY <4>1, <4>2, FS_Subset
        <5> HIDE DEF R
        <5> QED
          BY <5>1, SumNat
      <4>5. capacity[m] \in Nat /\ capacity[m] > 0
        BY <1>0, <1>1, <3>1
      <4> HIDE DEF m, left, FitsRoom
      <4> QED
        BY <3>5, <4>3, <4>4, <4>5
    <3> DEFINE s == IF m = Max(E) THEN left.amount
                    ELSE Lesser(capacity[m], RoundHalfUp(left.amount * capacity[m], left.room))
    <3>7. s \in 0..capacity[m] /\ left.amount - s \in 0..(left.room - capacity[m])
      <4>1. CASE T = E
        <5>1. E \ (T \ {m}) = {m}
          BY <3>1, <4>1
        <5>2. left.room = capacity[m]
          <6>1. SumFunctionOnSet(capacity, {m}) = capacity[m] + SumFunctionOnSet(capacity, {m} \ {m})
            BY <1>0, <3>1, FS_Singleton, SumRemove
          <6>2. {m} \ {m} = {}
            OBVIOUS
          <6>3. SumFunctionOnSet(capacity, {}) = 0
            BY SumEmpty
          <6> HIDE DEF m, left
          <6> QED
            BY <3>5, <3>6, <5>1, <6>1, <6>2, <6>3
        <5>3. s = left.amount
          BY <3>2, <4>1 DEF last
        <5> HIDE DEF m, left, s, FitsRoom
        <5> QED
          BY <3>5, <3>6, <5>2, <5>3
      <4>2. CASE T # E
        <5>1. m # Max(E)
          BY <1>5, <3>1, <4>2 DEF last
        <5>2. s = Lesser(capacity[m], RoundHalfUp(left.amount * capacity[m], left.room))
          BY <5>1
        <5> HIDE DEF m, left, s, FitsRoom
        <5>3. left.amount \in Nat /\ left.room \in Nat \ {0} /\ left.amount <= left.room
          BY <3>5, <3>6
        <5> QED
          BY <3>6, <5>2, <5>3, ProportionBounds
      <4> QED
        BY <4>1, <4>2
    <3>8. f[T] = [amount |-> left.amount - s, room |-> left.room - capacity[m],
                  share |-> [left.share EXCEPT ![m] = s]]
      BY <3>1 DEF TakeShare
    <3>9. s \in Nat /\ s <= capacity[m]
      BY <3>6, <3>7
    <3>10. m = Max(T) /\ left = f[T \ {m}]
      OBVIOUS
    <3> HIDE DEF m, left, s, FitsRoom
    <3> QED
      BY <1>4, <2>2, <3>4, <3>7, <3>8, <3>9, <3>10
  <2> QED
    BY <2>1, <2>2
<1>6. \A T \in SUBSET E : T \in Good
  <2>1. ASSUME NEW T \in SUBSET E, \A U \in SUBSET T : U # T => U \in Good
        PROVE  T \in Good
    <3> HIDE DEF FitsRoom, E, last
    <3> QED
      BY <1>5, <2>1
  <2> HIDE DEF Good, E
  <2> QED
    BY <1>1, <2>1, SubsetInduction
<1>7. FitsRoom(E)
  BY <1>6
<1>8. f[E].amount = 0
  <2>1. E \ E = {}
    OBVIOUS
  <2>2. f[E].room = 0
    BY <1>3, <2>1, SumEmpty
  <2> QED
    BY <1>7, <2>2
<1> QED
  <2>1. f[E].share \in [parts -> Nat] /\ \A p \in parts : f[E].share[p] <= capacity[p]
    BY <1>7
  <2>2. Given(E) = amount - f[E].amount
    BY <1>7
  <2>3. SumFunctionOnSet(f[E].share, parts) = amount
    BY <1>0, <1>8, <2>2
  <2> HIDE DEF E, Given
  <2> QED
    BY <1>3, <2>1, <2>3

-----------------------------------------------------------------------------
(* A new ledger, with the allocations that waited for it.                  *)

\* The rows before anything is known of their bounds.
Row == [rate : Int, refunded : Int, reversedCommission : Int, reversedSeller : Int,
        offset : Int, shortfall : Int]

\* Applying a waiting allocation to a row of integers gives such a row.
LEMMA OffsetType ==
    ASSUME NEW p, NEW l \in Row, NEW r, share[r][p] \in Int, Subtotal[p] \in Int
    PROVE  /\ Offset(p, l, r) \in Row
           /\ LET taken == Reversal(share[r][p], l.rate, NetCommission(p, l), NetSeller(p, l)) IN
              /\ taken.commission \in Int /\ taken.seller \in Int
              /\ Offset(p, l, r) =
                   [l EXCEPT !.refunded = l.refunded + share[r][p],
                             !.reversedCommission = l.reversedCommission + taken.commission,
                             !.reversedSeller = l.reversedSeller + taken.seller,
                             !.offset = l.offset + taken.seller]
<1> DEFINE n == share[r][p]
           c == Commission(n, l.rate)
           cp == Commission(Subtotal[p], l.rate)
           taken == Reversal(n, l.rate, NetCommission(p, l), NetSeller(p, l))
<1>1. \A a, b \in Int : Commission(a, b) \in Int
  <2> SUFFICES ASSUME NEW a \in Int, NEW b \in Int PROVE Commission(a, b) \in Int
    OBVIOUS
  <2>1. \A z \in Int : (2 * z + 10000) \div (2 * 10000) \in Int
    OBVIOUS
  <2>2. (a * b) \in Int
    OBVIOUS
  <2> QED
    BY <2>1, <2>2 DEF Commission, RoundHalfUp, RateScale
<1>2. /\ l.rate \in Int /\ l.refunded \in Int /\ l.reversedCommission \in Int
      /\ l.reversedSeller \in Int /\ l.offset \in Int /\ n \in Int
  BY DEF Row
<1>3. c \in Int /\ cp \in Int
  BY <1>1, <1>2
<1>4. taken = [commission |-> taken.commission, seller |-> taken.seller]
      /\ taken.commission \in Int /\ taken.seller \in Int
  <2> DEFINE nc == NetCommission(p, l)
             ns == NetSeller(p, l)
  <2>1. nc \in Int /\ ns \in Int
    BY <1>2, <1>3 DEF NetCommission, NetSeller
  <2> HIDE DEF nc, ns
  <2>2. Lesser(n - Lesser(c, nc), ns) \in Int
    BY <1>2, <1>3, <2>1 DEF Lesser
  <2> DEFINE x == Lesser(n - Lesser(c, nc), ns)
  <2>3. taken = [commission |-> n - x, seller |-> x]
    BY DEF Reversal, nc, ns
  <2>4. x \in Int /\ n - x \in Int
    BY <1>2, <2>2
  <2> HIDE DEF n, x, taken
  <2> QED
    BY <2>3, <2>4
<1> HIDE DEF taken, n, c, cp
<1>5. Offset(p, l, r) = [l EXCEPT !.refunded = l.refunded + n,
                             !.reversedCommission = l.reversedCommission + taken.commission,
                             !.reversedSeller = l.reversedSeller + taken.seller,
                             !.offset = l.offset + taken.seller]
  BY DEF Offset, Applied, Row, taken, n
<1>6. Offset(p, l, r) \in Row
  <2> DEFINE u1 == l.refunded + n
             u2 == l.reversedCommission + taken.commission
             u3 == l.reversedSeller + taken.seller
             u4 == l.offset + taken.seller
  <2>1. u1 \in Int /\ u2 \in Int /\ u3 \in Int /\ u4 \in Int
    BY <1>2, <1>4
  <2> HIDE DEF u1, u2, u3, u4
  <2>2. [l EXCEPT !.refunded = u1, !.reversedCommission = u2, !.reversedSeller = u3,
                  !.offset = u4] \in Row
    BY <2>1 DEF Row
  <2> QED
    BY <1>5, <2>2 DEF u1, u2, u3, u4
<1> QED
  BY <1>4, <1>5, <1>6 DEF taken, n

New(rate) == [NoLedger EXCEPT !.rate = rate]

\* The ledger after each of the n waiting allocations.
Offsets(p, rate, queue, n) ==
    {g \in [0..n -> Row] :
        /\ g[0] = New(rate)
        /\ \A k \in 1..n : g[k] = Offset(p, g[k - 1], queue[k])
        /\ SettledLedger(p, rate, queue) = g[n]}

\* SettledLedger is a fold over the queue; it is the result of the recursion over the
\* queue's prefixes.
LEMMA OffsetFold ==
    ASSUME NEW p, NEW rate \in Int, NEW queue, NEW n \in Nat, DOMAIN queue = 1..n,
           Subtotal[p] \in Int, \A k \in 1..n : share[queue[k]][p] \in Int
    PROVE  Offsets(p, rate, queue, n) # {}
<1> DEFINE S == 1..n
           base == New(rate)
           pick == Latest(S)
           Next1(k, l) == Offset(p, l, queue[k])
           F == [k \in S |-> [l \in Row |-> Next1(k, l)]]
           Rec(h) == h = [T \in SUBSET S |-> IF T = {} THEN base
                             ELSE Next1(Max(T), h[T \ {Max(T)}])]
<1>0. IsFiniteSet(S)
  BY FS_Interval
<1>1. \A T \in SUBSET S : T # {} => Max(T) \in T /\ pick[T] = Max(T)
  BY MaxOfPositions DEF Latest
<1>2. F \in [S -> [Row -> Row]] /\ base \in Row
  <2>1. \A k \in S, l \in Row : Next1(k, l) \in Row
    BY OffsetType
  <2>2. base \in Row
    BY DEF New, NoLedger, Row
  <2> HIDE DEF Row, Next1
  <2> QED
    BY <2>1, <2>2
<1>3. PICK f \in LeftFolding(n, Row, base, F) : TRUE
  <2> HIDE DEF F, base, Row
  <2> QED
    BY <1>2, LeftFoldingExists
<1>4. Picks(pick, S) /\ f \in Folding(S, Row, base, pick, F)
  <2>1. f \in Folding(S, Row, base, pick, F)
    <3> HIDE DEF F, base, Row
    <3> QED
      BY <1>3 DEF LeftFolding
  <2>2. Picks(pick, S)
    BY <1>1 DEF Picks
  <2> QED
    BY <2>1, <2>2
<1>5. f \in [SUBSET S -> Row]
  <2> HIDE DEF F, base, Row, pick
  <2> QED
    BY <1>4 DEF Folding
<1>6. \A T \in SUBSET S : f[T] = IF T = {} THEN base ELSE Next1(Max(T), f[T \ {Max(T)}])
  <2> SUFFICES ASSUME NEW T \in SUBSET S
               PROVE  f[T] = IF T = {} THEN base ELSE Next1(Max(T), f[T \ {Max(T)}])
    OBVIOUS
  <2>1. f[T] = IF T = {} THEN base ELSE F[pick[T]][f[T \ {pick[T]}]]
    <3> HIDE DEF F, base, Row, pick
    <3> QED
      BY <1>4 DEF Folding
  <2>2. ASSUME T # {}
        PROVE  F[pick[T]][f[T \ {pick[T]}]] = Next1(Max(T), f[T \ {Max(T)}])
    <3>1. pick[T] = Max(T) /\ Max(T) \in S /\ f[T \ {Max(T)}] \in Row
      BY <1>1, <1>5, <2>2
    <3> HIDE DEF pick, Row, Next1, S
    <3> QED
      BY <3>1
  <2> HIDE DEF F, Next1, base, pick
  <2> QED
    BY <2>1, <2>2
<1>7. Rec(f)
  <2> HIDE DEF base, Next1, Row
  <2> QED
    BY <1>5, <1>6
<1> DEFINE h == CHOOSE h : Rec(h)
<1>8. Rec(h)
  <2> HIDE DEF Rec
  <2> QED
    BY <1>7
<1>9. \A T \in SUBSET S : h[T] = f[T]
  <2> HIDE DEF h
  <2>1. ASSUME NEW T \in SUBSET S
        PROVE  /\ T = {} => h[T] = base
               /\ T # {} /\ h[T \ {pick[T]}] \in Row => h[T] = F[pick[T]][h[T \ {pick[T]}]]
    <3>0. h[T] = IF T = {} THEN base ELSE Next1(Max(T), h[T \ {Max(T)}])
      <4> HIDE DEF Next1, base
      <4> QED
        BY <1>8
    <3>1. T # {} => pick[T] = Max(T) /\ Max(T) \in S
      BY <1>1
    <3> HIDE DEF pick, Row, Next1, S, Rec, base
    <3> QED
      BY <3>0, <3>1
  <2>2. Follows(h, S, Row, base, pick, F)
    <3> HIDE DEF F, pick, S, Rec, Row, base
    <3> QED
      BY <2>1 DEF Follows
  <2> HIDE DEF F, pick, S, Rec, Row, base
  <2> QED
    BY <1>0, <1>4, <2>2, FoldingAgrees
<1>10. SettledLedger(p, rate, queue) = h[S]
  BY DEF SettledLedger, FoldLeft, MapThenFoldSet, New
<1> DEFINE g == [k \in 0..n |-> f[1..k]]
<1>11. g \in Offsets(p, rate, queue, n)
  <2>1. \A k \in 0..n : 1..k \in SUBSET S /\ f[1..k] \in Row
    BY <1>5
  <2>2. ASSUME NEW k \in 1..n PROVE f[1..k] = Next1(k, f[1..(k - 1)])
    <3>1. f[1..k] = F[k][f[1..(k - 1)]]
      <4> HIDE DEF F, base, Row
      <4> QED
        BY <1>3 DEF LeftFolding
    <3>2. k - 1 \in 0..n /\ k \in S
      OBVIOUS
    <3>3. f[1..(k - 1)] \in Row
      BY <2>1, <3>2
    <3> HIDE DEF Next1, Row, S
    <3> QED
      BY <3>1, <3>2, <3>3
  <2>3. f[1..0] = base
    <3> HIDE DEF F, base, Row
    <3> QED
      BY <1>3 DEF LeftFolding
  <2>4. SettledLedger(p, rate, queue) = f[1..n]
    <3> HIDE DEF h
    <3> QED
      BY <1>9, <1>10
  <2>5. \A k \in 1..n : k - 1 \in 0..n /\ k \in 0..n
    OBVIOUS
  <2>6. 0 \in 0..n /\ n \in 0..n
    OBVIOUS
  <2> HIDE DEF Row, h, base
  <2>7. g \in [0..n -> Row] /\ g[0] = base /\ SettledLedger(p, rate, queue) = g[n]
    BY <2>1, <2>3, <2>4, <2>6
  <2>8. \A k \in 1..n : g[k] = Offset(p, g[k - 1], queue[k])
    BY <2>2, <2>5
  <2> HIDE DEF g
  <2> QED
    BY <2>7, <2>8 DEF Offsets, base
<1> QED
  BY <1>11

LedgerRow == [rate : 0..RateScale, refunded : Nat, reversedCommission : Nat,
              reversedSeller : Nat, offset : Nat, shortfall : Nat]

\* The rows in which what was refunded of p is split without reversing either side
\* below zero.
Fitting(p) ==
    {l \in LedgerRow :
        /\ l.reversedCommission + l.reversedSeller = l.refunded
        /\ NetCommission(p, l) >= 0 /\ NetSeller(p, l) >= 0}

Taken(p, l, n) == Reversal(n, l.rate, NetCommission(p, l), NetSeller(p, l))

\* A refunded amount within what is left of a ledger keeps it a fitting one.
LEMMA AppliedFits ==
    ASSUME NEW p, Subtotal[p] \in Nat, NEW l \in Fitting(p), NEW n \in 0..NetGross(p, l)
    PROVE  /\ Applied(l, n, Taken(p, l, n)) \in Fitting(p)
           /\ Applied(l, n, Taken(p, l, n)).refunded = l.refunded + n
           /\ Applied(l, n, Taken(p, l, n)).shortfall = l.shortfall
           /\ Applied(l, n, Taken(p, l, n)).offset = l.offset
           /\ NetSeller(p, l) \in Nat
           /\ Taken(p, l, n).seller \in 0..NetSeller(p, l)
           /\ NetSeller(p, Applied(l, n, Taken(p, l, n))) =
                 NetSeller(p, l) - Taken(p, l, n).seller
<1> DEFINE c == Commission(Subtotal[p], l.rate)
           sub == Subtotal[p]
           taken == Taken(p, l, n)
           row == Applied(l, n, taken)
           nc == NetCommission(p, l)
           ns == NetSeller(p, l)
<1>1. /\ l.rate \in 0..RateScale /\ l.refunded \in Nat /\ l.reversedCommission \in Nat
      /\ l.reversedSeller \in Nat /\ l.offset \in Nat /\ l.shortfall \in Nat
      /\ l.reversedCommission + l.reversedSeller = l.refunded
      /\ nc >= 0 /\ ns >= 0
  BY DEF Fitting, LedgerRow
<1>2. c \in 0..sub /\ sub \in Nat
  BY <1>1, CommissionBounds
<1>3. nc = c - l.reversedCommission /\ ns = sub - c - l.reversedSeller
      /\ NetGross(p, l) = sub - l.refunded
  BY DEF NetCommission, NetSeller, NetGross
<1> HIDE DEF c, sub, nc, ns
<1>4. nc \in Nat /\ ns \in Nat /\ nc + ns = sub - l.refunded /\ n \in Nat /\ n <= nc + ns
  BY <1>1, <1>2, <1>3
<1>5. taken.commission \in 0..nc /\ taken.seller \in 0..ns /\ taken.commission + taken.seller = n
  <2>1. taken = Reversal(n, l.rate, nc, ns)
    BY DEF Taken, nc, ns
  <2> DEFINE rate == l.rate
  <2>2. rate \in 0..RateScale
    BY <1>1
  <2> HIDE DEF taken, rate
  <2>3. /\ Reversal(n, rate, nc, ns).commission \in 0..nc
        /\ Reversal(n, rate, nc, ns).seller \in 0..ns
        /\ Reversal(n, rate, nc, ns).commission + Reversal(n, rate, nc, ns).seller = n
    BY <1>4, <2>2, ReversalBounds
  <2> QED
    BY <2>1, <2>3 DEF rate
<1> HIDE DEF taken
<1> DEFINE u1 == l.refunded + n
           u2 == l.reversedCommission + taken.commission
           u3 == l.reversedSeller + taken.seller
<1>6. row = [l EXCEPT !.refunded = u1, !.reversedCommission = u2, !.reversedSeller = u3]
  BY DEF Applied, Fitting, LedgerRow
<1>7. u1 \in Nat /\ u2 \in Nat /\ u3 \in Nat /\ u2 + u3 = u1 /\ c - u2 >= 0 /\ sub - c - u3 >= 0
      /\ sub - c - u3 = ns - taken.seller
  BY <1>1, <1>2, <1>3, <1>4, <1>5
<1> HIDE DEF u1, u2, u3, row
<1>8. /\ row \in LedgerRow /\ row.refunded = u1 /\ row.reversedCommission = u2
      /\ row.reversedSeller = u3 /\ row.rate = l.rate /\ row.shortfall = l.shortfall
      /\ row.offset = l.offset
  BY <1>6, <1>7 DEF LedgerRow, Fitting
<1>9. NetCommission(p, row) = c - u2 /\ NetSeller(p, row) = sub - c - u3
  BY <1>8 DEF NetCommission, NetSeller, c, sub
<1>10. row \in Fitting(p)
  BY <1>7, <1>8, <1>9 DEF Fitting
<1> QED
  BY <1>4, <1>5, <1>7, <1>8, <1>9, <1>10 DEF row, taken, u1, ns

\* One waiting allocation applied to a new ledger.
LEMMA OffsetFits ==
    ASSUME NEW p, Subtotal[p] \in Nat, NEW l \in Fitting(p),
           NEW r, share[r][p] \in 0..NetGross(p, l)
    PROVE  /\ Offset(p, l, r) \in Fitting(p)
           /\ Offset(p, l, r).refunded = l.refunded + share[r][p]
           /\ Offset(p, l, r).shortfall = l.shortfall
<1> DEFINE n == share[r][p]
           taken == Taken(p, l, n)
           row == Applied(l, n, taken)
           ns == NetSeller(p, l)
           u == row.offset + taken.seller
           new == [row EXCEPT !.offset = u]
<1>1. /\ row \in Fitting(p) /\ row.refunded = l.refunded + n /\ row.shortfall = l.shortfall
      /\ ns \in Nat /\ taken.seller \in 0..ns
  <2> HIDE DEF n
  <2> QED
    BY AppliedFits DEF n
<1>2. Offset(p, l, r) = [row EXCEPT !.offset = @ + taken.seller]
  BY DEF Offset, Taken
<1> HIDE DEF row, taken, ns, n
<1>3. u \in Nat
  BY <1>1 DEF Fitting, LedgerRow
<1>4. Offset(p, l, r) = new
  BY <1>1, <1>2 DEF Fitting, LedgerRow
<1> HIDE DEF u
<1>5. /\ new \in LedgerRow /\ new.rate = row.rate /\ new.refunded = row.refunded
      /\ new.reversedCommission = row.reversedCommission
      /\ new.reversedSeller = row.reversedSeller /\ new.shortfall = row.shortfall
  BY <1>1, <1>3 DEF Fitting, LedgerRow
<1> HIDE DEF new
<1>6. new \in Fitting(p)
  BY <1>1, <1>5 DEF Fitting, NetCommission, NetSeller
<1> QED
  BY <1>1, <1>4, <1>5, <1>6 DEF n

\* A new ledger takes in every waiting allocation, and they fit.
LEMMA SettledFits ==
    ASSUME NEW p, Subtotal[p] \in Nat, NEW rate \in 0..RateScale,
           NEW W, IsFiniteSet(W), NEW f, \A r \in W : f[r] \in Nat /\ f[r] = share[r][p],
           SumFunctionOnSet(f, W) <= Subtotal[p], NEW queue \in SetToSeqs(W)
    PROVE  /\ SettledLedger(p, rate, queue) \in Fitting(p)
           /\ SettledLedger(p, rate, queue).refunded = SumFunctionOnSet(f, W)
           /\ SettledLedger(p, rate, queue).shortfall = 0
<1> DEFINE n == Cardinality(W)
           Until(k) == {queue[i] : i \in 1..k}
<1>1. /\ n \in Nat /\ queue \in [1..n -> W] /\ \A i, j \in 1..n : i # j => queue[i] # queue[j]
      /\ \A x \in W : \E i \in 1..n : queue[i] = x
  BY EachInOrder
<1> HIDE DEF n
<1>2. PICK g \in Offsets(p, rate, queue, n) : TRUE
  <2>1. DOMAIN queue = 1..n /\ rate \in Int /\ Subtotal[p] \in Int
        /\ \A k \in 1..n : share[queue[k]][p] \in Int
    BY <1>1
  <2> QED
    BY <1>1, <2>1, OffsetFold
<1>3. /\ g \in [0..n -> Row] /\ g[0] = New(rate)
      /\ \A k \in 1..n : g[k] = Offset(p, g[k - 1], queue[k])
      /\ SettledLedger(p, rate, queue) = g[n]
  BY <1>2 DEF Offsets
<1> DEFINE Good == {k \in 0..n : /\ g[k] \in Fitting(p) /\ g[k].shortfall = 0
                                /\ g[k].refunded = SumFunctionOnSet(f, Until(k))}
<1>4. 0 \in Good
  <2>1. Until(0) = {} /\ 0 \in 0..n
    BY <1>1
  <2>2. SumFunctionOnSet(f, Until(0)) = 0
    BY <2>1, SumEmpty
  <2>3. g[0] = [rate |-> rate, refunded |-> 0, reversedCommission |-> 0,
                reversedSeller |-> 0, offset |-> 0, shortfall |-> 0]
    BY <1>3 DEF New, NoLedger
  <2>4. g[0] \in LedgerRow
    BY <2>3 DEF LedgerRow
  <2>5. Commission(Subtotal[p], rate) \in 0..Subtotal[p]
    BY CommissionBounds
  <2>6. g[0] \in Fitting(p)
    BY <2>3, <2>4, <2>5 DEF Fitting, NetCommission, NetSeller
  <2> QED
    BY <2>1, <2>2, <2>3, <2>6
<1>5. ASSUME NEW k \in 1..n, k - 1 \in Good
      PROVE  k \in Good
  <2> DEFINE old == Until(k - 1)
             r == queue[k]
             l == g[k - 1]
  <2>1. Until(k) = old \cup {r} /\ r \notin old /\ r \in W /\ old \subseteq W
    BY <1>1
  <2>2. IsFiniteSet(old) /\ Until(k) \subseteq W /\ k \in 0..n
    BY <2>1, FS_Subset
  <2>3. SumFunctionOnSet(f, Until(k)) = f[r] + SumFunctionOnSet(f, old)
    <3>1. \A x \in old \cup {r} : f[x] \in Int
      BY <2>1
    <3> HIDE DEF old, r, Until
    <3> QED
      BY <2>1, <2>2, <3>1, SumAdd
  <2>4. SumFunctionOnSet(f, Until(k)) <= SumFunctionOnSet(f, W)
        /\ SumFunctionOnSet(f, W) \in Nat /\ SumFunctionOnSet(f, old) \in Nat
    <3> HIDE DEF Until, old
    <3> QED
      BY <2>1, <2>2, SumSubset
  <2>5. f[r] = share[r][p] /\ f[r] \in Nat
    BY <2>1
  <2>6. l \in Fitting(p) /\ l.shortfall = 0 /\ l.refunded = SumFunctionOnSet(f, old)
    BY <1>5
  <2>7. g[k] = Offset(p, l, r)
    BY <1>3
  <2> HIDE DEF old, r, l, Until
  <2>8. share[r][p] \in 0..NetGross(p, l)
    BY <2>3, <2>4, <2>5, <2>6 DEF NetGross
  <2>9. /\ Offset(p, l, r) \in Fitting(p) /\ Offset(p, l, r).shortfall = l.shortfall
        /\ Offset(p, l, r).refunded = l.refunded + share[r][p]
    BY <2>6, <2>8, OffsetFits
  <2>10. l.refunded + share[r][p] = SumFunctionOnSet(f, Until(k))
    BY <2>3, <2>4, <2>5, <2>6
  <2> QED
    BY <2>2, <2>6, <2>7, <2>9, <2>10
<1> HIDE DEF Good
<1>6. n \in Good
  <2>1. n \in 0..n
    BY <1>1
  <2> QED
    BY <1>1, <1>4, <1>5, <2>1, InductionUpTo
<1>7. Until(n) = W
  BY <1>1
<1> QED
  BY <1>3, <1>6, <1>7 DEF Good

-----------------------------------------------------------------------------
(* The inductive invariant.                                                *)

\* The columns that the sums of the model add up, over sets that never change.
Given(p) == [r \in Refund |-> share[r][p]]
Asked(o) == [r \in Refund |-> IF refund[r].order = o THEN refund[r].amount ELSE 0]
Shipped(o) == [r \in Refund |-> IF refund[r].order = o THEN shipping[r] ELSE 0]
Held(s) == [p \in Part |-> IF p \in settled \ released /\ SellerOf[p] = s
                           THEN NetSeller(p, ledger[p]) ELSE 0]
Free(s) == [p \in Part |-> IF p \in released /\ SellerOf[p] = s
                           THEN NetSeller(p, ledger[p]) ELSE 0]
Short(s) == [p \in Part |-> IF p \in settled /\ SellerOf[p] = s
                            THEN ledger[p].shortfall ELSE 0]
Spent(s) == [y \in Payout |-> IF payout[y].seller = s /\ payout[y].status # "rejected"
                              THEN payout[y].amount ELSE 0]

GivenTo(p) == SumFunctionOnSet(Given(p), Refund)
AskedOf(o) == SumFunctionOnSet(Asked(o), Refund)
ShippedOf(o) == SumFunctionOnSet(Shipped(o), Refund)
HeldBy(s) == SumFunctionOnSet(Held(s), Part)
FreeBy(s) == SumFunctionOnSet(Free(s), Part)
ShortBy(s) == SumFunctionOnSet(Short(s), Part)
SpentBy(s) == SumFunctionOnSet(Spent(s), Payout)

\* A refund belongs to an order that exists, allocates nothing until it is confirmed
\* and everything once it is.
RefundsBooked ==
    \A r \in Refund :
        /\ refund[r].amount > 0 =>
              /\ refund[r].order \in Order
              /\ refund[r].part # Direct =>
                    refund[r].part \in Part /\ OrderOf[refund[r].part] = refund[r].order
        /\ ~refund[r].done => shipping[r] = 0 /\ \A p \in Part : share[r][p] = 0
        /\ refund[r].done => /\ refund[r].amount > 0
                             /\ SumFunctionOnSet(share[r], Part) + shipping[r] = refund[r].amount

RefundsBounded ==
    /\ \A p \in Part : GivenTo(p) <= Subtotal[p]
    /\ \A o \in Order : ShippedOf(o) <= ShippingFee[o] /\ AskedOf(o) <= PaymentAmount(o)

LedgersFit ==
    \A p \in settled : /\ ledger[p] \in Fitting(p)
                       /\ ledger[p].refunded = GivenTo(p)
                       /\ p \notin released => ledger[p].shortfall = 0

PayoutsKnown ==
    \A y \in Payout : IF payout[y].status = "none" THEN payout[y].amount = 0
                      ELSE payout[y].seller \in Seller

WalletsBalance ==
    \A s \in Seller :
        /\ wallet[s].pending = HeldBy(s)
        /\ wallet[s].earned = HeldBy(s) + FreeBy(s)
        /\ wallet[s].available + SpentBy(s) + slots[s] * SlotPrice = FreeBy(s) + ShortBy(s)

MoneyInv ==
    /\ TypeOK
    /\ RefundsBooked
    /\ RefundsBounded
    /\ LedgersFit
    /\ PayoutsKnown
    /\ WalletsBalance

\* The assumption, in the form in which it is used.
LEMMA Constants ==
    /\ IsFiniteSet(Part) /\ IsFiniteSet(Refund) /\ IsFiniteSet(Payout) /\ Part \subseteq Nat \ {0}
    /\ \A p \in Part : Subtotal[p] \in Nat /\ OrderOf[p] \in Order /\ SellerOf[p] \in Seller
    /\ \A o \in Order : ShippingFee[o] \in Nat
    /\ \A p, q \in Part : OrderOf[p] = OrderOf[q] /\ SellerOf[p] = SellerOf[q] => p = q
    /\ \A o : PartsOf(o) \subseteq Part /\ IsFiniteSet(PartsOf(o))
    /\ SlotPrice \in Nat /\ Rates \subseteq 0..RateScale
    /\ MinWithdrawal \in Nat \ {0} /\ MaxWithdrawal \in Nat
<1>1. \A o : PartsOf(o) \subseteq Part
  BY DEF PartsOf
<1>2. IsFiniteSet(Part)
  BY SettlementAssumption
<1>3. \A o : IsFiniteSet(PartsOf(o))
  BY <1>1, <1>2, FS_Subset
<1> QED
  BY <1>1, <1>3, SettlementAssumption

\* What an order costs is a natural number.
LEMMA PaymentIsNat ==
    ASSUME NEW o \in Order
    PROVE  PaymentAmount(o) \in Nat
<1>1. \A p \in PartsOf(o) : Subtotal[p] \in Nat
  BY Constants
<1>2. SumFunctionOnSet(Subtotal, PartsOf(o)) \in Nat
  BY <1>1, Constants, SumNat
<1> QED
  BY <1>2, Constants DEF PaymentAmount

\* What TypeOK says, element by element.
LEMMA Types ==
    ASSUME TypeOK
    PROVE  /\ \A r \in Refund : /\ refund[r].amount \in Nat /\ refund[r].done \in BOOLEAN
                                /\ shipping[r] \in Nat /\ share[r] \in [Part -> Nat]
                                /\ \A p \in Part : share[r][p] \in Nat
           /\ \A p \in Part : ledger[p] \in LedgerRow
           /\ \A s \in Seller : /\ wallet[s].pending \in Nat /\ wallet[s].available \in Nat
                                /\ wallet[s].earned \in Nat /\ slots[s] \in Nat
           /\ \A y \in Payout : payout[y].amount \in Nat
           /\ released \subseteq settled /\ settled \subseteq delivered /\ delivered \subseteq Part
           /\ settled \subseteq Part
BY DEF TypeOK, LedgerRow

\* The net columns of a fitting ledger are natural numbers.
LEMMA NetIsNat ==
    ASSUME NEW p \in Part, NEW l \in Fitting(p)
    PROVE  NetSeller(p, l) \in Nat /\ NetCommission(p, l) \in Nat /\ l.shortfall \in Nat
           /\ l \in LedgerRow
<1>1. l.rate \in 0..RateScale /\ l.reversedSeller \in Nat /\ l.reversedCommission \in Nat
      /\ NetSeller(p, l) >= 0 /\ NetCommission(p, l) >= 0 /\ l.shortfall \in Nat
      /\ l \in LedgerRow
  BY DEF Fitting, LedgerRow
<1>2. Subtotal[p] \in Nat
  BY Constants
<1>3. Commission(Subtotal[p], l.rate) \in Nat
  BY <1>1, <1>2, CommissionBounds
<1> QED
  BY <1>1, <1>2, <1>3 DEF NetSeller, NetCommission

\* Every column is made of natural numbers.
LEMMA ColumnTypes ==
    ASSUME TypeOK, LedgersFit
    PROVE  /\ \A p \in Part, r \in Refund : Given(p)[r] = share[r][p] /\ Given(p)[r] \in Nat
           /\ \A o : \A r \in Refund : Asked(o)[r] \in Nat /\ Shipped(o)[r] \in Nat
           /\ \A s : \A p \in Part : Held(s)[p] \in Nat /\ Free(s)[p] \in Nat /\ Short(s)[p] \in Nat
           /\ \A s : \A y \in Payout : Spent(s)[y] \in Nat
<1>1. \A p \in Part, r \in Refund : Given(p)[r] = share[r][p] /\ Given(p)[r] \in Nat
  BY Types DEF Given
<1>2. \A o : \A r \in Refund : Asked(o)[r] \in Nat /\ Shipped(o)[r] \in Nat
  BY Types DEF Asked, Shipped
<1>3. \A p \in settled : NetSeller(p, ledger[p]) \in Nat /\ ledger[p].shortfall \in Nat
  <2> SUFFICES ASSUME NEW p \in settled
               PROVE  NetSeller(p, ledger[p]) \in Nat /\ ledger[p].shortfall \in Nat
    OBVIOUS
  <2>1. p \in Part /\ ledger[p] \in Fitting(p)
    BY Types DEF LedgersFit
  <2> QED
    BY <2>1, NetIsNat
<1>4. released \subseteq settled
  BY Types
<1>5. \A s : \A p \in Part : Held(s)[p] \in Nat /\ Free(s)[p] \in Nat /\ Short(s)[p] \in Nat
  BY <1>3, <1>4 DEF Held, Free, Short
<1>6. \A s : \A y \in Payout : Spent(s)[y] \in Nat
  BY Types DEF Spent
<1> QED
  BY <1>1, <1>2, <1>5, <1>6

\* So are the sums of the columns.
LEMMA ColumnSums ==
    ASSUME TypeOK, LedgersFit
    PROVE  /\ \A p \in Part : GivenTo(p) \in Nat
           /\ \A o : AskedOf(o) \in Nat /\ ShippedOf(o) \in Nat
           /\ \A s : HeldBy(s) \in Nat /\ FreeBy(s) \in Nat /\ ShortBy(s) \in Nat
                     /\ SpentBy(s) \in Nat
<1>1. ASSUME NEW p \in Part PROVE GivenTo(p) \in Nat
  <2>1. \A r \in Refund : Given(p)[r] \in Nat
    BY ColumnTypes
  <2> QED
    BY <2>1, Constants, SumNat DEF GivenTo
<1>2. ASSUME NEW o PROVE AskedOf(o) \in Nat /\ ShippedOf(o) \in Nat
  <2>1. \A r \in Refund : Asked(o)[r] \in Nat
    BY ColumnTypes
  <2>2. \A r \in Refund : Shipped(o)[r] \in Nat
    BY ColumnTypes
  <2> QED
    BY <2>1, <2>2, Constants, SumNat DEF AskedOf, ShippedOf
<1>3. ASSUME NEW s
      PROVE  HeldBy(s) \in Nat /\ FreeBy(s) \in Nat /\ ShortBy(s) \in Nat /\ SpentBy(s) \in Nat
  <2>1. \A p \in Part : Held(s)[p] \in Nat
    BY ColumnTypes
  <2>2. \A p \in Part : Free(s)[p] \in Nat
    BY ColumnTypes
  <2>3. \A p \in Part : Short(s)[p] \in Nat
    BY ColumnTypes
  <2>4. \A y \in Payout : Spent(s)[y] \in Nat
    BY ColumnTypes
  <2>5. HeldBy(s) \in Nat
    BY <2>1, Constants, SumNat DEF HeldBy
  <2>6. FreeBy(s) \in Nat
    BY <2>2, Constants, SumNat DEF FreeBy
  <2>7. ShortBy(s) \in Nat
    BY <2>3, Constants, SumNat DEF ShortBy
  <2>8. SpentBy(s) \in Nat
    BY <2>4, Constants, SumNat DEF SpentBy
  <2> QED
    BY <2>5, <2>6, <2>7, <2>8
<1> QED
  BY <1>1, <1>2, <1>3

-----------------------------------------------------------------------------
(* The sums of the model are those of the invariant.                       *)

\* What was allocated to a part, by all refunds or by the confirmed ones.
LEMMA AllocatedIsGiven ==
    ASSUME TypeOK, RefundsBooked, NEW p \in Part
    PROVE  Allocated(p, Done) = GivenTo(p) /\ Allocated(p, Refund) = GivenTo(p)
<1>1. \A r \in Refund : share[r][p] \in Nat /\ Given(p)[r] = share[r][p]
  BY Types DEF Given
<1>2. \A r \in Refund : r \notin Done => share[r][p] = 0
  BY DEF RefundsBooked, Done
<1>3. ASSUME NEW R \in SUBSET Refund, \A r \in Refund : r \notin R => share[r][p] = 0
      PROVE  Allocated(p, R) = GivenTo(p)
  <2> DEFINE f == [r \in R |-> share[r][p]]
  <2>1. \A r \in R : Given(p)[r] = f[r] /\ f[r] \in Int
    BY <1>1
  <2>2. \A r \in Refund : r \notin R => Given(p)[r] = 0
    BY <1>1, <1>3
  <2>3. Extends(Given(p), Refund, f, R)
    <3> HIDE DEF f
    <3> QED
      BY <2>1, <2>2 DEF Extends
  <2> HIDE DEF f
  <2>4. SumFunctionOnSet(f, R) = SumFunctionOnSet(Given(p), Refund)
    BY <2>3, Constants, SumExtend
  <2> QED
    BY <2>4 DEF f, Allocated, GivenTo
<1>4. Done \in SUBSET Refund
  BY DEF Done
<1>5. Allocated(p, Done) = GivenTo(p)
  BY <1>2, <1>3, <1>4
<1>6. Allocated(p, Refund) = GivenTo(p)
  BY <1>3
<1> QED
  BY <1>5, <1>6

\* What was asked back of an order.
LEMMA AmountIsAsked ==
    ASSUME TypeOK, NEW o
    PROVE  AmountOf(RefundsOf(o)) = AskedOf(o)
<1> DEFINE R == RefundsOf(o)
           f == [r \in R |-> refund[r].amount]
<1>1. \A r \in Refund : refund[r].amount \in Nat
  BY Types
<1>2. R \in SUBSET Refund
  BY DEF RefundsOf
<1>3. Extends(Asked(o), Refund, f, R)
  BY <1>1 DEF Extends, Asked, RefundsOf
<1> HIDE DEF f, R
<1>4. SumFunctionOnSet(f, R) = SumFunctionOnSet(Asked(o), Refund)
  BY <1>2, <1>3, Constants, SumExtend
<1> QED
  BY <1>4 DEF f, R, AmountOf, AskedOf

\* The shipping fees given back of an order.
LEMMA PriorIsShipped ==
    ASSUME TypeOK, RefundsBooked, NEW o
    PROVE  PriorShipping(o) = ShippedOf(o)
<1> DEFINE R == RefundsOf(o) \intersect Done
<1>1. \A r \in Refund : shipping[r] \in Nat /\ refund[r].amount \in Nat
  BY Types
<1>2. R \in SUBSET Refund
  BY DEF RefundsOf
<1>3. \A r \in Refund : r \notin R /\ refund[r].order = o => shipping[r] = 0
  BY <1>1 DEF RefundsOf, Done, RefundsBooked
<1>4. \A r \in R : refund[r].order = o
  BY DEF RefundsOf
<1> HIDE DEF R
<1>5. Extends(Shipped(o), Refund, shipping, R)
  BY <1>1, <1>3, <1>4 DEF Extends, Shipped
<1>6. SumFunctionOnSet(shipping, R) = SumFunctionOnSet(Shipped(o), Refund)
  BY <1>2, <1>5, Constants, SumExtend
<1> QED
  BY <1>6 DEF R, PriorShipping, ShippedOf

\* The net earnings of a brand are those on hold and those released.
LEMMA NetIsHeldAndFree ==
    ASSUME TypeOK, LedgersFit, NEW s
    PROVE  /\ SumNet(PartsSoldBy(s) \ released) = HeldBy(s)
           /\ SumNet(PartsSoldBy(s) \intersect released) = FreeBy(s)
           /\ SumNet(PartsSoldBy(s)) = HeldBy(s) + FreeBy(s)
<1> DEFINE net(S) == [p \in S |-> NetSeller(p, ledger[p])]
           all == [p \in Part |-> Held(s)[p] + Free(s)[p]]
<1>1. /\ \A p \in Part : Held(s)[p] \in Nat /\ Free(s)[p] \in Nat
      /\ released \subseteq settled /\ settled \subseteq Part
  BY ColumnTypes, Types
<1>2. PartsSoldBy(s) \in SUBSET Part
  BY <1>1 DEF PartsSoldBy
<1>3. ASSUME NEW S \in SUBSET Part, NEW g, Extends(g, Part, net(S), S)
      PROVE  SumNet(S) = SumFunctionOnSet(g, Part)
  <2> HIDE DEF net
  <2>1. SumFunctionOnSet(net(S), S) = SumFunctionOnSet(g, Part)
    BY <1>3, Constants, SumExtend
  <2> QED
    BY <2>1 DEF SumNet, net
<1>4. Extends(Held(s), Part, net(PartsSoldBy(s) \ released), PartsSoldBy(s) \ released)
  <2>1. \A p \in PartsSoldBy(s) \ released :
            p \in settled \ released /\ SellerOf[p] = s /\ p \in Part
    BY <1>1 DEF PartsSoldBy
  <2>2. \A p \in PartsSoldBy(s) \ released :
            Held(s)[p] = net(PartsSoldBy(s) \ released)[p]
    BY <2>1 DEF Held
  <2>3. \A p \in Part : p \notin PartsSoldBy(s) \ released => Held(s)[p] = 0
    BY DEF Held, PartsSoldBy
  <2> HIDE DEF net
  <2> QED
    BY <1>1, <2>2, <2>3 DEF Extends
<1>5. Extends(Free(s), Part, net(PartsSoldBy(s) \intersect released),
              PartsSoldBy(s) \intersect released)
  <2>1. \A p \in PartsSoldBy(s) \intersect released :
            p \in released /\ SellerOf[p] = s /\ p \in Part
    BY <1>1 DEF PartsSoldBy
  <2>2. \A p \in PartsSoldBy(s) \intersect released :
            Free(s)[p] = net(PartsSoldBy(s) \intersect released)[p]
    BY <2>1 DEF Free
  <2>3. \A p \in Part : p \notin PartsSoldBy(s) \intersect released => Free(s)[p] = 0
    BY <1>1 DEF Free, PartsSoldBy
  <2> HIDE DEF net
  <2> QED
    BY <1>1, <2>2, <2>3 DEF Extends
<1>6. Extends(all, Part, net(PartsSoldBy(s)), PartsSoldBy(s))
  <2>1. \A p \in PartsSoldBy(s) : p \in settled /\ SellerOf[p] = s /\ p \in Part
    BY <1>1 DEF PartsSoldBy
  <2>2. ASSUME NEW p \in PartsSoldBy(s)
        PROVE  all[p] = net(PartsSoldBy(s))[p]
    <3>1. p \in Part /\ Held(s)[p] + Free(s)[p] = NetSeller(p, ledger[p])
      <4> DEFINE x == NetSeller(p, ledger[p])
      <4>1. p \in Part /\ p \in settled /\ SellerOf[p] = s
        BY <2>1
      <4>2. CASE p \in released
        <5>1. Held(s)[p] = 0 /\ Free(s)[p] = x
          BY <4>1, <4>2 DEF Held, Free
        <5> HIDE DEF x
        <5> QED
          BY <1>1, <4>1, <5>1 DEF x
      <4>3. CASE p \notin released
        <5>1. Held(s)[p] = x /\ Free(s)[p] = 0
          BY <4>1, <4>3 DEF Held, Free
        <5> HIDE DEF x
        <5> QED
          BY <1>1, <4>1, <5>1 DEF x
      <4> QED
        BY <4>2, <4>3
    <3> QED
      BY <3>1
  <2>3. \A p \in Part : p \notin PartsSoldBy(s) => Held(s)[p] = 0 /\ Free(s)[p] = 0
    BY <1>1 DEF Held, Free, PartsSoldBy
  <2>4. \A p \in Part : all[p] \in Int /\ all[p] = Held(s)[p] + Free(s)[p]
    BY <1>1
  <2> HIDE DEF net, all
  <2> QED
    BY <1>2, <2>2, <2>3, <2>4 DEF Extends
<1>7. SumFunctionOnSet(all, Part) = HeldBy(s) + FreeBy(s)
  <2>1. \A p \in Part : /\ Held(s)[p] \in Int /\ Free(s)[p] \in Int
                        /\ all[p] = Held(s)[p] + Free(s)[p]
    BY <1>1
  <2> HIDE DEF all
  <2> QED
    BY <2>1, Constants, SumPlus DEF HeldBy, FreeBy
<1> HIDE DEF net, all
<1>8. SumNet(PartsSoldBy(s) \ released) = HeldBy(s)
  BY <1>2, <1>3, <1>4 DEF HeldBy
<1>9. SumNet(PartsSoldBy(s) \intersect released) = FreeBy(s)
  BY <1>2, <1>3, <1>5 DEF FreeBy
<1>10. SumNet(PartsSoldBy(s)) = HeldBy(s) + FreeBy(s)
  BY <1>2, <1>3, <1>6, <1>7
<1> QED
  BY <1>8, <1>9, <1>10

\* Only released earnings have a shortfall.
LEMMA ShortfallIsShort ==
    ASSUME TypeOK, LedgersFit, NEW s
    PROVE  /\ SumShortfall(PartsSoldBy(s)) = ShortBy(s)
           /\ SumShortfall(PartsSoldBy(s) \ released) = 0
<1> DEFINE f(S) == [p \in S |-> ledger[p].shortfall]
<1>1. (\A p \in Part : Short(s)[p] \in Nat) /\ settled \subseteq Part
  BY ColumnTypes, Types
<1>2. PartsSoldBy(s) \in SUBSET Part
  BY <1>1 DEF PartsSoldBy
<1>3. SumShortfall(PartsSoldBy(s)) = ShortBy(s)
  <2>1. Extends(Short(s), Part, f(PartsSoldBy(s)), PartsSoldBy(s))
    BY <1>1, <1>2 DEF Extends, Short, PartsSoldBy
  <2> HIDE DEF f
  <2>2. SumFunctionOnSet(f(PartsSoldBy(s)), PartsSoldBy(s)) = SumFunctionOnSet(Short(s), Part)
    BY <1>2, <2>1, Constants, SumExtend
  <2> QED
    BY <2>2 DEF f, SumShortfall, ShortBy
<1>4. SumShortfall(PartsSoldBy(s) \ released) = 0
  <2> DEFINE S == PartsSoldBy(s) \ released
  <2>1. IsFiniteSet(S)
    BY <1>2, Constants, FS_Subset
  <2>2. \A p \in S : f(S)[p] = 0
    BY DEF LedgersFit, PartsSoldBy
  <2> HIDE DEF f, S
  <2>3. SumFunctionOnSet(f(S), S) = 0
    BY <2>1, <2>2, SumZero
  <2> QED
    BY <2>3 DEF f, S, SumShortfall
<1> QED
  BY <1>3, <1>4

\* What a brand took out: payouts that were not rejected, and slots.
LEMMA TakenIsSpent ==
    ASSUME TypeOK, NEW s
    PROVE  TakenOut(s) = SpentBy(s) + slots[s] * SlotPrice
<1> DEFINE live == {y \in Payout : payout[y].seller = s /\ payout[y].status # "rejected"}
           f == [y \in live |-> payout[y].amount]
<1>1. \A y \in Payout : payout[y].amount \in Nat
  BY Types
<1>2. Extends(Spent(s), Payout, f, live)
  BY <1>1 DEF Extends, Spent
<1>3. SumFunctionOnSet(f, live) = SumFunctionOnSet(Spent(s), Payout)
  <2>1. live \in SUBSET Payout
    OBVIOUS
  <2> HIDE DEF f, live
  <2> QED
    BY <1>2, <2>1, Constants, SumExtend
<1> QED
  BY <1>3 DEF TakenOut, SpentBy

\* Before the first delivery nothing is owed.
LEMMA InitMoney == Init => MoneyInv
<1> SUFFICES ASSUME Init PROVE MoneyInv
  OBVIOUS
<1>1. NoLedger \in LedgerRow
  BY DEF NoLedger, LedgerRow, RateScale
<1>2. TypeOK
  BY <1>1, SettlementAssumption DEF Init, TypeOK, LedgerRow
<1>3. /\ \A r \in Refund : /\ refund[r].amount = 0 /\ ~refund[r].done /\ shipping[r] = 0
                           /\ \A p \in Part : share[r][p] = 0
      /\ settled = {} /\ released = {}
      /\ \A y \in Payout : payout[y].status = "none" /\ payout[y].amount = 0
      /\ \A s \in Seller : /\ wallet[s].pending = 0 /\ wallet[s].available = 0
                           /\ wallet[s].earned = 0 /\ slots[s] = 0
  BY DEF Init
<1>4. RefundsBooked /\ LedgersFit /\ PayoutsKnown
  BY <1>3 DEF RefundsBooked, LedgersFit, PayoutsKnown
<1>5. RefundsBounded
  <2>1. ASSUME NEW p \in Part PROVE GivenTo(p) = 0
    <3>1. \A r \in Refund : Given(p)[r] = 0
      BY <1>3 DEF Given
    <3> QED
      BY <3>1, Constants, SumZero DEF GivenTo
  <2>2. ASSUME NEW o \in Order PROVE ShippedOf(o) = 0 /\ AskedOf(o) = 0
    <3>1. \A r \in Refund : Asked(o)[r] = 0
      BY <1>3 DEF Asked
    <3>2. \A r \in Refund : Shipped(o)[r] = 0
      BY <1>3 DEF Shipped
    <3>3. AskedOf(o) = 0
      BY <3>1, Constants, SumZero DEF AskedOf
    <3>4. ShippedOf(o) = 0
      BY <3>2, Constants, SumZero DEF ShippedOf
    <3> QED
      BY <3>3, <3>4
  <2> QED
    BY <2>1, <2>2, Constants, PaymentIsNat DEF RefundsBounded
<1>6. WalletsBalance
  <2> SUFFICES ASSUME NEW s \in Seller
               PROVE  /\ wallet[s].pending = HeldBy(s)
                      /\ wallet[s].earned = HeldBy(s) + FreeBy(s)
                      /\ wallet[s].available + SpentBy(s) + slots[s] * SlotPrice =
                            FreeBy(s) + ShortBy(s)
    BY DEF WalletsBalance
  <2>1. \A p \in Part : Held(s)[p] = 0
    BY <1>3 DEF Held
  <2>2. \A p \in Part : Free(s)[p] = 0
    BY <1>3 DEF Free
  <2>3. \A p \in Part : Short(s)[p] = 0
    BY <1>3 DEF Short
  <2>4. \A y \in Payout : Spent(s)[y] = 0
    BY <1>3 DEF Spent
  <2>5. HeldBy(s) = 0
    BY <2>1, Constants, SumZero DEF HeldBy
  <2>6. FreeBy(s) = 0
    BY <2>2, Constants, SumZero DEF FreeBy
  <2>7. ShortBy(s) = 0
    BY <2>3, Constants, SumZero DEF ShortBy
  <2>8. SpentBy(s) = 0
    BY <2>4, Constants, SumZero DEF SpentBy
  <2>9. slots[s] * SlotPrice = 0
    BY <1>3, Constants
  <2> QED
    BY <1>3, <2>5, <2>6, <2>7, <2>8, <2>9
<1> QED
  BY <1>2, <1>4, <1>5, <1>6 DEF MoneyInv

-----------------------------------------------------------------------------
(* Steps that leave the refunds or the ledgers alone.                      *)

\* What refunds add up to depends on the refunds only,
LEMMA RefundsKept ==
    ASSUME RefundsBooked, RefundsBounded, UNCHANGED refundVars
    PROVE  RefundsBooked' /\ RefundsBounded'
<1>1. RefundsBooked'
  BY DEF RefundsBooked, refundVars
<1>2. /\ \A p \in Part : GivenTo(p)' = GivenTo(p)
      /\ \A o \in Order : ShippedOf(o)' = ShippedOf(o) /\ AskedOf(o)' = AskedOf(o)
  BY DEF GivenTo, Given, ShippedOf, Shipped, AskedOf, Asked, refundVars
<1>3. RefundsBounded'
  BY <1>2 DEF RefundsBounded, PaymentAmount, PartsOf
<1> QED
  BY <1>1, <1>3

\* what is held, released and short on the ledgers only,
LEMMA LedgersKept ==
    ASSUME UNCHANGED ledgerVars
    PROVE  \A s : HeldBy(s)' = HeldBy(s) /\ FreeBy(s)' = FreeBy(s) /\ ShortBy(s)' = ShortBy(s)
BY DEF HeldBy, Held, FreeBy, Free, ShortBy, Short, ledgerVars, NetSeller

\* that the rows fit on the ledgers and the allocations,
LEMMA RowsKept ==
    ASSUME LedgersFit, UNCHANGED <<share, ledgerVars>>
    PROVE  LedgersFit'
<1>1. \A p : GivenTo(p)' = GivenTo(p)
  BY DEF GivenTo, Given
<1>2. \A p : Fitting(p)' = Fitting(p)
  BY DEF Fitting, LedgerRow, NetCommission, NetSeller
<1> QED
  BY <1>1, <1>2 DEF LedgersFit, ledgerVars

\* and what was paid out on the payouts.
LEMMA SpentKept ==
    ASSUME UNCHANGED payout
    PROVE  \A s : SpentBy(s)' = SpentBy(s)
BY DEF SpentBy, Spent

\* A withdrawal turns available money into a payout.
LEMMA RequestWithdrawalStep ==
    ASSUME MoneyInv, NEW y \in Payout, NEW s \in Seller, NEW n \in 1..MaxWithdrawal,
           RequestWithdrawal(y, s, n)
    PROVE  MoneyInv'
<1> USE DEF MoneyInv
<1>1. /\ payout[y].status = "none" /\ n <= wallet[s].available /\ n \in Nat
      /\ wallet' = [wallet EXCEPT ![s].available = wallet[s].available - n]
      /\ payout' = [payout EXCEPT ![y] = [seller |-> s, amount |-> n, status |-> "requested"]]
      /\ UNCHANGED <<paid, delivered, refundVars, ledgerVars, slots>>
  BY DEF RequestWithdrawal
<1>2. wallet[s].available - n \in Nat
  BY <1>1, Types
<1>3. TypeOK'
  BY <1>1, <1>2 DEF TypeOK, refundVars, ledgerVars
<1>4. RefundsBooked' /\ RefundsBounded' /\ LedgersFit'
  BY <1>1, RefundsKept, RowsKept DEF refundVars, ledgerVars
<1>5. PayoutsKnown'
  BY <1>1 DEF PayoutsKnown, TypeOK
<1>6. ASSUME NEW z \in Seller
      PROVE  SpentBy(z)' = IF z = s THEN SpentBy(z) + n ELSE SpentBy(z)
  <2>1. \A x \in Payout : payout'[x] = IF x = y
                            THEN [seller |-> s, amount |-> n, status |-> "requested"]
                            ELSE payout[x]
    BY <1>1 DEF TypeOK
  <2>2. DifferAt(Spent(z), Spent(z)', Payout, y)
    BY <1>1, <2>1, Types DEF DifferAt, Spent
  <2>3. Spent(z)[y] = 0 /\ Spent(z)'[y] = IF z = s THEN n ELSE 0
    BY <1>1, <2>1 DEF Spent, PayoutsKnown
  <2>4. SpentBy(z)' = SpentBy(z) + Spent(z)'[y] - Spent(z)[y]
    BY <2>2, Constants, SumChange DEF SpentBy
  <2> QED
    BY <2>3, <2>4, ColumnSums
<1>7. \A z \in Seller : /\ wallet'[z].pending = wallet[z].pending
                        /\ wallet'[z].earned = wallet[z].earned /\ slots'[z] = slots[z]
                        /\ wallet'[z].available = IF z = s THEN wallet[z].available - n
                                                  ELSE wallet[z].available
  BY <1>1 DEF TypeOK
<1>8. WalletsBalance'
  <2> SUFFICES ASSUME NEW z \in Seller
               PROVE  /\ wallet'[z].pending = HeldBy(z)'
                      /\ wallet'[z].earned = HeldBy(z)' + FreeBy(z)'
                      /\ wallet'[z].available + SpentBy(z)' + slots'[z] * SlotPrice =
                            FreeBy(z)' + ShortBy(z)'
    BY DEF WalletsBalance
  <2>1. HeldBy(z)' = HeldBy(z) /\ FreeBy(z)' = FreeBy(z) /\ ShortBy(z)' = ShortBy(z)
    BY <1>1, LedgersKept
  <2> DEFINE spend == slots[z] * SlotPrice
  <2>2. wallet[z].available + SpentBy(z) + spend = FreeBy(z) + ShortBy(z)
        /\ wallet[z].pending = HeldBy(z) /\ wallet[z].earned = HeldBy(z) + FreeBy(z)
    BY DEF WalletsBalance
  <2>3. wallet[z].available \in Nat /\ SpentBy(z) \in Nat /\ spend \in Nat
    BY ColumnSums, Types, Constants
  <2>4. slots'[z] * SlotPrice = spend
    BY <1>7
  <2> HIDE DEF spend
  <2> QED
    BY <1>1, <1>6, <1>7, <2>1, <2>2, <2>3, <2>4
<1> QED
  BY <1>3, <1>4, <1>5, <1>8

\* A rejected payout returns to the wallet.
LEMMA RejectPayoutStep ==
    ASSUME MoneyInv, NEW y \in Payout, RejectPayout(y)
    PROVE  MoneyInv'
<1> USE DEF MoneyInv
<1> DEFINE s == payout[y].seller
           n == payout[y].amount
<1>1. /\ payout[y].status # "none" /\ payout[y].status # "rejected"
      /\ wallet' = [wallet EXCEPT ![s].available = wallet[s].available + n]
      /\ payout' = [payout EXCEPT ![y].status = "rejected"]
      /\ UNCHANGED <<paid, delivered, refundVars, ledgerVars, slots>>
  BY DEF RejectPayout, TypeOK
<1>2. s \in Seller /\ n \in Nat /\ wallet[s].available + n \in Nat
  <2>1. s \in Seller /\ n \in Nat
    BY <1>1, Types DEF PayoutsKnown
  <2>2. wallet[s].available \in Nat
    BY <2>1, Types
  <2> HIDE DEF s, n
  <2> QED
    BY <2>1, <2>2
<1>3. TypeOK'
  <2>1. payout' \in [Payout -> [seller : Seller \union {NoSeller}, amount : Nat,
            status : {"none", "requested", "approved", "rejected", "completed"}]]
    BY <1>1 DEF TypeOK
  <2>2. wallet' \in [Seller -> [pending : Nat, available : Nat, earned : Nat]]
    BY <1>1, <1>2 DEF TypeOK
  <2> QED
    BY <1>1, <2>1, <2>2 DEF TypeOK, refundVars, ledgerVars
<1>4. RefundsBooked' /\ RefundsBounded' /\ LedgersFit'
  BY <1>1, RefundsKept, RowsKept DEF refundVars, ledgerVars
<1>9. \A x \in Payout : /\ payout'[x].seller = payout[x].seller
                        /\ payout'[x].amount = payout[x].amount
                        /\ payout'[x].status = IF x = y THEN "rejected" ELSE payout[x].status
  BY <1>1 DEF TypeOK
<1>5. PayoutsKnown'
  BY <1>1, <1>2, <1>9 DEF PayoutsKnown
<1>6. ASSUME NEW z \in Seller
      PROVE  SpentBy(z)' = IF z = s THEN SpentBy(z) - n ELSE SpentBy(z)
  <2>2. DifferAt(Spent(z), Spent(z)', Payout, y)
    BY <1>9, Types DEF DifferAt, Spent
  <2>3. Spent(z)[y] = (IF z = s THEN n ELSE 0) /\ Spent(z)'[y] = 0
    BY <1>1, <1>9 DEF Spent, PayoutsKnown
  <2>4. SpentBy(z)' = SpentBy(z) + Spent(z)'[y] - Spent(z)[y]
    BY <2>2, Constants, SumChange DEF SpentBy
  <2> QED
    BY <1>2, <2>3, <2>4, ColumnSums
<1>7. \A z \in Seller : /\ wallet'[z].pending = wallet[z].pending
                        /\ wallet'[z].earned = wallet[z].earned /\ slots'[z] = slots[z]
                        /\ wallet'[z].available = IF z = s THEN wallet[z].available + n
                                                  ELSE wallet[z].available
  BY <1>1 DEF TypeOK
<1>8. WalletsBalance'
  <2> SUFFICES ASSUME NEW z \in Seller
               PROVE  /\ wallet'[z].pending = HeldBy(z)'
                      /\ wallet'[z].earned = HeldBy(z)' + FreeBy(z)'
                      /\ wallet'[z].available + SpentBy(z)' + slots'[z] * SlotPrice =
                            FreeBy(z)' + ShortBy(z)'
    BY DEF WalletsBalance
  <2>1. HeldBy(z)' = HeldBy(z) /\ FreeBy(z)' = FreeBy(z) /\ ShortBy(z)' = ShortBy(z)
    BY <1>1, LedgersKept
  <2> DEFINE spend == slots[z] * SlotPrice
  <2>2. wallet[z].available + SpentBy(z) + spend = FreeBy(z) + ShortBy(z)
        /\ wallet[z].pending = HeldBy(z) /\ wallet[z].earned = HeldBy(z) + FreeBy(z)
    BY DEF WalletsBalance
  <2>3. wallet[z].available \in Nat /\ SpentBy(z) \in Nat /\ spend \in Nat
    BY ColumnSums, Types, Constants
  <2>4. slots'[z] * SlotPrice = spend
    BY <1>7
  <2> HIDE DEF spend, s, n
  <2> QED
    BY <1>2, <1>6, <1>7, <2>1, <2>2, <2>3, <2>4
<1> QED
  BY <1>3, <1>4, <1>5, <1>8

\* The decisions that move no money.
LEMMA DecidePayoutStep ==
    ASSUME MoneyInv, NEW y \in Payout, ApprovePayout(y) \/ CompletePayout(y)
    PROVE  MoneyInv'
<1> USE DEF MoneyInv
<1>1. /\ payout[y].status \in {"requested", "approved"}
      /\ UNCHANGED <<paid, delivered, refundVars, ledgerVars, wallet, slots>>
      /\ \E new \in {"approved", "completed"} : payout' = [payout EXCEPT ![y].status = new]
  BY DEF ApprovePayout, CompletePayout
<1>2. TypeOK'
  <2>0. PICK new \in {"approved", "completed"} : payout' = [payout EXCEPT ![y].status = new]
    BY <1>1
  <2>1. payout' \in [Payout -> [seller : Seller \union {NoSeller}, amount : Nat,
            status : {"none", "requested", "approved", "rejected", "completed"}]]
    BY <2>0 DEF TypeOK
  <2> QED
    BY <1>1, <2>1 DEF TypeOK, refundVars, ledgerVars
<1>3. RefundsBooked' /\ RefundsBounded' /\ LedgersFit'
  BY <1>1, RefundsKept, RowsKept DEF refundVars, ledgerVars
<1>4. \A x \in Payout : /\ payout'[x].seller = payout[x].seller
                        /\ payout'[x].amount = payout[x].amount
                        /\ x # y => payout'[x].status = payout[x].status
                        /\ payout'[y].status \in {"approved", "completed"}
  BY <1>1 DEF TypeOK
<1>5. PayoutsKnown'
  BY <1>1, <1>4 DEF PayoutsKnown
<1>6. \A z : SpentBy(z)' = SpentBy(z)
  <2>1. \A z : Spent(z)' = Spent(z)
    BY <1>1, <1>4 DEF Spent
  <2> QED
    BY <2>1 DEF SpentBy
<1>7. WalletsBalance'
  BY <1>1, <1>6, LedgersKept DEF WalletsBalance
<1> QED
  BY <1>2, <1>3, <1>5, <1>7

\* Slots are paid from available money.
LEMMA PurchaseSlotsStep ==
    ASSUME MoneyInv, NEW s \in Seller, PurchaseSlots(s)
    PROVE  MoneyInv'
<1> USE DEF MoneyInv
<1>1. /\ SlotPrice <= wallet[s].available /\ slots[s] < MaxSlots
      /\ wallet' = [wallet EXCEPT ![s].available = wallet[s].available - SlotPrice]
      /\ slots' = [slots EXCEPT ![s] = slots[s] + 1]
      /\ UNCHANGED <<paid, delivered, refundVars, ledgerVars, payout>>
  BY DEF PurchaseSlots
<1>2. wallet[s].available - SlotPrice \in Nat /\ slots[s] + 1 \in 0..MaxSlots
  BY <1>1, Types, SettlementAssumption
<1>3. TypeOK'
  BY <1>1, <1>2 DEF TypeOK, refundVars, ledgerVars
<1>4. RefundsBooked' /\ RefundsBounded' /\ LedgersFit'
  BY <1>1, RefundsKept, RowsKept DEF refundVars, ledgerVars
<1>5. PayoutsKnown'
  BY <1>1 DEF PayoutsKnown
<1>7. \A z \in Seller : /\ wallet'[z].pending = wallet[z].pending
                        /\ wallet'[z].earned = wallet[z].earned
                        /\ z = s => /\ slots'[z] = slots[z] + 1
                                    /\ wallet'[z].available = wallet[z].available - SlotPrice
                        /\ z # s => /\ slots'[z] = slots[z]
                                    /\ wallet'[z].available = wallet[z].available
  BY <1>1 DEF TypeOK
<1>8. WalletsBalance'
  <2> SUFFICES ASSUME NEW z \in Seller
               PROVE  /\ wallet'[z].pending = HeldBy(z)'
                      /\ wallet'[z].earned = HeldBy(z)' + FreeBy(z)'
                      /\ wallet'[z].available + SpentBy(z)' + slots'[z] * SlotPrice =
                            FreeBy(z)' + ShortBy(z)'
    BY DEF WalletsBalance
  <2>1. /\ HeldBy(z)' = HeldBy(z) /\ FreeBy(z)' = FreeBy(z) /\ ShortBy(z)' = ShortBy(z)
        /\ SpentBy(z)' = SpentBy(z)
    BY <1>1, LedgersKept, SpentKept
  <2> DEFINE spend == slots[z] * SlotPrice
             spend2 == slots'[z] * SlotPrice
  <2>2. wallet[z].available + SpentBy(z) + spend = FreeBy(z) + ShortBy(z)
        /\ wallet[z].pending = HeldBy(z) /\ wallet[z].earned = HeldBy(z) + FreeBy(z)
    BY DEF WalletsBalance
  <2>3. wallet[z].available \in Nat /\ SpentBy(z) \in Nat /\ spend \in Nat /\ SlotPrice \in Nat
    BY ColumnSums, Types, Constants
  <2>4. spend2 = IF z = s THEN spend + SlotPrice ELSE spend
    <3>1. slots[z] \in Nat /\ \A a, b \in Nat : (a + 1) * b = a * b + b
      BY Types
    <3> QED
      BY <1>7, <3>1, Constants
  <2> HIDE DEF spend, spend2
  <2>5. wallet'[z].available + SpentBy(z)' + spend2 = FreeBy(z)' + ShortBy(z)'
    BY <1>7, <2>1, <2>2, <2>3, <2>4
  <2> QED
    BY <1>7, <2>1, <2>2, <2>5 DEF spend2
<1> QED
  BY <1>3, <1>4, <1>5, <1>8

\* A requested refund takes its amount from what is left of the payment.
LEMMA NewRefundStep ==
    ASSUME MoneyInv, NEW r \in Refund, NEW o \in Order, NEW part \in Part \union {Direct},
           part # Direct => OrderOf[part] = o, NEW n \in Nat \ {0}, n <= Refundable(o),
           NewRefund(r, o, part, n)
    PROVE  MoneyInv'
<1> USE DEF MoneyInv
<1>1. /\ refund[r].amount = 0
      /\ refund' = [refund EXCEPT ![r] =
                       [order |-> o, part |-> part, amount |-> n, done |-> FALSE]]
      /\ UNCHANGED <<paid, delivered, share, shipping, ledgerVars, walletVars>>
  BY DEF NewRefund
<1>2. TypeOK'
  <2>1. refund' \in [Refund -> [order : Order \union {"none"}, part : Part \union {Direct},
                                amount : Nat, done : BOOLEAN]]
    BY <1>1 DEF TypeOK
  <2> QED
    BY <1>1, <2>1 DEF TypeOK, ledgerVars, walletVars
<1>3. \A x \in Refund : refund'[x] = IF x = r
                        THEN [order |-> o, part |-> part, amount |-> n, done |-> FALSE]
                        ELSE refund[x]
  BY <1>1 DEF TypeOK
<1>4. ~refund[r].done /\ shipping[r] = 0
  BY <1>1, Types DEF RefundsBooked
<1>5. RefundsBooked'
  <2> SUFFICES ASSUME NEW x \in Refund
               PROVE  /\ refund'[x].amount > 0 =>
                            /\ refund'[x].order \in Order
                            /\ refund'[x].part # Direct =>
                                  /\ refund'[x].part \in Part
                                  /\ OrderOf[refund'[x].part] = refund'[x].order
                      /\ ~refund'[x].done =>
                            shipping'[x] = 0 /\ \A p \in Part : share'[x][p] = 0
                      /\ refund'[x].done =>
                            /\ refund'[x].amount > 0
                            /\ SumFunctionOnSet(share'[x], Part) + shipping'[x] =
                                  refund'[x].amount
    BY DEF RefundsBooked
  <2>1. CASE x = r
    BY <1>1, <1>3, <1>4, <2>1 DEF RefundsBooked
  <2>2. CASE x # r
    BY <1>1, <1>3, <2>2 DEF RefundsBooked
  <2> QED
    BY <2>1, <2>2
<1>6. ASSUME NEW z \in Order
      PROVE  /\ ShippedOf(z)' = ShippedOf(z)
             /\ AskedOf(z)' = IF z = o THEN AskedOf(z) + n ELSE AskedOf(z)
  <2>1. ShippedOf(z)' = ShippedOf(z)
    <3>1. \A x \in Refund : Shipped(z)'[x] = Shipped(z)[x] /\ Shipped(z)[x] \in Int
      BY <1>1, <1>3, <1>4, Types DEF Shipped
    <3> QED
      BY <3>1, Constants, SumEqual DEF ShippedOf
  <2>2. DifferAt(Asked(z), Asked(z)', Refund, r)
    BY <1>3, Types DEF DifferAt, Asked
  <2>3. Asked(z)[r] = 0 /\ Asked(z)'[r] = IF z = o THEN n ELSE 0
    BY <1>1, <1>3 DEF Asked
  <2>4. AskedOf(z)' = AskedOf(z) + Asked(z)'[r] - Asked(z)[r]
    BY <2>2, Constants, SumChange DEF AskedOf
  <2> QED
    BY <2>1, <2>3, <2>4, ColumnSums
<1>7. RefundsBounded'
  <2>1. n <= PaymentAmount(o) - AskedOf(o)
    BY AmountIsAsked, PaymentIsNat DEF Refundable
  <2>2. PaymentAmount(o) \in Nat /\ AskedOf(o) \in Nat
    BY PaymentIsNat, ColumnSums
  <2>3. \A z \in Order : PaymentAmount(z)' = PaymentAmount(z)
    BY DEF PaymentAmount, PartsOf
  <2>4. \A p \in Part : GivenTo(p)' = GivenTo(p)
    BY <1>1 DEF GivenTo, Given
  <2> QED
    BY <1>6, <2>1, <2>2, <2>3, <2>4 DEF RefundsBounded
<1>8. LedgersFit' /\ PayoutsKnown'
  BY <1>1, RowsKept DEF ledgerVars, walletVars, PayoutsKnown
<1>9. WalletsBalance'
  BY <1>1, LedgersKept, SpentKept DEF WalletsBalance, walletVars
<1> QED
  BY <1>2, <1>5, <1>7, <1>8, <1>9

\* A release moves the net of its ledgers from pending to available.
LEMMA ReleaseMatureStep ==
    ASSUME MoneyInv, NEW S \in SUBSET Part, ReleaseMature(S)
    PROVE  MoneyInv'
<1> USE DEF MoneyInv
<1> DEFINE net == [p \in S |-> NetSeller(p, ledger[p])]
           of(s) == {p \in S : SellerOf[p] = s}
           due(s) == SumFunctionOnSet(net, of(s))
           move(s) == [p \in Part |-> IF p \in S /\ SellerOf[p] = s
                                      THEN NetSeller(p, ledger[p]) ELSE 0]
<1>1. /\ S \subseteq settled \ released
      /\ \A s \in Seller : due(s) <= wallet[s].pending
      /\ wallet' = [s \in Seller |-> [wallet[s] EXCEPT !.pending = @ - due(s),
                                                       !.available = @ + due(s)]]
      /\ released' = released \union S
      /\ UNCHANGED <<paid, delivered, refundVars, settled, ledger, payout, slots>>
  BY DEF ReleaseMature
<1>2. \A p \in settled : p \in Part /\ NetSeller(p, ledger[p]) \in Nat
  <2> SUFFICES ASSUME NEW p \in settled
               PROVE  p \in Part /\ NetSeller(p, ledger[p]) \in Nat
    OBVIOUS
  <2>1. p \in Part /\ ledger[p] \in Fitting(p)
    BY Types DEF LedgersFit
  <2> QED
    BY <2>1, NetIsNat
<1>3. ASSUME NEW s
      PROVE  /\ due(s) = SumFunctionOnSet(move(s), Part) /\ due(s) \in Nat
             /\ \A p \in Part : move(s)[p] \in Nat
  <2>1. \A p \in Part : move(s)[p] \in Nat
    BY <1>1, <1>2
  <2>2. of(s) \in SUBSET Part
    OBVIOUS
  <2>3. Extends(move(s), Part, net, of(s))
    <3>1. \A p \in of(s) : move(s)[p] = net[p]
      OBVIOUS
    <3>2. \A p \in Part : p \notin of(s) => move(s)[p] = 0
      OBVIOUS
    <3> HIDE DEF move, net, of
    <3> QED
      BY <2>1, <3>1, <3>2 DEF Extends
  <2> HIDE DEF net, move, of
  <2>4. SumFunctionOnSet(net, of(s)) = SumFunctionOnSet(move(s), Part)
    BY <2>2, <2>3, Constants, SumExtend
  <2>5. SumFunctionOnSet(move(s), Part) \in Nat
    BY <2>1, Constants, SumNat
  <2> QED
    BY <2>1, <2>4, <2>5
<1>4. ASSUME NEW s
      PROVE  /\ HeldBy(s) = HeldBy(s)' + due(s) /\ FreeBy(s)' = FreeBy(s) + due(s)
             /\ ShortBy(s)' = ShortBy(s) /\ HeldBy(s)' \in Nat
  <2>0. /\ \A p \in Part : Held(s)[p] \in Nat /\ Free(s)[p] \in Nat
        /\ released \subseteq settled
    BY ColumnTypes, Types
  <2>1. \A p \in Part : /\ Held(s)'[p] = Held(s)[p] - move(s)[p]
                        /\ Held(s)'[p] \in Nat
                        /\ Free(s)'[p] = Free(s)[p] + move(s)[p]
    <3> SUFFICES ASSUME NEW p \in Part
                 PROVE  /\ Held(s)'[p] = Held(s)[p] - move(s)[p]
                        /\ Held(s)'[p] \in Nat
                        /\ Free(s)'[p] = Free(s)[p] + move(s)[p]
      OBVIOUS
    <3>1. CASE p \in S /\ SellerOf[p] = s
      <4>1. /\ Held(s)[p] = NetSeller(p, ledger[p]) /\ Held(s)'[p] = 0
            /\ Free(s)[p] = 0 /\ Free(s)'[p] = NetSeller(p, ledger[p])
            /\ move(s)[p] = NetSeller(p, ledger[p]) /\ NetSeller(p, ledger[p]) \in Nat
        BY <1>1, <1>2, <3>1 DEF Held, Free, NetSeller
      <4> QED
        BY <4>1
    <3>2. CASE ~(p \in S /\ SellerOf[p] = s)
      <4>1. move(s)[p] = 0 /\ Held(s)'[p] = Held(s)[p] /\ Free(s)'[p] = Free(s)[p]
        BY <1>1, <3>2 DEF Held, Free, NetSeller
      <4> QED
        BY <2>0, <4>1
    <3> QED
      BY <3>1, <3>2
  <2> HIDE DEF move, due
  <2>2. \A p \in Part : /\ Held(s)[p] = Held(s)'[p] + move(s)[p]
                        /\ Held(s)'[p] \in Int /\ move(s)[p] \in Int /\ Free(s)[p] \in Int
    BY <1>3, <2>0, <2>1
  <2>3. SumFunctionOnSet(Held(s), Part) =
           SumFunctionOnSet(Held(s)', Part) + SumFunctionOnSet(move(s), Part)
    BY <2>2, Constants, SumPlus
  <2>4. SumFunctionOnSet(Free(s)', Part) =
           SumFunctionOnSet(Free(s), Part) + SumFunctionOnSet(move(s), Part)
    <3>1. \A p \in Part : /\ Free(s)[p] \in Int /\ move(s)[p] \in Int
                          /\ Free(s)'[p] = Free(s)[p] + move(s)[p]
      BY <2>1, <2>2
    <3> QED
      BY <3>1, Constants, SumPlus
  <2>5. SumFunctionOnSet(Held(s)', Part) \in Nat
    BY <2>1, Constants, SumNat
  <2>6. ShortBy(s)' = ShortBy(s)
    BY <1>1 DEF ShortBy, Short
  <2> QED
    BY <1>3, <2>3, <2>4, <2>5, <2>6 DEF HeldBy, FreeBy
<1> HIDE DEF due
<1>5. ASSUME NEW s \in Seller
      PROVE  /\ wallet'[s].pending = wallet[s].pending - due(s)
             /\ wallet'[s].available = wallet[s].available + due(s)
             /\ wallet'[s].earned = wallet[s].earned
             /\ wallet'[s] \in [pending : Nat, available : Nat, earned : Nat]
  <2> DEFINE d == due(s)
             low == wallet[s].pending - d
             high == wallet[s].available + d
  <2>1. wallet[s] \in [pending : Nat, available : Nat, earned : Nat]
    BY DEF TypeOK
  <2>2. wallet'[s] = [wallet[s] EXCEPT !.pending = @ - d, !.available = @ + d]
    BY <1>1
  <2>3. d \in Nat /\ d <= wallet[s].pending
    BY <1>1, <1>3
  <2> HIDE DEF d
  <2>4. low \in Nat /\ high \in Nat
    BY <2>1, <2>3
  <2>5. wallet'[s] = [wallet[s] EXCEPT !.pending = low, !.available = high]
    BY <2>1, <2>2
  <2> HIDE DEF low, high
  <2>6. /\ wallet'[s].pending = low /\ wallet'[s].available = high
        /\ wallet'[s].earned = wallet[s].earned
        /\ wallet'[s] \in [pending : Nat, available : Nat, earned : Nat]
    BY <2>1, <2>4, <2>5
  <2> QED
    BY <2>6 DEF low, high, d
<1>7. wallet' \in [Seller -> [pending : Nat, available : Nat, earned : Nat]]
  <2>1. \A s \in Seller : wallet'[s] \in [pending : Nat, available : Nat, earned : Nat]
    BY <1>5
  <2>2. wallet' = [s \in Seller |-> wallet'[s]]
    BY <1>1
  <2> QED
    BY <2>1, <2>2
<1>8. TypeOK'
  BY <1>1, <1>7 DEF TypeOK, refundVars
<1>9. RefundsBooked' /\ RefundsBounded' /\ PayoutsKnown'
  BY <1>1, RefundsKept DEF PayoutsKnown
<1>10. LedgersFit'
  <2>1. \A p : GivenTo(p)' = GivenTo(p)
    BY <1>1 DEF GivenTo, Given, refundVars
  <2>2. \A p : Fitting(p)' = Fitting(p)
    BY DEF Fitting, LedgerRow, NetCommission, NetSeller
  <2> QED
    BY <1>1, <2>1, <2>2 DEF LedgersFit
<1>11. WalletsBalance'
  <2> SUFFICES ASSUME NEW s \in Seller
               PROVE  /\ wallet'[s].pending = HeldBy(s)'
                      /\ wallet'[s].earned = HeldBy(s)' + FreeBy(s)'
                      /\ wallet'[s].available + SpentBy(s)' + slots'[s] * SlotPrice =
                            FreeBy(s)' + ShortBy(s)'
    BY DEF WalletsBalance
  <2>1. SpentBy(s)' = SpentBy(s) /\ slots'[s] = slots[s]
    BY <1>1, SpentKept
  <2> DEFINE spend == slots[s] * SlotPrice
  <2>2. wallet[s].available + SpentBy(s) + spend = FreeBy(s) + ShortBy(s)
        /\ wallet[s].pending = HeldBy(s) /\ wallet[s].earned = HeldBy(s) + FreeBy(s)
    BY DEF WalletsBalance
  <2>3. /\ wallet[s].available \in Nat /\ SpentBy(s) \in Nat /\ spend \in Nat
        /\ HeldBy(s) \in Nat /\ FreeBy(s) \in Nat /\ ShortBy(s) \in Nat
    BY ColumnSums, Types, Constants
  <2>4. slots'[s] * SlotPrice = spend
    BY <2>1
  <2>5. /\ HeldBy(s) = HeldBy(s)' + due(s) /\ FreeBy(s)' = FreeBy(s) + due(s)
        /\ ShortBy(s)' = ShortBy(s) /\ HeldBy(s)' \in Nat /\ due(s) \in Nat
    BY <1>3, <1>4
  <2>6. /\ wallet'[s].pending = wallet[s].pending - due(s)
        /\ wallet'[s].available = wallet[s].available + due(s)
        /\ wallet'[s].earned = wallet[s].earned
    BY <1>5
  <2> DEFINE d == due(s)
  <2> HIDE DEF spend, d
  <2>7. wallet'[s].pending = HeldBy(s)' /\ wallet'[s].earned = HeldBy(s)' + FreeBy(s)'
    BY <2>2, <2>3, <2>5, <2>6 DEF d
  <2>8. wallet'[s].available + SpentBy(s)' + spend = FreeBy(s)' + ShortBy(s)'
    BY <2>1, <2>2, <2>3, <2>5, <2>6 DEF d
  <2> QED
    BY <2>4, <2>7, <2>8
<1> QED
  BY <1>8, <1>9, <1>10, <1>11

-----------------------------------------------------------------------------
(* Settlements.                                                            *)

\* What waits for p is all that was allocated to it.
LEMMA WaitingIsGiven ==
    ASSUME TypeOK, RefundsBooked, NEW p \in Part
    PROVE  /\ Waiting(p) \subseteq Refund /\ IsFiniteSet(Waiting(p))
           /\ SumFunctionOnSet(Given(p), Waiting(p)) = GivenTo(p)
<1>1. \A r \in Refund : share[r][p] \in Nat /\ Given(p)[r] = share[r][p]
  BY Types DEF Given
<1>2. Waiting(p) \in SUBSET Refund
  BY DEF Waiting, Done
<1>3. IsFiniteSet(Waiting(p))
  BY <1>2, Constants, FS_Subset
<1>4. \A r \in Refund : r \notin Waiting(p) => share[r][p] = 0
  BY <1>1 DEF Waiting, Done, RefundsBooked
<1>5. Extends(Given(p), Refund, Given(p), Waiting(p))
  BY <1>1, <1>4 DEF Extends
<1>6. SumFunctionOnSet(Given(p), Waiting(p)) = SumFunctionOnSet(Given(p), Refund)
  BY <1>2, <1>5, Constants, SumExtend
<1> QED
  BY <1>2, <1>3, <1>6 DEF GivenTo

\* A settlement credits the net of the new ledgers, after the allocations that waited.
LEMMA SettleStep ==
    ASSUME MoneyInv, NEW S \in SUBSET Part, Settle(S),
           UNCHANGED <<refundVars, released, payout, slots>>
    PROVE  /\ LedgersFit' /\ WalletsBalance'
           /\ settled' = settled \union S
           /\ ledger' \in [Part -> LedgerRow]
           /\ wallet' \in [Seller -> [pending : Nat, available : Nat, earned : Nat]]
<1> USE DEF MoneyInv
<1> DEFINE new == S \ settled
           net == [p \in new |-> NetSeller(p, ledger'[p])]
           of(s) == {p \in new : SellerOf[p] = s}
           credit(s) == SumFunctionOnSet(net, of(s))
           column(s) == [p \in Part |-> IF p \in new /\ SellerOf[p] = s
                                        THEN NetSeller(p, ledger'[p]) ELSE 0]
<1>1. PICK rate \in Rates, queue \in [new -> UNION {SetToSeqs(Waiting(p)) : p \in new}] :
        /\ \A p \in new : queue[p] \in SetToSeqs(Waiting(p))
        /\ settled' = settled \union new
        /\ ledger' = [p \in Part |->
                IF p \in new THEN SettledLedger(p, rate, queue[p]) ELSE ledger[p]]
        /\ wallet' = [s \in Seller |->
                [wallet[s] EXCEPT !.pending = @ + credit(s), !.earned = @ + credit(s)]]
  BY DEF Settle
<1>2. /\ released \subseteq settled /\ settled \subseteq Part /\ new \subseteq Part
      /\ new \cap settled = {} /\ new \cap released = {} /\ rate \in 0..RateScale
  BY Types, Constants
<1>3. ASSUME NEW p \in new
      PROVE  /\ ledger'[p] \in Fitting(p) /\ ledger'[p].refunded = GivenTo(p)
             /\ ledger'[p].shortfall = 0
  <2> DEFINE W == Waiting(p)
             q == queue[p]
  <2>1. p \in Part /\ Subtotal[p] \in Nat /\ q \in SetToSeqs(W)
    BY <1>1, <1>2, Constants
  <2>2. W \subseteq Refund /\ IsFiniteSet(W) /\ SumFunctionOnSet(Given(p), W) = GivenTo(p)
    BY <2>1, WaitingIsGiven
  <2>3. \A r \in W : Given(p)[r] \in Nat /\ Given(p)[r] = share[r][p]
    BY <2>1, <2>2, Types DEF Given
  <2>4. GivenTo(p) <= Subtotal[p]
    BY <2>1 DEF RefundsBounded
  <2>5. ledger'[p] = SettledLedger(p, rate, q)
    BY <1>1, <2>1
  <2> HIDE DEF W, q, new
  <2>6. /\ SettledLedger(p, rate, q) \in Fitting(p)
        /\ SettledLedger(p, rate, q).refunded = SumFunctionOnSet(Given(p), W)
        /\ SettledLedger(p, rate, q).shortfall = 0
    BY <1>2, <2>1, <2>2, <2>3, <2>4, SettledFits
  <2> QED
    BY <2>2, <2>5, <2>6
<1>4. \A p \in Part : p \notin new => ledger'[p] = ledger[p]
  BY <1>1
<1>5. \A p : GivenTo(p)' = GivenTo(p) /\ Fitting(p)' = Fitting(p)
  BY DEF GivenTo, Given, refundVars, Fitting, LedgerRow, NetCommission, NetSeller
<1>6. LedgersFit'
  <2> SUFFICES ASSUME NEW p \in settled'
               PROVE  /\ ledger'[p] \in Fitting(p)
                      /\ ledger'[p].refunded = GivenTo(p)
                      /\ p \notin released => ledger'[p].shortfall = 0
    BY <1>5 DEF LedgersFit
  <2>1. CASE p \in new
    BY <1>3, <2>1
  <2>2. CASE p \in settled
    <3>1. ledger'[p] = ledger[p]
      BY <1>2, <1>4, <2>2
    <3> QED
      BY <2>2, <3>1 DEF LedgersFit
  <2> QED
    BY <1>1, <2>1, <2>2
<1>7. ledger' \in [Part -> LedgerRow]
  <2>1. \A p \in Part : ledger'[p] \in LedgerRow
    <3> SUFFICES ASSUME NEW p \in Part PROVE ledger'[p] \in LedgerRow
      OBVIOUS
    <3>1. CASE p \in new
      BY <1>3, <3>1 DEF Fitting
    <3>2. CASE p \notin new
      BY <1>4, <3>2, Types
    <3> QED
      BY <3>1, <3>2
  <2>2. ledger' = [p \in Part |-> ledger'[p]]
    <3>1. \E f : ledger' = [p \in Part |-> f[p]]
      <4> DEFINE f == [p \in Part |->
                          IF p \in new THEN SettledLedger(p, rate, queue[p]) ELSE ledger[p]]
      <4>1. ledger' = [p \in Part |-> f[p]]
        BY <1>1
      <4> QED
        BY <4>1
    <3> QED
      BY <3>1
  <2> QED
    BY <2>1, <2>2
<1>8. \A p \in new : NetSeller(p, ledger'[p]) \in Nat
  BY <1>2, <1>3, NetIsNat
<1>9. ASSUME NEW s
      PROVE  credit(s) = SumFunctionOnSet(column(s), Part) /\ credit(s) \in Nat
             /\ \A p \in Part : column(s)[p] \in Nat
  <2>1. \A p \in Part : column(s)[p] \in Nat
    BY <1>8
  <2>2. of(s) \in SUBSET Part
    BY <1>2
  <2>3. Extends(column(s), Part, net, of(s))
    <3>1. \A p \in of(s) : column(s)[p] = net[p]
      BY <1>2
    <3>2. \A p \in Part : p \notin of(s) => column(s)[p] = 0
      OBVIOUS
    <3> HIDE DEF column, net, of
    <3> QED
      BY <2>1, <3>1, <3>2 DEF Extends
  <2> HIDE DEF net, column, of
  <2>4. SumFunctionOnSet(net, of(s)) = SumFunctionOnSet(column(s), Part)
    BY <2>2, <2>3, Constants, SumExtend
  <2>5. SumFunctionOnSet(column(s), Part) \in Nat
    BY <2>1, Constants, SumNat
  <2> QED
    BY <2>1, <2>4, <2>5
<1>10. ASSUME NEW s
       PROVE  /\ HeldBy(s)' = HeldBy(s) + credit(s) /\ FreeBy(s)' = FreeBy(s)
              /\ ShortBy(s)' = ShortBy(s)
  <2>0. /\ \A p \in Part : Held(s)[p] \in Nat /\ Free(s)[p] \in Nat /\ Short(s)[p] \in Nat
    BY ColumnTypes
  <2>1. ASSUME NEW p \in Part
        PROVE  /\ Held(s)'[p] = Held(s)[p] + column(s)[p]
               /\ Free(s)'[p] = Free(s)[p] /\ Short(s)'[p] = Short(s)[p]
    <3>1. CASE p \in new
      <4>1. /\ p \in settled' /\ p \notin released' /\ p \notin settled /\ p \notin released
            /\ ledger'[p].shortfall = 0
        BY <1>1, <1>2, <1>3, <3>1
      <4>2. /\ Free(s)'[p] = 0 /\ Free(s)[p] = 0 /\ Short(s)'[p] = 0 /\ Short(s)[p] = 0
            /\ Held(s)[p] = 0 /\ Held(s)'[p] = column(s)[p]
        <5> HIDE DEF new
        <5> QED
          BY <3>1, <4>1 DEF Free, Short, Held, NetSeller
      <4>3. column(s)[p] \in Nat
        BY <1>9
      <4> HIDE DEF column
      <4> QED
        BY <4>2, <4>3
    <3>2. CASE p \notin new
      <4>1. ledger'[p] = ledger[p] /\ (p \in settled' <=> p \in settled) /\ released' = released
        BY <1>1, <1>4, <3>2
      <4>2. /\ Free(s)'[p] = Free(s)[p] /\ Short(s)'[p] = Short(s)[p]
            /\ Held(s)'[p] = Held(s)[p] /\ column(s)[p] = 0
        <5> HIDE DEF new
        <5> QED
          BY <3>2, <4>1 DEF Free, Short, Held, NetSeller
      <4> QED
        BY <2>0, <4>2
    <3> QED
      BY <3>1, <3>2
  <2> HIDE DEF column, credit
  <2>2. SumFunctionOnSet(Held(s)', Part) =
           SumFunctionOnSet(Held(s), Part) + SumFunctionOnSet(column(s), Part)
    <3>1. \A p \in Part : /\ Held(s)[p] \in Int /\ column(s)[p] \in Int
                          /\ Held(s)'[p] = Held(s)[p] + column(s)[p]
      BY <1>9, <2>0, <2>1
    <3> QED
      BY <3>1, Constants, SumPlus
  <2>3. SumFunctionOnSet(Free(s)', Part) = SumFunctionOnSet(Free(s), Part)
    <3>1. \A p \in Part : Free(s)[p] \in Int /\ Free(s)'[p] = Free(s)[p]
      BY <2>0, <2>1
    <3> QED
      BY <3>1, Constants, SumEqual
  <2>4. SumFunctionOnSet(Short(s)', Part) = SumFunctionOnSet(Short(s), Part)
    <3>1. \A p \in Part : Short(s)[p] \in Int /\ Short(s)'[p] = Short(s)[p]
      BY <2>0, <2>1
    <3> QED
      BY <3>1, Constants, SumEqual
  <2> QED
    BY <1>9, <2>2, <2>3, <2>4 DEF HeldBy, FreeBy, ShortBy
<1> HIDE DEF credit
<1>11. ASSUME NEW s \in Seller
       PROVE  /\ wallet'[s].pending = wallet[s].pending + credit(s)
              /\ wallet'[s].available = wallet[s].available
              /\ wallet'[s].earned = wallet[s].earned + credit(s)
              /\ wallet'[s] \in [pending : Nat, available : Nat, earned : Nat]
  <2> DEFINE d == credit(s)
             a == wallet[s].pending + d
             b == wallet[s].earned + d
  <2>1. wallet[s] \in [pending : Nat, available : Nat, earned : Nat]
    BY DEF TypeOK
  <2>2. wallet'[s] = [wallet[s] EXCEPT !.pending = @ + d, !.earned = @ + d]
    BY <1>1
  <2>3. d \in Nat
    BY <1>9
  <2> HIDE DEF d
  <2>4. a \in Nat /\ b \in Nat
    BY <2>1, <2>3
  <2>5. wallet'[s] = [wallet[s] EXCEPT !.pending = a, !.earned = b]
    BY <2>1, <2>2
  <2> HIDE DEF a, b
  <2>6. /\ wallet'[s].pending = a /\ wallet'[s].earned = b
        /\ wallet'[s].available = wallet[s].available
        /\ wallet'[s] \in [pending : Nat, available : Nat, earned : Nat]
    BY <2>1, <2>4, <2>5
  <2> QED
    BY <2>6 DEF a, b, d
<1>12. wallet' \in [Seller -> [pending : Nat, available : Nat, earned : Nat]]
  <2>1. wallet' = [s \in Seller |-> wallet'[s]]
    BY <1>1
  <2>2. \A s \in Seller : wallet'[s] \in [pending : Nat, available : Nat, earned : Nat]
    BY <1>11
  <2> QED
    BY <2>1, <2>2
<1>13. WalletsBalance'
  <2> SUFFICES ASSUME NEW s \in Seller
               PROVE  /\ wallet'[s].pending = HeldBy(s)'
                      /\ wallet'[s].earned = HeldBy(s)' + FreeBy(s)'
                      /\ wallet'[s].available + SpentBy(s)' + slots'[s] * SlotPrice =
                            FreeBy(s)' + ShortBy(s)'
    BY DEF WalletsBalance
  <2>1. SpentBy(s)' = SpentBy(s) /\ slots'[s] = slots[s]
    BY SpentKept
  <2>2. wallet[s].available + SpentBy(s) + slots[s] * SlotPrice = FreeBy(s) + ShortBy(s)
        /\ wallet[s].pending = HeldBy(s) /\ wallet[s].earned = HeldBy(s) + FreeBy(s)
    BY DEF WalletsBalance
  <2>3. HeldBy(s) \in Nat /\ FreeBy(s) \in Nat
    BY ColumnSums
  <2>4. /\ HeldBy(s)' = HeldBy(s) + credit(s) /\ FreeBy(s)' = FreeBy(s)
        /\ ShortBy(s)' = ShortBy(s) /\ credit(s) \in Nat
    BY <1>9, <1>10
  <2>5. /\ wallet'[s].pending = wallet[s].pending + credit(s)
        /\ wallet'[s].available = wallet[s].available
        /\ wallet'[s].earned = wallet[s].earned + credit(s)
    BY <1>11
  <2>6. wallet'[s].available + SpentBy(s)' + slots'[s] * SlotPrice = FreeBy(s)' + ShortBy(s)'
    BY <2>1, <2>2, <2>4, <2>5
  <2> DEFINE d == credit(s)
  <2> HIDE DEF d
  <2>7. wallet'[s].pending = HeldBy(s)' /\ wallet'[s].earned = HeldBy(s)' + FreeBy(s)'
    BY <2>2, <2>3, <2>4, <2>5 DEF d
  <2> QED
    BY <2>6, <2>7
<1>14. settled' = settled \union S
  BY <1>1
<1> QED
  BY <1>6, <1>7, <1>12, <1>13, <1>14

\* A delivery settles its part if the order is paid,
LEMMA DeliverStep ==
    ASSUME MoneyInv, NEW p \in Part, Deliver(p)
    PROVE  MoneyInv'
<1> USE DEF MoneyInv
<1>1. /\ delivered' = delivered \union {p}
      /\ UNCHANGED <<paid, refundVars, released, payout, slots>>
      /\ Settle({p}) \/ UNCHANGED <<settled, ledger, wallet>>
  BY DEF Deliver
<1>2. RefundsBooked' /\ RefundsBounded' /\ PayoutsKnown'
  BY <1>1, RefundsKept DEF PayoutsKnown
<1>3. CASE Settle({p})
  <2>1. /\ LedgersFit' /\ WalletsBalance' /\ settled' = settled \union {p}
        /\ ledger' \in [Part -> LedgerRow]
        /\ wallet' \in [Seller -> [pending : Nat, available : Nat, earned : Nat]]
    BY <1>1, <1>3, SettleStep
  <2>2. TypeOK'
    BY <1>1, <2>1 DEF TypeOK, LedgerRow, refundVars
  <2> QED
    BY <1>2, <2>1, <2>2
<1>4. CASE UNCHANGED <<settled, ledger, wallet>>
  <2>1. TypeOK'
    BY <1>1, <1>4 DEF TypeOK, refundVars
  <2>2. LedgersFit'
    BY <1>1, <1>4, RowsKept DEF refundVars, ledgerVars
  <2>3. WalletsBalance'
    BY <1>1, <1>4, LedgersKept, SpentKept DEF WalletsBalance, ledgerVars
  <2> QED
    BY <1>2, <2>1, <2>2, <2>3
<1> QED
  BY <1>1, <1>3, <1>4

\* and the collection of the cash settles all parts of its order.
LEMMA RecordCodStep ==
    ASSUME MoneyInv, NEW o \in Order, RecordCodCollection(o)
    PROVE  MoneyInv'
<1> USE DEF MoneyInv
<1>1. /\ PartsOf(o) \subseteq delivered
      /\ paid' = [paid EXCEPT ![o] = "completed"]
      /\ UNCHANGED <<delivered, refundVars, released, payout, slots>>
      /\ Settle(PartsOf(o))
  BY DEF RecordCodCollection
<1>2. RefundsBooked' /\ RefundsBounded' /\ PayoutsKnown'
  BY <1>1, RefundsKept DEF PayoutsKnown
<1>3. /\ LedgersFit' /\ WalletsBalance' /\ settled' = settled \union PartsOf(o)
      /\ ledger' \in [Part -> LedgerRow]
      /\ wallet' \in [Seller -> [pending : Nat, available : Nat, earned : Nat]]
  <2>1. PartsOf(o) \in SUBSET Part
    BY Constants
  <2> QED
    BY <1>1, <2>1, SettleStep
<1>4. TypeOK'
  BY <1>1, <1>3 DEF TypeOK, LedgerRow, refundVars
<1> QED
  BY <1>2, <1>3, <1>4

-----------------------------------------------------------------------------
(* The confirmation of a refund.                                           *)

\* What is left of each part of an order, as the split takes it.
LEMMA CapacitiesOf ==
    ASSUME MoneyInv, NEW o
    PROVE  /\ PartsOf(o) \in SUBSET Nat /\ PartsOf(o) \in SUBSET Part
           /\ IsFiniteSet(PartsOf(o))
           /\ CapacityOf(o) \in [PartsOf(o) -> Nat]
           /\ \A p \in PartsOf(o) : CapacityOf(o)[p] = Capacity(p)
           /\ \A p \in Part : /\ Capacity(p) = Subtotal[p] - GivenTo(p) /\ Capacity(p) \in Nat
                               /\ GivenTo(p) \in Nat /\ Subtotal[p] \in Nat
<1> USE DEF MoneyInv
<1> DEFINE parts == PartsOf(o)
           cap == CapacityOf(o)
<1>1. ASSUME NEW p \in Part
      PROVE  /\ Capacity(p) = Subtotal[p] - GivenTo(p) /\ Capacity(p) \in Nat
             /\ GivenTo(p) \in Nat /\ Subtotal[p] \in Nat
  <2>1. GivenTo(p) \in Nat /\ Subtotal[p] \in Nat /\ GivenTo(p) <= Subtotal[p]
    BY ColumnSums, Constants DEF RefundsBounded
  <2>2. Capacity(p) = Subtotal[p] - GivenTo(p)
    BY AllocatedIsGiven DEF Capacity
  <2> QED
    BY <2>1, <2>2
<1>2. parts \subseteq Part /\ IsFiniteSet(parts) /\ Part \subseteq Nat
  BY Constants
<1>3. cap = [p \in parts |-> Capacity(p)]
  BY DEF CapacityOf
<1>4. cap \in [parts -> Nat] /\ \A p \in parts : cap[p] = Capacity(p)
  <2> HIDE DEF parts, cap
  <2> QED
    BY <1>1, <1>2, <1>3
<1> QED
  BY <1>1, <1>2, <1>4

\* The allocation stays within what is left of each part, within the order, and within
\* the part of a linked refund; with the shipping it makes up the amount.
LEMMA AllocationFits ==
    ASSUME MoneyInv, NEW r \in Refund, refund[r].amount > 0, ~refund[r].done, Fits(r)
    PROVE  /\ refund[r].order \in Order
           /\ Allocation(r) \in [Part -> Nat]
           /\ \A p \in Part : GivenTo(p) + Allocation(r)[p] <= Subtotal[p]
           /\ \A p \in Part : OrderOf[p] # refund[r].order => Allocation(r)[p] = 0
           /\ refund[r].part # Direct =>
                 \A p \in Part : p # refund[r].part => Allocation(r)[p] = 0
           /\ Merchandise(r) \in 0..refund[r].amount
           /\ SumFunctionOnSet(Allocation(r), Part) = Merchandise(r)
           /\ ShippedOf(refund[r].order) + (refund[r].amount - Merchandise(r)) <=
                 ShippingFee[refund[r].order]
<1> USE DEF MoneyInv
<1> DEFINE o == refund[r].order
           amount == refund[r].amount
           part == refund[r].part
           parts == PartsOf(o)
           cap == CapacityOf(o)
           room == SumFunctionOnSet(cap, parts)
<1>1. /\ o \in Order /\ amount \in Nat /\ amount > 0
      /\ part # Direct => part \in Part /\ OrderOf[part] = o
  BY Types DEF RefundsBooked
<1>2. \A p \in Part : /\ GivenTo(p) \in Nat /\ Subtotal[p] \in Nat
                      /\ Capacity(p) = Subtotal[p] - GivenTo(p) /\ Capacity(p) \in Nat
  BY CapacitiesOf
<1>3. ShippedOf(o) \in Nat /\ ShippedOf(o) <= ShippingFee[o] /\ ShippingFee[o] \in Nat
      /\ PriorShipping(o) = ShippedOf(o)
  BY <1>1, ColumnSums, Constants, PriorIsShipped DEF RefundsBounded
<1>4. CASE part # Direct
  <2>1. /\ Allocation(r) = [p \in Part |-> IF p = part THEN amount ELSE 0]
        /\ Merchandise(r) = amount /\ amount <= Capacity(part)
    BY <1>4 DEF Allocation, Merchandise, Fits
  <2> DEFINE a == Allocation(r)
  <2>2. \A p \in Part : a[p] = IF p = part THEN amount ELSE 0
    BY <2>1
  <2>3. a \in [Part -> Nat]
    BY <1>1, <2>1
  <2> HIDE DEF a, o, amount, part, parts
  <2>4. SumFunctionOnSet(a, Part) = amount
    <3>1. Extends(a, Part, a, {part})
      BY <1>1, <1>4, <2>2 DEF Extends
    <3>2. {part} \in SUBSET Part
      BY <1>1, <1>4
    <3>3. SumFunctionOnSet(a, {part}) = SumFunctionOnSet(a, Part)
      BY <3>1, <3>2, Constants, SumExtend
    <3>4. a[part] = amount /\ a[part] \in Int
      BY <1>1, <1>4, <2>2
    <3>5. SumFunctionOnSet(a, {part}) = a[part]
      BY <3>4, SumSingle
    <3> QED
      BY <3>3, <3>4, <3>5
  <2>5. \A p \in Part : GivenTo(p) + a[p] <= Subtotal[p]
    BY <1>1, <1>2, <1>4, <2>1, <2>2
  <2>6. \A p \in Part : OrderOf[p] # o => a[p] = 0
    BY <1>1, <1>4, <2>2
  <2>7. ShippedOf(o) + (amount - amount) <= ShippingFee[o]
    BY <1>1, <1>3
  <2> QED
    BY <1>1, <2>1, <2>2, <2>3, <2>4, <2>5, <2>6, <2>7 DEF a, o, amount, part
<1>5. CASE part = Direct
  <2> DEFINE a == Allocation(r)
             m == Merchandise(r)
             split == Split(m, parts, cap)
  <2>1. /\ a = [p \in Part |-> IF p \in parts THEN split[p] ELSE 0]
        /\ m = Lesser(amount, room)
        /\ amount - m <= ShippingFee[o] - PriorShipping(o)
        /\ SumFunctionOnSet(a, Part) = m
    BY <1>5 DEF Allocation, Merchandise, Fits
  <2>2. /\ parts \in SUBSET Nat /\ IsFiniteSet(parts) /\ parts \subseteq Part
        /\ cap \in [parts -> Nat] /\ \A p \in parts : cap[p] = Capacity(p)
    BY CapacitiesOf
  <2> HIDE DEF parts, cap, o, amount, part
  <2>3. room \in Nat
    <3>1. \A p \in parts : cap[p] \in Nat
      BY <2>2
    <3> QED
      BY <2>2, <3>1, SumNat
  <2> HIDE DEF room, m
  <2>4. m \in 0..amount /\ m \in 0..room
    BY <1>1, <2>1, <2>3 DEF Lesser
  <2>5. split \in [parts -> Nat] /\ \A p \in parts : split[p] <= cap[p]
    BY <2>2, <2>4, SplitFits DEF room
  <2> HIDE DEF split, a
  <2>6. \A p \in Part : a[p] = IF p \in parts THEN split[p] ELSE 0
    BY <2>1
  <2>7. a \in [Part -> Nat]
    BY <2>1, <2>5
  <2>8. \A p \in Part : GivenTo(p) + a[p] <= Subtotal[p]
    <3> SUFFICES ASSUME NEW p \in Part PROVE GivenTo(p) + a[p] <= Subtotal[p]
      OBVIOUS
    <3>1. CASE p \in parts
      <4>1. a[p] = split[p] /\ split[p] \in Nat /\ split[p] <= Capacity(p)
        BY <2>2, <2>5, <2>6, <3>1
      <4> QED
        BY <1>2, <4>1
    <3>2. CASE p \notin parts
      BY <1>2, <2>6, <3>2
    <3> QED
      BY <3>1, <3>2
  <2>9. \A p \in Part : OrderOf[p] # o => a[p] = 0
    BY <2>6 DEF parts, PartsOf
  <2>10. ShippedOf(o) + (amount - m) <= ShippingFee[o]
    BY <1>1, <1>3, <2>1, <2>4
  <2> QED
    BY <1>1, <1>5, <2>1, <2>4, <2>7, <2>8, <2>9, <2>10 DEF a, m, o, amount, part
<1> QED
  BY <1>4, <1>5

\* One column of a sum is at most the sum.
LEMMA NetWithinSum ==
    ASSUME MoneyInv, NEW p \in settled
    PROVE  /\ p \notin released => NetSeller(p, ledger[p]) <= HeldBy(SellerOf[p])
           /\ NetSeller(p, ledger[p]) <= HeldBy(SellerOf[p]) + FreeBy(SellerOf[p])
<1> USE DEF MoneyInv
<1> DEFINE s == SellerOf[p]
           net == NetSeller(p, ledger[p])
<1>1. p \in Part /\ ledger[p] \in Fitting(p) /\ released \subseteq settled
  BY Types DEF LedgersFit
<1>2. net \in Nat
  BY <1>1, NetIsNat
<1>3. ASSUME NEW f, \A q \in Part : f[q] \in Nat
      PROVE  f[p] <= SumFunctionOnSet(f, Part)
  <2>1. {p} \in SUBSET Part
    BY <1>1
  <2>2. SumFunctionOnSet(f, {p}) <= SumFunctionOnSet(f, Part)
    BY <1>3, <2>1, Constants, SumSubset
  <2>3. f[p] \in Int
    BY <1>1, <1>3
  <2>4. SumFunctionOnSet(f, {p}) = f[p]
    BY <2>3, SumSingle
  <2> QED
    BY <2>2, <2>4
<1>4. HeldBy(s) \in Nat /\ FreeBy(s) \in Nat
  BY ColumnSums
<1>5. CASE p \in released
  <2>1. Free(s)[p] = net
    BY <1>1, <1>5 DEF Free
  <2>2. \A q \in Part : Free(s)[q] \in Nat
    BY ColumnTypes
  <2>3. net <= FreeBy(s)
    BY <1>3, <2>1, <2>2 DEF FreeBy
  <2> HIDE DEF net, s
  <2> QED
    BY <1>2, <1>4, <1>5, <2>3 DEF net, s
<1>6. CASE p \notin released
  <2>1. Held(s)[p] = net
    BY <1>1, <1>6 DEF Held
  <2>2. \A q \in Part : Held(s)[q] \in Nat
    BY ColumnTypes
  <2>3. net <= HeldBy(s)
    BY <1>3, <2>1, <2>2 DEF HeldBy
  <2> HIDE DEF net, s
  <2> QED
    BY <1>2, <1>4, <1>6, <2>3 DEF net, s
<1> QED
  BY <1>5, <1>6

\* What is debited: all of it from earnings on hold, what there is from released ones.
LEMMA DebitFits ==
    ASSUME MoneyInv, NEW p \in settled, NEW t \in 0..NetSeller(p, ledger[p])
    PROVE  /\ Debit(p, t).pending \in Nat /\ Debit(p, t).available \in Nat
           /\ Debit(p, t).pending <= wallet[SellerOf[p]].pending
           /\ Debit(p, t).available <= wallet[SellerOf[p]].available
           /\ Debit(p, t).pending + Debit(p, t).available <= t
           /\ p \notin released => Debit(p, t).pending = t /\ Debit(p, t).available = 0
           /\ p \in released => Debit(p, t).pending = 0
<1> USE DEF MoneyInv
<1> DEFINE s == SellerOf[p]
           net == NetSeller(p, ledger[p])
           pending == wallet[s].pending
           available == wallet[s].available
<1>1. p \in Part /\ ledger[p] \in Fitting(p) /\ s \in Seller
  BY Types, Constants DEF LedgersFit
<1>2. net \in Nat
  BY <1>1, NetIsNat
<1>3. pending \in Nat /\ available \in Nat /\ pending = HeldBy(s)
  BY <1>1, Types DEF WalletsBalance
<1>4. p \notin released => net <= pending
  BY <1>3, NetWithinSum
<1> DEFINE first == IF p \in released THEN 0 ELSE Lesser(t, pending)
           second == Lesser(t - first, available)
<1>5. Debit(p, t) = [pending |-> first, available |-> second]
  BY DEF Debit
<1>6. t \in Nat /\ t <= net
  BY <1>2
<1> HIDE DEF net, pending, available
<1>7. first \in Nat /\ first <= pending /\ first <= t
      /\ (p \notin released => first = t) /\ (p \in released => first = 0)
  BY <1>2, <1>3, <1>4, <1>6 DEF Lesser
<1> HIDE DEF first
<1>8. second \in Nat /\ second <= available /\ first + second <= t
      /\ (p \notin released => second = 0)
  BY <1>3, <1>6, <1>7 DEF Lesser
<1> HIDE DEF second, s
<1> QED
  BY <1>5, <1>7, <1>8 DEF pending, available, s

\* The ledger of p after n units of merchandise were taken off it.
Reversed(p, n) ==
    LET taken == Taken(p, ledger[p], n)
        debit == Debit(p, taken.seller)
    IN  [Applied(ledger[p], n, taken) EXCEPT
            !.shortfall = @ + taken.seller - debit.pending - debit.available]

\* It is a fitting one, and the shortfall is what the wallet did not have.
LEMMA ReversedFits ==
    ASSUME MoneyInv, NEW p \in settled, NEW n \in Nat, GivenTo(p) + n <= Subtotal[p]
    PROVE  LET t == Taken(p, ledger[p], n).seller
               d == Debit(p, t)
           IN  /\ Reversed(p, n) \in Fitting(p)
               /\ Reversed(p, n).refunded = ledger[p].refunded + n
               /\ p \notin released => Reversed(p, n).shortfall = 0
               /\ Reversed(p, n).shortfall = ledger[p].shortfall + t - d.pending - d.available
               /\ NetSeller(p, Reversed(p, n)) = NetSeller(p, ledger[p]) - t
               /\ t \in 0..NetSeller(p, ledger[p]) /\ n <= NetGross(p, ledger[p])
<1> USE DEF MoneyInv
<1> DEFINE l == ledger[p]
           taken == Taken(p, l, n)
           t == taken.seller
           d == Debit(p, t)
           row == Applied(l, n, taken)
           u == row.shortfall + t - d.pending - d.available
           new == [row EXCEPT !.shortfall = u]
           net == NetSeller(p, l)
<1>1. /\ p \in Part /\ l \in Fitting(p) /\ l.refunded = GivenTo(p) /\ Subtotal[p] \in Nat
      /\ GivenTo(p) \in Nat
      /\ p \notin released => l.shortfall = 0
  BY Types, Constants, ColumnSums DEF LedgersFit
<1>2. l.shortfall \in Nat /\ net \in Nat
  BY <1>1, NetIsNat
<1>3. n \in 0..NetGross(p, l)
  <2> HIDE DEF l
  <2> QED
    BY <1>1 DEF NetGross
<1>4. /\ row \in Fitting(p) /\ row.refunded = l.refunded + n /\ row.shortfall = l.shortfall
      /\ t \in 0..net /\ NetSeller(p, row) = net - t
  <2> HIDE DEF l
  <2> QED
    BY <1>1, <1>3, AppliedFits
<1>5. /\ d.pending \in Nat /\ d.available \in Nat /\ d.pending + d.available <= t
      /\ p \notin released => d.pending = t /\ d.available = 0
  <2> HIDE DEF taken
  <2> QED
    BY <1>4, DebitFits
<1>6. Reversed(p, n) = [row EXCEPT !.shortfall = @ + t - d.pending - d.available]
  BY DEF Reversed
<1> HIDE DEF l, taken, d, row, net
<1>7. Reversed(p, n) = new
  BY <1>4, <1>6 DEF Fitting, LedgerRow
<1>8. /\ u \in Nat /\ u = l.shortfall + t - d.pending - d.available
      /\ p \notin released => u = 0
  <2> DEFINE dp == d.pending
             da == d.available
             sh == l.shortfall
  <2>1. t \in Nat /\ dp \in Nat /\ da \in Nat /\ dp + da <= t /\ sh \in Nat
        /\ (p \notin released => dp = t /\ da = 0 /\ sh = 0)
    BY <1>1, <1>2, <1>4, <1>5
  <2>2. u = sh + t - dp - da
    BY <1>4
  <2> HIDE DEF t, dp, da, sh, u
  <2>3. u \in Nat /\ (p \notin released => u = 0)
    BY <2>1, <2>2
  <2> QED
    BY <2>2, <2>3 DEF dp, da, sh
<1> HIDE DEF u, t
<1>9. /\ new \in LedgerRow /\ new.rate = row.rate /\ new.refunded = row.refunded
      /\ new.reversedCommission = row.reversedCommission
      /\ new.reversedSeller = row.reversedSeller /\ new.shortfall = u
  <2>1. row \in LedgerRow
    BY <1>4 DEF Fitting
  <2>2. u \in Nat
    BY <1>8
  <2> HIDE DEF row, u
  <2> QED
    BY <2>1, <2>2 DEF LedgerRow
<1> HIDE DEF new
<1>10. new \in Fitting(p) /\ NetSeller(p, new) = NetSeller(p, row)
  BY <1>4, <1>9 DEF Fitting, NetCommission, NetSeller
<1>11. n <= NetGross(p, l)
  <2>1. NetGross(p, l) = Subtotal[p] - l.refunded
    BY DEF NetGross
  <2> QED
    BY <1>1, <2>1
<1>12. /\ new \in Fitting(p) /\ new.refunded = l.refunded + n
       /\ p \notin released => new.shortfall = 0
       /\ new.shortfall = l.shortfall + t - d.pending - d.available
       /\ NetSeller(p, new) = net - t
       /\ t \in 0..net /\ n <= NetGross(p, l)
  <2>1. new \in Fitting(p) /\ t \in 0..net /\ n <= NetGross(p, l)
    BY <1>4, <1>10, <1>11
  <2>2. new.refunded = l.refunded + n /\ NetSeller(p, new) = net - t
    BY <1>4, <1>9, <1>10
  <2>3. /\ p \notin released => new.shortfall = 0
        /\ new.shortfall = l.shortfall + t - d.pending - d.available
    BY <1>8, <1>9
  <2> QED
    BY <2>1, <2>2, <2>3
<1> QED
  BY <1>7, <1>12 DEF l, t, taken, d, net

\* What a confirmation does, in the terms of the lemmas above: the parts in now are
\* those whose ledger it reaches.
Reached(r) == {p \in settled : Allocation(r)[p] > 0}
TakenFrom(r, p) == Taken(p, ledger[p], Allocation(r)[p]).seller
DebitOf(r, p) == Debit(p, TakenFrom(r, p))

\* What the allocation makes of one ledger and one wallet.
LEMMA ConfirmMoves ==
    ASSUME MoneyInv, NEW r \in Refund, ConfirmRefund(r)
    PROVE  /\ ledger' = [p \in Part |-> IF p \notin Reached(r) THEN ledger[p]
                                        ELSE Reversed(p, Allocation(r)[p])]
           /\ wallet' = [s \in Seller |-> wallet'[s]]
           /\ \A s \in Seller, p \in Reached(r) : SellerOf[p] = s =>
                 wallet'[s] =
                    [pending |-> wallet[s].pending - DebitOf(r, p).pending,
                     available |-> wallet[s].available - DebitOf(r, p).available,
                     earned |-> wallet[s].earned - TakenFrom(r, p)]
           /\ \A s \in Seller : (\A p \in Reached(r) : SellerOf[p] # s) =>
                 wallet'[s] = wallet[s]
<1> USE DEF MoneyInv
<1> DEFINE a == Allocation(r)
           now == {p \in settled : a[p] > 0}
           taken == [p \in now |-> Reversal(a[p], ledger[p].rate,
                                            NetCommission(p, ledger[p]), NetSeller(p, ledger[p]))]
           debit == [p \in now |-> Debit(p, taken[p].seller)]
           of(s) == {p \in now : SellerOf[p] = s}
           pendingOff == [p \in now |-> debit[p].pending]
           availableOff == [p \in now |-> debit[p].available]
           earnedOff == [p \in now |-> taken[p].seller]
<1>1. /\ refund[r].amount > 0 /\ ~refund[r].done /\ Fits(r)
      /\ ledger' = [p \in Part |->
                IF p \notin now THEN ledger[p]
                ELSE [Applied(ledger[p], a[p], taken[p]) EXCEPT
                        !.shortfall = @ + taken[p].seller - debit[p].pending
                                        - debit[p].available]]
      /\ wallet' = [s \in Seller |->
                [pending |-> wallet[s].pending - SumFunctionOnSet(pendingOff, of(s)),
                 available |-> wallet[s].available - SumFunctionOnSet(availableOff, of(s)),
                 earned |-> wallet[s].earned - SumFunctionOnSet(earnedOff, of(s))]]
  BY DEF ConfirmRefund, ReverseForRefund
<1>2. now = Reached(r)
  BY DEF Reached
<1>3. /\ a \in [Part -> Nat]
      /\ \A p \in Part : GivenTo(p) + a[p] <= Subtotal[p]
      /\ \A p \in Part : OrderOf[p] # refund[r].order => a[p] = 0
  BY <1>1, AllocationFits
<1>4. now \subseteq settled /\ settled \subseteq Part
  BY Types
<1>5. \A p \in now : /\ taken[p] = Taken(p, ledger[p], a[p])
                     /\ taken[p].seller = TakenFrom(r, p)
                     /\ debit[p] = DebitOf(r, p)
                     /\ pendingOff[p] = DebitOf(r, p).pending
                     /\ availableOff[p] = DebitOf(r, p).available
                     /\ earnedOff[p] = TakenFrom(r, p)
  BY DEF Taken, TakenFrom, DebitOf
<1>6. ledger' = [p \in Part |-> IF p \notin now THEN ledger[p] ELSE Reversed(p, a[p])]
  <2>1. \A p \in now :
            [Applied(ledger[p], a[p], taken[p]) EXCEPT
                !.shortfall = @ + taken[p].seller - debit[p].pending - debit[p].available]
            = Reversed(p, a[p])
    <3> SUFFICES ASSUME NEW p \in now
                 PROVE  [Applied(ledger[p], a[p], taken[p]) EXCEPT
                            !.shortfall = @ + taken[p].seller - debit[p].pending
                                            - debit[p].available] = Reversed(p, a[p])
      OBVIOUS
    <3>1. taken[p] = Taken(p, ledger[p], a[p])
          /\ debit[p] = Debit(p, Taken(p, ledger[p], a[p]).seller)
      BY <1>5
    <3> HIDE DEF a, now, taken, debit
    <3> QED
      BY <3>1 DEF Reversed
  <2> HIDE DEF now, a, taken, debit
  <2> QED
    BY <1>1, <2>1
<1>7. \A p, q \in now : SellerOf[p] = SellerOf[q] => p = q
  BY <1>3, <1>4, Constants
<1>8. ASSUME NEW p \in now
      PROVE  /\ TakenFrom(r, p) \in Int /\ DebitOf(r, p).pending \in Int
             /\ DebitOf(r, p).available \in Int
  <2>1. p \in settled /\ p \in Part /\ a[p] \in Nat /\ GivenTo(p) + a[p] <= Subtotal[p]
    BY <1>3, <1>4
  <2>2. TakenFrom(r, p) \in 0..NetSeller(p, ledger[p]) /\ ledger[p] \in Fitting(p)
    BY <2>1, ReversedFits DEF TakenFrom, LedgersFit
  <2>3. NetSeller(p, ledger[p]) \in Nat
    BY <2>1, <2>2, NetIsNat
  <2>4. DebitOf(r, p).pending \in Nat /\ DebitOf(r, p).available \in Nat
    BY <2>1, <2>2, DebitFits DEF DebitOf
  <2> QED
    BY <2>2, <2>3, <2>4
<1>9. ASSUME NEW s \in Seller, NEW p \in now, SellerOf[p] = s
      PROVE  wallet'[s] = [pending |-> wallet[s].pending - DebitOf(r, p).pending,
                           available |-> wallet[s].available - DebitOf(r, p).available,
                           earned |-> wallet[s].earned - TakenFrom(r, p)]
  <2>1. of(s) = {p}
    BY <1>7, <1>9
  <2>2. \A f : f[p] \in Int => SumFunctionOnSet(f, of(s)) = f[p]
    BY <2>1, SumSingle
  <2>3. /\ SumFunctionOnSet(pendingOff, of(s)) = DebitOf(r, p).pending
        /\ SumFunctionOnSet(availableOff, of(s)) = DebitOf(r, p).available
        /\ SumFunctionOnSet(earnedOff, of(s)) = TakenFrom(r, p)
    <3> HIDE DEF pendingOff, availableOff, earnedOff, of, now
    <3> QED
      BY <1>5, <1>8, <2>2
  <2> HIDE DEF pendingOff, availableOff, earnedOff, of, now
  <2> QED
    BY <1>1, <2>3
<1>10. ASSUME NEW s \in Seller, \A p \in now : SellerOf[p] # s
       PROVE  wallet'[s] = wallet[s]
  <2>1. of(s) = {}
    BY <1>10
  <2>2. /\ SumFunctionOnSet(pendingOff, of(s)) = 0
        /\ SumFunctionOnSet(availableOff, of(s)) = 0
        /\ SumFunctionOnSet(earnedOff, of(s)) = 0
    <3> HIDE DEF pendingOff, availableOff, earnedOff, of
    <3> QED
      BY <2>1, SumEmpty
  <2>3. wallet[s] \in [pending : Nat, available : Nat, earned : Nat]
    BY DEF TypeOK
  <2>4. wallet'[s] = [pending |-> wallet[s].pending - 0, available |-> wallet[s].available - 0,
                      earned |-> wallet[s].earned - 0]
    <3> HIDE DEF pendingOff, availableOff, earnedOff, of
    <3> QED
      BY <1>1, <2>2
  <2>5. wallet[s].pending - 0 = wallet[s].pending /\ wallet[s].available - 0 = wallet[s].available
        /\ wallet[s].earned - 0 = wallet[s].earned
    BY <2>3
  <2> QED
    BY <2>3, <2>4, <2>5
<1>11. wallet' = [s \in Seller |-> wallet'[s]]
  <2> DEFINE w(s) == [pending |-> wallet[s].pending - SumFunctionOnSet(pendingOff, of(s)),
                 available |-> wallet[s].available - SumFunctionOnSet(availableOff, of(s)),
                 earned |-> wallet[s].earned - SumFunctionOnSet(earnedOff, of(s))]
  <2>1. wallet' = [s \in Seller |-> w(s)]
    BY <1>1
  <2> HIDE DEF w
  <2> QED
    BY <2>1
<1> HIDE DEF now
<1> QED
  BY <1>2, <1>6, <1>9, <1>10, <1>11

\* Each ledger reached still fits.
LEMMA ReachedFits ==
    ASSUME MoneyInv, NEW r \in Refund, ConfirmRefund(r), NEW p \in Reached(r)
    PROVE  /\ p \in settled /\ p \in Part
           /\ ledger'[p] \in Fitting(p)
           /\ ledger'[p].refunded = ledger[p].refunded + Allocation(r)[p]
           /\ p \notin released => ledger'[p].shortfall = 0
           /\ ledger'[p].shortfall = ledger[p].shortfall + TakenFrom(r, p)
                                     - DebitOf(r, p).pending - DebitOf(r, p).available
           /\ NetSeller(p, ledger'[p]) = NetSeller(p, ledger[p]) - TakenFrom(r, p)
           /\ TakenFrom(r, p) \in Nat /\ TakenFrom(r, p) <= NetSeller(p, ledger[p])
           /\ NetSeller(p, ledger[p]) \in Nat /\ ledger[p].shortfall \in Nat
<1> USE DEF MoneyInv
<1> DEFINE n == Allocation(r)[p]
           net == NetSeller(p, ledger[p])
<1>1. refund[r].amount > 0 /\ ~refund[r].done /\ Fits(r)
  BY DEF ConfirmRefund
<1>2. p \in settled /\ p \in Part /\ n \in Nat /\ GivenTo(p) + n <= Subtotal[p]
  BY <1>1, AllocationFits, Types DEF Reached
<1>3. ledger'[p] = Reversed(p, n)
  BY <1>2, ConfirmMoves
<1>4. ledger[p] \in Fitting(p)
  BY <1>2 DEF LedgersFit
<1>5. net \in Nat /\ ledger[p].shortfall \in Nat
  BY <1>2, <1>4, NetIsNat
<1> HIDE DEF n, net
<1>6. /\ Reversed(p, n) \in Fitting(p)
      /\ Reversed(p, n).refunded = ledger[p].refunded + n
      /\ p \notin released => Reversed(p, n).shortfall = 0
      /\ Reversed(p, n).shortfall = ledger[p].shortfall + TakenFrom(r, p)
                                    - DebitOf(r, p).pending - DebitOf(r, p).available
      /\ NetSeller(p, Reversed(p, n)) = NetSeller(p, ledger[p]) - TakenFrom(r, p)
      /\ TakenFrom(r, p) \in 0..NetSeller(p, ledger[p])
  <2>1. Allocation(r)[p] = n
    BY DEF n
  <2> QED
    BY <1>2, <2>1, ReversedFits DEF TakenFrom, DebitOf
<1>7. TakenFrom(r, p) \in Nat /\ TakenFrom(r, p) <= NetSeller(p, ledger[p])
  BY <1>5, <1>6 DEF net
<1> QED
  BY <1>2, <1>3, <1>5, <1>6, <1>7 DEF net, n

\* The columns of a seller none of whose ledgers the refund reaches, and of one that it
\* reaches at p.
LEMMA ConfirmColumns ==
    ASSUME MoneyInv, NEW r \in Refund, ConfirmRefund(r), NEW s
    PROVE  /\ (\A p \in Reached(r) : SellerOf[p] # s) =>
                 HeldBy(s)' = HeldBy(s) /\ FreeBy(s)' = FreeBy(s) /\ ShortBy(s)' = ShortBy(s)
           /\ \A p \in Reached(r) : SellerOf[p] = s =>
                 LET t == TakenFrom(r, p)
                     d == DebitOf(r, p)
                 IN  /\ HeldBy(s)' = IF p \in released THEN HeldBy(s) ELSE HeldBy(s) - t
                     /\ FreeBy(s)' = IF p \in released THEN FreeBy(s) - t ELSE FreeBy(s)
                     /\ ShortBy(s)' = IF p \in released
                                      THEN ShortBy(s) + t - d.pending - d.available
                                      ELSE ShortBy(s)
<1> USE DEF MoneyInv
<1>1. settled' = settled /\ released' = released
  BY DEF ConfirmRefund
<1>2. released \subseteq settled /\ settled \subseteq Part
  BY Types
<1>3. \A p \in Part : Held(s)[p] \in Nat /\ Free(s)[p] \in Nat /\ Short(s)[p] \in Nat
  BY ColumnTypes
<1>4. \A p \in Part : p \notin Reached(r) \/ SellerOf[p] # s =>
            Held(s)'[p] = Held(s)[p] /\ Free(s)'[p] = Free(s)[p] /\ Short(s)'[p] = Short(s)[p]
  <2> SUFFICES ASSUME NEW p \in Part, p \notin Reached(r) \/ SellerOf[p] # s
               PROVE  /\ Held(s)'[p] = Held(s)[p] /\ Free(s)'[p] = Free(s)[p]
                      /\ Short(s)'[p] = Short(s)[p]
    OBVIOUS
  <2>1. CASE SellerOf[p] # s
    BY <2>1 DEF Held, Free, Short
  <2>2. CASE p \notin Reached(r)
    <3>1. ledger'[p] = ledger[p]
      BY <2>2, ConfirmMoves
    <3> QED
      BY <1>1, <3>1 DEF Held, Free, Short, NetSeller
  <2> QED
    BY <2>1, <2>2
<1>5. ASSUME \A p \in Reached(r) : SellerOf[p] # s
      PROVE  HeldBy(s)' = HeldBy(s) /\ FreeBy(s)' = FreeBy(s) /\ ShortBy(s)' = ShortBy(s)
  <2>1. \A p \in Part : Held(s)[p] \in Int /\ Held(s)'[p] = Held(s)[p]
    BY <1>3, <1>4, <1>5
  <2>2. \A p \in Part : Free(s)[p] \in Int /\ Free(s)'[p] = Free(s)[p]
    BY <1>3, <1>4, <1>5
  <2>3. \A p \in Part : Short(s)[p] \in Int /\ Short(s)'[p] = Short(s)[p]
    BY <1>3, <1>4, <1>5
  <2>4. HeldBy(s)' = HeldBy(s)
    BY <2>1, Constants, SumEqual DEF HeldBy
  <2>5. FreeBy(s)' = FreeBy(s)
    BY <2>2, Constants, SumEqual DEF FreeBy
  <2>6. ShortBy(s)' = ShortBy(s)
    BY <2>3, Constants, SumEqual DEF ShortBy
  <2> QED
    BY <2>4, <2>5, <2>6
<1>6. ASSUME NEW p \in Reached(r), SellerOf[p] = s
      PROVE  LET t == TakenFrom(r, p)
                 d == DebitOf(r, p)
             IN  /\ HeldBy(s)' = IF p \in released THEN HeldBy(s) ELSE HeldBy(s) - t
                 /\ FreeBy(s)' = IF p \in released THEN FreeBy(s) - t ELSE FreeBy(s)
                 /\ ShortBy(s)' = IF p \in released
                                  THEN ShortBy(s) + t - d.pending - d.available
                                  ELSE ShortBy(s)
  <2> DEFINE t == TakenFrom(r, p)
             d == DebitOf(r, p)
             net == NetSeller(p, ledger[p])
             sh == ledger[p].shortfall
             new == NetSeller(p, ledger'[p])
             sh2 == ledger'[p].shortfall
  <2>1. /\ p \in settled /\ p \in Part /\ new = net - t
        /\ sh2 = sh + t - d.pending - d.available
        /\ t \in Nat /\ t <= net /\ net \in Nat /\ sh \in Nat
        /\ p \notin released => sh2 = 0 /\ sh = 0
        /\ ledger'[p] \in Fitting(p)
    BY ReachedFits DEF LedgersFit
  <2>2. new \in Nat /\ sh2 \in Nat
    BY <2>1, NetIsNat
  <2>3. /\ Held(s)[p] = (IF p \in released THEN 0 ELSE net)
        /\ Held(s)'[p] = (IF p \in released THEN 0 ELSE new)
        /\ Free(s)[p] = (IF p \in released THEN net ELSE 0)
        /\ Free(s)'[p] = (IF p \in released THEN new ELSE 0)
        /\ Short(s)[p] = sh /\ Short(s)'[p] = sh2
    BY <1>1, <1>6, <2>1 DEF Held, Free, Short, NetSeller
  <2>4. \A q \in Part : q # p => Held(s)'[q] = Held(s)[q] /\ Free(s)'[q] = Free(s)[q]
                                 /\ Short(s)'[q] = Short(s)[q]
    <3> SUFFICES ASSUME NEW q \in Part, q # p
                 PROVE  q \notin Reached(r) \/ SellerOf[q] # s
      BY <1>4
    <3>1. refund[r].amount > 0 /\ ~refund[r].done /\ Fits(r)
      BY DEF ConfirmRefund
    <3>2. \A x \in Reached(r) : OrderOf[x] = refund[r].order
      <4>1. \A x \in Part : OrderOf[x] # refund[r].order => Allocation(r)[x] = 0
        BY <3>1, AllocationFits
      <4> QED
        BY <1>2, <4>1 DEF Reached
    <3> QED
      BY <1>6, <2>1, <3>2, Constants
  <2> HIDE DEF t, net, sh, new, sh2
  <2>5. HeldBy(s)' = HeldBy(s) + Held(s)'[p] - Held(s)[p]
    <3>1. DifferAt(Held(s), Held(s)', Part, p)
      BY <1>3, <2>2, <2>3, <2>4 DEF DifferAt
    <3> QED
      BY <2>1, <3>1, Constants, SumChange DEF HeldBy
  <2>6. FreeBy(s)' = FreeBy(s) + Free(s)'[p] - Free(s)[p]
    <3>1. DifferAt(Free(s), Free(s)', Part, p)
      BY <1>3, <2>2, <2>3, <2>4 DEF DifferAt
    <3> QED
      BY <2>1, <3>1, Constants, SumChange DEF FreeBy
  <2>7. ShortBy(s)' = ShortBy(s) + Short(s)'[p] - Short(s)[p]
    <3>1. DifferAt(Short(s), Short(s)', Part, p)
      BY <1>3, <2>2, <2>3, <2>4 DEF DifferAt
    <3> QED
      BY <2>1, <3>1, Constants, SumChange DEF ShortBy
  <2>8. HeldBy(s) \in Nat /\ FreeBy(s) \in Nat /\ ShortBy(s) \in Nat
    BY ColumnSums
  <2>9. d.pending \in Nat /\ d.available \in Nat
    <3>1. t \in 0..NetSeller(p, ledger[p])
      BY <2>1 DEF net
    <3> QED
      BY <2>1, <3>1, DebitFits DEF DebitOf, t
  <2>10. /\ HeldBy(s)' = IF p \in released THEN HeldBy(s) ELSE HeldBy(s) - t
         /\ FreeBy(s)' = IF p \in released THEN FreeBy(s) - t ELSE FreeBy(s)
    BY <2>1, <2>2, <2>3, <2>5, <2>6, <2>8
  <2> DEFINE dp == d.pending
             da == d.available
  <2> HIDE DEF dp, da, d
  <2>11. dp \in Nat /\ da \in Nat /\ sh2 = sh + t - dp - da
    BY <2>1, <2>9 DEF dp, da
  <2>12. ShortBy(s)' = IF p \in released THEN ShortBy(s) + t - dp - da ELSE ShortBy(s)
    BY <2>1, <2>3, <2>7, <2>8, <2>11
  <2> QED
    BY <2>10, <2>12 DEF t, d, dp, da
<1> QED
  BY <1>5, <1>6

\* The wallets balance after a confirmation.
LEMMA ConfirmBalances ==
    ASSUME MoneyInv, NEW r \in Refund, ConfirmRefund(r)
    PROVE  /\ wallet' \in [Seller -> [pending : Nat, available : Nat, earned : Nat]]
           /\ WalletsBalance'
<1> USE DEF MoneyInv
<1> DEFINE Fine(s) ==
             /\ wallet'[s] \in [pending : Nat, available : Nat, earned : Nat]
             /\ wallet'[s].pending = HeldBy(s)'
             /\ wallet'[s].earned = HeldBy(s)' + FreeBy(s)'
             /\ wallet'[s].available + SpentBy(s)' + slots'[s] * SlotPrice =
                   FreeBy(s)' + ShortBy(s)'
<1>1. UNCHANGED <<payout, slots>>
  BY DEF ConfirmRefund
<1>2. ASSUME NEW s \in Seller PROVE Fine(s)
  <2> DEFINE spend == slots[s] * SlotPrice
             before == wallet[s]
  <2>1. SpentBy(s)' = SpentBy(s) /\ slots'[s] * SlotPrice = spend
    BY <1>1, SpentKept
  <2>2. /\ before \in [pending : Nat, available : Nat, earned : Nat]
        /\ before.pending = HeldBy(s) /\ before.earned = HeldBy(s) + FreeBy(s)
        /\ before.available + SpentBy(s) + spend = FreeBy(s) + ShortBy(s)
    BY DEF WalletsBalance, TypeOK
  <2>3. /\ HeldBy(s) \in Nat /\ FreeBy(s) \in Nat /\ ShortBy(s) \in Nat /\ SpentBy(s) \in Nat
        /\ spend \in Nat
    BY ColumnSums, Types, Constants
  <2>4. CASE \A p \in Reached(r) : SellerOf[p] # s
    <3>1. wallet'[s] = before
      BY <2>4, ConfirmMoves
    <3>2. HeldBy(s)' = HeldBy(s) /\ FreeBy(s)' = FreeBy(s) /\ ShortBy(s)' = ShortBy(s)
      BY <2>4, ConfirmColumns
    <3> HIDE DEF spend, before
    <3> QED
      BY <2>1, <2>2, <3>1, <3>2 DEF spend
  <2>5. ASSUME NEW p \in Reached(r), SellerOf[p] = s PROVE Fine(s)
    <3> DEFINE t == TakenFrom(r, p)
               dp == DebitOf(r, p).pending
               da == DebitOf(r, p).available
               low == before.pending - dp
               mid == before.available - da
               high == before.earned - t
    <3>1. wallet'[s] = [pending |-> low, available |-> mid, earned |-> high]
      BY <2>5, ConfirmMoves
    <3>2. /\ HeldBy(s)' = IF p \in released THEN HeldBy(s) ELSE HeldBy(s) - t
          /\ FreeBy(s)' = IF p \in released THEN FreeBy(s) - t ELSE FreeBy(s)
          /\ ShortBy(s)' = IF p \in released THEN ShortBy(s) + t - dp - da ELSE ShortBy(s)
      BY <2>5, ConfirmColumns
    <3>3. /\ p \in settled /\ t \in Nat /\ t <= NetSeller(p, ledger[p])
          /\ t \in 0..NetSeller(p, ledger[p])
      BY <2>5, ReachedFits
    <3>4. /\ dp \in Nat /\ da \in Nat /\ dp <= before.pending /\ da <= before.available
          /\ p \notin released => dp = t /\ da = 0
          /\ p \in released => dp = 0
      BY <2>5, <3>3, DebitFits DEF DebitOf
    <3>5. t <= HeldBy(s) + FreeBy(s)
      <4>1. NetSeller(p, ledger[p]) <= HeldBy(s) + FreeBy(s)
        BY <2>5, <3>3, NetWithinSum
      <4>2. NetSeller(p, ledger[p]) \in Nat
        BY <2>5, ReachedFits
      <4> HIDE DEF t
      <4> QED
        BY <2>3, <3>3, <4>1, <4>2
    <3> HIDE DEF t, dp, da, before, spend
    <3>6. low \in Nat /\ mid \in Nat /\ high \in Nat
      BY <2>2, <2>3, <3>3, <3>4, <3>5
    <3>7. low = HeldBy(s)' /\ high = HeldBy(s)' + FreeBy(s)'
      BY <2>2, <2>3, <3>2, <3>3, <3>4
    <3>8. mid + SpentBy(s) + spend = FreeBy(s)' + ShortBy(s)'
      BY <2>2, <2>3, <3>2, <3>3, <3>4
    <3> HIDE DEF low, mid, high
    <3> QED
      BY <2>1, <3>1, <3>6, <3>7, <3>8
  <2> QED
    BY <2>4, <2>5
<1>3. wallet' \in [Seller -> [pending : Nat, available : Nat, earned : Nat]]
  <2>1. wallet' = [s \in Seller |-> wallet'[s]]
    BY ConfirmMoves
  <2>2. \A s \in Seller : wallet'[s] \in [pending : Nat, available : Nat, earned : Nat]
    BY <1>2
  <2> QED
    BY <2>1, <2>2
<1>4. WalletsBalance'
  BY <1>2 DEF WalletsBalance
<1> QED
  BY <1>3, <1>4

\* The confirmation of a refund keeps the invariant.
LEMMA ConfirmRefundStep ==
    ASSUME MoneyInv, NEW r \in Refund, ConfirmRefund(r)
    PROVE  MoneyInv'
<1> USE DEF MoneyInv
<1> DEFINE o == refund[r].order
           a == Allocation(r)
           amount == refund[r].amount
           m == Merchandise(r)
<1>1. /\ amount > 0 /\ ~refund[r].done /\ Fits(r)
      /\ share' = [share EXCEPT ![r] = a]
      /\ shipping' = [shipping EXCEPT ![r] = amount - m]
      /\ refund' = [refund EXCEPT ![r].done = TRUE]
      /\ UNCHANGED <<delivered, settled, released, payout, slots>>
  BY DEF ConfirmRefund, ReverseForRefund
<1>2. /\ o \in Order /\ a \in [Part -> Nat]
      /\ \A p \in Part : GivenTo(p) + a[p] <= Subtotal[p]
      /\ m \in 0..amount /\ SumFunctionOnSet(a, Part) = m
      /\ ShippedOf(o) + (amount - m) <= ShippingFee[o]
  BY <1>1, AllocationFits
<1>3. amount \in Nat /\ amount - m \in Nat /\ m + (amount - m) = amount
  <2>1. amount \in Nat
    BY Types
  <2> HIDE DEF amount, m
  <2> QED
    BY <1>2, <2>1
<1>4. shipping[r] = 0 /\ \A p \in Part : share[r][p] = 0
  BY <1>1 DEF RefundsBooked
<1>5. \A x \in Refund : /\ refund'[x].amount = refund[x].amount
                        /\ refund'[x].order = refund[x].order
                        /\ refund'[x].part = refund[x].part
                        /\ refund'[x].done = IF x = r THEN TRUE ELSE refund[x].done
  BY <1>1 DEF TypeOK
<1>15. refund' \in [Refund -> [order : Order \union {"none"}, part : Part \union {Direct},
                               amount : Nat, done : BOOLEAN]]
  <2> DEFINE R == [order : Order \union {"none"}, part : Part \union {Direct},
                   amount : Nat, done : BOOLEAN]
             new == [refund[r] EXCEPT !.done = TRUE]
  <2>1. refund \in [Refund -> R] /\ refund[r] \in R
    BY DEF TypeOK
  <2>2. new \in R
    BY <2>1
  <2>3. refund' = [refund EXCEPT ![r] = new]
    BY <1>1
  <2> HIDE DEF R, new
  <2>4. refund' \in [Refund -> R]
    BY <2>1, <2>2, <2>3
  <2> QED
    BY <2>4 DEF R
<1> DEFINE rest == amount - m
<1> HIDE DEF a, rest
<1>6. /\ \A x \in Refund : share'[x] = IF x = r THEN a ELSE share[x]
      /\ \A x \in Refund : shipping'[x] = IF x = r THEN rest ELSE shipping[x]
      /\ share' \in [Refund -> [Part -> Nat]] /\ shipping' \in [Refund -> Nat]
  <2>1. shipping' = [shipping EXCEPT ![r] = rest] /\ rest \in Nat
    BY <1>1, <1>3 DEF rest
  <2>2. share' = [share EXCEPT ![r] = a]
    BY <1>1 DEF a
  <2> QED
    BY <1>2, <2>1, <2>2 DEF TypeOK
<1>7. ledger' \in [Part -> LedgerRow]
  <2>1. ASSUME NEW p \in Part PROVE ledger'[p] \in LedgerRow
    <3>1. CASE p \in Reached(r)
      BY <3>1, ReachedFits DEF Fitting
    <3>2. CASE p \notin Reached(r)
      BY <3>2, ConfirmMoves, Types
    <3> QED
      BY <3>1, <3>2
  <2>2. ledger' = [p \in Part |-> ledger'[p]]
    <3> DEFINE f(p) == IF p \notin Reached(r) THEN ledger[p] ELSE Reversed(p, Allocation(r)[p])
    <3>1. ledger' = [p \in Part |-> f(p)]
      BY ConfirmMoves
    <3> HIDE DEF f
    <3> QED
      BY <3>1
  <2> QED
    BY <2>1, <2>2
<1>8. TypeOK'
  <2>1. paid' \in [Order -> {"pending", "completed", "refunded"}]
    <3>1. \E v \in {"pending", "completed", "refunded"} : paid' = [paid EXCEPT ![o] = v]
      <4>1. paid[o] \in {"pending", "completed", "refunded"}
        BY <1>2 DEF TypeOK
      <4> QED
        BY <4>1 DEF ConfirmRefund
    <3> QED
      BY <3>1 DEF TypeOK
  <2>2. wallet' \in [Seller -> [pending : Nat, available : Nat, earned : Nat]]
    BY ConfirmBalances
  <2> QED
    BY <1>1, <1>6, <1>7, <1>15, <2>1, <2>2 DEF TypeOK, LedgerRow
<1>9. RefundsBooked'
  <2> SUFFICES ASSUME NEW x \in Refund
               PROVE  /\ refund'[x].amount > 0 =>
                            /\ refund'[x].order \in Order
                            /\ refund'[x].part # Direct =>
                                  /\ refund'[x].part \in Part
                                  /\ OrderOf[refund'[x].part] = refund'[x].order
                      /\ ~refund'[x].done =>
                            shipping'[x] = 0 /\ \A p \in Part : share'[x][p] = 0
                      /\ refund'[x].done =>
                            /\ refund'[x].amount > 0
                            /\ SumFunctionOnSet(share'[x], Part) + shipping'[x] =
                                  refund'[x].amount
    BY DEF RefundsBooked
  <2>1. CASE x = r
    <3>1. SumFunctionOnSet(share'[r], Part) + shipping'[r] = amount
      BY <1>2, <1>3, <1>6 DEF a, rest
    <3> QED
      BY <1>1, <1>5, <2>1, <3>1 DEF RefundsBooked
  <2>2. CASE x # r
    <3>1. /\ refund'[x].amount = refund[x].amount /\ refund'[x].order = refund[x].order
          /\ refund'[x].part = refund[x].part /\ refund'[x].done = refund[x].done
          /\ share'[x] = share[x] /\ shipping'[x] = shipping[x]
      BY <1>5, <1>6, <2>2
    <3> QED
      BY <3>1 DEF RefundsBooked
  <2> QED
    BY <2>1, <2>2
<1>10. ASSUME NEW p \in Part
       PROVE  GivenTo(p)' = GivenTo(p) + a[p]
  <2>1. /\ Given(p)[r] = 0 /\ Given(p)'[r] = a[p] /\ a[p] \in Nat
        /\ \A x \in Refund : Given(p)[x] \in Nat
    BY <1>2, <1>4, <1>6, ColumnTypes DEF Given, a
  <2>2. \A x \in Refund : x # r => Given(p)'[x] = Given(p)[x]
    BY <1>6 DEF Given
  <2>3. DifferAt(Given(p), Given(p)', Refund, r)
    BY <2>1, <2>2 DEF DifferAt
  <2>4. GivenTo(p)' = GivenTo(p) + Given(p)'[r] - Given(p)[r]
    BY <2>3, Constants, SumChange DEF GivenTo
  <2> QED
    BY <2>1, <2>4, ColumnSums
<1>11. ASSUME NEW z \in Order
       PROVE  /\ AskedOf(z)' = AskedOf(z)
              /\ ShippedOf(z)' = IF z = o THEN ShippedOf(z) + rest ELSE ShippedOf(z)
  <2>1. AskedOf(z)' = AskedOf(z)
    <3>1. \A x \in Refund : Asked(z)[x] \in Int
      BY ColumnTypes
    <3>2. \A x \in Refund : Asked(z)'[x] = Asked(z)[x]
      <4> HIDE DEF o, amount, m
      <4> QED
        BY <1>5 DEF Asked
    <3> QED
      BY <3>1, <3>2, Constants, SumEqual DEF AskedOf
  <2>2. /\ Shipped(z)[r] = 0 /\ Shipped(z)'[r] = (IF z = o THEN rest ELSE 0) /\ rest \in Nat
        /\ \A x \in Refund : Shipped(z)[x] \in Nat
    BY <1>3, <1>4, <1>5, <1>6, ColumnTypes DEF Shipped, rest
  <2>3. \A x \in Refund : x # r => Shipped(z)'[x] = Shipped(z)[x]
    BY <1>5, <1>6 DEF Shipped
  <2>4. DifferAt(Shipped(z), Shipped(z)', Refund, r)
    BY <2>2, <2>3 DEF DifferAt
  <2>5. ShippedOf(z)' = ShippedOf(z) + Shipped(z)'[r] - Shipped(z)[r]
    BY <2>4, Constants, SumChange DEF ShippedOf
  <2> QED
    BY <2>1, <2>2, <2>5, ColumnSums
<1>12. RefundsBounded'
  <2>1. \A z \in Order : PaymentAmount(z)' = PaymentAmount(z)
    BY DEF PaymentAmount, PartsOf
  <2>2. \A p \in Part : GivenTo(p)' <= Subtotal[p]
    BY <1>2, <1>10 DEF a
  <2>3. \A z \in Order : ShippedOf(z)' <= ShippingFee[z]
    BY <1>2, <1>11 DEF RefundsBounded, rest
  <2>4. \A z \in Order : AskedOf(z)' <= PaymentAmount(z)
    BY <1>11 DEF RefundsBounded
  <2> QED
    BY <2>1, <2>2, <2>3, <2>4 DEF RefundsBounded
<1>13. LedgersFit'
  <2>1. \A p : Fitting(p)' = Fitting(p)
    BY DEF Fitting, LedgerRow, NetCommission, NetSeller
  <2> SUFFICES ASSUME NEW p \in settled
               PROVE  /\ ledger'[p] \in Fitting(p)
                      /\ ledger'[p].refunded = GivenTo(p)'
                      /\ p \notin released => ledger'[p].shortfall = 0
    BY <1>1, <2>1 DEF LedgersFit
  <2>2. p \in Part /\ GivenTo(p)' = GivenTo(p) + a[p] /\ ledger[p].refunded = GivenTo(p)
        /\ GivenTo(p) \in Nat /\ a[p] \in Nat
    BY <1>2, <1>10, Types, ColumnSums DEF LedgersFit, a
  <2>3. CASE p \in Reached(r)
    BY <2>2, <2>3, ReachedFits DEF a
  <2>4. CASE p \notin Reached(r)
    <3>1. ledger'[p] = ledger[p]
      BY <2>2, <2>4, ConfirmMoves
    <3>2. ~(a[p] > 0)
      BY <2>4 DEF Reached, a
    <3>3. a[p] = 0
      BY <2>2, <3>2
    <3> QED
      BY <2>2, <3>1, <3>3 DEF LedgersFit
  <2> QED
    BY <2>3, <2>4
<1>14. PayoutsKnown'
  BY <1>1 DEF PayoutsKnown
<1> QED
  BY <1>8, <1>9, <1>12, <1>13, <1>14, ConfirmBalances

-----------------------------------------------------------------------------
(* Theorems.                                                               *)

\* Every step keeps the invariant.
LEMMA MoneyNext ==
    ASSUME MoneyInv, [Next]_vars
    PROVE  MoneyInv'
<1>1. CASE UNCHANGED vars
  <2>1. UNCHANGED <<refundVars, ledgerVars, walletVars, paid, delivered>>
    BY <1>1 DEF vars
  <2>2. TypeOK'
    BY <2>1 DEF MoneyInv, TypeOK, refundVars, ledgerVars, walletVars
  <2>3. RefundsBooked' /\ RefundsBounded' /\ LedgersFit' /\ PayoutsKnown'
    BY <2>1, RefundsKept, RowsKept DEF MoneyInv, refundVars, walletVars, PayoutsKnown
  <2>4. WalletsBalance'
    BY <2>1, LedgersKept, SpentKept DEF MoneyInv, WalletsBalance, walletVars
  <2> QED
    BY <2>2, <2>3, <2>4 DEF MoneyInv
<1>2. ASSUME NEW p \in Part, Deliver(p) PROVE MoneyInv'
  BY <1>2, DeliverStep
<1>3. ASSUME NEW S \in SUBSET Part, ReleaseMature(S) PROVE MoneyInv'
  BY <1>3, ReleaseMatureStep
<1>4. ASSUME NEW r \in Refund, NEW o \in Order, NEW n \in 1..PaymentAmount(o),
             RequestRefund(r, o, n)
      PROVE  MoneyInv'
  <2>1. n \in Nat \ {0}
    BY PaymentIsNat
  <2>2. n <= Refundable(o) /\ NewRefund(r, o, Direct, n)
    BY <1>4 DEF RequestRefund
  <2> QED
    BY <2>1, <2>2, NewRefundStep
<1>5. ASSUME NEW r \in Refund, NEW p \in Part, NEW n \in 1..Subtotal[p],
             RequestReturnRefund(r, p, n)
      PROVE  MoneyInv'
  <2>1. n \in Nat \ {0} /\ OrderOf[p] \in Order
    BY Constants
  <2>2. n <= Refundable(OrderOf[p]) /\ NewRefund(r, OrderOf[p], p, n)
    BY <1>5 DEF RequestReturnRefund
  <2> QED
    BY <2>1, <2>2, NewRefundStep
<1>6. ASSUME NEW r \in Refund, ConfirmRefund(r) PROVE MoneyInv'
  BY <1>6, ConfirmRefundStep
<1>7. ASSUME NEW o \in Order, RecordCodCollection(o) PROVE MoneyInv'
  BY <1>7, RecordCodStep
<1>8. ASSUME NEW y \in Payout, NEW s \in Seller, NEW n \in 1..MaxWithdrawal,
             RequestWithdrawal(y, s, n)
      PROVE  MoneyInv'
  BY <1>8, RequestWithdrawalStep
<1>9. ASSUME NEW y \in Payout, ReviewPayout(y) PROVE MoneyInv'
  BY <1>9, DecidePayoutStep, RejectPayoutStep DEF ReviewPayout
<1>10. ASSUME NEW s \in Seller, PurchaseSlots(s) PROVE MoneyInv'
  BY <1>10, PurchaseSlotsStep
<1> QED
  BY <1>1, <1>2, <1>3, <1>4, <1>5, <1>6, <1>7, <1>8, <1>9, <1>10 DEF Next, Payments

\* The invariant holds of every reachable state.
LEMMA MoneyInvHolds == Spec => []MoneyInv
<1>1. Init => MoneyInv
  BY InitMoney
<1>2. MoneyInv /\ [Next]_vars => MoneyInv'
  BY MoneyNext
<1> QED
  BY <1>1, <1>2, PTL DEF Spec

\* The state keeps its types: above all no balance, net amount or column of a ledger
\* ever goes below zero.
THEOREM MoneyTypes == Spec => []TypeOK
<1>1. MoneyInv => TypeOK
  BY DEF MoneyInv
<1> QED
  BY <1>1, MoneyInvHolds, PTL

\* Every confirmed allocation is in the ledger of its part exactly once, whether the part
\* settled before or after the refund, and neither side is reversed below zero.
THEOREM AllocationsReachLedgers == Spec => []RefundsReachLedgers
<1>1. ASSUME MoneyInv PROVE RefundsReachLedgers
  <2> USE <1>1 DEF MoneyInv
  <2> SUFFICES ASSUME NEW p \in settled
               PROVE  /\ ledger[p].refunded = Allocated(p, Done)
                      /\ ledger[p].reversedCommission + ledger[p].reversedSeller =
                            ledger[p].refunded
                      /\ NetCommission(p, ledger[p]) >= 0 /\ NetSeller(p, ledger[p]) >= 0
    BY DEF RefundsReachLedgers
  <2>1. p \in Part /\ ledger[p] \in Fitting(p) /\ ledger[p].refunded = GivenTo(p)
    BY Types DEF LedgersFit
  <2>2. Allocated(p, Done) = GivenTo(p)
    BY <2>1, AllocatedIsGiven
  <2> QED
    BY <2>1, <2>2 DEF Fitting
<1> QED
  BY <1>1, MoneyInvHolds, PTL

\* Confirmed refunds are explained to the paisa, and no part, no shipping fee and no
\* payment is refunded beyond what was charged.
THEOREM RefundsAddUp == Spec => []RefundsExplained
<1>1. ASSUME MoneyInv PROVE RefundsExplained
  <2> USE <1>1 DEF MoneyInv
  <2>1. \A r \in Done : SumFunctionOnSet(share[r], Part) + shipping[r] = refund[r].amount
    BY DEF Done, RefundsBooked
  <2>2. \A p \in Part : Allocated(p, Refund) <= Subtotal[p]
    BY AllocatedIsGiven DEF RefundsBounded
  <2>3. \A o \in Order : PriorShipping(o) <= ShippingFee[o]
    BY PriorIsShipped DEF RefundsBounded
  <2>4. \A o \in Order : AmountOf(RefundsOf(o)) <= PaymentAmount(o)
    BY AmountIsAsked DEF RefundsBounded
  <2> QED
    BY <2>1, <2>2, <2>3, <2>4 DEF RefundsExplained
<1> QED
  BY <1>1, MoneyInvHolds, PTL

\* A brand's pending balance is the net of its ledgers on hold.
THEOREM PendingIsBacked == Spec => []HeldEarningsBacked
<1>1. ASSUME MoneyInv PROVE HeldEarningsBacked
  BY <1>1, NetIsHeldAndFree, ShortfallIsShort DEF MoneyInv, HeldEarningsBacked, WalletsBalance
<1> QED
  BY <1>1, MoneyInvHolds, PTL

\* No paisa of a wallet appears or vanishes.
THEOREM WalletsAreConserved == Spec => []WithdrawableAccounted
<1>1. ASSUME MoneyInv PROVE WithdrawableAccounted
  <2> USE <1>1 DEF MoneyInv
  <2> SUFFICES ASSUME NEW s \in Seller
               PROVE  wallet[s].available + TakenOut(s) =
                         SumNet(PartsSoldBy(s) \intersect released)
                            + SumShortfall(PartsSoldBy(s))
    BY DEF WithdrawableAccounted
  <2> DEFINE spend == slots[s] * SlotPrice
  <2>1. /\ TakenOut(s) = SpentBy(s) + spend
        /\ SumNet(PartsSoldBy(s) \intersect released) = FreeBy(s)
        /\ SumShortfall(PartsSoldBy(s)) = ShortBy(s)
    BY TakenIsSpent, NetIsHeldAndFree, ShortfallIsShort
  <2>2. wallet[s].available + SpentBy(s) + spend = FreeBy(s) + ShortBy(s)
    BY DEF WalletsBalance
  <2>3. wallet[s].available \in Nat /\ SpentBy(s) \in Nat /\ spend \in Nat
    BY ColumnSums, Types, Constants
  <2> HIDE DEF spend
  <2> QED
    BY <2>1, <2>2, <2>3
<1> QED
  BY <1>1, MoneyInvHolds, PTL

\* The checks that a confirmation makes after its allocation, of the split's residual
\* and of every ledger's net gross, never fail: what the limits of the order and of its
\* parts let through is recorded.
NoLateFailure ==
    \A r \in Refund :
        refund[r].amount > 0 /\ ~refund[r].done =>
            /\ refund[r].part = Direct =>
                  SumFunctionOnSet(Allocation(r), Part) = Merchandise(r)
            /\ Fits(r) => \A p \in settled : Allocation(r)[p] <= NetGross(p, ledger[p])

\* Once its limits let a refund through, nothing stops its confirmation.
THEOREM LimitsSuffice == Spec => []NoLateFailure
<1>1. ASSUME MoneyInv PROVE NoLateFailure
  <2> USE <1>1 DEF MoneyInv
  <2> SUFFICES ASSUME NEW r \in Refund, refund[r].amount > 0, ~refund[r].done
               PROVE  /\ refund[r].part = Direct =>
                            SumFunctionOnSet(Allocation(r), Part) = Merchandise(r)
                      /\ Fits(r) =>
                            \A p \in settled : Allocation(r)[p] <= NetGross(p, ledger[p])
    BY DEF NoLateFailure
  <2>1. ASSUME refund[r].part = Direct
        PROVE  SumFunctionOnSet(Allocation(r), Part) = Merchandise(r)
    <3> DEFINE o == refund[r].order
               parts == PartsOf(o)
               cap == CapacityOf(o)
               m == Merchandise(r)
               a == Allocation(r)
               split == Split(m, parts, cap)
               room == SumFunctionOnSet(cap, parts)
    <3>1. /\ parts \in SUBSET Nat /\ IsFiniteSet(parts) /\ parts \in SUBSET Part
          /\ cap \in [parts -> Nat]
      BY CapacitiesOf
    <3>2. a = [p \in Part |-> IF p \in parts THEN split[p] ELSE 0]
          /\ m = Lesser(refund[r].amount, room)
      BY <2>1 DEF Allocation, Merchandise
    <3>3. refund[r].amount \in Nat
      BY Types
    <3> HIDE DEF parts, cap, m, a
    <3>4. room \in Nat
      <4>1. \A p \in parts : cap[p] \in Nat
        BY <3>1
      <4> QED
        BY <3>1, <4>1, SumNat
    <3>5. m \in 0..room
      <4> HIDE DEF room
      <4> QED
        BY <3>2, <3>3, <3>4 DEF Lesser
    <3>6. split \in [parts -> Nat] /\ SumFunctionOnSet(split, parts) = m
      BY <3>1, <3>5, SplitFits
    <3> HIDE DEF split
    <3>7. Extends(a, Part, split, parts)
      BY <3>2, <3>6 DEF Extends
    <3>8. SumFunctionOnSet(split, parts) = SumFunctionOnSet(a, Part)
      BY <3>1, <3>7, Constants, SumExtend
    <3> QED
      BY <3>6, <3>8 DEF a, m
  <2>2. ASSUME Fits(r), NEW p \in settled
        PROVE  Allocation(r)[p] <= NetGross(p, ledger[p])
    <3> DEFINE n == Allocation(r)[p]
    <3>1. p \in Part /\ n \in Nat /\ GivenTo(p) + n <= Subtotal[p]
      BY <2>2, AllocationFits, Types
    <3> HIDE DEF n
    <3>2. n <= NetGross(p, ledger[p])
      BY <3>1, ReversedFits
    <3> QED
      BY <3>2 DEF n
  <2> QED
    BY <2>1, <2>2
<1> QED
  BY <1>1, MoneyInvHolds, PTL

\* Confirming the refund of a returned product moves no other brand's money.
THEOREM ReturnsCostTheirBrand == Spec => OtherBrandsUntouched
<1> DEFINE Untouched(r) ==
        (refund[r].part # Direct /\ refund'[r].done /\ ~refund[r].done) =>
              \A p \in Part \ {refund[r].part} :
                  /\ ledger'[p] = ledger[p]
                  /\ SellerOf[p] # SellerOf[refund[r].part] =>
                        wallet'[SellerOf[p]] = wallet[SellerOf[p]]
<1>1. ASSUME MoneyInv, [Next]_vars, NEW r \in Refund PROVE Untouched(r)
  <2> USE <1>1 DEF MoneyInv
  <2> SUFFICES ASSUME refund[r].part # Direct, refund'[r].done, ~refund[r].done,
                      NEW p \in Part \ {refund[r].part}
               PROVE  /\ ledger'[p] = ledger[p]
                      /\ SellerOf[p] # SellerOf[refund[r].part] =>
                            wallet'[SellerOf[p]] = wallet[SellerOf[p]]
    OBVIOUS
  <2>1. ConfirmRefund(r)
    <3>1. ~UNCHANGED refund
      OBVIOUS
    <3>2. ASSUME NEW x \in Refund, NEW o, NEW part, NEW n, NewRefund(x, o, part, n) PROVE FALSE
      <4>1. refund' = [refund EXCEPT ![x] =
                          [order |-> o, part |-> part, amount |-> n, done |-> FALSE]]
        BY <3>2 DEF NewRefund
      <4> QED
        BY <4>1 DEF TypeOK
    <3>3. ASSUME NEW x \in Refund, ConfirmRefund(x) PROVE x = r
      <4>1. refund' = [refund EXCEPT ![x].done = TRUE]
        BY <3>3 DEF ConfirmRefund
      <4> QED
        BY <4>1 DEF TypeOK
    <3>4. ASSUME NEW y \in Payout, ReviewPayout(y) PROVE FALSE
      BY <3>1, <3>4 DEF ReviewPayout, ApprovePayout, RejectPayout, CompletePayout, refundVars
    <3> QED
      BY <3>1, <3>2, <3>3, <3>4 DEF Next, Payments, vars, refundVars, Deliver, ReleaseMature,
            RequestRefund, RequestReturnRefund, RecordCodCollection, RequestWithdrawal,
            PurchaseSlots
  <2>2. refund[r].amount > 0 /\ ~refund[r].done /\ Fits(r)
    BY <2>1 DEF ConfirmRefund
  <2>3. \A q \in Reached(r) : q = refund[r].part
    <3>1. \A q \in Part : q # refund[r].part => Allocation(r)[q] = 0
      BY <2>2, AllocationFits
    <3> QED
      BY <3>1, Types DEF Reached
  <2>4. ledger'[p] = ledger[p]
    BY <2>1, <2>3, ConfirmMoves
  <2>5. ASSUME SellerOf[p] # SellerOf[refund[r].part]
        PROVE  wallet'[SellerOf[p]] = wallet[SellerOf[p]]
    <3>1. SellerOf[p] \in Seller /\ \A q \in Reached(r) : SellerOf[q] # SellerOf[p]
      BY <2>3, <2>5, Constants
    <3> QED
      BY <2>1, <3>1, ConfirmMoves
  <2> QED
    BY <2>4, <2>5
<1>2. MoneyInv /\ [Next]_vars =>
        [\A r \in Refund :
          (refund[r].part # Direct /\ refund'[r].done /\ ~refund[r].done) =>
              \A p \in Part \ {refund[r].part} :
                  /\ ledger'[p] = ledger[p]
                  /\ SellerOf[p] # SellerOf[refund[r].part] =>
                        wallet'[SellerOf[p]] = wallet[SellerOf[p]]]_vars
  BY <1>1
<1> QED
  BY <1>2, MoneyInvHolds, PTL DEF Spec, OtherBrandsUntouched

=============================================================================
