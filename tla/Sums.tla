-------------------------------- MODULE Sums --------------------------------
(***************************************************************************)
(* What the proofs need to know of folds over sets and sequences.          *)
(* MapThenSumSet, SumFunctionOnSet and FoldSeq of the community modules are*)
(* CHOSEN functions, so that such a function exists and is unique comes    *)
(* first; the laws of sums follow by induction on the subsets of a finite  *)
(* set, with the property to be shown given as a set.                      *)
(***************************************************************************)
EXTENDS SequencesExt, FiniteSetTheorems, TLAPS

\* Induction on the subsets of a finite set, with the property as a set: what holds
\* of a set whenever it holds of its proper subsets holds of all.
LEMMA SubsetInduction ==
    ASSUME NEW S, IsFiniteSet(S), NEW Good,
           \A T \in SUBSET S : (\A U \in SUBSET T : U # T => U \in Good) => T \in Good
    PROVE  \A T \in SUBSET S : T \in Good
<1> DEFINE Bad == {T \in SUBSET S : T \notin Good}
<1>1. SUFFICES ASSUME Bad # {} PROVE FALSE
  OBVIOUS
<1>2. IsWellFoundedOn(StrictSubsetOrdering(S), FiniteSubsetsOf(S))
  BY FS_StrictSubsetOrderingWellFounded
<1>3. Bad \subseteq FiniteSubsetsOf(S)
  BY FS_FiniteSubsetsOfFinite
<1> HIDE DEF Bad
<1>4. PICK T \in Bad : \A U \in Bad : <<U, T>> \notin StrictSubsetOrdering(S)
  BY <1>1, <1>2, <1>3, WFMin
<1> USE DEF Bad
<1>5. \A U \in SUBSET T : U # T => U \in Good
  BY <1>4 DEF StrictSubsetOrdering
<1> QED
  BY <1>4, <1>5

\* What a function maps a finite set to is finite.
LEMMA FiniteImage ==
    ASSUME NEW S, IsFiniteSet(S), NEW f
    PROVE  IsFiniteSet({f[x] : x \in S})
<1> DEFINE T == {f[x] : x \in S}
           g == [x \in S |-> f[x]]
<1>1. g \in Surjection(S, T)
  BY DEF Surjection
<1> QED
  BY <1>1, FS_Surjection

\* The functions on the subsets of T that satisfy the recursion of a fold: base for the
\* empty set, and one element, the one pick selects, taken off otherwise.
Folding(T, V, base, pick, F) ==
    {g \in [SUBSET T -> V] :
        \A s \in SUBSET T :
            g[s] = IF s = {} THEN base ELSE F[pick[s]][g[s \ {pick[s]}]]}

Picks(pick, S) == \A s \in SUBSET S : s # {} => pick[s] \in s

\* Two foldings agree wherever both are defined.
LEMMA FoldingUnique ==
    ASSUME NEW S, IsFiniteSet(S), NEW V, NEW base, NEW pick, Picks(pick, S), NEW F,
           NEW T \in SUBSET S, NEW U \in SUBSET S,
           NEW g \in Folding(T, V, base, pick, F), NEW h \in Folding(U, V, base, pick, F),
           NEW r, r \subseteq T, r \subseteq U
    PROVE  g[r] = h[r]
<1> DEFINE Good == {s \in SUBSET S : s \subseteq T /\ s \subseteq U => g[s] = h[s]}
<1>1. ASSUME NEW s \in SUBSET S, \A q \in SUBSET s : q # s => q \in Good
      PROVE  s \in Good
  <2>1. SUFFICES ASSUME s \subseteq T, s \subseteq U PROVE g[s] = h[s]
    OBVIOUS
  <2>2. CASE s = {}
    BY <2>1, <2>2 DEF Folding
  <2>3. CASE s # {}
    <3>1. pick[s] \in s
      BY <2>3 DEF Picks
    <3>2. g[s \ {pick[s]}] = h[s \ {pick[s]}]
      BY <1>1, <2>1, <3>1
    <3> QED
      BY <2>1, <2>3, <3>2 DEF Folding
  <2> QED
    BY <2>2, <2>3
<1> HIDE DEF Good
<1>2. \A s \in SUBSET S : s \in Good
  BY <1>1, SubsetInduction
<1> QED
  BY <1>2 DEF Good

\* h satisfies the recursion wherever it stays in V.
Follows(h, S, V, base, pick, F) ==
    \A s \in SUBSET S :
        /\ s = {} => h[s] = base
        /\ s # {} /\ h[s \ {pick[s]}] \in V => h[s] = F[pick[s]][h[s \ {pick[s]}]]

\* Whatever follows the recursion is the folding.
LEMMA FoldingAgrees ==
    ASSUME NEW S, IsFiniteSet(S), NEW V, NEW base, NEW pick, Picks(pick, S), NEW F,
           NEW g \in Folding(S, V, base, pick, F), NEW h,
           Follows(h, S, V, base, pick, F)
    PROVE  \A s \in SUBSET S : h[s] = g[s]
<1> DEFINE Good == {s \in SUBSET S : h[s] = g[s]}
<1>1. ASSUME NEW s \in SUBSET S, \A q \in SUBSET s : q # s => q \in Good
      PROVE  s \in Good
  <2>1. CASE s = {}
    BY <2>1 DEF Folding, Follows
  <2>2. CASE s # {}
    <3>1. s \ {pick[s]} \in Good
      BY <1>1, <2>2 DEF Picks
    <3> QED
      BY <2>2, <3>1 DEF Folding, Follows
  <2> QED
    BY <2>1, <2>2
<1> HIDE DEF Good
<1>2. \A s \in SUBSET S : s \in Good
  BY <1>1, SubsetInduction
<1> QED
  BY <1>2 DEF Good

\* Recursion over a finite set is well defined.
LEMMA FoldingExists ==
    ASSUME NEW S, IsFiniteSet(S), NEW V, NEW base \in V, NEW pick, Picks(pick, S),
           NEW F \in [S -> [V -> V]]
    PROVE  Folding(S, V, base, pick, F) # {}
<1> DEFINE Of(T) == Folding(T, V, base, pick, F)
           Good == {T \in SUBSET S : Of(T) # {}}
<1>1. ASSUME NEW T \in SUBSET S, \A U \in SUBSET T : U # T => U \in Good
      PROVE  T \in Good
  <2> DEFINE some == [U \in SUBSET T |-> CHOOSE h : h \in Of(U)]
  <2>1. \A U \in SUBSET T : U # T => some[U] \in Of(U)
    BY <1>1
  <2>2. CASE T = {}
    <3>1. [s \in SUBSET T |-> base] \in Of(T)
      BY <2>2 DEF Folding
    <3> QED
      BY <3>1
  <2>3. CASE T # {}
    <3> DEFINE rest(s) == s \ {pick[s]}
               g == [s \in SUBSET T |->
                        IF s = T THEN F[pick[s]][some[rest(s)][rest(s)]] ELSE some[s][s]]
    <3>1. \A s \in SUBSET T : s # {} => rest(s) \in SUBSET T /\ rest(s) # T /\ pick[s] \in S
      BY DEF Picks
    <3>2. \A s \in SUBSET T : s # T => some[s][s] \in V
      BY <2>1 DEF Folding
    <3>3. g \in [SUBSET T -> V]
      <4> SUFFICES ASSUME NEW s \in SUBSET T PROVE g[s] \in V
        OBVIOUS
      <4>1. CASE s = T
        <5>1. some[rest(s)][rest(s)] \in V /\ pick[s] \in S
          BY <2>3, <3>1, <3>2, <4>1
        <5> HIDE DEF some
        <5> QED
          BY <5>1, <4>1
      <4>2. CASE s # T
        BY <3>2, <4>2
      <4> QED
        BY <4>1, <4>2
    <3>4. ASSUME NEW s \in SUBSET T
          PROVE  g[s] = IF s = {} THEN base ELSE F[pick[s]][g[rest(s)]]
      <4>1. CASE s = {}
        <5>1. some[s] \in Of(s) /\ s # T
          BY <2>1, <2>3, <4>1
        <5> HIDE DEF some
        <5> QED
          BY <5>1, <4>1 DEF Folding
      <4>2. CASE s = T
        <5>1. rest(s) \in SUBSET T /\ rest(s) # T /\ s # {}
          BY <2>3, <3>1, <4>2
        <5>2. g[rest(s)] = some[rest(s)][rest(s)]
          BY <5>1
        <5>3. g[s] = F[pick[s]][some[rest(s)][rest(s)]]
          <6> HIDE DEF some, rest
          <6> QED
            BY <4>2
        <5> HIDE DEF g, some
        <5> QED
          BY <5>1, <5>2, <5>3
      <4>3. CASE s # {} /\ s # T
        <5>1. some[s] \in Of(s) /\ some[rest(s)] \in Of(rest(s))
          BY <2>1, <3>1, <4>3
        <5>2. rest(s) \subseteq s /\ rest(s) \in SUBSET S /\ s \in SUBSET S
          BY <4>3
        <5> HIDE DEF some
        <5> DEFINE q == rest(s)
        <5>3. some[s][q] = some[q][q]
          <6> HIDE DEF rest, q
          <6>1. q \in SUBSET S /\ q \subseteq s /\ q \subseteq q
            BY <5>2 DEF q
          <6>2. some[q] \in Folding(q, V, base, pick, F)
            BY <5>1 DEF q
          <6> QED
            BY <5>1, <6>1, <6>2, FoldingUnique
        <5>4. some[s][s] = F[pick[s]][some[s][rest(s)]]
          BY <5>1, <4>3 DEF Folding
        <5> QED
          BY <5>3, <5>4, <4>3, <3>1
      <4> QED
        BY <4>1, <4>2, <4>3
    <3>5. g \in Of(T)
      BY <3>3, <3>4 DEF Folding
    <3> QED
      BY <3>5
  <2> QED
    BY <2>2, <2>3
<1> HIDE DEF Good
<1>2. \A T \in SUBSET S : T \in Good
  BY <1>1, SubsetInduction
<1> QED
  BY <1>2 DEF Good

\* Induction up to a number, with the property as a set.
LEMMA InductionUpTo ==
    ASSUME NEW n \in Nat, NEW Good, 0 \in Good,
           \A k \in 1..n : k - 1 \in Good => k \in Good
    PROVE  \A k \in 0..n : k \in Good
<1> DEFINE Fine == {T \in SUBSET (1..n) : \A k \in 0..n : T = 1..k => k \in Good}
<1>1. ASSUME NEW T \in SUBSET (1..n), \A U \in SUBSET T : U # T => U \in Fine
      PROVE  T \in Fine
  <2> SUFFICES ASSUME NEW k \in 0..n, T = 1..k, k # 0 PROVE k \in Good
    OBVIOUS
  <2>1. 1..(k - 1) \in SUBSET T /\ 1..(k - 1) # T /\ k - 1 \in 0..n /\ k \in 1..n
    OBVIOUS
  <2>2. 1..(k - 1) \in Fine
    BY <1>1, <2>1
  <2> QED
    BY <2>1, <2>2
<1> HIDE DEF Fine
<1>2. \A k \in 0..n : 1..k \in SUBSET (1..n)
  OBVIOUS
<1>3. IsFiniteSet(1..n)
  BY FS_Interval
<1>4. \A T \in SUBSET (1..n) : T \in Fine
  BY <1>1, <1>3, SubsetInduction
<1>5. \A k \in 0..n : 1..k \in Fine
  BY <1>2, <1>4
<1> QED
  BY <1>5 DEF Fine

\* A set of numbers up to n has a largest one.
LEMMA LargestExists ==
    ASSUME NEW n \in Nat, NEW T \in SUBSET (1..n), T # {}
    PROVE  \E x \in T : \A y \in T : x >= y
<1> DEFINE Good == {k \in 0..n : T \cap ((n - k + 1)..n) # {} => \E x \in T : \A y \in T : x >= y}
<1>1. 0 \in Good
  OBVIOUS
<1>2. ASSUME NEW k \in 1..n, k - 1 \in Good
      PROVE  k \in Good
  <2>1. CASE T \cap ((n - (k - 1) + 1)..n) # {}
    BY <1>2, <2>1
  <2>2. CASE T \cap ((n - (k - 1) + 1)..n) = {}
    <3>1. \A y \in T : y <= n - k + 1
      BY <2>2
    <3>2. ASSUME T \cap ((n - k + 1)..n) # {} PROVE n - k + 1 \in T
      BY <2>2, <3>2
    <3> QED
      BY <3>1, <3>2
  <2> QED
    BY <2>1, <2>2
<1> HIDE DEF Good
<1>3. n \in Good
  BY <1>1, <1>2, InductionUpTo
<1>4. T \cap (1..n) = T
  OBVIOUS
<1>5. n - n + 1 = 1 /\ n \in 0..n
  OBVIOUS
<1> QED
  BY <1>3, <1>4, <1>5 DEF Good

-----------------------------------------------------------------------------
(* Folds over sequences.                                                   *)

Latest(S) == [T \in SUBSET S |-> Max(T)]

\* A fold from left to right, as the recursion over sets of positions that FoldLeft
\* is and as the values after each position.
LeftFolding(n, V, base, F) ==
    {f \in Folding(1..n, V, base, Latest(1..n), F) :
        /\ f[1..0] = base
        /\ \A k \in 1..n : f[1..k] = F[k][f[1..(k - 1)]]}

LEMMA MaxOfPositions ==
    ASSUME NEW n \in Nat, NEW T \in SUBSET (1..n), T # {}
    PROVE  Max(T) \in T /\ \A y \in T : Max(T) >= y
<1>1. \E x \in T : \A y \in T : x >= y
  BY LargestExists
<1> QED
  BY <1>1 DEF Max

LEMMA LeftFoldingExists ==
    ASSUME NEW n \in Nat, NEW V, NEW base \in V, NEW F \in [1..n -> [V -> V]]
    PROVE  LeftFolding(n, V, base, F) # {} /\ Picks(Latest(1..n), 1..n)
<1> DEFINE S == 1..n
           pick == Latest(S)
<1>1. \A T \in SUBSET S : T # {} => pick[T] = Max(T) /\ Max(T) \in T /\ \A y \in T : Max(T) >= y
  BY MaxOfPositions DEF Latest
<1> HIDE DEF pick
<1>2. IsFiniteSet(S) /\ F \in [S -> [V -> V]]
  BY FS_Interval
<1>3. Picks(pick, S)
  <2> HIDE DEF S
  <2> QED
    BY <1>1 DEF Picks
<1>9. Folding(S, V, base, pick, F) # {}
  <2> HIDE DEF S
  <2> QED
    BY <1>2, <1>3, FoldingExists
<1>4. PICK f \in Folding(S, V, base, pick, F) : TRUE
  BY <1>9
<1>5. f[1..0] = base
  <2>1. 1..0 = {} /\ 1..0 \in SUBSET S
    OBVIOUS
  <2> QED
    BY <1>4, <2>1 DEF Folding
<1>6. ASSUME NEW k \in 1..n PROVE f[1..k] = F[k][f[1..(k - 1)]]
  <2>1. /\ 1..k \in SUBSET S /\ k \in 1..k /\ 1..k # {} /\ (1..k) \ {k} = 1..(k - 1)
    OBVIOUS
  <2>2. pick[1..k] = k
    <3>1. Max(1..k) \in 1..k /\ Max(1..k) >= k /\ pick[1..k] = Max(1..k)
      BY <1>1, <2>1
    <3> QED
      BY <3>1
  <2> HIDE DEF S
  <2> QED
    BY <1>4, <2>1, <2>2 DEF Folding
<1>7. f \in LeftFolding(n, V, base, F)
  BY <1>4, <1>5, <1>6 DEF LeftFolding, pick
<1> QED
  BY <1>3, <1>7 DEF pick

\* The sequences of the elements of a set: each once, and none left out.
LEMMA EachInOrder ==
    ASSUME NEW T, IsFiniteSet(T), NEW seq \in SetToSeqs(T)
    PROVE  /\ Cardinality(T) \in Nat
           /\ seq \in [1..Cardinality(T) -> T]
           /\ \A i, j \in 1..Cardinality(T) : i # j => seq[i] # seq[j]
           /\ \A x \in T : \E i \in 1..Cardinality(T) : seq[i] = x
<1>1. /\ Cardinality(T) \in Nat /\ seq \in [1..Cardinality(T) -> T]
      /\ \A i, j \in 1..Cardinality(T) : i # j => seq[i] # seq[j]
  BY FS_CardinalityType DEF SetToSeqs
<1> DEFINE D == 1..Cardinality(T)
<1>2. IsFiniteSet(D) /\ Cardinality(D) = Cardinality(T)
  BY <1>1, FS_Interval
<1>3. seq \in Injection(D, T)
  BY <1>1 DEF Injection, IsInjective
<1>4. seq \in Surjection(D, T)
  BY <1>2, <1>3, FS_Injection
<1> QED
  BY <1>1, <1>4 DEF Surjection

-----------------------------------------------------------------------------
(* Sums of integers.                                                       *)

\* SumFunctionOnSet is one recursion for all subsets of a finite set.
LEMMA SumFolding ==
    ASSUME NEW S, IsFiniteSet(S), NEW f, \A x \in S : f[x] \in Int
    PROVE  \A T \in SUBSET S :
              /\ SumFunctionOnSet(f, T) \in Int
              /\ T = {} => SumFunctionOnSet(f, T) = 0
              /\ T # {} => LET c == CHOOSE x \in T : TRUE IN
                    SumFunctionOnSet(f, T) = f[c] + SumFunctionOnSet(f, T \ {c})
<1> DEFINE first(T) == CHOOSE x \in T : TRUE
           pick == [T \in SUBSET S |-> first(T)]
           F == [x \in S |-> [a \in Int |-> f[x] + a]]
           Of(T) == Folding(T, Int, 0, pick, F)
           Rec(g, T) == g = [s \in SUBSET T |->
                                IF s = {} THEN 0 ELSE f[first(s)] + g[s \ {first(s)}]]
<1>1. Picks(pick, S) /\ F \in [S -> [Int -> Int]]
  BY DEF Picks
<1>2. ASSUME NEW T \in SUBSET S
      PROVE  \A g : g \in Of(T) <=> g \in [SUBSET T -> Int] /\ Rec(g, T)
  <2> SUFFICES ASSUME NEW g \in [SUBSET T -> Int] PROVE g \in Of(T) <=> Rec(g, T)
    BY DEF Folding
  <2>1. ASSUME NEW s \in SUBSET T, s # {}
        PROVE  F[pick[s]][g[s \ {pick[s]}]] = f[first(s)] + g[s \ {first(s)}]
    <3>1. pick[s] = first(s) /\ first(s) \in S /\ g[s \ {first(s)}] \in Int
      BY <2>1
    <3> HIDE DEF pick, first
    <3> QED
      BY <3>1
  <2>2. Rec(g, T) <=> \A s \in SUBSET T :
            g[s] = IF s = {} THEN 0 ELSE f[first(s)] + g[s \ {first(s)}]
    <3> HIDE DEF first
    <3> QED
      OBVIOUS
  <2> HIDE DEF F, pick, first, Rec
  <2> QED
    BY <2>1, <2>2 DEF Folding
<1>3. ASSUME NEW T \in SUBSET S
      PROVE  \E g \in Of(T) : SumFunctionOnSet(f, T) = g[T]
  <2>1. SumFunctionOnSet(f, T) = (CHOOSE g : Rec(g, T))[T]
    BY DEF SumFunctionOnSet, FoldFunctionOnSet, MapThenFoldSet
  <2>2. Of(T) # {}
    <3>1. IsFiniteSet(T) /\ Picks(pick, T)
      BY <1>1, FS_Subset DEF Picks
    <3>2. F \in [S -> [Int -> Int]] /\ 0 \in Int
      BY <1>1
    <3>3. Folding(S, Int, 0, pick, F) # {}
      <4> HIDE DEF F, pick
      <4> QED
        BY <1>1, <3>2, FoldingExists
    <3>4. PICK g \in Folding(S, Int, 0, pick, F) : TRUE
      BY <3>3
    <3>5. [s \in SUBSET T |-> g[s]] \in Of(T)
      <4> HIDE DEF F, pick
      <4>1. \A s \in SUBSET T : s \in SUBSET S /\ s \ {pick[s]} \in SUBSET T
        OBVIOUS
      <4> QED
        BY <3>4, <4>1 DEF Folding
    <3> QED
      BY <3>5
  <2>3. PICK g : g \in Of(T)
    BY <2>2
  <2>4. \E h : Rec(h, T)
    <3> HIDE DEF Rec, Of
    <3> QED
      BY <1>2, <2>3
  <2>5. \A h : Rec(h, T) => h \in Of(T)
    <3> SUFFICES ASSUME NEW h, Rec(h, T) PROVE h \in Of(T)
      OBVIOUS
    <3>1. h = [s \in SUBSET T |-> h[s]]
      OBVIOUS
    <3>2. \A s \in SUBSET T : s \in {s1 \in SUBSET S : s1 \subseteq T => h[s1] \in Int}
      <4> DEFINE Good == {s1 \in SUBSET S : s1 \subseteq T => h[s1] \in Int}
      <4>1. ASSUME NEW s \in SUBSET S, \A q \in SUBSET s : q # s => q \in Good
            PROVE  s \in Good
        <5> SUFFICES ASSUME s \in SUBSET T PROVE h[s] \in Int
          OBVIOUS
        <5>1. CASE s = {}
          <6> HIDE DEF first
          <6> QED BY <5>1
        <5>2. CASE s # {}
          <6>1. first(s) \in s
            BY <5>2
          <6>2. h[s \ {first(s)}] \in Int
            <7> HIDE DEF first
            <7> QED BY <4>1, <6>1
          <6>3. f[first(s)] \in Int
            BY <6>1
          <6>4. h[s] = f[first(s)] + h[s \ {first(s)}]
            <7> HIDE DEF first
            <7> QED BY <5>2
          <6> HIDE DEF first
          <6> QED BY <6>2, <6>3, <6>4
        <5> QED BY <5>1, <5>2
      <4> HIDE DEF Good
      <4>2. \A s \in SUBSET S : s \in Good
        BY <4>1, SubsetInduction
      <4> QED
        BY <4>2 DEF Good
    <3>3. h \in [SUBSET T -> Int]
      <4> HIDE DEF Rec
      <4> QED BY <3>1, <3>2
    <3> QED
      BY <1>2, <3>3
  <2> HIDE DEF Rec, Of
  <2> QED
    BY <2>1, <2>4, <2>5
<1>4. PICK g \in Of(S) : TRUE
  BY <1>3
<1>5. \A T \in SUBSET S : SumFunctionOnSet(f, T) = g[T]
  <2> SUFFICES ASSUME NEW T \in SUBSET S PROVE SumFunctionOnSet(f, T) = g[T]
    OBVIOUS
  <2>1. PICK h \in Of(T) : SumFunctionOnSet(f, T) = h[T]
    BY <1>3
  <2>2. T \subseteq S /\ T \subseteq T /\ S \in SUBSET S
    OBVIOUS
  <2> HIDE DEF pick, F
  <2>3. h[T] = g[T]
    BY <1>1, <1>4, <2>1, <2>2, FoldingUnique
  <2> QED
    BY <2>1, <2>3
<1>6. g \in [SUBSET S -> Int] /\ Rec(g, S)
  <2> HIDE DEF Rec, Of
  <2> QED
    BY <1>2, <1>4
<1> SUFFICES ASSUME NEW T \in SUBSET S
             PROVE  /\ g[T] \in Int
                    /\ T = {} => g[T] = 0
                    /\ T # {} => g[T] = f[first(T)] + g[T \ {first(T)}]
  <2>1. \A T \in SUBSET S : T \ {first(T)} \in SUBSET S
    OBVIOUS
  <2> QED
    BY <1>5, <2>1
<1> HIDE DEF first
<1> QED
  BY <1>6

\* The sum over no elements.
LEMMA SumEmpty == \A f : SumFunctionOnSet(f, {}) = 0
  BY FS_EmptySet, SumFolding

\* A sum of integers is an integer, one of natural numbers a natural number.
LEMMA SumInt ==
    ASSUME NEW S, IsFiniteSet(S), NEW f, \A x \in S : f[x] \in Int
    PROVE  SumFunctionOnSet(f, S) \in Int
BY SumFolding

\* One element less, whichever it is.
LEMMA SumRemove ==
    ASSUME NEW S, IsFiniteSet(S), NEW f, \A x \in S : f[x] \in Int, NEW e \in S
    PROVE  SumFunctionOnSet(f, S) = f[e] + SumFunctionOnSet(f, S \ {e})
<1> DEFINE Sum(T) == SumFunctionOnSet(f, T)
           Good == {T \in SUBSET S : \A x \in T : Sum(T) = f[x] + Sum(T \ {x})}
<1>1. ASSUME NEW T \in SUBSET S, \A U \in SUBSET T : U # T => U \in Good
      PROVE  T \in Good
  <2> SUFFICES ASSUME NEW x \in T PROVE Sum(T) = f[x] + Sum(T \ {x})
    OBVIOUS
  <2>1. PICK c \in T : Sum(T) = f[c] + Sum(T \ {c})
    <3> DEFINE y == CHOOSE y \in T : TRUE
    <3>1. y \in T
      OBVIOUS
    <3>2. Sum(T) = f[y] + Sum(T \ {y})
      BY SumFolding
    <3> HIDE DEF y, Sum
    <3> QED
      BY <3>1, <3>2
  <2>2. CASE x = c
    BY <2>1, <2>2
  <2>3. CASE x # c
    <3>1. /\ T \ {c} \in Good /\ x \in T \ {c}
          /\ T \ {x} \in Good /\ c \in T \ {x}
      BY <1>1, <2>3
    <3>2. (T \ {c}) \ {x} = (T \ {x}) \ {c}
      OBVIOUS
    <3>3. Sum(T \ {c}) = f[x] + Sum((T \ {x}) \ {c})
      BY <3>1, <3>2
    <3>4. Sum(T \ {x}) = f[c] + Sum((T \ {x}) \ {c})
      BY <3>1
    <3>5. Sum((T \ {x}) \ {c}) \in Int /\ f[x] \in Int /\ f[c] \in Int
      BY SumFolding
    <3> HIDE DEF Sum
    <3> QED
      BY <2>1, <3>3, <3>4, <3>5
  <2> QED
    BY <2>2, <2>3
<1> HIDE DEF Good
<1>2. S \in Good
  BY <1>1, SubsetInduction
<1> QED
  BY <1>2 DEF Good

\* One element more.
LEMMA SumAdd ==
    ASSUME NEW S, IsFiniteSet(S), NEW f, NEW e, e \notin S,
           \A x \in S \cup {e} : f[x] \in Int
    PROVE  SumFunctionOnSet(f, S \cup {e}) = f[e] + SumFunctionOnSet(f, S)
<1>1. IsFiniteSet(S \cup {e}) /\ (S \cup {e}) \ {e} = S
  BY FS_AddElement
<1> QED
  BY <1>1, SumRemove

\* A sum of natural numbers is one, and at least each of its terms.
LEMMA SumNat ==
    ASSUME NEW S, IsFiniteSet(S), NEW f, \A x \in S : f[x] \in Nat
    PROVE  SumFunctionOnSet(f, S) \in Nat
<1> DEFINE Good == {T \in SUBSET S : SumFunctionOnSet(f, T) \in Nat}
<1>1. ASSUME NEW T \in SUBSET S, \A U \in SUBSET T : U # T => U \in Good
      PROVE  T \in Good
  <2>1. CASE T = {}
    BY <2>1, SumEmpty
  <2>2. CASE T # {}
    <3>1. PICK x \in T : TRUE
      BY <2>2
    <3>2. SumFunctionOnSet(f, T) = f[x] + SumFunctionOnSet(f, T \ {x})
      <4>1. IsFiniteSet(T) /\ \A y \in T : f[y] \in Int
        BY FS_Subset
      <4> QED
        BY <4>1, SumRemove
    <3>3. T \ {x} \in Good
      BY <1>1, <3>1
    <3> QED
      BY <3>2, <3>3
  <2> QED
    BY <2>1, <2>2
<1> HIDE DEF Good
<1>2. S \in Good
  BY <1>1, SubsetInduction
<1> QED
  BY <1>2 DEF Good

\* The sum depends on the values summed only.
LEMMA SumEqual ==
    ASSUME NEW S, IsFiniteSet(S), NEW f, NEW g, \A x \in S : f[x] \in Int /\ g[x] = f[x]
    PROVE  SumFunctionOnSet(g, S) = SumFunctionOnSet(f, S)
<1> DEFINE Good == {T \in SUBSET S : SumFunctionOnSet(g, T) = SumFunctionOnSet(f, T)}
<1>1. ASSUME NEW T \in SUBSET S, \A U \in SUBSET T : U # T => U \in Good
      PROVE  T \in Good
  <2>1. CASE T = {}
    BY <2>1, SumEmpty
  <2>2. CASE T # {}
    <3>1. PICK x \in T : TRUE
      BY <2>2
    <3>2. /\ SumFunctionOnSet(f, T) = f[x] + SumFunctionOnSet(f, T \ {x})
          /\ SumFunctionOnSet(g, T) = g[x] + SumFunctionOnSet(g, T \ {x})
      BY FS_Subset, SumRemove
    <3>3. T \ {x} \in Good
      BY <1>1, <3>1
    <3> QED
      BY <3>2, <3>3
  <2> QED
    BY <2>1, <2>2
<1> HIDE DEF Good
<1>2. S \in Good
  BY <1>1, SubsetInduction
<1> QED
  BY <1>2 DEF Good

\* Terms that are at most others have a sum that is at most theirs.
LEMMA SumAtMost ==
    ASSUME NEW S, IsFiniteSet(S), NEW f, NEW g,
           \A x \in S : f[x] \in Int /\ g[x] \in Int /\ f[x] <= g[x]
    PROVE  SumFunctionOnSet(f, S) <= SumFunctionOnSet(g, S)
<1> DEFINE Good == {T \in SUBSET S : SumFunctionOnSet(f, T) <= SumFunctionOnSet(g, T)}
<1>1. ASSUME NEW T \in SUBSET S, \A U \in SUBSET T : U # T => U \in Good
      PROVE  T \in Good
  <2>1. CASE T = {}
    BY <2>1, SumEmpty
  <2>2. CASE T # {}
    <3>1. PICK x \in T : TRUE
      BY <2>2
    <3>2. /\ SumFunctionOnSet(f, T) = f[x] + SumFunctionOnSet(f, T \ {x})
          /\ SumFunctionOnSet(g, T) = g[x] + SumFunctionOnSet(g, T \ {x})
      BY FS_Subset, SumRemove
    <3>3. T \ {x} \in Good
      BY <1>1, <3>1
    <3>4. SumFunctionOnSet(f, T \ {x}) \in Int /\ SumFunctionOnSet(g, T \ {x}) \in Int
      BY SumFolding
    <3> QED
      BY <3>2, <3>3, <3>4
  <2> QED
    BY <2>1, <2>2
<1> HIDE DEF Good
<1>2. S \in Good
  BY <1>1, SubsetInduction
<1> QED
  BY <1>2 DEF Good

\* Sums add up term by term.
LEMMA SumPlus ==
    ASSUME NEW S, IsFiniteSet(S), NEW f, NEW g, NEW h,
           \A x \in S : f[x] \in Int /\ g[x] \in Int /\ h[x] = f[x] + g[x]
    PROVE  SumFunctionOnSet(h, S) = SumFunctionOnSet(f, S) + SumFunctionOnSet(g, S)
<1> DEFINE Good == {T \in SUBSET S :
              SumFunctionOnSet(h, T) = SumFunctionOnSet(f, T) + SumFunctionOnSet(g, T)}
<1>1. ASSUME NEW T \in SUBSET S, \A U \in SUBSET T : U # T => U \in Good
      PROVE  T \in Good
  <2>1. CASE T = {}
    BY <2>1, SumEmpty
  <2>2. CASE T # {}
    <3>1. PICK x \in T : TRUE
      BY <2>2
    <3>2. \A y \in S : h[y] \in Int
      OBVIOUS
    <3>3. /\ SumFunctionOnSet(f, T) = f[x] + SumFunctionOnSet(f, T \ {x})
          /\ SumFunctionOnSet(g, T) = g[x] + SumFunctionOnSet(g, T \ {x})
          /\ SumFunctionOnSet(h, T) = h[x] + SumFunctionOnSet(h, T \ {x})
      BY <3>2, FS_Subset, SumRemove
    <3>4. T \ {x} \in Good
      BY <1>1, <3>1
    <3>5. SumFunctionOnSet(f, T \ {x}) \in Int /\ SumFunctionOnSet(g, T \ {x}) \in Int
      BY SumFolding
    <3> QED
      BY <3>3, <3>4, <3>5
  <2> QED
    BY <2>1, <2>2
<1> HIDE DEF Good
<1>2. S \in Good
  BY <1>1, SubsetInduction
<1> QED
  BY <1>2 DEF Good

\* The sum over two disjoint sets.
LEMMA SumUnion ==
    ASSUME NEW S, IsFiniteSet(S), NEW R, IsFiniteSet(R), S \cap R = {},
           NEW f, \A x \in S \cup R : f[x] \in Int
    PROVE  SumFunctionOnSet(f, S \cup R) = SumFunctionOnSet(f, S) + SumFunctionOnSet(f, R)
<1> DEFINE Good == {T \in SUBSET S :
              SumFunctionOnSet(f, T \cup R) = SumFunctionOnSet(f, T) + SumFunctionOnSet(f, R)}
<1>1. ASSUME NEW T \in SUBSET S, \A U \in SUBSET T : U # T => U \in Good
      PROVE  T \in Good
  <2>1. CASE T = {}
    <3>1. T \cup R = R /\ SumFunctionOnSet(f, R) \in Int
      BY <2>1, SumInt
    <3> QED
      BY <2>1, <3>1, SumEmpty
  <2>2. CASE T # {}
    <3>1. PICK x \in T : TRUE
      BY <2>2
    <3>2. /\ IsFiniteSet(T) /\ IsFiniteSet(T \cup R) /\ (T \cup R) \ {x} = (T \ {x}) \cup R
          /\ x \in T \cup R
      BY <3>1, FS_Subset, FS_Union
    <3>3. SumFunctionOnSet(f, T) = f[x] + SumFunctionOnSet(f, T \ {x})
      BY <3>2, SumRemove
    <3>4. SumFunctionOnSet(f, T \cup R) = f[x] + SumFunctionOnSet(f, (T \ {x}) \cup R)
      BY <3>2, SumRemove
    <3>5. T \ {x} \in Good
      BY <1>1, <3>1
    <3>6. SumFunctionOnSet(f, T \ {x}) \in Int /\ SumFunctionOnSet(f, R) \in Int
      BY SumFolding, SumInt
    <3> QED
      BY <3>3, <3>4, <3>5, <3>6
  <2> QED
    BY <2>1, <2>2
<1> HIDE DEF Good
<1>2. S \in Good
  BY <1>1, SubsetInduction
<1> QED
  BY <1>2 DEF Good

\* Fewer natural numbers sum up to less.
LEMMA SumSubset ==
    ASSUME NEW S, IsFiniteSet(S), NEW f, \A x \in S : f[x] \in Nat, NEW T \in SUBSET S
    PROVE  /\ SumFunctionOnSet(f, T) \in Nat /\ SumFunctionOnSet(f, S) \in Nat
           /\ SumFunctionOnSet(f, T) <= SumFunctionOnSet(f, S)
<1>1. /\ IsFiniteSet(T) /\ IsFiniteSet(S \ T) /\ S = T \cup (S \ T) /\ T \cap (S \ T) = {}
  BY FS_Subset
<1>2. SumFunctionOnSet(f, T) \in Nat /\ SumFunctionOnSet(f, S \ T) \in Nat
  BY <1>1, SumNat
<1>3. SumFunctionOnSet(f, S) = SumFunctionOnSet(f, T) + SumFunctionOnSet(f, S \ T)
  BY <1>1, SumUnion
<1> QED
  BY <1>2, <1>3

\* f and g are integers on S, the same but at e.
DifferAt(f, g, S, e) ==
    \A x \in S : f[x] \in Int /\ g[x] \in Int /\ (x # e => g[x] = f[x])

\* Two functions that differ at one element have sums that differ by as much.
LEMMA SumChange ==
    ASSUME NEW S, IsFiniteSet(S), NEW f, NEW g, NEW e \in S, DifferAt(f, g, S, e)
    PROVE  SumFunctionOnSet(g, S) = SumFunctionOnSet(f, S) + g[e] - f[e]
<1>0. \A x \in S : f[x] \in Int /\ g[x] \in Int /\ (x # e => g[x] = f[x])
  BY DEF DifferAt
<1>1. IsFiniteSet(S \ {e})
  BY FS_RemoveElement
<1>2. SumFunctionOnSet(g, S \ {e}) = SumFunctionOnSet(f, S \ {e})
  BY <1>0, <1>1, SumEqual
<1>3. /\ SumFunctionOnSet(g, S) = g[e] + SumFunctionOnSet(g, S \ {e})
      /\ SumFunctionOnSet(f, S) = f[e] + SumFunctionOnSet(f, S \ {e})
  BY <1>0, SumRemove
<1>4. SumFunctionOnSet(f, S \ {e}) \in Int
  BY <1>0, <1>1, SumInt
<1> QED
  BY <1>0, <1>2, <1>3, <1>4

\* A sum of zeros.
LEMMA SumZero ==
    ASSUME NEW S, IsFiniteSet(S), NEW f, \A x \in S : f[x] = 0
    PROVE  SumFunctionOnSet(f, S) = 0
<1> DEFINE Good == {T \in SUBSET S : SumFunctionOnSet(f, T) = 0}
<1>1. ASSUME NEW T \in SUBSET S, \A U \in SUBSET T : U # T => U \in Good
      PROVE  T \in Good
  <2>1. CASE T = {}
    BY <2>1, SumEmpty
  <2>2. CASE T # {}
    <3>1. PICK x \in T : TRUE
      BY <2>2
    <3>2. SumFunctionOnSet(f, T) = f[x] + SumFunctionOnSet(f, T \ {x})
      BY FS_Subset, SumRemove
    <3>3. T \ {x} \in Good
      BY <1>1, <3>1
    <3> QED
      BY <3>2, <3>3
  <2> QED
    BY <2>1, <2>2
<1> HIDE DEF Good
<1>2. S \in Good
  BY <1>1, SubsetInduction
<1> QED
  BY <1>2 DEF Good

\* A sum over one element.
LEMMA SumSingle ==
    ASSUME NEW f, NEW e, f[e] \in Int
    PROVE  SumFunctionOnSet(f, {e}) = f[e]
<1>1. IsFiniteSet({e}) /\ {e} \ {e} = {}
  BY FS_Singleton
<1> DEFINE rest == {e} \ {e}
<1>2. SumFunctionOnSet(f, {e}) = f[e] + SumFunctionOnSet(f, rest)
  BY <1>1, SumRemove
<1>3. SumFunctionOnSet(f, rest) = 0
  BY <1>1, SumEmpty
<1> HIDE DEF rest
<1> QED
  BY <1>2, <1>3

\* g is f on T, and zero on the rest of S.
Extends(g, S, f, T) ==
    \A x \in S : g[x] \in Int /\ (x \in T => g[x] = f[x]) /\ (x \notin T => g[x] = 0)

\* A sum over some elements, as a sum over all.
LEMMA SumExtend ==
    ASSUME NEW S, IsFiniteSet(S), NEW T \in SUBSET S, NEW f, NEW g, Extends(g, S, f, T)
    PROVE  SumFunctionOnSet(f, T) = SumFunctionOnSet(g, S)
<1>0. \A x \in S : g[x] \in Int /\ (x \in T => f[x] = g[x]) /\ (x \notin T => g[x] = 0)
  BY DEF Extends
<1>1. /\ IsFiniteSet(T) /\ IsFiniteSet(S \ T) /\ S = T \cup (S \ T) /\ T \cap (S \ T) = {}
  BY FS_Subset
<1>2. SumFunctionOnSet(g, S) = SumFunctionOnSet(g, T) + SumFunctionOnSet(g, S \ T)
  BY <1>0, <1>1, SumUnion
<1>3. SumFunctionOnSet(g, S \ T) = 0
  BY <1>0, <1>1, SumZero
<1>4. SumFunctionOnSet(f, T) = SumFunctionOnSet(g, T)
  <2>1. \A x \in T : g[x] \in Int /\ f[x] = g[x]
    BY <1>0
  <2> QED
    BY <1>1, <2>1, SumEqual
<1>5. SumFunctionOnSet(g, T) \in Int
  <2>1. \A x \in T : g[x] \in Int
    BY <1>0
  <2> QED
    BY <1>1, <2>1, SumInt
<1> QED
  BY <1>2, <1>3, <1>4, <1>5

\* The sum over a sequence that grows.
LEMMA SumAppend ==
    ASSUME NEW p \in Seq(Int), NEW x \in Int
    PROVE  SumFunctionOnSet(Append(p, x), DOMAIN Append(p, x)) = SumFunctionOnSet(p, DOMAIN p) + x
<1> DEFINE q == Append(p, x)
           n == Len(p)
<1>1. /\ n \in Nat /\ DOMAIN p = 1..n /\ DOMAIN q = 1..(n + 1) /\ q[n + 1] = x
      /\ \A i \in 1..n : q[i] = p[i] /\ p[i] \in Int
  OBVIOUS
<1> HIDE DEF q, n
<1>2. (1..(n + 1)) \ {n + 1} = 1..n /\ n + 1 \in 1..(n + 1)
  BY <1>1
<1>3. \A i \in 1..(n + 1) : q[i] \in Int
  BY <1>1
<1>4. IsFiniteSet(1..(n + 1)) /\ IsFiniteSet(1..n)
  BY <1>1, FS_Interval
<1>5. SumFunctionOnSet(q, 1..(n + 1)) = x + SumFunctionOnSet(q, 1..n)
  BY <1>1, <1>2, <1>3, <1>4, SumRemove
<1>6. SumFunctionOnSet(q, 1..n) = SumFunctionOnSet(p, 1..n)
  BY <1>1, <1>4, SumEqual
<1>7. SumFunctionOnSet(p, 1..n) \in Int
  BY <1>1, <1>4, SumInt
<1>8. SumFunctionOnSet(q, DOMAIN q) = SumFunctionOnSet(p, DOMAIN p) + x
  BY <1>1, <1>5, <1>6, <1>7
<1> QED
  BY <1>8 DEF q

=============================================================================
