----------------------------- MODULE RefundSplit -----------------------------
(***************************************************************************)
(* The arithmetic of CommissionService: commission on an amount, the split *)
(* of a refund over the brands of an order, and the split of one brand's   *)
(* share between commission and seller earnings.  Amounts are whole paisa; *)
(* rates are counted in ten-thousandths, as Numeric(5, 4) stores them.     *)
(***************************************************************************)
EXTENDS Integers, Sequences, SequencesExt, FiniteSetsExt

RateScale == 10000

\* num / den as whole paisa, halves upwards (num >= 0, den > 0).
RoundHalfUp(num, den) == (2 * num + den) \div (2 * den)

Lesser(a, b) == IF a <= b THEN a ELSE b

\* The commission on amount at rate.
Commission(amount, rate) == RoundHalfUp(amount * rate, RateScale)

\* How a refunded amount is taken back from a ledger that has commissionLeft
\* and sellerLeft: commission at the ledger's rate, and the overflow of either
\* side on the other.
Reversal(amount, rate, commissionLeft, sellerLeft) ==
    LET seller == Lesser(amount - Lesser(Commission(amount, rate), commissionLeft), sellerLeft)
    IN  [commission |-> amount - seller, seller |-> seller]

Eligible(parts, capacity) == {p \in parts : capacity[p] > 0}

\* What is left of a refund for the parts after p: p takes its proportion, the last
\* of the eligible parts takes all of it.
TakeShare(eligible, capacity, p, left) ==
    LET share == IF p = Max(eligible) THEN left.amount
                 ELSE Lesser(capacity[p], RoundHalfUp(left.amount * capacity[p], left.room))
    IN  [amount |-> left.amount - share,
         room |-> left.room - capacity[p],
         share |-> [left.share EXCEPT ![p] = share]]

\* amount over the parts of an order, taken in order of their ids: every part with
\* capacity gets a share.
Split(amount, parts, capacity) ==
    LET eligible == Eligible(parts, capacity)
        whole == [amount |-> amount,
                  room |-> SumFunctionOnSet(capacity, parts),
                  share |-> [p \in parts |-> 0]]
        Take(p, left) == TakeShare(eligible, capacity, p, left)
    IN  MapThenFoldSet(Take, whole, LAMBDA p : p, Max, eligible).share

=============================================================================
