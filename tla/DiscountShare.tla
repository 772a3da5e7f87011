---------------------------- MODULE DiscountShare ----------------------------
(***************************************************************************)
(* How checkout divides the discount of a coupon over the brands of an     *)
(* order (OrderService._build_order). Amounts are whole paisa.             *)
(***************************************************************************)
EXTENDS Integers

Smaller(a, b) == IF a <= b THEN a ELSE b
Larger(a, b) == IF a >= b THEN a ELSE b

\* n / d to the nearest whole number, ties to the even one: Decimal.quantize.
HalfEven(n, d) ==
    LET q == n \div d
        twice == 2 * (n % d)
    IN  IF twice > d \/ (twice = d /\ q % 2 = 1) THEN q + 1 ELSE q

\* The part of the discount in proportion to one brand's merchandise.
Proportional(discount, sub, subtotal) == HalfEven(discount * sub, subtotal)

\* The share a brand gets of the discount that is left: what it should have,
\* at most its own merchandise and what is left, at least what the brands after it
\* cannot take.
Share(restDiscount, restSubtotal, sub, wish) ==
    Larger(Larger(0, restDiscount - restSubtotal),
           Smaller(wish, Smaller(sub, restDiscount)))

=============================================================================
