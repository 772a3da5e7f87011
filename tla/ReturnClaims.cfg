SPECIFICATION ReturnsFairSpec
CONSTANTS
    p1 = p1
    p2 = p2
    shirt = shirt
    shoe = shoe
    q1 = q1
    q2 = q2
    q3 = q3
    NoPart = NoPart
    Part = {p1, p2}
    Item = {shirt, shoe}
    PartOf <- TwoItems
    Bought <- TwoShirtsOneShoe
    Return = {q1, q2, q3}
INVARIANTS
    ClaimsFit
    RestockedOnce
    PendingRefundsFit
PROPERTIES
    HoldsEnd
CHECK_DEADLOCK FALSE
