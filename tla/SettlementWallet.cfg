SPECIFICATION Spec
CONSTANTS
    o1 = o1
    o2 = o2
    brandA = brandA
    brandB = brandB
    r1 = r1
    r2 = r2
    r3 = r3
    y1 = y1
    y2 = y2
    Order = {o1, o2}
    Seller = {brandA}
    Part <- TwoParts
    OrderOf <- TwoOrdersOf
    SellerOf <- SameBrand
    Subtotal <- TwoAndTwo
    ShippingFee <- FeeNone
    Online = {o1}
    Rates = {0, 4000}
    Refund = {r1, r2}
    Payout = {y1, y2}
    MinWithdrawal = 1
    MaxWithdrawal = 2
    SlotPrice = 1
    MaxSlots = 1
SYMMETRY Pools
INVARIANTS
    HeldEarningsBacked
    WithdrawableAccounted
CHECK_DEADLOCK FALSE
