SPECIFICATION Spec
CONSTANTS
    o1 = o1
    o2 = o2
    brandA = brandA
    brandB = brandB
    r1 = r1
    r2 = r2
    r3 = r3
    y1 = y1
    y2 = y2
    Order = {o1}
    Seller = {brandA, brandB}
    Part <- TwoParts
    OrderOf <- OneOrderOf
    SellerOf <- EachItsBrand
    Subtotal <- ThreeAndTwo
    ShippingFee <- FeeOne
    Online = {o1}
    Rates = {5000}
    Refund = {r1, r2}
    Payout = {y1}
    MinWithdrawal = 1
    MaxWithdrawal = 2
    SlotPrice = 1
    MaxSlots = 0
INVARIANTS
    PendingRefundsReserve
CHECK_DEADLOCK FALSE
