SPECIFICATION FairSpec
CONSTANTS
    o1 = o1
    o2 = o2
    shirt = shirt
    shoe = shoe
    brandA = brandA
    brandB = brandB
    Order = {o1, o2}
    Variant = {shirt, shoe}
    Seller = {brandA, brandB}
    SellerOf <- TwoBrands
    MaxQty = 1
    MaxStock = 1
    Discounts <- OneCoupon
    CodTimeouts = {1, 2}
    PaymentTimeout = 1
    MaxAge = 3
    SweepLimit = 2
INVARIANTS
    ReservationExact
    NoOversell
    ParentAgrees
    PaidNeverCancelled
    SettledWhenDue
PROPERTIES
    NoComeback
    ReservationsExpire
