SPECIFICATION FairSpec
CONSTANTS
    k1 = k1
    ann = ann
    bob = bob
    guest = guest
    shirt = shirt
    shoe = shoe
    brandA = brandA
    brandB = brandB
    MaxRequests = 2
    Key = {k1}
    Account = {ann, bob}
    InitialCart <- Carts
    Guest = guest
    MaxQuotes = 2
    Variant = {shirt, shoe}
    SellerOf <- TwoBrands
    MaxPrice = 2
    Stock <- OneEach
    CouponValue = 1
    MaxUses = 1
    MaxUsesPerUser = 1
    MaxEdits = 1
    None = None
INVARIANTS
    AnswersMatch
    ChargedAsQuoted
    CouponKept
    StockKept
PROPERTIES
    KeepsKeys
    RequestsEnd
CHECK_DEADLOCK FALSE
