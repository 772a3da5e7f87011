SPECIFICATION AccountsFairSpec
CONSTANTS
    k1 = k1
    k2 = k2
    k3 = k3
    home = home
    work = work
    r1 = r1
    r2 = r2
    NoToken = NoToken
    Token = {k1, k2, k3}
    Address = {home, work}
    Request = {r1, r2}
    MaxAddresses = 2
    MaxOrders = 1
    MaxPublications = 3
    MaxDeliveries = 2
INVARIANTS
    NothingOutlives
    MailIsCurrent
    RotatedOnce
PROPERTIES
    Forgotten
CHECK_DEADLOCK FALSE
