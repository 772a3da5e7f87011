SPECIFICATION Spec
CONSTANTS
    Key = {k1, k2}
    Item = {shirt, shoe}
    MaxRequests = 4
    None = None
PROPERTIES
    NewBagKept
CHECK_DEADLOCK FALSE
