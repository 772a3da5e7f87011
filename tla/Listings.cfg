SPECIFICATION Spec
CONSTANTS
    shirt = shirt
    shoe = shoe
    i1 = i1
    i2 = i2
    i3 = i3
    q1 = q1
    q2 = q2
    q3 = q3
    Product = {shirt, shoe}
    Image = {i1, i2, i3}
    Request = {q1, q2, q3}
    MaxImages = 2
    BaseSlots = 1
    MaxSlots = 2
    NoProduct = NoProduct
SYMMETRY Interchangeable
INVARIANTS
    SlotsAccounted
    OneCover
    RowsHaveFiles
PROPERTIES
    KeepsLastImage
CHECK_DEADLOCK FALSE
