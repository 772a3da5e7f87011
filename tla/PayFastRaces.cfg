SPECIFICATION Spec
CONSTANTS
    o1 = o1
    o2 = o2
    a1 = a1
    a2 = a2
    a3 = a3
    a4 = a4
    t1 = t1
    t2 = t2
    t3 = t3
    t4 = t4
    Order = {o1, o2}
    Attempt = {a1, a2, a3, a4}
    Transaction = {t1, t2, t3, t4}
    TxPerBasket = 1
    NoOrder = NoOrder
    NoAttempt = NoAttempt
    NoTx = NoTx
SYMMETRY AttemptSymmetry
INVARIANTS
    ChargedOnce
    EvidenceActedOn
PROPERTIES
    KeepsPromise
CHECK_DEADLOCK FALSE
