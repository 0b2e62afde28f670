SPECIFICATION Spec
CONSTANTS
    None = None
    Gone = Gone
    u1 = u1
    u2 = u2
    a1 = a1
    a2 = a2
    a3 = a3
    b1 = b1
    c1 = c1
    c2 = c2
    d1 = d1
    t1 = t1
    t2 = t2
    t3 = t3
    t4 = t4
    n1 = n1
    n2 = n2
    User = {u1}
    Account = {a1, a2}
    Category = {c1}
    TransactionId = {t1}
    Name = {n1, n2}
    Req = {r1, r2}
    Owner <- MCOwner
    InitialName <- MCInitialName
    InitialAccount <- MCInitialAccount
    InitialCategory <- MCInitialCategory
    Ops = {"update", "deleteResource"}
    MaxBatch = 1
CHECK_DEADLOCK FALSE
PROPERTIES ReferenceRacesAre404
