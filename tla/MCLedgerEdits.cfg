\* Saves, moves, toggles, deletes and creates, bulk requests, a lock date that moves, and finalizes.
CONSTANTS
    p1 = p1
    m1 = m1
    t1 = t1
    t2 = t2
    d1 = d1
    c1 = c1
    e1 = e1
    e2 = e2
    b1 = b1
    b2 = b2
    f1 = f1
    f2 = f2
    A = A
    B = B
    x = x
    y = y
    Reqs = {p1, m1, t1, t2, d1, c1, e1, e2, b1, b2, f1, f2}
    Op <- Made
    NoReq = NoReq
    Txns = {1, 2, 3, 4}
    Splits = {1, 2, 3, 4, 5}
    Parent <- Owners
    Accounts = {A, B}
    Amounts = {2}
    Dates = {1, 2}
    Descs = {x, y}
    Replace <- ReplaceXY
    PutStates = {"n", "y"}
    Deltas = {0, 1}
    InitTx <- Book
    InitSplit <- Entries
SPECIFICATION EditsSpec
\* All requests are answered in the end.
CHECK_DEADLOCK FALSE
INVARIANT NoWaitCycle
PROPERTY NoLostUpdate
PROPERTY ReconciledIsFrozen
PROPERTY ClosedPeriodIsKept
PROPERTY TiesOut
