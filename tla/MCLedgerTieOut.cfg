\* A finalize and a reconcile toggle.
CONSTANTS
    p1 = p1
    t2 = t2
    m1 = m1
    t1 = t1
    d1 = d1
    c1 = c1
    e1 = e1
    e2 = e2
    b1 = b1
    b2 = b2
    f1 = f1
    f2 = f2
    A = A
    B = B
    x = x
    y = y
    Reqs = {f1, t1}
    Op <- Made
    NoReq = NoReq
    Txns = {1, 2, 3}
    Splits = {1, 2, 3, 4}
    Parent <- Owners
    Accounts = {A, B}
    Amounts = {1, 2}
    Dates = {1}
    Descs = {x}
    Replace <- ReplaceXY
    PutStates = {"n"}
    Deltas = {0}
    InitTx <- Book
    InitSplit <- Entries
SPECIFICATION ToggleSpec
\* All requests are answered in the end.
CHECK_DEADLOCK FALSE
PROPERTY TiesOut
