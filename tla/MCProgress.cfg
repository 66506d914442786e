\* The scenarios of MCProgress.
CONSTANTS
    None = None
    r1 = r1
    r2 = r2
    d1 = d1
    d2 = d2
    l1 = l1
    l2 = l2
    f1 = f1
    f2 = f2
    chk = chk
    sav = sav
    food = food
    c1 = c1
    t1 = t1
    t2 = t2
    NoRun = NoRun
    NoFeed = NoFeed
    NoTxn = NoTxn
    NoAccount = NoAccount
SPECIFICATION ProgressSpec
\* The system stops when every request is answered.
CHECK_DEADLOCK FALSE
PROPERTY RequestsEnd
PROPERTY WorkIsMadeGood
PROPERTY NoStuckParsing
