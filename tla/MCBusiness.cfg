\* The scenarios of MCBusiness, without their liveness.
CONSTANTS
    None = None
    r1 = r1
    r2 = r2
    d1 = d1
    d2 = d2
    d3 = d3
    l1 = l1
    l2 = l2
    l3 = l3
    f1 = f1
    f2 = f2
    \* PeriodLock
    Procs = {"web", "worker"}
    NoProc = None
    Writers = {"save", "undo", "payslip"}
    ProcOf <- LockProcOf
    Bypassing = {"save"}
    DateOf <- LockDateOf
    MaxDate = 2
    TTL = 2
    Slow = 1
    MaxChanges = 2
    MaxRestarts = 1
    \* StripeEvents
    Deliveries = {d1, d2, d3}
    Fee = TRUE
    MaxFaults = 3
    MaxDeaths = 2
    \* RecurringInvoices
    Runs = {r1, r2}
    Editors = {"e1"}
    LastDay = 2
    MaxCatchup = 2
    AutoPost = TRUE
    MaxEdits = 1
    MaxMishaps = 1
    MaxErrors = 1
    \* DocNumbers
    Kinds = {"invoice", "bill"}
    Requests = {"i1", "i2", "i3", "b1", "b2"}
    NoHolder = None
    KindOf <- NumbersKindOf
    Frames = {f1, f2}
    NoFrame = None
    Oldest = 4
    NoValue = None
SPECIFICATION BusinessSpec
SYMMETRY Symmetry
\* The system stops when every request is answered.
CHECK_DEADLOCK FALSE
INVARIANT BusinessTypeOK
INVARIANT LockTakesHold
INVARIANT InvoicesAddUp
INVARIANT EachOccurrenceOnce
INVARIANT NumbersAreUnique
INVARIANT StripeAnswersTruly
INVARIANT StockAddsUp
