\* Two processes on one connection, with failures, deaths, edits and deletions;
\* or two connections that show the same rows.
CONSTANTS
    chk = chk
    sav = sav
    food = food
    c1 = c1
    c2 = c2
    r1 = r1
    r2 = r2
    r3 = r3
    f1 = f1
    f2 = f2
    f3 = f3
    t1 = t1
    t2 = t2
    t3 = t3
    t4 = t4
    NoRun = NoRun
    NoFeed = NoFeed
    NoTxn = NoTxn
    NoAccount = NoAccount
    Conns = {c1, c2}
    Runs = {r1, r2, r3}
    ConnOf <- ConnOfRuns
    Accounts = {chk, sav, food}
    Mapped <- AllMapped
    Guesses = {food}
    Feeds = {f1, f2, f3}
    AccountOf <- TransferAccounts
    AmountOf <- TransferAmounts
    DayOf <- Sometime
    OfferedBy <- Everywhere
    Txns = {t1, t2, t3, t4}
    Entered <- Reviewed
    Window = 1
    Overlap = 2
    Lookback = 2
    Late = 1
    MaxDay = 1
    MaxFailures = 1
    MaxEdits = 2
    MaxDeaths = 1
    LockDates = {1}
SPECIFICATION ScenarioSpec
INVARIANT PrimaryOnce
INVARIANT FeedOnceAlone
PROPERTY KnownStaysAlone
