\* Three executions of the extraction, two requests of the list and a re-parse,
\* one crash; and the finalizes of MCStatements.
CONSTANTS
    c1 = c1
    c2 = c2
    c3 = c3
    NoReq = NoReq
    NoSplit = NoSplit
    Derived = Derived
    Unstated = Unstated
    Runs = {r1, r2, r3}
    Callers = {c1, c2, c3}
    CallOf <- ListsAndReparse
    MaxAttempts = 1
    MaxCrashes = 1
    Lines = {1, 2, 3, 4, 5}
    Splits = {1, 2, 3}
    Batches = {1, 2}
    Batch <- StatementOf
    LineAmount <- AmountOf
    LineDate <- DateOf
    StartDate <- StartDateOf
    EndDate <- EndDateOf
    Amounts = {1, 2}
    Dates = {1, 3}
    Window = 1
    Opening <- OpeningOf
    Closing <- ClosingOf
    Reqs = {1, 2, 3, 4, 5, 6, 7, 8, 9}
    Kind <- KindOf
    Target <- TargetOf
SPECIFICATION StatementsSpec
SYMMETRY Symmetry
\* All is quiet when the batch is gone, or every request is answered.
CHECK_DEADLOCK FALSE
INVARIANT ParsedHasLines
INVARIANT OneRunPerAttempt
INVARIANT AddedOnce
PROPERTY MatchesAreExact
PROPERTY FinalizeTiesOut
