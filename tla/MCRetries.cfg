\* Four deliveries of one key, a retry budget of three and one re-arm; or three
\* tabs over one entry of the quick-add queue.
CONSTANTS
    Workers = {w1, w2, w3, w4}
    NoWorker = NoWorker
    MaxAttempts = 3
    MaxRearms = 1
    Pages = {t1, t2, t3}
    Items = {1}
    Tagged = {1}
SPECIFICATION RetriesSpec
\* All deliveries are answered in the end.
CHECK_DEADLOCK FALSE
INVARIANT ResultIsTheEntry
INVARIANT NothingIsLost
INVARIANT TagsFollow
PROPERTY AtMostOnceSpec
PROPERTY BudgetIsBounded
PROPERTY NoWedgedClaim
PROPERTY EventuallyPosted
