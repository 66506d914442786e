\* Three records and a skip of two occurrences, with one, two or any number of
\* them left, against two edits and a deletion of the schedule.
CONSTANTS
    Requests = {1, 2, 3, 4, 5, 6, 7}
    Kind <- KindM
    Date <- DateM
    Amounts <- AmountsM
    Imported <- ImportedM
    Remaining <- RemainingM
    None = 0
SPECIFICATION ScheduledSpec
\* All requests are answered in the end.
CHECK_DEADLOCK FALSE
INVARIANT BookedOnce
INVARIANT PostedBalances
PROPERTY PostsTheTemplate
