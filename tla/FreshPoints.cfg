\* Two codes, three reports in three uploads of any order, one of them perhaps a
\* repetition, two tasks at once; four points in uploads of any size and order, two
\* of them evaluated at once.  One statement fails.
CONSTANTS
    Code = {c1, c2}
    Task = {t1, t2}
    MaxTime = 3
    MaxUploads = 3
    MaxDeaths = 1
    MinConsecutive = 2
    Limit = 0
    MaxValue = 2
    MaxPoints = 4
    MaxFailures = 1
    Trips <- MCTrip
SPECIFICATION FreshSpec
INVARIANTS
    NewestReportDecides
    OwnerHearsOfFaults
    EventsAreCrossings
PROPERTY AlertsAreEarned
SYMMETRY Symmetry
CHECK_DEADLOCK FALSE
