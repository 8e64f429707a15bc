\* Two requests or jobs at a time over three trips: overlapping merges, failures.
\* The phone may stay silent for good (CHECK_DEADLOCK).
SPECIFICATION Spec
CONSTANTS
    Trip = {t1, t2, t3}
    NoTrip = NoTrip
    Start = {1, 2, 3}
    Sent <- MCLater
    Task = {p1, p2}
    Grace = 0
    Skew = 1
    MergeGap = 1
    StaleAfter = 1
    Retention = 0
    EmptyMax = 0
    MinPart = 1
    LastInstant = 3
    MaxTime = 3
CHECK_DEADLOCK FALSE
SYMMETRY Symmetry
INVARIANTS ChangesAreFinalized OnlyRacesLoseSamples KeysResolve
