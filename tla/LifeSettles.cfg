\* Two trips under every loop: the sweeper, the grace window, retention, failures.
\* The phone may stay silent for good (CHECK_DEADLOCK).
SPECIFICATION FairSpec
CONSTANTS
    Trip = {t1, t2}
    NoTrip = NoTrip
    Start = {1, 2}
    Sent <- MCSecond
    Task = {p1, p2}
    Grace = 1
    Skew = 0
    MergeGap = 1
    StaleAfter = 0
    Retention = 1
    EmptyMax = 0
    MinPart = 1
    LastInstant = 2
    MaxTime = 3
CHECK_DEADLOCK FALSE
PROPERTIES TripsComeToAnEnd
