\* The traffic job on the queue: two requests and the owner's, two runs at a
\* time, late samples, a crash, a failed statement or a shutdown.
SPECIFICATION SpecTraffic
CONSTANTS
    Traffic = traffic
    Key = {traffic}
    FollowUps <- MCFollowUps
    Pass = {p1, p2}
    NoKey = NoKey
    MaxAttempts = 1
    JobTimeout = 0
    LockTime = 1
    Grace = 1
    MaxDelay = 1
    MaxRequests = 2
    MaxRechecks = 0
    MaxStops = 1
    Enough = 1
    MaxPoints = 2
SYMMETRY Symmetry
INVARIANTS PendingIsBacked ReadyFitsFrames FlagTellsTheSummary
CHECK_DEADLOCK FALSE
