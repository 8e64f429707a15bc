\* finalize and the job it queues on two passes: failures, timeouts, an empty trip
\* looked at again, two shutdowns, crashes or failed writes.
SPECIFICATION FairSpec
CONSTANTS
    finalize = finalize
    traffic = traffic
    Key = {finalize, traffic}
    FollowUps <- MCFollowUps
    Pass = {p1, p2}
    NoKey = NoKey
    MaxAttempts = 2
    JobTimeout = 1
    LockTime = 2
    Grace = 1
    MaxDelay = 1
    MaxRequests = 1
    MaxRechecks = 1
    MaxStops = 2
INVARIANTS NeverReclaimedWhileExecuting OneRunPerRequest
PROPERTIES KeepsPromise EveryJobSettles
