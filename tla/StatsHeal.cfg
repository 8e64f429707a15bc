\* Tasks may die at any step: rows heal, and retention still never outruns the
\* statistics.
SPECIFICATION FairSpec
CONSTANTS
    Track = {t1}
    Sample = {s1}
    Proc = {p1, p2}
    Legacy = {t1}
    NoTrack = NoTrack
    MaxClock = 3
    MaxEdits = 1
INVARIANT PrunedHasRow
PROPERTY EventuallyFresh
CHECK_DEADLOCK FALSE
