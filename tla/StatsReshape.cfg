\* Two trips and two tasks: split and merge against inserts, recomputes,
\* retention and purge of either trip.
SPECIFICATION Spec
CONSTANTS
    Track = {t1, t2}
    Sample = {s1, s2}
    Proc = {p1, p2}
    Legacy = {}
    NoTrack = NoTrack
    MaxClock = 2
    MaxEdits = 0
SYMMETRY Symmetry
INVARIANTS FreshRowIsExact
CHECK_DEADLOCK FALSE
