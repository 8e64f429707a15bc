\* Two trips of one leg or none over two routes; two requests or jobs at once.
CONSTANTS
    Track = {x1, x2}
    Route = {r1, r2}
    Corridor = {c1, c2}
    Task = {t1, t2}
    None = None
    MaxLegs = 1
    MaxFaults = 1
SPECIFICATION Spec
INVARIANTS
    NoTwins
    RoutesFollowTrips
SYMMETRY Symmetry
CHECK_DEADLOCK FALSE
