\* Two trips gone to and from, twice clicked; a list of three trips, a page of one
\* each; three rounds of two tool calls, three frames each.  One request fails.
CONSTANTS
    Trip = {a, b}
    NoTrip = NoTrip
    Stored <- MCStored
    Tries = 2
    MaxVisits = 3
    MaxClicks = 2
    MaxFaults = 1
    l1 = l1
    l2 = l2
    l3 = l3
    ListTrip = {l1, l2, l3}
    Begins <- MCBegins
    Filter <- MCFilter
    PageSize = 1
    MaxFetches = 3
    MaxDeletes = 1
    MaxListFaults = 1
    MaxRounds = 3
    Attempts = 2
    Budget = 7
    Slots = {0, 1}
    MaxFrames = 3
    MaxChunk = 4
SPECIFICATION ClientsSpec
INVARIANTS
    OnePageOneTrip
    TagsAreTyped
    UnderWayIsWatched
    ListHasNoHoles
    ListIsAskedFor
    ShownOnce
    ReceivedIsSent
    RequestsFit
SYMMETRY Symmetry
CHECK_DEADLOCK FALSE
