\* Two turns and the page that follows them; cancels, a deletion, and one fault:
\* a dropped request or stream, a failed job, a crash.
SPECIFICATION FairSpec
CONSTANTS
    NTurns = 2
    Reader = {page}
    NoTurn = NoTurn
    Fragments <- MCFragments
    ToolRounds <- MCToolRounds
    Capacity = 1
    MaxStops = 1
    MaxFaults = 1
INVARIANTS EventsTellTheRow FollowersSeeItAll
PROPERTIES KeepsTranscript EveryTurnSettles EveryPageEnds
CHECK_DEADLOCK FALSE
