\* A sharee and the owner, a token each or two of one of them, and two requests of
\* which one may be dropped.
SPECIFICATION AccessSpec
CONSTANTS
    User = {u1}
    Owner = Owner
    Device = {d1, d2}
    Request = {t1, t2}
    MaxFaults = 1
INVARIANTS OnlyRacesLeaveTokens
PROPERTY FeedsFollowAccess
