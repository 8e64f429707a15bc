---------------------------- MODULE FreshPoints ----------------------------
(***************************************************************************)
(* What an upload starts in the background: the record of its fault codes  *)
(* (FaultCodes), and its points against the alert rules and the zones      *)
(* (PointWatch).  The two share no row, so that each is a specification    *)
(* of its own.                                                             *)
(***************************************************************************)
EXTENDS FaultCodes

CONSTANTS MinConsecutive, Limit, MaxValue, MaxPoints, Trips, MaxFailures

VARIABLES trip, stored, points, inside, events, notices, member, failures, seen, overlapped

Watch == INSTANCE PointWatch WITH
    Trip <- Trips, task <- points, deaths <- failures, MaxDeaths <- MaxFailures

ASSUME WatchFits == Watch!WatchAssumption

(* The properties of the points' evaluation.                               *)
EventsAreCrossings == Watch!EventsAreCrossings
AlertsAreEarned == Watch!AlertsAreEarned
=============================================================================
