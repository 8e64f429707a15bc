---------------------------- MODULE MCCarAccess ----------------------------
(* Access to one car (CarAccess), as an instance whose requests have names *)
(* of their own beside the tasks of what else a car keeps.                 *)

CONSTANTS User, Owner, Device, Request, MaxFaults

VARIABLES share, invite, sharing, device, request, feed, gone, lapsed, faults

Access == INSTANCE CarAccess WITH Task <- Request, task <- request

ASSUME AccessFits == Access!AccessAssumption

AccessSpec == Access!FairSpec

(* The properties of the access.                                           *)
OnlyRacesLeaveTokens == Access!OnlyRacesLeaveTokens
FeedsFollowAccess == Access!FeedsFollowAccess
=============================================================================
