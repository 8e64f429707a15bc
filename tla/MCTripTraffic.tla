---------------------------- MODULE MCTripTraffic ----------------------------
(* TripTraffic on small instances; the .cfg file chooses the sizes.        *)
EXTENDS TripTraffic, TLC

(* The traffic job queues nothing.                                         *)
MCFollowUps == [k \in Key |-> {}]

(* Passes are interchangeable.                                             *)
Symmetry == Permutations(Pass)
=============================================================================
