---------------------------- MODULE MCTrackStats ----------------------------
(* TrackStats on small instances; the .cfg files choose the sizes.         *)
EXTENDS TrackStats, TLC

(* Tasks, trips and instants are interchangeable in the safety runs that   *)
(* treat every trip alike.                                                 *)
Symmetry == Permutations(Proc) \union Permutations(Sample) \union Permutations(Track)
=============================================================================
