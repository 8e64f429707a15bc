----------------------------- MODULE MCTripLife -----------------------------
(* TripLife on small instances; the .cfg files choose the sizes.           *)
EXTENDS TripLife, TLC

(* The first sample of each trip, of the later ones, or of the second.     *)
MCFirst == {s \in [key : Start, at : 1..LastInstant] : s.at = s.key}
MCLater == {s \in MCFirst : s.at > 1}
MCSecond == [key : Start \cap {2}, at : {2}]

(* Tasks are interchangeable, and so are trip ids.                         *)
Symmetry == Permutations(Task) \union Permutations(Trip)
=============================================================================
