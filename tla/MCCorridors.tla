---------------------------- MODULE MCCorridors -----------------------------
(* Corridors for TLC: trips, routes, ids and tasks are interchangeable.    *)
EXTENDS Corridors, TLC

Symmetry == Permutations(Track) \cup Permutations(Route)
            \cup Permutations(Corridor) \cup Permutations(Task)
=============================================================================
