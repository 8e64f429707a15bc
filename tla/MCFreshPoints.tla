--------------------------- MODULE MCFreshPoints ---------------------------
(* What an upload starts in the background, one of the two at a time.      *)
EXTENDS FreshPoints, TLC

VARIABLE looked         \* the one that is looked at

Number == 1..MaxPoints
Side == {"inside", "outside"}

(* Every trip of readings; of positions, the second one perhaps without,   *)
(* that ends outside; and of readings, in pairs, on a way in and out.      *)
MCFix == {f \in [Number -> Side \cup {"none"}] :
             f[MaxPoints] = "outside" /\ \A n \in Number : f[n] = "none" => n = 2}
MCTrip ==
    {[n \in Number |-> [fix |-> "none", value |-> v[n]]] : v \in [Number -> 0..MaxValue]}
    \cup {[n \in Number |-> [fix |-> f[n], value |-> 0]] : f \in MCFix}
    \cup {[n \in Number |-> [fix |-> IF n = 2 THEN "inside" ELSE "outside",
                             value |-> IF n < 3 THEN v ELSE w]] : v, w \in {0, MaxValue}}

Symmetry == Permutations(Code) \cup Permutations(Task)

codeVars == vars
pointVars == <<trip, stored, points, inside, events, notices, member, failures, seen,
               overlapped>>

(* The one that is not looked at begins like any other and takes no step.  *)
FreshInit ==
    /\ looked \in {"codes", "points"}
    /\ Init /\ Watch!Init
    /\ looked # "codes" => \A at \in Time : report[at] = {}
    /\ looked # "points" => \A n \in Number : trip[n] = [fix |-> "none", value |-> 0]

FreshNext ==
    /\ UNCHANGED looked
    /\ \/ looked = "codes" /\ Next /\ UNCHANGED pointVars
       \/ looked = "points" /\ Watch!Next /\ UNCHANGED codeVars

FreshSpec == FreshInit /\ [][FreshNext]_<<looked, codeVars, pointVars>>
=============================================================================
