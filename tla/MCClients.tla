----------------------------- MODULE MCClients -----------------------------
(* The clients, one of them at a time, for small sets of trips.            *)
EXTENDS Clients, TLC

CONSTANTS l1, l2, l3    \* the trips of the list

VARIABLE client         \* the one that is looked at

pageVars == vars
listVars == <<begin, there, later, filter, list, gen, loading, hasMore, error, deleting,
              merging, fetch, deletes, listFaults, listed>>
modelVars == <<stage, round, attempt, sent, got, acc, streamed, emitted, content, said,
               messages, answerNow, cut>>

(* A trip that is over and analysed right now, and one under way.          *)
MCStored ==
    {[finished |-> TRUE, analysis |-> "busy", traffic |-> "none"],
     [finished |-> FALSE, analysis |-> "none", traffic |-> "none"]}

(* The trips of the list started one after the other, or two at once.      *)
MCBegins == {(l1 :> 1 @@ l2 :> 2 @@ l3 :> 3), (l1 :> 1 @@ l2 :> 1 @@ l3 :> 2)}
MCFilter == {{l1, l2, l3}, {l1, l3}}

Symmetry == Permutations(Trip)

(* A client that is not looked at begins like any other and takes no step. *)
ClientsInit ==
    /\ client \in {"page", "list", "model"}
    /\ Init /\ List!Init /\ Model!Init
    /\ client # "page" => \A t \in Trip : server[t].finished
    /\ client # "list" => begin[l1] = begin[l2] /\ later = NoTrip /\ filter = {l1, l3}

ClientsNext ==
    /\ UNCHANGED client
    /\ \/ client = "page" /\ Next /\ UNCHANGED <<listVars, modelVars>>
       \/ client = "list" /\ List!Next /\ UNCHANGED <<pageVars, modelVars>>
       \/ client = "model" /\ Model!Next /\ UNCHANGED <<pageVars, listVars>>

ClientsSpec == ClientsInit /\ [][ClientsNext]_<<client, pageVars, listVars, modelVars>>
=============================================================================
