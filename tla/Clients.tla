------------------------------ MODULE Clients ------------------------------
(***************************************************************************)
(* The clients of a server that may answer late, out of order, in part, or *)
(* not at all: the page of a trip (TripPage), the list of trips            *)
(* (TripList), and a chat turn's calls of the model (ModelCalls).  They    *)
(* share nothing, so that each is a specification of its own.              *)
(***************************************************************************)
EXTENDS TripPage

CONSTANTS
    ListTrip, Begins, Filter, PageSize, MaxFetches, MaxDeletes, MaxListFaults,
    MaxRounds, Attempts, Budget, Slots, MaxFrames, MaxChunk

VARIABLES
    begin, there, later, filter, list, gen, loading, hasMore, error, deleting,
    merging, fetch, deletes, listFaults, listed,
    stage, round, attempt, sent, got, acc, streamed, emitted, content, said,
    messages, answerNow, cut

List == INSTANCE TripList WITH
    Trip <- ListTrip, faults <- listFaults, MaxFaults <- MaxListFaults

Model == INSTANCE ModelCalls WITH at <- stage

ASSUME ListFits == List!ListAssumption

ASSUME ModelFits == Model!ModelAssumption

(* The properties of the list, and of a turn's calls.                      *)
ListHasNoHoles == List!ListHasNoHoles
ListIsAskedFor == List!ListIsAskedFor
ShownOnce == Model!ShownOnce
ReceivedIsSent == Model!ReceivedIsSent
RequestsFit == Model!RequestsFit
=============================================================================
