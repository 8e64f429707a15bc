------------------------------ MODULE TripList ------------------------------
(***************************************************************************)
(* The list of trips in the browser (web, pages/trips.rs) and the request  *)
(* behind it (server, trips/mod.rs, list_trips).  The list is filled a     *)
(* page at a time, each page cut at the start of the last trip listed,     *)
(* while filters change, trips are deleted or merged from the list, and    *)
(* others come and go at the server.                                       *)
(*                                                                         *)
(* A request is read by the server at one moment and its answer arrives at *)
(* another.  A filter is the set of trips it lets through.  The searches   *)
(* and views of what is listed already, and what is selected, are left     *)
(* out: a merge is asked for of trips that are listed.                     *)
(***************************************************************************)
EXTENDS Naturals, Sequences, SequencesExt, Lists

CONSTANTS
    Trip,
    NoTrip,
    Begins,     \* bound: when the trips may have started
    Filter,     \* the filters: sets of trips
    PageSize,   \* TRIPS_PAGE_SIZE
    MaxFetches, \* bound: requests for the list
    MaxDeletes, \* bound: deletions and merges asked for
    MaxFaults   \* bound: requests that fail

ListAssumption ==
    /\ NoTrip \notin Trip
    /\ Begins \subseteq [Trip -> Nat] /\ Filter \subseteq SUBSET Trip
    /\ {PageSize, MaxFetches, MaxDeletes, MaxFaults} \subseteq Nat

VARIABLES
    begin,      \* tracks.started_at
    there,      \* the trips the server has
    later,      \* bound: one that will be recorded, or split off another
    filter,     \* the filters' signals
    list,       \* signal `trips'
    gen,        \* signal `fetch_gen'
    loading,    \* signals `loading' and `loading_more', by name
    hasMore,    \* signal `has_more'
    error,      \* signal `error' is shown
    deleting,   \* signal `deleting'
    merging,    \* signal `merging': the trips asked to be merged
    fetch,      \* requests for the list under way
    deletes,    \* deletions and merges so far
    faults,     \* requests that failed so far
    listed      \* history: the filter and the trips of the first page; what was skipped

vars == <<begin, there, later, filter, list, gen, loading, hasMore, error, deleting,
          merging, fetch, deletes, faults, listed>>
rows == <<begin, there, later>>
signals == <<filter, list, gen, loading, hasMore, error, fetch, listed>>
edits == <<deleting, merging, deletes>>

-----------------------------------------------------------------------------
(* One request for a page: a first one in the place of the list, or the    *)
(* next one, after the last trip listed, to be appended to it.  The        *)
(* answers of the ones before are dropped by generation.                   *)
RunFetch(f, append, before) ==
    /\ gen < MaxFetches /\ gen' = gen + 1
    /\ loading' = loading \cup {IF append THEN "more" ELSE "first"}
    /\ fetch' = fetch \cup {[gen |-> gen + 1, append |-> append, filter |-> f, before |-> before,
                             at |-> "server", page |-> <<>>, there |-> {}]}

Init ==
    /\ begin \in Begins
    /\ later \in Trip \cup {NoTrip} /\ there = Trip \ {later}
    /\ filter \in Filter
    /\ list = <<>> /\ gen = 1 /\ loading = {"first"} /\ hasMore = FALSE /\ error = FALSE
    /\ deleting = NoTrip /\ merging = {}
    /\ fetch = {[gen |-> 1, append |-> FALSE, filter |-> filter, before |-> NoTrip,
                 at |-> "server", page |-> <<>>, there |-> {}]}
    /\ deletes = 0 /\ faults = 0
    /\ listed = [filter |-> filter, there |-> {}, skipped |-> {}, stale |-> FALSE]

(* The pages list_trips may answer a request with: the newest trips that   *)
(* pass the filter and started before the one it names, newest first.      *)
Pages(k) ==
    LET asked == {t \in there \cap k.filter : k.before = NoTrip \/ begin[t] < begin[k.before]}
    IN  {p \in SeqOf(asked, PageSize) :
            /\ IsInjective(p)
            /\ Len(p) = PageSize \/ Range(p) = asked
            /\ \A i \in 1..Len(p) : \A t \in asked \ Range(SubSeq(p, 1, i)) : begin[t] <= begin[p[i]]}

Fault == faults < MaxFaults /\ faults' = faults + 1

(* The server reads the list.                                              *)
ReadPage(k) ==
    /\ k.at = "server"
    /\ \E p \in Pages(k) :
          fetch' = (fetch \ {k}) \cup {[k EXCEPT !.at = "answer", !.page = p, !.there = there]}
    /\ UNCHANGED <<rows, edits, filter, list, gen, loading, hasMore, error, faults, listed>>

(* Mutant: answers of earlier requests are taken too.                      *)
CurrentAlways(k) == TRUE

(* The answer is to the last request.                                      *)
Current(k) == k.gen = gen

(* Mutant: the page has to be longer than a page can be.                   *)
MoreToComeLonger(p) == Len(p) > PageSize

MoreToCome(p) == Len(p) >= PageSize

(* The page arrives, ...                                                   *)
PageArrives(k) ==
    /\ k.at = "answer" /\ Current(k)
    /\ hasMore' = MoreToCome(k.page)
    /\ IF k.append
       THEN /\ list' = list \o Only(k.page, Trip \ Range(list))
            /\ listed' = [listed EXCEPT !.skipped =
                             @ \cup {t \in Trip : begin[t] = begin[k.before]}]
       ELSE /\ list' = k.page
            /\ listed' = [filter |-> k.filter, there |-> k.there, skipped |-> {}, stale |-> FALSE]
    /\ error' = FALSE
    /\ loading' = {} /\ fetch' = fetch \ {k}
    /\ UNCHANGED <<rows, edits, filter, gen, faults>>

(* ... an error does, ...                                                  *)
PageFails(k) ==
    /\ Fault
    /\ error' = IF Current(k) THEN TRUE ELSE error
    /\ loading' = IF Current(k) THEN {} ELSE loading
    /\ listed' = [listed EXCEPT !.stale = @ \/ (Current(k) /\ ~k.append)]
    /\ fetch' = fetch \ {k}
    /\ UNCHANGED <<rows, edits, filter, list, gen, hasMore>>

(* ... or nobody waits for it any more.                                    *)
PageDropped(k) ==
    /\ k.at = "answer" /\ ~Current(k)
    /\ fetch' = fetch \ {k}
    /\ UNCHANGED <<rows, edits, filter, list, gen, loading, hasMore, error, faults, listed>>

-----------------------------------------------------------------------------
(* A filter is chosen; "Load more" is asked for.                           *)
ChooseFilter ==
    /\ filter' \in Filter \ {filter}
    /\ RunFetch(filter', FALSE, NoTrip)
    /\ UNCHANGED <<rows, edits, list, hasMore, error, faults, listed>>

LoadMore ==
    /\ hasMore /\ list # <<>> /\ loading = {}
    /\ RunFetch(filter, TRUE, Last(list))
    /\ UNCHANGED <<rows, edits, filter, list, hasMore, error, faults, listed>>

(* A trip is deleted from the list: asked for, done, answered.             *)
ClickDelete(t) ==
    /\ t \in Range(list) /\ deleting = NoTrip
    /\ deletes < MaxDeletes /\ deletes' = deletes + 1
    /\ deleting' = t
    /\ UNCHANGED <<rows, signals, merging, faults>>

DeleteAnswered ==
    /\ deleting # NoTrip /\ deleting' = NoTrip
    /\ \/ /\ deleting \in there /\ there' = there \ {deleting}
          /\ list' = Only(list, Trip \ {deleting})
          /\ error' = FALSE /\ UNCHANGED faults
       \/ /\ IF deleting \in there THEN Fault ELSE UNCHANGED faults
          /\ error' = TRUE /\ UNCHANGED <<there, list>>
    /\ UNCHANGED <<begin, later, merging, deletes, filter, gen, loading, hasMore, fetch, listed>>

(* Two are merged: the list is loaded again.                               *)
ClickMerge(T) ==
    /\ merging = {} /\ T \subseteq Range(list)
    /\ deletes < MaxDeletes /\ deletes' = deletes + 1
    /\ merging' = T
    /\ UNCHANGED <<rows, signals, deleting, faults>>

MergeAnswered ==
    /\ merging # {} /\ merging' = {}
    /\ \/ /\ merging \subseteq there
          /\ \E t \in merging : /\ \A u \in merging : begin[u] <= begin[t]
                               /\ there' = there \ {t}
          /\ RunFetch(filter, FALSE, NoTrip)
          /\ error' = FALSE /\ UNCHANGED faults
       \/ /\ IF merging \subseteq there THEN Fault ELSE UNCHANGED faults
          /\ error' = TRUE /\ UNCHANGED <<there, gen, loading, fetch>>
    /\ UNCHANGED <<begin, later, deleting, deletes, filter, list, hasMore, listed>>

(* Others come, and go.                                                    *)
TripComes ==
    /\ later # NoTrip /\ later' = NoTrip
    /\ there' = there \cup {later}
    /\ UNCHANGED <<begin, signals, edits, faults>>

TripGoes(t) ==
    /\ t \in there /\ there' = there \ {t}
    /\ UNCHANGED <<begin, later, signals, edits, faults>>

Next ==
    \/ \E k \in fetch : ReadPage(k) \/ PageArrives(k) \/ PageFails(k) \/ PageDropped(k)
    \/ ChooseFilter \/ LoadMore
    \/ \E t \in Trip : ClickDelete(t) \/ TripGoes(t)
    \/ \E s, t \in Trip : s # t /\ ClickMerge({s, t})
    \/ DeleteAnswered \/ MergeAnswered \/ TripComes

Spec == Init /\ [][Next]_vars

-----------------------------------------------------------------------------
(* The list has no holes: a trip that was there as the first page was read *)
(* and still is, that the list's filter lets through, and that started     *)
(* after the last trip listed, or any such trip once there is nothing more *)
(* to load, is listed, once and in its place.  Not so a trip that started  *)
(* at the same instant as one listed ("pass the last trip of a page to get *)
(* the next one", trips/mod.rs), nor in a list that a failed first page of *)
(* another filter left and "Load more" went on with.                       *)
ListHasNoHoles ==
    listed.stale \/
    /\ IsInjective(list)
    /\ \A i, j \in 1..Len(list) : i < j => begin[list[i]] >= begin[list[j]]
    /\ \A t \in (there \cap listed.there \cap listed.filter) \ listed.skipped :
          ~hasMore \/ (\E u \in Range(list) : begin[u] < begin[t]) => t \in Range(list)

(* What is listed once nothing is under way is what the filters chosen let *)
(* through, but for a list a failed first page left: "stale responses (a   *)
(* filter changed mid-flight) are dropped by generation".                  *)
ListIsAskedFor ==
    loading = {} => Range(list) \subseteq filter \/ listed.stale
=============================================================================
