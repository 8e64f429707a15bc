----------------------------- MODULE Corridors ------------------------------
(***************************************************************************)
(* The route corridors of one car (route_opt/job.rs): the runs that assign *)
(* the legs of a finished trip to corridors, one at a time under the car's *)
(* advisory lock, and whatever else takes assignments and corridors away   *)
(* without it: trips purged or absorbed (trips/), the pages that drop      *)
(* empty corridors (route_opt/api.rs), and the owner's recompute.          *)
(*                                                                         *)
(* Matching is geometry: a leg has a route, and a corridor matches the     *)
(* legs of its own.  Left out are variants, but for the drop of those      *)
(* without a trip, insights, the stored counts, which nothing reads, and   *)
(* round trips too short for a via point, which match no corridor at all.  *)
(***************************************************************************)
EXTENDS Naturals, Sequences

CONSTANTS
    Track,      \* trips of the car
    Route,      \* classes of matching legs
    Corridor,   \* bound: ids of corridors ever created
    Task,       \* requests and jobs that can be under way at once
    None,       \* no trip, corridor or task
    MaxLegs,    \* bound: legs of a trip
    MaxFaults   \* bound: tasks that fail or are dropped

ASSUME CorridorAssumption ==
    /\ None \notin Track \cup Route \cup Corridor \cup Task
    /\ MaxLegs \in Nat \ {0}
    /\ MaxFaults \in Nat

VARIABLES
    trip,       \* each trip: not there yet, there and finished, or gone
    route,      \* route_corridors: the route of each corridor there is
    used,       \* ids given to corridors so far
    assign,     \* route_trip_assignments: the corridor of each leg
    jobs,       \* trips with a route job to run
    lock,       \* who holds the car's advisory lock
    task,       \* requests and jobs under way
    legs,       \* history: the legs seen by the last run that completed
    lost,       \* history: trips whose assignments something else took away
    stray,      \* history: corridors created after their run lost the lock
    faults      \* history: faults so far

vars == <<trip, route, used, assign, jobs, lock, task, legs, lost, stray, faults>>

-----------------------------------------------------------------------------
Leg == 1..MaxLegs
Plan == UNION {[1..n -> Route] : n \in 0..MaxLegs}

(* `old' are the corridors to recount or drop, `more' the trips a          *)
(* recompute has yet to process.  A "late" task was dropped with its       *)
(* statement on the way to the database, which may yet execute it.         *)
TaskState ==
    [pc    : {"idle", "clear", "find", "create", "assign", "sync", "drop",
              "purge", "next", "prune"},
     by    : {"job", "recompute", "request", "late"},
     track : Track \cup {None},
     plan  : Plan,
     leg   : 0..MaxLegs,
     found : Corridor \cup {None},
     old   : SUBSET Corridor,
     more  : SUBSET Track]

Idle == [pc |-> "idle", by |-> "request", track |-> None, plan |-> <<>>, leg |-> 0,
         found |-> None, old |-> {}, more |-> {}]

There(c) == c \in Corridor /\ route[c] # None
NoLegs == [l \in Leg |-> None]
Assigned(x) == {assign[x][l] : l \in Leg} \ {None}
Empty(c) == There(c) /\ \A x \in Track : c \notin Assigned(x)

InRun(t) ==
    /\ task[t].by \in {"job", "recompute"}
    /\ task[t].pc \in {"clear", "find", "create", "assign", "sync", "drop"}

Late(t) == task[t].by = "late"

(* What t does after a statement: no more, if it was dropped.              *)
Then(t, next) == [task EXCEPT ![t] = IF Late(t) THEN Idle ELSE next]

Init ==
    /\ trip = [x \in Track |-> "new"]
    /\ route = [c \in Corridor |-> None]
    /\ used = {}
    /\ assign = [x \in Track |-> NoLegs]
    /\ jobs = {}
    /\ lock = None
    /\ task = [t \in Task |-> Idle]
    /\ legs = [x \in Track |-> <<>>]
    /\ lost = {}
    /\ stray = {}
    /\ faults = 0

-----------------------------------------------------------------------------
(* finalize queues the job of a finished trip; an edit, a late sample or   *)
(* a merge queues it again.                                                *)
Enqueue(x) ==
    /\ trip[x] # "gone"
    /\ x \notin jobs
    /\ trip' = [trip EXCEPT ![x] = "there"]
    /\ jobs' = jobs \cup {x}
    /\ UNCHANGED <<route, used, assign, lock, task, legs, lost, stray, faults>>

(* A run of trip x for task t: with the lock, its points planned as legs,  *)
(* none of which may be usable, and its former corridors read.             *)
Run(x, by, plan, more) ==
    [pc |-> "clear", by |-> by, track |-> x, plan |-> plan, leg |-> 1,
     found |-> None, old |-> Assigned(x), more |-> more]

(* Mutant: no lock.                                                        *)
LockFreeAlways == TRUE

LockFree == lock = None

(* The worker's run of a job.                                              *)
StartJob(t, x, plan) ==
    /\ task[t] = Idle
    /\ x \in jobs
    /\ LockFree
    /\ lock' = t
    /\ jobs' = jobs \ {x}
    /\ task' = [task EXCEPT ![t] = Run(x, "job", plan, {})]
    /\ UNCHANGED <<trip, route, used, assign, legs, lost, stray, faults>>

(* DELETE of the trip's assignments.                                       *)
Clear(t) ==
    /\ task[t].pc = "clear"
    /\ assign' = [assign EXCEPT ![task[t].track] = NoLegs]
    /\ lost' = IF Late(t) THEN lost \cup {task[t].track} ELSE lost \ {task[t].track}
    /\ task' = Then(t, [task[t] EXCEPT !.pc = IF task[t].plan = <<>> THEN "sync" ELSE "find"])
    /\ UNCHANGED <<trip, route, used, jobs, lock, legs, stray, faults>>

(* find_or_create_corridor: a corridor that matches, ...                   *)
Find(t) ==
    /\ task[t].pc = "find"
    /\ LET matching == {c \in Corridor : route[c] = task[t].plan[task[t].leg]}
       IN  \/ \E c \in matching :
                task' = [task EXCEPT ![t].pc = "assign", ![t].found = c]
           \/ /\ matching = {}
              /\ task' = [task EXCEPT ![t].pc = "create"]
    /\ UNCHANGED <<trip, route, used, assign, jobs, lock, legs, lost, stray, faults>>

(* ... or else a new one.                                                  *)
Create(t) ==
    /\ task[t].pc = "create"
    /\ \E c \in Corridor \ used :
          /\ route' = [route EXCEPT ![c] = task[t].plan[task[t].leg]]
          /\ used' = used \cup {c}
          /\ stray' = IF Late(t) THEN stray \cup {c} ELSE stray
          /\ task' = Then(t, [task[t] EXCEPT !.pc = "assign", !.found = c])
    /\ UNCHANGED <<trip, assign, jobs, lock, legs, lost, faults>>

(* The INSERT of the leg's assignment, which needs its trip and corridor.  *)
Assign(t) ==
    LET x == task[t].track
        c == task[t].found
        l == task[t].leg
        last == l = Len(task[t].plan)
    IN  /\ task[t].pc = "assign"
        /\ trip[x] = "there" /\ There(c)
        /\ assign' = [assign EXCEPT ![x][l] = c]
        /\ lost' = IF Late(t) THEN lost \cup {x} ELSE lost
        /\ task' = Then(t, [task[t] EXCEPT !.pc = IF last THEN "sync" ELSE "find",
                                           !.leg = IF last THEN l ELSE l + 1,
                                           !.found = None,
                                           !.old = @ \ {c}])
        /\ UNCHANGED <<trip, route, used, jobs, lock, legs, stray, faults>>

(* sync_corridor_trip_counts: the count of one of the corridors left,      *)
(* which goes next if it has no trip; if it has, its variants without one  *)
(* go, perhaps that of a leg about to be assigned.                         *)
SyncCount(t) ==
    /\ task[t].pc = "sync"
    /\ \E c \in task[t].old :
          \/ /\ \A x \in Track : c \notin Assigned(x)
             /\ task' = [task EXCEPT ![t].pc = "drop", ![t].found = c, ![t].old = @ \ {c}]
          \/ /\ \E x \in Track : c \in Assigned(x)
             /\ \E U \in SUBSET {u \in Task : task[u].pc = "assign" /\ task[u].found = c} :
                   task' = [u \in Task |->
                       IF u \in U THEN [task[u] EXCEPT !.found = None]
                       ELSE IF u = t THEN [task[u] EXCEPT !.old = @ \ {c}]
                       ELSE task[u]]
    /\ UNCHANGED <<trip, route, used, assign, jobs, lock, legs, lost, stray, faults>>

(* Corridors C go, and the assignments to them with them.                  *)
Drop(C) ==
    /\ route' = [c \in Corridor |-> IF c \in C THEN None ELSE route[c]]
    /\ assign' = [x \in Track |-> [l \in Leg |-> IF assign[x][l] \in C THEN None
                                                 ELSE assign[x][l]]]
    /\ lost' = lost \cup {x \in Track : Assigned(x) \cap C # {}}

(* The DELETE of one that had none.                                        *)
SyncDrop(t) ==
    /\ task[t].pc = "drop"
    /\ Drop({task[t].found})
    /\ task' = Then(t, [task[t] EXCEPT !.pc = "sync", !.found = None])
    /\ UNCHANGED <<trip, used, jobs, lock, legs, stray, faults>>

(* What comes after a run: a recompute has its next trip.                  *)
AfterRun(t) ==
    IF task[t].by = "job" THEN Idle
    ELSE [Idle EXCEPT !.pc = "next", !.by = "recompute", !.more = task[t].more]

(* The run is over: the lock goes with its transaction.                    *)
EndRun(t) ==
    /\ InRun(t)
    /\ task[t].pc = "sync" /\ task[t].old = {}
    /\ lock' = None
    /\ legs' = [legs EXCEPT ![task[t].track] = task[t].plan]
    /\ task' = [task EXCEPT ![t] = AfterRun(t)]
    /\ UNCHANGED <<trip, route, used, assign, jobs, lost, stray, faults>>

(* A request that only had corridors to recount.                           *)
EndSync(t) ==
    /\ task[t].pc = "sync" /\ task[t].old = {} /\ task[t].by = "request"
    /\ task' = [task EXCEPT ![t] = Idle]
    /\ UNCHANGED <<trip, route, used, assign, jobs, lock, legs, lost, stray, faults>>

(* Mutant: a job that fails is not tried again.                            *)
RetryNever(x) == jobs

Retry(x) == jobs \cup {x}

(* A task that ends may leave a statement behind.                          *)
Behind(t) ==
    {Idle} \cup IF task[t].pc \in {"clear", "create", "assign", "drop"}
                THEN {[task[t] EXCEPT !.by = "late"]} ELSE {}

(* The run fails.  The queue tries the job of a run again, until it gives  *)
(* up; a recompute goes on without the trip.                               *)
RunFails(t) ==
    LET x == task[t].track
    IN  /\ InRun(t)
        /\ lock' = None
        /\ \/ /\ task[t].by = "job"
              /\ jobs' = (IF trip[x] = "there" THEN Retry(x) ELSE jobs)
              /\ UNCHANGED lost
           \/ /\ lost' = lost \cup {x}
              /\ UNCHANGED jobs
        /\ UNCHANGED <<trip, route, used, assign, legs, stray>>

(* A request fails or is dropped, a recompute perhaps within a run.        *)
RequestEnds(t) ==
    /\ task[t].by # "job"
    /\ lock' = IF InRun(t) THEN None ELSE lock
    /\ lost' = IF InRun(t) THEN lost \cup {task[t].track} ELSE lost
    /\ UNCHANGED <<trip, route, used, assign, jobs, legs, stray>>

(* The INSERT of an assignment whose trip, corridor or variant is gone.    *)
AssignFails(t) ==
    /\ task[t].pc = "assign"
    /\ ~(trip[task[t].track] = "there" /\ There(task[t].found))
    /\ \/ /\ RunFails(t)
          /\ task' = [task EXCEPT ![t] = AfterRun(t)]
       \/ /\ Late(t)
          /\ task' = [task EXCEPT ![t] = Idle]
          /\ UNCHANGED <<trip, route, used, assign, jobs, lock, legs, lost, stray>>
    /\ UNCHANGED faults

(* A statement fails, a timeout or a closed connection drops the task, or  *)
(* the process restarts, which ends one task after the other.              *)
Fail(t) ==
    /\ task[t] # Idle /\ ~Late(t)
    /\ faults < MaxFaults
    /\ faults' = faults + 1
    /\ \/ /\ RunFails(t)
          /\ task' = [task EXCEPT ![t] = AfterRun(t)]
       \/ /\ RunFails(t) \/ RequestEnds(t)
          /\ \E left \in Behind(t) : task' = [task EXCEPT ![t] = left]

-----------------------------------------------------------------------------
(* purge_track, or a merge that absorbs the trip: its corridors are read,  *)
(* ...                                                                     *)
Purge(t, x) ==
    /\ task[t] = Idle
    /\ trip[x] = "there"
    /\ task' = [task EXCEPT ![t] = [Idle EXCEPT !.pc = "purge", !.track = x,
                                                !.old = Assigned(x)]]
    /\ UNCHANGED <<trip, route, used, assign, jobs, lock, legs, lost, stray, faults>>

(* ... the row goes, with all that refers to it, and they are recounted.   *)
DeleteTrack(t) ==
    /\ task[t].pc = "purge"
    /\ trip' = [trip EXCEPT ![task[t].track] = "gone"]
    /\ assign' = [assign EXCEPT ![task[t].track] = NoLegs]
    /\ jobs' = jobs \ {task[t].track}
    /\ task' = [task EXCEPT ![t].pc = "sync", ![t].track = None]
    /\ UNCHANGED <<route, used, lock, legs, lost, stray, faults>>

(* corridor_detail of a corridor without trips.                            *)
OpenCorridor(t, c) ==
    /\ task[t] = Idle
    /\ Empty(c)
    /\ task' = [task EXCEPT ![t] = [Idle EXCEPT !.pc = "sync", !.old = {c}]]
    /\ UNCHANGED <<trip, route, used, assign, jobs, lock, legs, lost, stray, faults>>

(* prune_empty_corridors_for_car, which the summary page calls: the        *)
(* corridors without trips when the statement began, ...                   *)
OpenSummary(t) ==
    /\ task[t] = Idle
    /\ \E c \in Corridor : Empty(c)
    /\ task' = [task EXCEPT ![t] = [Idle EXCEPT !.pc = "prune",
                                                !.old = {c \in Corridor : Empty(c)}]]
    /\ UNCHANGED <<trip, route, used, assign, jobs, lock, legs, lost, stray, faults>>

(* ... which go; one that has been given a trip since may go or stay.      *)
Prune(t) ==
    /\ task[t].pc = "prune"
    /\ \E C \in SUBSET task[t].old :
          /\ {c \in task[t].old : Empty(c)} \subseteq C
          /\ Drop(C)
    /\ task' = [task EXCEPT ![t] = Idle]
    /\ UNCHANGED <<trip, used, jobs, lock, legs, stray, faults>>

(* recompute_car: every assignment of the car goes, and the newest trips   *)
(* are to be processed.                                                    *)
Recompute(t, newest) ==
    /\ task[t] = Idle
    /\ newest \subseteq {x \in Track : trip[x] = "there"}
    /\ assign' = [x \in Track |-> NoLegs]
    /\ lost' = lost \cup {x \in Track : trip[x] = "there"}
    /\ task' = [task EXCEPT ![t] = [Idle EXCEPT !.pc = "next", !.by = "recompute",
                                                !.more = newest]]
    /\ UNCHANGED <<trip, route, used, jobs, lock, legs, stray, faults>>

(* The next trip of a recompute, if it is still there.                     *)
RecomputeNext(t, x, plan) ==
    /\ task[t].pc = "next"
    /\ x \in task[t].more
    /\ \/ /\ trip[x] = "there"
          /\ LockFree
          /\ lock' = t
          /\ task' = [task EXCEPT ![t] = Run(x, "recompute", plan, @.more \ {x})]
       \/ /\ trip[x] = "gone"
          /\ task' = [task EXCEPT ![t].more = @ \ {x}]
          /\ UNCHANGED lock
    /\ UNCHANGED <<trip, route, used, assign, jobs, legs, lost, stray, faults>>

(* After the last one, the corridors left without trips are pruned.        *)
RecomputeEnd(t) ==
    /\ task[t].pc = "next" /\ task[t].more = {}
    /\ task' = [task EXCEPT ![t] = [Idle EXCEPT !.pc = "prune",
                                                !.old = {c \in Corridor : Empty(c)}]]
    /\ UNCHANGED <<trip, route, used, assign, jobs, lock, legs, lost, stray, faults>>

Next ==
    \/ \E x \in Track : Enqueue(x)
    \/ \E t \in Task :
          \/ \E x \in Track, plan \in Plan : StartJob(t, x, plan) \/ RecomputeNext(t, x, plan)
          \/ \E x \in Track : Purge(t, x)
          \/ \E c \in Corridor : OpenCorridor(t, c)
          \/ \E newest \in SUBSET Track : Recompute(t, newest)
          \/ Clear(t) \/ Find(t) \/ Create(t) \/ Assign(t) \/ SyncCount(t) \/ SyncDrop(t)
          \/ EndRun(t) \/ EndSync(t) \/ AssignFails(t) \/ Fail(t) \/ DeleteTrack(t)
          \/ OpenSummary(t) \/ Prune(t) \/ RecomputeEnd(t)

Spec == Init /\ [][Next]_vars

-----------------------------------------------------------------------------
TypeOK ==
    /\ trip \in [Track -> {"new", "there", "gone"}]
    /\ route \in [Corridor -> Route \cup {None}]
    /\ used \subseteq Corridor
    /\ assign \in [Track -> [Leg -> Corridor \cup {None}]]
    /\ jobs \subseteq Track
    /\ lock \in Task \cup {None}
    /\ task \in [Task -> TaskState]
    /\ legs \in [Track -> Plan]
    /\ lost \subseteq Track
    /\ stray \subseteq Corridor
    /\ faults \in 0..MaxFaults

(* "Corridor matching is check-then-insert, so two concurrent runs could   *)
(* each create a corridor for the same origin/destination and split its    *)
(* statistics" (route_opt/job.rs): no route ever has two corridors, but    *)
(* for one whose INSERT was on the way when its run was dropped: the lock  *)
(* "is released even if this task is dropped", before the INSERT commits.  *)
NoTwins ==
    \A c, d \in Corridor \ stray : There(c) /\ route[c] = route[d] => c = d

RunOf(x) == \E t \in Task : InRun(t) /\ task[t].track = x

(* A trip that is there has an assignment for every leg its last completed *)
(* run saw, to a corridor of the leg's route, and no other, unless a run   *)
(* is under way or queued to repair it: "a run interrupted between         *)
(* clearing and re-writing a track's assignments is repaired by the job    *)
(* queue retrying it".  The exceptions, `lost', are trips whose corridor   *)
(* was counted empty or pruned while the assignment came, whose job gave   *)
(* up, whom a recompute cleared and did not get to, or on whom a dropped   *)
(* run's statement came late.                                              *)
RoutesFollowTrips ==
    \A x \in Track \ (jobs \cup lost) :
        trip[x] = "there" /\ ~RunOf(x) =>
            \A l \in Leg :
                IF l \in DOMAIN legs[x]
                THEN assign[x][l] # None /\ route[assign[x][l]] = legs[x][l]
                ELSE assign[x][l] = None
=============================================================================
