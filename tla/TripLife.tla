------------------------------ MODULE TripLife ------------------------------
(***************************************************************************)
(* The trips of one car from /start to purge (ingest/mod.rs, trips/mod.rs, *)
(* trips/edit.rs and the finalize job of jobs/mod.rs): what the phone's    *)
(* tracking ids refer to and where its samples end up, while trips are     *)
(* finished, merged, split, deleted, pruned and purged around them.        *)
(*                                                                         *)
(* A task is a request or a job under way; its steps are the statements    *)
(* whose order matters.  It may fail at any step, or be dropped with its   *)
(* client.  What hangs off a trip besides its points (cached statistics,   *)
(* job rows in detail) is in TrackStats and TrackJobs.                     *)
(***************************************************************************)
EXTENDS Naturals, FiniteSets, FiniteSetsExt

CONSTANTS
    Trip,           \* trip ids, each used once
    NoTrip,         \* "no trip"
    Start,          \* the instants the phone starts trips at: its tracking ids
    Sent,           \* the samples it records, of a tracking id and an instant
    Task,           \* requests and jobs the server can have under way
    Grace,          \* LATE_SAMPLE_GRACE
    Skew,           \* START_SKEW, FUTURE_SKEW
    MergeGap,       \* MAX_MERGE_GAP
    StaleAfter,     \* silence after which an open trip is finished
    Retention,      \* raw_retention_days; 0: never prune
    EmptyMax,       \* a trip of at most so many points is empty (1)
    MinPart,        \* points each part of a split needs (2)
    LastInstant,    \* bound: latest instant a sample is recorded at
    MaxTime         \* bound: the clock

Instant == 1..LastInstant

Sample == [key : Start, at : Instant]

ASSUME LifeAssumption ==
    /\ NoTrip \notin Trip
    /\ Start \subseteq Instant
    /\ Sent \subseteq Sample
    /\ {Grace, Skew, MergeGap, StaleAfter, Retention, EmptyMax, MinPart, LastInstant, MaxTime} \subseteq Nat

VARIABLES
    now,        \* the clock
    trip,       \* the tracks row of each id, with its points
    alias,      \* track_aliases: the trip that absorbed the one of a tracking id
    job,        \* the finalize job of each trip
    task,       \* what each task is doing
    acked,      \* history: samples the server said it stored, but for those of
                \* trips since deleted, pruned or purged while empty
    raced,      \* history: samples that reached a trip about to be deleted
    started,    \* history: tracking ids of trips not deleted or purged
    seen,       \* history: the points finalize last saw on each trip, {NoSample} before
    unqueued    \* history: trips it has not seen all of, and was not queued for in the end

vars == <<now, trip, alias, job, task, acked, raced, started, seen, unqueued>>

-----------------------------------------------------------------------------
NoSample == [key |-> 0, at |-> 0]

TripRow == [state : {"unused", "live", "gone"}, key : Nat, start : Nat, end : Nat,
            finished : BOOLEAN, pruned : BOOLEAN, points : SUBSET Sample]

(* A row of tracks; `end` is finished_at, 0 for NULL.                      *)
LiveTrip(key, end, finished, points) ==
    [state |-> "live", key |-> key, start |-> key, end |-> end,
     finished |-> finished, pruned |-> FALSE, points |-> points]

Unused == [LiveTrip(0, 0, FALSE, {}) EXCEPT !.state = "unused"]

Gone == [Unused EXCEPT !.state = "gone"]

Live == {t \in Trip : trip[t].state = "live"}

(* The (track_id, recorded_at) keys of a trip: a row may hold the fields   *)
(* of several samples of that instant, filled in by a merge.               *)
Rows(points) == {s.at : s \in points}

EndOf(t) == IF trip[t].end = 0 THEN trip[t].start ELSE trip[t].end

OwnTrip(k) == {t \in Live : trip[t].key = k}

(* TRACK_BY_KEY.                                                           *)
ByKey(k) == IF OwnTrip(k) # {} THEN CHOOSE t \in OwnTrip(k) : TRUE ELSE alias[k]

(* prepare_sample: may a sample recorded at `at` still go to trip t?       *)
Accepts(t, at) ==
    /\ at + Skew >= trip[t].start
    /\ IF trip[t].finished THEN at <= EndOf(t) + Grace ELSE at <= now + Skew

-----------------------------------------------------------------------------
PC == {"idle", "insert", "landed", "queue", "purge", "merge", "moved", "split"}

(* A task: its trip, the trip a merge absorbs, the sample it inserts, the  *)
(* end or the instant of an edit, the points a merge has moved, the trips  *)
(* it will queue finalize for.                                             *)
TaskState == [pc : PC, trip : Trip \union {NoTrip}, other : Trip \union {NoTrip},
              sample : Sample \union {NoSample}, at : Nat, moved : SUBSET Sample,
              queue : SUBSET Trip]

IdleTask == [pc |-> "idle", trip |-> NoTrip, other |-> NoTrip, sample |-> NoSample,
             at |-> 0, moved |-> {}, queue |-> {}]

Idle(p) == task[p].pc = "idle"

Becomes(p, state) == task' = [task EXCEPT ![p] = state]

(* The task goes on to queue finalize for these trips.                     *)
Queueing(T) == [IdleTask EXCEPT !.pc = "queue", !.queue = T]

(* The trips a task has finished, reshaped or added points to and is yet   *)
(* to queue finalize for.                                                  *)
Owes(p) == IF task[p].pc = "landed" THEN {t \in {task[p].trip} : trip[t].finished} ELSE task[p].queue

(* Some task is about to delete the trip, whatever reaches it.             *)
Doomed(t) == \E p \in Task : \/ task[p].pc \in {"merge", "moved"} /\ task[p].other = t
                             \/ task[p].pc = "purge" /\ task[p].trip = t

-----------------------------------------------------------------------------
(* The rows a merge's transaction has locked: the points it moves and, by  *)
(* their foreign key, the trip it moves them to.  Other tasks wait for     *)
(* them; where it waits for another in turn, one of the two fails.         *)
Locks(p) == IF task[p].pc = "moved" /\ task[p].moved # {} THEN {task[p].trip, task[p].other} ELSE {}

Locked(t) == \E p \in Task : t \in Locks(p)

PointsLocked(t) == \E p \in Task : t \in Locks(p) /\ t = task[p].other

-----------------------------------------------------------------------------
(* Bound: one more trip can be started, with ids for the splits under way. *)
IdsLeft == Cardinality({t \in Trip : trip[t].state = "unused"})
              > Cardinality({p \in Task : task[p].pc = "split"})

(* jobs::enqueue of finalize.                                              *)
Enqueue(T) ==
    /\ job' = [t \in Trip |-> IF t \in T \cap Live THEN "queued" ELSE job[t]]
    /\ unqueued' = unqueued \ T

(* The histories of a trip end with it.                                    *)
Forget(t) ==
    /\ seen' = [seen EXCEPT ![t] = {NoSample}]
    /\ unqueued' = unqueued \ {t}

(* DELETE FROM tracks, with the rows that cascade: points, aliases, jobs.  *)
DeleteTracks(t) ==
    /\ trip' = [trip EXCEPT ![t] = Gone]
    /\ alias' = [k \in Instant |-> IF alias[k] = t THEN NoTrip ELSE alias[k]]
    /\ job' = [job EXCEPT ![t] = "none"]
    /\ started' = started \ ({trip[t].key} \union {k \in Instant : alias[k] = t})
    /\ Forget(t)

-----------------------------------------------------------------------------
Init ==
    /\ now = 1
    /\ trip = [t \in Trip |-> Unused]
    /\ alias = [k \in Instant |-> NoTrip]
    /\ job = [t \in Trip |-> "none"]
    /\ task = [p \in Task |-> IdleTask]
    /\ acked = {} /\ raced = {} /\ started = {}
    /\ seen = [t \in Trip |-> {NoSample}]
    /\ unqueued = {}

Tick ==
    /\ now < MaxTime
    /\ now' = now + 1
    /\ UNCHANGED <<trip, alias, job, task, acked, raced, started, seen, unqueued>>

(* /start, first or retried: one row per tracking id.                      *)
TrackStart(k) ==
    /\ OwnTrip(k) = {}
    /\ IdsLeft
    /\ \E t \in Trip : /\ trip[t].state = "unused"
                       /\ trip' = [trip EXCEPT ![t] = LiveTrip(k, 0, FALSE, {})]
    /\ started' = started \union {k}
    /\ UNCHANGED <<now, alias, job, task, acked, raced, seen, unqueued>>

(* A sample arrives, possibly again: its trip is looked up and it is       *)
(* checked against the row read ...                                        *)
ResolveTrack(p, s) ==
    LET t == ByKey(s.key)
    IN  /\ Idle(p)
        /\ t # NoTrip
        /\ Accepts(t, s.at)
        /\ Becomes(p, [IdleTask EXCEPT !.pc = "insert", !.trip = t, !.sample = s])
        /\ UNCHANGED <<now, trip, alias, job, acked, raced, started, seen, unqueued>>

(* ... and written, unless its trip has gone (the foreign key) or holds a  *)
(* point of that instant.  A key a merge is moving there is waited for.    *)
InsertPoints(p) ==
    LET t == task[p].trip
        s == task[p].sample
        new == t \in Live /\ s.at \notin Rows(trip[t].points)
    IN  /\ task[p].pc = "insert"
        /\ \A q \in Task : task[q].pc = "moved" /\ task[q].trip = t => s.at \notin Rows(task[q].moved)
        /\ trip' = IF new THEN [trip EXCEPT ![t].points = @ \union {s}] ELSE trip
        /\ acked' = IF new THEN acked \union {s} ELSE acked
        /\ raced' = IF new /\ Doomed(t) THEN raced \union {s} ELSE raced
        /\ Becomes(p, IF new THEN [task[p] EXCEPT !.pc = "landed"] ELSE IdleTask)
        /\ UNCHANGED <<now, alias, job, started, seen, unqueued>>

(* Mutation of the next: finalize is left as it was.                       *)
LateSamplesIgnored(p) ==
    /\ task[p].pc = "landed"
    /\ Becomes(p, IdleTask)
    /\ UNCHANGED <<now, trip, alias, job, acked, raced, started, seen, unqueued>>

(* after_points_landed: finalize is queued again if the trip is finished   *)
(* by now (it fails in Abort).                                             *)
AfterPointsLanded(p) ==
    /\ task[p].pc = "landed"
    /\ Enqueue(Owes(p))
    /\ Becomes(p, IdleTask)
    /\ UNCHANGED <<now, trip, alias, acked, raced, started, seen>>

(* finish_track's guarded UPDATE, for /stop, the web and the sweeper.      *)
FinishTrack(p, t) ==
    LET last == IF trip[t].points = {} THEN trip[t].start ELSE Max(Rows(trip[t].points))
        limit == IF now > trip[t].start THEN now ELSE trip[t].start
    IN  /\ Idle(p)
        /\ t \in Live
        /\ ~trip[t].finished
        /\ trip' = [trip EXCEPT ![t].finished = TRUE, ![t].end = IF last < limit THEN last ELSE limit]
        /\ Becomes(p, Queueing({t}))
        /\ UNCHANGED <<now, alias, job, acked, raced, started, seen, unqueued>>

(* Mutation of the next: a trip without points is not looked at.           *)
StaleWithPoints(t) == trip[t].points # {} /\ Max(Rows(trip[t].points)) + StaleAfter < now

(* sweep_stale_open_trips.                                                 *)
Stale(t) == (IF trip[t].points = {} THEN trip[t].start ELSE Max(Rows(trip[t].points))) + StaleAfter < now

Sweep(p, t) == Stale(t) /\ FinishTrack(p, t)

(* Finalize is queued after a finish or an edit (it fails in Abort).       *)
QueueFinalize(p) ==
    /\ task[p].pc = "queue"
    /\ Enqueue(Owes(p))
    /\ Becomes(p, IdleTask)
    /\ UNCHANGED <<now, trip, alias, acked, raced, started, seen>>

-----------------------------------------------------------------------------
(* Mutation of the next: a trip with one point more is empty too.          *)
FinalizeOffByOne(p, t) ==
    LET empty == Cardinality(Rows(trip[t].points)) <= EmptyMax + 1
    IN  /\ Idle(p)
        /\ job[t] = "queued"
        /\ empty => now >= EndOf(t) + Grace
        /\ job' = [job EXCEPT ![t] = IF empty THEN "running" ELSE "none"]
        /\ seen' = IF empty THEN seen ELSE [seen EXCEPT ![t] = trip[t].points]
        /\ unqueued' = IF empty THEN unqueued ELSE unqueued \ {t}
        /\ Becomes(p, IF empty THEN [IdleTask EXCEPT !.pc = "purge", !.trip = t] ELSE IdleTask)
        /\ UNCHANGED <<now, trip, alias, acked, raced, started>>

(* finalize reads the trip and counts its points: more than EmptyMax and   *)
(* the analysis is queued; else, once no late sample can come, it goes on  *)
(* to purge it, and before that it looks again later.                      *)
Finalize(p, t) ==
    LET empty == Cardinality(Rows(trip[t].points)) <= EmptyMax
    IN  /\ Idle(p)
        /\ job[t] = "queued"
        /\ empty => now >= EndOf(t) + Grace
        /\ job' = [job EXCEPT ![t] = IF empty THEN "running" ELSE "none"]
        /\ seen' = IF empty THEN seen ELSE [seen EXCEPT ![t] = trip[t].points]
        /\ unqueued' = IF empty THEN unqueued ELSE unqueued \ {t}
        /\ Becomes(p, IF empty THEN [IdleTask EXCEPT !.pc = "purge", !.trip = t] ELSE IdleTask)
        /\ UNCHANGED <<now, trip, alias, acked, raced, started>>

(* purge_track, for the job or ...  The points that were not late for      *)
(* finalize were to go if they are as few as it takes for none.            *)
PurgeTrack(p) ==
    LET t == task[p].trip
        counted == trip[t].points \ raced
    IN  /\ task[p].pc = "purge"
        /\ ~Locked(t)
        /\ IF t \in Live
           THEN /\ DeleteTracks(t)
                /\ acked' = IF Cardinality(Rows(counted)) <= EmptyMax THEN acked \ counted ELSE acked
           ELSE UNCHANGED <<trip, alias, job, started, seen, unqueued, acked>>
        /\ Becomes(p, IdleTask)
        /\ UNCHANGED <<now, raced>>

(* ... for the owner.                                                      *)
DeleteTrip(t) ==
    /\ t \in Live
    /\ ~Locked(t)
    /\ DeleteTracks(t)
    /\ acked' = acked \ trip[t].points
    /\ UNCHANGED <<now, task, raced>>

(* Retention (statement by statement in TrackStats).                       *)
PruneRawPoints(t) ==
    /\ Retention > 0
    /\ t \in Live
    /\ trip[t].finished
    /\ ~trip[t].pruned
    /\ trip[t].start + Retention < now
    /\ ~PointsLocked(t)
    /\ trip' = [trip EXCEPT ![t].points = {}, ![t].pruned = TRUE]
    /\ acked' = acked \ trip[t].points
    /\ UNCHANGED <<now, alias, job, task, raced, started, seen, unqueued>>

-----------------------------------------------------------------------------
(* merge_trips, of two trips: its checks read the rows ...                 *)
CheckMerge(p, keep, other) ==
    LET ends == {trip[keep].end, trip[other].end} \ {0}
        last == IF ends = {} THEN trip[keep].start ELSE Max(ends)
    IN  /\ Idle(p)
        /\ {keep, other} \subseteq Live
        /\ \A t \in {keep, other} : trip[t].finished /\ ~trip[t].pruned
        /\ trip[keep].start < trip[other].start
        /\ trip[other].start <= EndOf(keep) + MergeGap
        /\ \A t \in Live \ {keep, other} : trip[t].start \notin trip[keep].start..last
        /\ Becomes(p, [IdleTask EXCEPT !.pc = "merge", !.trip = keep, !.other = other, !.at = last])
        /\ UNCHANGED <<now, trip, alias, job, acked, raced, started, seen, unqueued>>

(* ... its transaction moves the absorbed trip's points, which the others  *)
(* see when it commits; a trip to keep that has gone fails it ...          *)
MoveMerged(p) ==
    LET keep == task[p].trip
        moved == trip[task[p].other].points
    IN  /\ task[p].pc = "merge"
        /\ ~PointsLocked(task[p].other)
        /\ Becomes(p, IF keep \notin Live /\ moved # {} THEN IdleTask
                      ELSE [task[p] EXCEPT !.pc = "moved", !.moved = moved])
        /\ UNCHANGED <<now, trip, alias, job, acked, raced, started, seen, unqueued>>

(* The trips and aliases when a merge commits: what landed on the absorbed *)
(* trip since its points were moved goes with it.                          *)
Merged(keep, other, last, moved) ==
    LET kept == [trip EXCEPT ![keep].end = last, ![keep].points = @ \union moved]
    IN  [kept EXCEPT ![other] = Gone]

(* Mutation of the next: older aliases of the absorbed trip go with it.    *)
FollowMergeOnce(keep, other) ==
    [k \in Instant |-> IF other \in Live /\ trip[other].key = k THEN keep
                       ELSE IF alias[k] = other THEN NoTrip ELSE alias[k]]

FollowMerge(keep, other) ==
    [k \in Instant |-> IF alias[k] = other \/ (other \in Live /\ trip[other].key = k)
                       THEN keep ELSE alias[k]]

(* ... and it repoints the aliases, deletes the absorbed trip and commits. *)
CommitMerge(p) ==
    LET keep == task[p].trip
        other == task[p].other
    IN  /\ task[p].pc = "moved"
        /\ \A q \in Task \ {p} : other \notin Locks(q)
        /\ IF keep \notin Live
           THEN /\ UNCHANGED <<trip, alias, job, raced, seen, unqueued>>
                /\ Becomes(p, IdleTask)
           ELSE /\ trip' = IF other \in Live THEN Merged(keep, other, task[p].at, task[p].moved)
                           ELSE [trip EXCEPT ![keep].end = task[p].at]
                /\ alias' = FollowMerge(keep, other)
                /\ job' = [job EXCEPT ![other] = "none"]
                /\ raced' = IF Doomed(keep) THEN raced \union task[p].moved ELSE raced
                /\ Forget(other)
                /\ Becomes(p, Queueing({keep}))
        /\ UNCHANGED <<now, acked, started>>

(* split_trip: its checks ...                                              *)
CheckSplit(p, t, at) ==
    LET rows == Rows(trip[t].points)
    IN  /\ Idle(p)
        /\ IdsLeft
        /\ t \in Live
        /\ trip[t].finished
        /\ Cardinality({x \in rows : x < at}) >= MinPart
        /\ Cardinality({x \in rows : x >= at}) >= MinPart
        /\ Becomes(p, [IdleTask EXCEPT !.pc = "split", !.trip = t, !.at = at])
        /\ UNCHANGED <<now, trip, alias, job, acked, raced, started, seen, unqueued>>

(* ... and its transaction, which fails if a trip starts at that instant,  *)
(* and ends what is left at its last point, a late one too.                *)
SplitTrip(p) ==
    LET t == task[p].trip
        at == task[p].at
        left == {s \in trip[t].points : s.at < at}
        right == trip[t].points \ left
        end == IF left = {} THEN 0 ELSE Max(Rows(left))
    IN  /\ task[p].pc = "split"
        /\ ~PointsLocked(t)
        /\ IF t \notin Live \/ OwnTrip(at) # {}
           THEN /\ Becomes(p, IdleTask)
                /\ UNCHANGED trip
           ELSE \E new \in Trip :
                  /\ trip[new].state = "unused"
                  /\ trip' = [trip EXCEPT ![t].points = left, ![t].end = end,
                                          ![new] = LiveTrip(at, trip[t].end, TRUE, right)]
                  /\ Becomes(p, Queueing({t, new}))
        /\ UNCHANGED <<now, alias, job, acked, raced, started, seen, unqueued>>

-----------------------------------------------------------------------------
(* A job that was purging its trip is queued to be tried again.            *)
Requeued(P) ==
    [t \in Trip |-> IF job[t] = "running" /\ \E p \in P : task[p].pc = "purge" /\ task[p].trip = t
                    THEN "queued" ELSE job[t]]

(* Trips that some task was to queue finalize for, and does not.           *)
Unqueued(T) == {t \in Live : t \in unqueued \union T /\ seen[t] # trip[t].points}

(* A statement fails, or the request is dropped with its client: what is   *)
(* not committed is rolled back, and what is left to do is left: nobody    *)
(* queues finalize for the trips it was to be queued for.                  *)
Abort(p) ==
    /\ ~Idle(p)
    /\ Becomes(p, IdleTask)
    /\ job' = Requeued({p})
    /\ unqueued' = Unqueued(Owes(p))
    /\ UNCHANGED <<now, trip, alias, acked, raced, started, seen>>

(* The process dies; a job it was running is claimed again.                *)
Crash ==
    /\ task' = [p \in Task |-> IdleTask]
    /\ job' = Requeued(Task)
    /\ unqueued' = Unqueued(UNION {Owes(p) : p \in Task})
    /\ UNCHANGED <<now, trip, alias, acked, raced, started, seen>>

-----------------------------------------------------------------------------
(* What a task under way does next.                                        *)
Goes(p) ==
    \/ InsertPoints(p) \/ AfterPointsLanded(p) \/ QueueFinalize(p) \/ PurgeTrack(p)
    \/ MoveMerged(p) \/ CommitMerge(p) \/ SplitTrip(p)

(* The steps in which nothing fails.                                       *)
Proceeds ==
    \/ Tick
    \/ \E k \in Start : TrackStart(k)
    \/ \E p \in Task, s \in Sent : ResolveTrack(p, s)
    \/ \E p \in Task, t \in Trip : FinishTrack(p, t) \/ Finalize(p, t)
    \/ \E t \in Trip : DeleteTrip(t) \/ PruneRawPoints(t)
    \/ \E p \in Task, keep \in Trip, other \in Trip : CheckMerge(p, keep, other)
    \/ \E p \in Task, t \in Trip, at \in Instant : CheckSplit(p, t, at)
    \/ \E p \in Task : Goes(p)

Next == Proceeds \/ (\E p \in Task : Abort(p)) \/ Crash

Spec == Init /\ [][Next]_vars

(* Time passes, requests go on, and the sweeper's and the worker's loops   *)
(* come round to every trip, whatever requests come in between; failures   *)
(* and restarts come to an end.                                            *)
Fairness ==
    /\ WF_vars(Tick)
    /\ \A p \in Task : WF_vars(Goes(p))
    /\ \A t \in Trip : /\ SF_vars(\E p \in Task : Sweep(p, t))
                       /\ SF_vars(\E p \in Task : Finalize(p, t))
    /\ <>[][Proceeds]_vars

FairSpec == Spec /\ Fairness

-----------------------------------------------------------------------------
TypeOK ==
    /\ now \in Nat
    /\ trip \in [Trip -> TripRow]
    /\ alias \in [Instant -> Trip \union {NoTrip}]
    /\ job \in [Trip -> {"none", "queued", "running"}]
    /\ task \in [Task -> TaskState]
    /\ {acked, raced} \subseteq SUBSET Sample
    /\ started \in SUBSET Start
    /\ seen \in [Trip -> SUBSET (Sample \union {NoSample})]
    /\ unqueued \in SUBSET Trip
    /\ \A t \in Trip \ Live : trip[t].points = {} /\ job[t] = "none"

Kept(s) == \E t \in Live : s \in trip[t].points

(* A stored sample stays in some trip of the car through merges, splits,   *)
(* late drains and purges, unless its trip was deleted by the owner,       *)
(* pruned, or purged with no more points than finalize takes for none, or  *)
(* it reached a trip that a merge or finalize was already set to delete.   *)
OnlyRacesLoseSamples == \A s \in acked \ raced : Kept(s)

(* A tracking id the server knows resolves to a trip, through any chain of *)
(* merges, until that trip is deleted or purged.                           *)
KeysResolve == \A k \in started : ByKey(k) # NoTrip

(* after_points_landed, finish_track and after_reshape: a finished trip    *)
(* whose points finalize has not seen has a finalize queued or about to    *)
(* be, so the analysis runs on the complete trip and an empty one goes;    *)
(* unless the last task that was to queue it failed or was dropped between *)
(* its commit and that, which nothing makes up for (`unqueued`).           *)
ChangesAreFinalized ==
    \A t \in Live \ unqueued : trip[t].finished /\ ~trip[t].pruned /\ seen[t] # trip[t].points =>
        \/ job[t] # "none"
        \/ \E p \in Task : \/ task[p].pc = "landed" /\ task[p].trip = t
                           \/ t \in task[p].queue

(* The sweeper closes every trip whose phone went silent; and once         *)
(* finalize is queued for a trip that is empty and stays so, the trip is   *)
(* purged in the end: the job outlives a crash and waits out the grace.    *)
TripsComeToAnEnd ==
    \A t \in Trip :
        /\ t \in Live /\ ~trip[t].finished ~> t \notin Live \/ trip[t].finished
        /\ job[t] # "none" /\ trip[t].points = {} ~> t \notin Live \/ trip[t].points # {}
=============================================================================
