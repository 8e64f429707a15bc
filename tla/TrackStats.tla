----------------------------- MODULE TrackStats -----------------------------
(***************************************************************************)
(* The per-trip statistics cache: table track_stats, filled by             *)
(* trips/stats.rs and invalidated by the ingest handlers, the trip editor  *)
(* and the car editor while the sweeper, /stop and retention refill it.    *)
(*                                                                         *)
(* A reader uses the stored row when it is fresh and aggregates the points *)
(* live otherwise, so the cache is right when a fresh row never misses     *)
(* data.  recompute and mark_stale are two statements each, and any number *)
(* of them interleave: every statement is one action here.                 *)
(***************************************************************************)
EXTENDS Naturals

CONSTANTS
    Track,      \* trips
    Sample,     \* instants a trip can have a point at
    Proc,       \* server tasks: request handlers, the sweeper, maintenance
    Legacy,     \* trips without a powertrain snapshot: they read the car's
    NoTrack,    \* "no trip", for a task that is computing none
    MaxClock,   \* bound: ticks of the database clock
    MaxEdits    \* bound: edits of the car's fuel parameters

ASSUME StatsAssumption ==
    /\ Legacy \subseteq Track
    /\ NoTrack \notin Track
    /\ MaxClock \in Nat \ {0}
    /\ MaxEdits \in Nat

VARIABLES
    finished,   \* tracks.finished
    pruned,     \* tracks.points_pruned_at IS NOT NULL
    deleted,    \* rows of tracks that are gone (merge, purge, delete)
    points,     \* the track_points rows of each trip
    landed,     \* history: points ever accepted, whatever retention deleted
    dirtyAt,    \* tracks.stats_dirty_at
    row,        \* the track_stats row
    car,        \* version of the car's fuel parameters
    clock,      \* the database clock
    proc        \* what each server task is doing

vars == <<finished, pruned, deleted, points, landed, dirtyAt, row, car, clock, proc>>

-----------------------------------------------------------------------------
(* A stored row: whether it exists, its stale flag, what it was computed   *)
(* from and computed_at.  schema_version does not change while the server  *)
(* runs; a row of an older version is treated like a stale one.            *)
StatsRow == [present : BOOLEAN, stale : BOOLEAN, points : SUBSET Sample,
             car : 0..MaxEdits, at : 0..MaxClock]

NoRow == [present |-> FALSE, stale |-> FALSE, points |-> {}, car |-> 0, at |-> 0]

Op == {"none", "sample", "reshape", "finish", "sweep", "prune", "car"}

(* A task's program counter:                                               *)
(*   landed     its points are committed, `finished` not yet re-read       *)
(*   dirty/mark about to run the first/second statement of mark_stale      *)
(*   recompute  about to call recompute on one of its trips                *)
(*   upsert     statement 1 of recompute runs on a snapshot                *)
(*   recheck    about to run statement 2 of recompute                      *)
(*   prune      recompute returned true, the deletion is next              *)
(*   split/merge  an edit is validated, its transaction is next            *)
(*   carmark    the car is updated, its trips not yet marked               *)
PC == {"idle", "landed", "dirty", "mark", "recompute", "upsert", "recheck", "prune",
       "split", "merge", "carmark"}

Task == [pc : PC, op : Op, tracks : SUBSET Track, cur : Track \union {NoTrack},
         points : SUBSET Sample, car : 0..MaxEdits, at : 0..MaxClock]

Doing(pc, op, T, t, pts, c, at) ==
    [pc |-> pc, op |-> op, tracks |-> T, cur |-> t, points |-> pts, car |-> c, at |-> at]

Working(pc, op, T) == Doing(pc, op, T, NoTrack, {}, 0, 0)

Idle == Working("idle", "none", {})

(* The rest T of a list of trips to recompute, or idle at its end.         *)
NextTrack(op, T) == IF T = {} THEN Idle ELSE Working("recompute", op, T)

Running(op) == \E p \in Proc : proc[p].op = op

(* The condition every reader joins track_stats on.                        *)
Usable(t) == row[t].present /\ ~row[t].stale

MarkRows(T) ==
    [t \in Track |-> IF t \in T /\ row[t].present THEN [row[t] EXCEPT !.stale = TRUE] ELSE row[t]]

-----------------------------------------------------------------------------
(* Trips that ended before the table existed are finished and have no row. *)
Init ==
    /\ finished \in [Track -> BOOLEAN]
    /\ pruned = [t \in Track |-> FALSE]
    /\ deleted = {}
    /\ points = [t \in Track |-> {}]
    /\ landed = [t \in Track |-> {}]
    /\ dirtyAt = [t \in Track |-> 0]
    /\ row = [t \in Track |-> NoRow]
    /\ car = 0
    /\ clock = 1
    /\ proc = [p \in Proc |-> Idle]

Tick ==
    /\ clock < MaxClock
    \* bound: the clock's last value is left for tasks that only refill rows
    /\ clock + 1 = MaxClock => \A p \in Proc : proc[p].pc \notin {"landed", "dirty"}
    /\ clock' = clock + 1
    /\ UNCHANGED <<finished, pruned, deleted, points, landed, dirtyAt, row, car, proc>>

(* One batch commits a new point on each of the trips T it touches.  A     *)
(* point that is there already is a duplicate and touches nothing.         *)
InsertPoints(p, T, s) ==
    /\ proc[p].pc = "idle"
    /\ clock < MaxClock
    /\ T # {}
    /\ \A t \in T : t \notin deleted /\ s \notin points[t]
    /\ points' = [t \in Track |-> IF t \in T THEN points[t] \union {s} ELSE points[t]]
    /\ landed' = [t \in Track |-> IF t \in T THEN landed[t] \union {s} ELSE landed[t]]
    /\ proc' = [proc EXCEPT ![p] = Working("landed", "sample", T)]
    /\ UNCHANGED <<finished, pruned, deleted, dirtyAt, row, car, clock>>

(* after_points_landed re-reads `finished` once the points are committed.  *)
ReadFinished(p) ==
    /\ proc[p].pc = "landed"
    /\ LET ended == {t \in proc[p].tracks : finished[t] /\ t \notin deleted}
       IN  proc' = [proc EXCEPT ![p] = IF ended = {} THEN Idle ELSE Working("dirty", "sample", ended)]
    /\ UNCHANGED <<finished, pruned, deleted, points, landed, dirtyAt, row, car, clock>>

(* mark_stale, statement 1: the dirty timestamp on tracks.                 *)
MarkDirty(p) ==
    /\ proc[p].pc = "dirty"
    /\ dirtyAt' = [t \in Track |-> IF t \in proc[p].tracks \ deleted THEN clock ELSE dirtyAt[t]]
    /\ proc' = [proc EXCEPT ![p].pc = "mark"]
    /\ UNCHANGED <<finished, pruned, deleted, points, landed, row, car, clock>>

(* mark_stale, statement 2: the flag on the rows.  An edit goes on to      *)
(* recompute; an ingest handler is done.                                   *)
MarkStale(p) ==
    /\ proc[p].pc = "mark"
    /\ row' = MarkRows(proc[p].tracks)
    /\ proc' = [proc EXCEPT ![p] = IF @.op = "reshape" THEN NextTrack(@.op, @.tracks) ELSE Idle]
    /\ UNCHANGED <<finished, pruned, deleted, points, landed, dirtyAt, car, clock>>

(* recompute, statement 1 begins: it reads the points and the car from one *)
(* snapshot and NOW() from its start.  A deleted or pruned trip yields no  *)
(* row to insert and `false`: retention then skips the trip.               *)
BeginRecompute(p, t) ==
    /\ proc[p].pc = "recompute"
    /\ t \in proc[p].tracks
    /\ proc' = [proc EXCEPT ![p] =
            IF t \in deleted \/ pruned[t]
            THEN NextTrack(@.op, @.tracks \ {t})
            ELSE Doing("upsert", @.op, @.tracks \ {t}, t, points[t], car, clock)]
    /\ UNCHANGED <<finished, pruned, deleted, points, landed, dirtyAt, row, car, clock>>

(* Statement 1 commits: stale = false onto whatever the row has become.    *)
(* The row of a trip deleted meanwhile cannot be inserted (foreign key):   *)
(* an error, which each caller logs, except retention, whose pass ends.    *)
Upsert(p) ==
    LET task == proc[p]
    IN  /\ task.pc = "upsert"
        /\ IF task.cur \in deleted
           THEN /\ row' = row
                /\ proc' = [proc EXCEPT ![p] = IF task.op = "prune" THEN Idle
                                          ELSE NextTrack(task.op, task.tracks)]
           ELSE /\ row' = [row EXCEPT ![task.cur] =
                              [present |-> TRUE, stale |-> FALSE, points |-> task.points,
                               car |-> task.car, at |-> task.at]]
                /\ proc' = [proc EXCEPT ![p].pc = "recheck"]
        /\ UNCHANGED <<finished, pruned, deleted, points, landed, dirtyAt, car, clock>>

(* recompute, statement 2: a dirty mark at or after computed_at may belong *)
(* to points the snapshot missed, so the flag goes back.                   *)
Recheck(p) ==
    LET task == proc[p]
        t == task.cur
    IN  /\ task.pc = "recheck"
        /\ row' = IF t \notin deleted /\ dirtyAt[t] >= row[t].at THEN MarkRows({t}) ELSE row
        /\ proc' = [proc EXCEPT ![p] = IF task.op = "prune" THEN [@ EXCEPT !.pc = "prune"]
                                          ELSE NextTrack(task.op, task.tracks)]
        /\ UNCHANGED <<finished, pruned, deleted, points, landed, dirtyAt, car, clock>>

-----------------------------------------------------------------------------
(* The callers of recompute.                                               *)

(* /stop, the web's finish button and the sweeper of quiet trips.          *)
FinishTrack(p, t) ==
    /\ proc[p].pc = "idle"
    /\ t \notin deleted
    /\ ~finished[t]
    /\ finished' = [finished EXCEPT ![t] = TRUE]
    /\ proc' = [proc EXCEPT ![p] = Working("recompute", "finish", {t})]
    /\ UNCHANGED <<pruned, deleted, points, landed, dirtyAt, row, car, clock>>

(* Mutation of the next: the sweeper looks for missing rows only.          *)
RefillableMissingOnly == {t \in Track \ deleted : finished[t] /\ ~pruned[t] /\ ~row[t].present}

(* Trips the sweeper recomputes: finished, not pruned, without a fresh row.*)
Refillable == {t \in Track \ deleted : finished[t] /\ ~pruned[t] /\ ~Usable(t)}

(* One pass of the sweeper, the only task of its kind.                     *)
Sweep(p) ==
    /\ proc[p].pc = "idle"
    /\ ~Running("sweep")
    /\ Refillable # {}
    /\ proc' = [proc EXCEPT ![p] = Working("recompute", "sweep", Refillable)]
    /\ UNCHANGED <<finished, pruned, deleted, points, landed, dirtyAt, row, car, clock>>

(* One retention pass over the trips `due`; which trips are old enough is  *)
(* a matter of days and left open.                                         *)
Retain(p, due) ==
    /\ proc[p].pc = "idle"
    /\ ~Running("prune")
    /\ due # {}
    /\ \A t \in due : t \notin deleted /\ finished[t] /\ ~pruned[t]
    /\ proc' = [proc EXCEPT ![p] = Working("recompute", "prune", due)]
    /\ UNCHANGED <<finished, pruned, deleted, points, landed, dirtyAt, row, car, clock>>

(* The transaction that follows a successful recompute.                    *)
Prune(p) ==
    LET t == proc[p].cur
    IN  /\ proc[p].pc = "prune"
        /\ pruned' = IF t \in deleted THEN pruned ELSE [pruned EXCEPT ![t] = TRUE]
        /\ points' = [points EXCEPT ![t] = {}]
        /\ proc' = [proc EXCEPT ![p] = NextTrack(@.op, @.tracks)]
        /\ UNCHANGED <<finished, deleted, landed, dirtyAt, row, car, clock>>

(* The editor validates an edit first and commits it in a later            *)
(* transaction, which checks nothing again.  A split cuts off the points   *)
(* at or after an instant; each part needs points (two in the code, one    *)
(* here).                                                                  *)
CheckSplit(p, from, Cut) ==
    /\ proc[p].pc = "idle"
    /\ from \notin deleted
    /\ finished[from]
    /\ points[from] \intersect Cut # {} /\ points[from] \ Cut # {}
    /\ proc' = [proc EXCEPT ![p] = Doing("split", "reshape", {}, from, Cut, 0, 0)]
    /\ UNCHANGED <<finished, pruned, deleted, points, landed, dirtyAt, row, car, clock>>

(* The new trip `to` is born finished.  It copies the row of `from`: when  *)
(* that is gone, the transaction changes nothing.                          *)
Split(p, to) ==
    LET from == proc[p].cur
        moved == proc[p].points \intersect points[from]
    IN  /\ proc[p].pc = "split"
        /\ clock < MaxClock
        /\ to \notin deleted /\ ~finished[to] /\ landed[to] = {}
        /\ IF from \in deleted
           THEN /\ proc' = [proc EXCEPT ![p] = Idle]
                /\ UNCHANGED <<finished, points, landed>>
           ELSE /\ finished' = [finished EXCEPT ![to] = TRUE]
                /\ points' = [points EXCEPT ![from] = @ \ moved, ![to] = moved]
                /\ landed' = [landed EXCEPT ![from] = @ \ moved, ![to] = moved]
                /\ proc' = [proc EXCEPT ![p] = Working("dirty", "reshape", {from, to})]
        /\ UNCHANGED <<pruned, deleted, dirtyAt, row, car, clock>>

(* A merge moves every point of a finished trip to the kept one and        *)
(* deletes the absorbed trip, whose stored row goes with it.               *)
CheckMerge(p, keep, other) ==
    /\ proc[p].pc = "idle"
    /\ keep # other /\ {keep, other} \intersect deleted = {}
    /\ \A t \in {keep, other} : finished[t] /\ ~pruned[t]
    /\ proc' = [proc EXCEPT ![p] = Doing("merge", "reshape", {keep, other}, keep, {}, 0, 0)]
    /\ UNCHANGED <<finished, pruned, deleted, points, landed, dirtyAt, row, car, clock>>

(* Mutation of the next: the kept trip is recomputed without a dirty mark. *)
MergeWithoutMark(p) ==
    LET keep == proc[p].cur
        others == proc[p].tracks \ {keep}
        Joined(pts) == [t \in Track |-> IF t = keep THEN pts[keep] \union UNION {points[o] : o \in others}
                                        ELSE IF t \in others THEN {} ELSE pts[t]]
    IN  /\ proc[p].pc = "merge"
        /\ clock < MaxClock
        /\ keep \notin deleted
        /\ points' = Joined(points)
        /\ landed' = Joined(landed)
        /\ row' = [t \in Track |-> IF t \in others THEN NoRow ELSE row[t]]
        /\ deleted' = deleted \union others
        /\ proc' = [proc EXCEPT ![p] = Working("recompute", "reshape", {keep})]
        /\ UNCHANGED <<finished, pruned, dirtyAt, car, clock>>

(* Nothing can refer to a kept trip that is gone: the transaction fails.   *)
Merge(p) ==
    LET keep == proc[p].cur
        others == proc[p].tracks \ {keep}
        Joined(pts) == [t \in Track |-> IF t = keep THEN pts[keep] \union UNION {points[o] : o \in others}
                                        ELSE IF t \in others THEN {} ELSE pts[t]]
    IN  /\ proc[p].pc = "merge"
        /\ clock < MaxClock
        /\ IF keep \in deleted
           THEN /\ proc' = [proc EXCEPT ![p] = Idle]
                /\ UNCHANGED <<points, landed, row, deleted>>
           ELSE /\ points' = Joined(points)
                /\ landed' = Joined(landed)
                /\ row' = [t \in Track |-> IF t \in others THEN NoRow ELSE row[t]]
                /\ deleted' = deleted \union others
                /\ proc' = [proc EXCEPT ![p] = Working("dirty", "reshape", {keep})]
        /\ UNCHANGED <<finished, pruned, dirtyAt, car, clock>>

(* The owner deletes a trip, or finalize purges an empty one.              *)
PurgeTrack(t) ==
    /\ t \notin deleted
    /\ deleted' = deleted \union {t}
    /\ points' = [points EXCEPT ![t] = {}]
    /\ landed' = [landed EXCEPT ![t] = {}]
    /\ row' = [row EXCEPT ![t] = NoRow]
    /\ UNCHANGED <<finished, pruned, dirtyAt, car, clock, proc>>

(* update_car commits new fuel parameters ...                              *)
UpdateCar(p) ==
    /\ proc[p].pc = "idle"
    /\ car < MaxEdits
    /\ car' = car + 1
    /\ proc' = [proc EXCEPT ![p] = Working("carmark", "car", {})]
    /\ UNCHANGED <<finished, pruned, deleted, points, landed, dirtyAt, row, clock>>

(* ... and mark_stale_for_car flags the rows that read them.  It is one    *)
(* statement: it leaves no dirty timestamp.                                *)
MarkStaleForCar(p) ==
    /\ proc[p].pc = "carmark"
    /\ row' = MarkRows(Legacy)
    /\ proc' = [proc EXCEPT ![p] = Idle]
    /\ UNCHANGED <<finished, pruned, deleted, points, landed, dirtyAt, car, clock>>

(* Mutation of the next: retention swallows the error of recompute too,    *)
(* and deletes the points all the same.                                    *)
FailStillPrunes(p) ==
    /\ proc[p].pc # "idle"
    /\ proc' = [proc EXCEPT ![p] = IF @.op = "prune" /\ @.pc = "upsert"
                                   THEN [@ EXCEPT !.pc = "prune"] ELSE Idle]
    /\ UNCHANGED <<finished, pruned, deleted, points, landed, dirtyAt, row, car, clock>>

(* A task dies, or a statement of it fails and the error is swallowed:     *)
(* nothing it still owed is done.                                          *)
Fail(p) ==
    /\ proc[p].pc # "idle"
    /\ proc' = [proc EXCEPT ![p] = Idle]
    /\ UNCHANGED <<finished, pruned, deleted, points, landed, dirtyAt, row, car, clock>>

-----------------------------------------------------------------------------
Step(p) ==
    \/ ReadFinished(p)
    \/ MarkDirty(p)
    \/ MarkStale(p)
    \/ \E t \in Track : BeginRecompute(p, t)
    \/ Upsert(p)
    \/ Recheck(p)
    \/ Prune(p)
    \/ \E to \in Track : Split(p, to)
    \/ Merge(p)
    \/ MarkStaleForCar(p)

Start(p) ==
    \/ \E T \in SUBSET Track, s \in Sample : InsertPoints(p, T, s)
    \/ \E t \in Track : FinishTrack(p, t)
    \/ Sweep(p)
    \/ \E due \in SUBSET Track : Retain(p, due)
    \/ \E from \in Track, Cut \in SUBSET Sample : CheckSplit(p, from, Cut)
    \/ \E keep, other \in Track : CheckMerge(p, keep, other)
    \/ UpdateCar(p)

Next ==
    \/ Tick
    \/ \E t \in Track : PurgeTrack(t)
    \/ \E p \in Proc : Step(p) \/ Start(p)

Spec == Init /\ [][Next]_vars

(* The server as deployed: any task may also die half-way.                 *)
FaultyNext == Next \/ \E p \in Proc : Fail(p)

FaultySpec == Init /\ [][FaultyNext]_vars

(* Tasks that started go on, time passes, the sweeper's loop comes round   *)
(* every STALE_SWEEP_INTERVAL_SECS whatever the last pass did, and after   *)
(* some point no more tasks die.                                           *)
Fairness ==
    /\ WF_vars(Tick)
    /\ \A p \in Proc : WF_vars(Step(p))
    /\ SF_vars(\E p \in Proc : Sweep(p))
    /\ <>[][Next]_vars

FairSpec == FaultySpec /\ Fairness

-----------------------------------------------------------------------------
Holding == {"upsert", "recheck", "prune", "split", "merge"}

DataOK ==
    /\ finished \in [Track -> BOOLEAN]
    /\ pruned \in [Track -> BOOLEAN]
    /\ deleted \in SUBSET Track
    /\ points \in [Track -> SUBSET Sample]
    /\ landed \in [Track -> SUBSET Sample]
    /\ dirtyAt \in [Track -> 0..MaxClock]
    /\ row \in [Track -> StatsRow]
    /\ car \in 0..MaxEdits
    /\ clock \in 1..MaxClock

ProcOK ==
    /\ proc \in [Proc -> Task]
    /\ \A p \in Proc : proc[p].pc \in Holding => proc[p].cur \in Track

TypeOK == DataOK /\ ProcOK

(* A task that changed t's points has yet to finish invalidating its row.  *)
Marking(t) == \E p \in Proc : proc[p].pc \in {"landed", "dirty", "mark"} /\ t \in proc[p].tracks

(* A recompute of t has written its row and not yet checked it.            *)
Rechecking(t) == \E p \in Proc : proc[p].pc = "recheck" /\ proc[p].cur = t

(* A fresh row covers every point its trip ever took, once the requests    *)
(* that changed the trip have answered: however inserts, edits, recomputes *)
(* of several tasks and retention interleave, no late sample is absorbed   *)
(* into a row that does not count it (the check at the end of recompute).  *)
FreshRowIsExact ==
    \A t \in Track \ deleted :
        Usable(t) /\ ~Marking(t) /\ ~Rechecking(t) => row[t].points = landed[t]

(* Retention deletes points only behind a stored row: a pruned trip has    *)
(* statistics computed before its points went (prune_raw_points).          *)
PrunedHasRow == \A t \in Track \ deleted : pruned[t] => row[t].present

(* The sweeper catches up: once requests stop, every finished trip that    *)
(* still has points has a fresh row again, even when tasks died half-way.  *)
EventuallyFresh == <>[](\A t \in Track \ deleted : finished[t] /\ ~pruned[t] => Usable(t))
=============================================================================
