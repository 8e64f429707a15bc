-------------------------- MODULE TrackStatsProofs --------------------------
(***************************************************************************)
(* Proofs about TrackStats, for any number of trips, instants and tasks:   *)
(* its types, that a fresh row is exact (FreshRowIsExact), and that a      *)
(* pruned trip has its row (PrunedHasRow, crashes included).               *)
(*                                                                         *)
(* The argument: a snapshot that misses a point is one whose trip is still *)
(* to get a dirty timestamp, or has one at or after the snapshot's         *)
(* (SnapshotsFlagged); so a row that misses a point is one that somebody   *)
(* has yet to mark, or that its own writer is about to recheck and will    *)
(* find dirty (RowsFlagged).  The clock orders the two (ClockAhead), and   *)
(* only finished trips have rows at all (OnlyFinished): that is why        *)
(* re-reading `finished` after the insert is enough.                       *)
(***************************************************************************)
EXTENDS TrackStats, TLAPS

Unmarked(t) == \E p \in Proc : proc[p].pc \in {"landed", "dirty"} /\ t \in proc[p].tracks

OnFinished(task) ==
    /\ task.pc \notin {"idle", "landed", "carmark"} => \A t \in task.tracks : finished[t]
    /\ task.pc \in Holding => finished[task.cur]

OnlyFinished ==
    /\ \A t \in Track : row[t].present \/ pruned[t] => finished[t]
    /\ \A p \in Proc : OnFinished(proc[p])

StoredPoints == \A t \in Track \ deleted : ~pruned[t] => points[t] = landed[t]

ClockAhead ==
    /\ \A t \in Track : row[t].at <= clock
    /\ \A p \in Proc : proc[p].at <= clock

SnapshotsFlagged ==
    \A p \in Proc : LET t == proc[p].cur IN
        proc[p].pc = "upsert" /\ t \notin deleted /\ proc[p].points # landed[t]
            => Unmarked(t) \/ dirtyAt[t] >= proc[p].at

RowsFlagged ==
    \A t \in Track \ deleted :
        Usable(t) /\ row[t].points # landed[t]
            => Marking(t) \/ (Rechecking(t) /\ dirtyAt[t] >= row[t].at)

Inv == TypeOK /\ OnlyFinished /\ StoredPoints /\ ClockAhead /\ SnapshotsFlagged /\ RowsFlagged

-----------------------------------------------------------------------------
(* What the helpers return.                                                *)

LEMMA IdleType ==
    /\ Idle \in Task
    /\ Idle.pc = "idle"
    /\ Idle.tracks = {}
    /\ Idle.at = 0
BY StatsAssumption DEF Idle, Working, Doing, Task, PC, Op

LEMMA WorkingType ==
    ASSUME NEW pc \in PC, NEW op \in Op, NEW T \in SUBSET Track
    PROVE  /\ Working(pc, op, T) \in Task
           /\ Working(pc, op, T).pc = pc
           /\ Working(pc, op, T).op = op
           /\ Working(pc, op, T).tracks = T
           /\ Working(pc, op, T).cur = NoTrack
           /\ Working(pc, op, T).at = 0
BY StatsAssumption DEF Working, Doing, Task, PC, Op

LEMMA DoingType ==
    ASSUME NEW pc \in PC, NEW op \in Op, NEW T \in SUBSET Track, NEW t \in Track,
           NEW pts \in SUBSET Sample, NEW c \in 0..MaxEdits, NEW at \in 0..MaxClock
    PROVE  /\ Doing(pc, op, T, t, pts, c, at) \in Task
           /\ Doing(pc, op, T, t, pts, c, at).pc = pc
           /\ Doing(pc, op, T, t, pts, c, at).tracks = T
           /\ Doing(pc, op, T, t, pts, c, at).cur = t
           /\ Doing(pc, op, T, t, pts, c, at).points = pts
           /\ Doing(pc, op, T, t, pts, c, at).at = at
BY DEF Doing, Task

LEMMA NextTrackType ==
    ASSUME NEW op \in Op, NEW T \in SUBSET Track
    PROVE  /\ NextTrack(op, T) \in Task
           /\ NextTrack(op, T).pc \in {"idle", "recompute"}
           /\ NextTrack(op, T).tracks = T
           /\ NextTrack(op, T).at = 0
<1>1. "recompute" \in PC
  BY DEF PC
<1>2. CASE T = {}
  BY <1>2, IdleType DEF NextTrack, Idle, Working, Doing
<1>3. CASE T # {}
  BY <1>1, <1>3, WorkingType DEF NextTrack
<1> QED BY <1>2, <1>3

LEMMA MarkRowsType ==
    ASSUME row \in [Track -> StatsRow], NEW T
    PROVE  /\ MarkRows(T) \in [Track -> StatsRow]
           /\ \A t \in Track : /\ MarkRows(T)[t].present = row[t].present
                               /\ MarkRows(T)[t].points = row[t].points
                               /\ MarkRows(T)[t].at = row[t].at
                               /\ row[t].stale => MarkRows(T)[t].stale
                               /\ t \in T /\ row[t].present => MarkRows(T)[t].stale
BY DEF MarkRows, StatsRow

LEMMA ProcStep ==
    ASSUME ProcOK, NEW p \in Proc, NEW task \in Task,
           task.pc \in Holding => task.cur \in Track,
           proc' = [proc EXCEPT ![p] = task]
    PROVE  ProcOK'
BY DEF ProcOK

LEMMA TaskFields ==
    ASSUME ProcOK, NEW p \in Proc
    PROVE  /\ proc[p] \in Task
           /\ proc[p].pc \in PC
           /\ proc[p].op \in Op
           /\ proc[p].tracks \in SUBSET Track
           /\ proc[p].points \in SUBSET Sample
           /\ proc[p].car \in 0..MaxEdits
           /\ proc[p].at \in 0..MaxClock
           /\ proc[p].pc \in Holding => proc[p].cur \in Track
BY DEF ProcOK, Task

LEMMA AtPC ==
    ASSUME NEW task \in Task, NEW pc \in PC
    PROVE  /\ [task EXCEPT !.pc = pc] \in Task
           /\ [task EXCEPT !.pc = pc].pc = pc
           /\ [task EXCEPT !.pc = pc].tracks = task.tracks
           /\ [task EXCEPT !.pc = pc].cur = task.cur
           /\ [task EXCEPT !.pc = pc].at = task.at
BY DEF Task

-----------------------------------------------------------------------------
(* Every action keeps the types, those of a failing task included.  Most   *)
(* replace one task; ProcStep needs only the type of the new one.          *)

LEMMA DataStep == TypeOK /\ FaultyNext => DataOK'
<1> SUFFICES ASSUME TypeOK, FaultyNext PROVE DataOK'
  OBVIOUS
<1> USE DEF TypeOK, DataOK
<1>1. CASE Tick
  <2>1. clock' \in 1..MaxClock
    BY <1>1, StatsAssumption DEF Tick
  <2> QED
    BY <1>1, <2>1 DEF Tick
<1>2. ASSUME NEW t \in Track, PurgeTrack(t) PROVE DataOK'
  BY <1>2, StatsAssumption DEF PurgeTrack, StatsRow, NoRow
<1>3. ASSUME NEW p \in Proc, Fail(p) PROVE DataOK'
  BY <1>3 DEF Fail
<1>4. ASSUME NEW p \in Proc, Step(p) PROVE DataOK'
  <2>1. CASE ReadFinished(p)
    BY <2>1 DEF ReadFinished
  <2>2. CASE MarkDirty(p)
    BY <2>2, StatsAssumption DEF MarkDirty
  <2>3. CASE MarkStale(p)
    BY <2>3, MarkRowsType DEF MarkStale
  <2>4. ASSUME NEW t \in Track, BeginRecompute(p, t) PROVE DataOK'
    BY <2>4 DEF BeginRecompute
  <2>5. CASE Upsert(p)
    <3>1. [present |-> TRUE, stale |-> FALSE, points |-> proc[p].points,
           car |-> proc[p].car, at |-> proc[p].at] \in StatsRow
      BY TaskFields DEF StatsRow
    <3> QED
      BY <2>5, <3>1 DEF Upsert
  <2>6. CASE Recheck(p)
    BY <2>6, MarkRowsType DEF Recheck
  <2>7. CASE Prune(p)
    BY <2>7 DEF Prune
  <2>8. ASSUME NEW to \in Track, Split(p, to) PROVE DataOK'
    <3>1. proc[p].cur \in Track /\ proc[p].points \in SUBSET Sample
      BY <2>8, TaskFields DEF Split, Holding
    <3> DEFINE from == proc[p].cur
               moved == proc[p].points \intersect points[from]
    <3>2. moved \in SUBSET Sample
      BY <3>1
    <3>3. finished' \in [Track -> BOOLEAN]
      BY <2>8, <3>1 DEF Split
    <3>4. CASE from \in deleted
      BY <2>8, <3>3, <3>4 DEF Split
    <3>5. CASE from \notin deleted
      <4>1. /\ points' = [points EXCEPT ![from] = @ \ moved, ![to] = moved]
            /\ landed' = [landed EXCEPT ![from] = @ \ moved, ![to] = moved]
        BY <2>8, <3>5 DEF Split
      <4>2. points' \in [Track -> SUBSET Sample] /\ landed' \in [Track -> SUBSET Sample]
        BY <4>1, <3>1, <3>2
      <4> QED
        BY <2>8, <3>3, <4>2 DEF Split
    <3> QED
      BY <3>4, <3>5
  <2>9. CASE Merge(p)
    <3>1. proc[p].cur \in Track /\ proc[p].tracks \in SUBSET Track
      BY <2>9, TaskFields DEF Merge, Holding
    <3>2. NoRow \in StatsRow
      BY StatsAssumption DEF NoRow, StatsRow
    <3>3. row' \in [Track -> StatsRow]
      BY <2>9, <3>2 DEF Merge
    <3>4. deleted' \in SUBSET Track
      BY <2>9, <3>1 DEF Merge
    <3>5. points' \in [Track -> SUBSET Sample]
      BY <2>9, <3>1 DEF Merge
    <3>6. landed' \in [Track -> SUBSET Sample]
      BY <2>9, <3>1 DEF Merge
    <3> QED
      BY <2>9, <3>3, <3>4, <3>5, <3>6 DEF Merge
  <2>10. CASE MarkStaleForCar(p)
    BY <2>10, MarkRowsType DEF MarkStaleForCar
  <2> QED
    BY <1>4, <2>1, <2>2, <2>3, <2>4, <2>5, <2>6, <2>7, <2>8, <2>9, <2>10 DEF Step
<1>5. ASSUME NEW p \in Proc, Start(p) PROVE DataOK'
  <2>1. ASSUME NEW T \in SUBSET Track, NEW s \in Sample, InsertPoints(p, T, s) PROVE DataOK'
    BY <2>1 DEF InsertPoints
  <2>2. ASSUME NEW t \in Track, FinishTrack(p, t) PROVE DataOK'
    BY <2>2 DEF FinishTrack
  <2>3. CASE UpdateCar(p)
    BY <2>3, StatsAssumption DEF UpdateCar
  <2> QED
    BY <1>5, <2>1, <2>2, <2>3 DEF Start, Sweep, Retain, CheckSplit, CheckMerge
<1> QED
  BY <1>1, <1>2, <1>3, <1>4, <1>5 DEF FaultyNext, Next

LEMMA ProcsStep == TypeOK /\ FaultyNext => ProcOK'
<1> SUFFICES ASSUME TypeOK, FaultyNext PROVE ProcOK'
  OBVIOUS
<1>d. DataOK /\ ProcOK
  BY DEF TypeOK
<1>1. ASSUME Tick \/ \E t \in Track : PurgeTrack(t) PROVE ProcOK'
  BY <1>d, <1>1 DEF Tick, PurgeTrack, ProcOK
<1>2. ASSUME NEW p \in Proc, Fail(p) PROVE ProcOK'
  BY <1>d, <1>2, ProcStep, IdleType DEF Fail, Holding
<1>3. ASSUME NEW p \in Proc, Step(p) PROVE ProcOK'
  <2> DEFINE next == NextTrack(proc[p].op, proc[p].tracks)
  <2>a. next \in Task /\ next.pc \notin Holding
    BY <1>d, TaskFields, NextTrackType DEF Holding
  <2>b. Idle \in Task /\ Idle.pc \notin Holding
    BY IdleType DEF Holding
  <2>1. CASE ReadFinished(p)
    <3> DEFINE ended == {t \in proc[p].tracks : finished[t] /\ t \notin deleted}
    <3>1. ended \in SUBSET Track
      BY <1>d, TaskFields
    <3>2. Working("dirty", "sample", ended) \in Task
          /\ Working("dirty", "sample", ended).pc \notin Holding
      BY <3>1, WorkingType DEF PC, Op, Holding
    <3>3. proc' = [proc EXCEPT ![p] = IF ended = {} THEN Idle ELSE Working("dirty", "sample", ended)]
      BY <2>1 DEF ReadFinished
    <3> QED
      BY <1>d, <2>b, <3>2, <3>3, ProcStep
  <2>2. CASE MarkDirty(p)
    <3>1. [proc[p] EXCEPT !.pc = "mark"] \in Task /\ [proc[p] EXCEPT !.pc = "mark"].pc \notin Holding
      BY <1>d, TaskFields, AtPC DEF PC, Holding
    <3>2. proc' = [proc EXCEPT ![p] = [proc[p] EXCEPT !.pc = "mark"]]
      BY <2>2, <1>d DEF MarkDirty, ProcOK
    <3> QED
      BY <1>d, <3>1, <3>2, ProcStep
  <2>3. CASE MarkStale(p)
    BY <1>d, <2>3, <2>a, <2>b, ProcStep DEF MarkStale
  <2>4. ASSUME NEW t \in Track, BeginRecompute(p, t) PROVE ProcOK'
    <3> DEFINE skip == NextTrack(proc[p].op, proc[p].tracks \ {t})
               read == Doing("upsert", proc[p].op, proc[p].tracks \ {t}, t, points[t], car, clock)
    <3>1. skip \in Task /\ skip.pc \notin Holding
      BY <1>d, TaskFields, NextTrackType DEF Holding
    <3>2. read \in Task /\ read.cur \in Track
      BY <1>d, TaskFields, DoingType, StatsAssumption DEF PC, DataOK
    <3>3. proc' = [proc EXCEPT ![p] = IF t \in deleted \/ pruned[t] THEN skip ELSE read]
      BY <2>4 DEF BeginRecompute
    <3> QED
      BY <1>d, <3>1, <3>2, <3>3, ProcStep
  <2>5. CASE Upsert(p)
    <3>1. [proc[p] EXCEPT !.pc = "recheck"] \in Task /\ [proc[p] EXCEPT !.pc = "recheck"].cur \in Track
      BY <1>d, <2>5, TaskFields, AtPC DEF PC, Holding, Upsert
    <3>2. \/ proc' = [proc EXCEPT ![p] = Idle]
          \/ proc' = [proc EXCEPT ![p] = next]
          \/ proc' = [proc EXCEPT ![p] = [proc[p] EXCEPT !.pc = "recheck"]]
      BY <1>d, <2>5 DEF Upsert, ProcOK
    <3> QED
      BY <1>d, <2>a, <2>b, <3>1, <3>2, ProcStep
  <2>6. CASE Recheck(p)
    <3>1. [proc[p] EXCEPT !.pc = "prune"] \in Task /\ [proc[p] EXCEPT !.pc = "prune"].cur \in Track
      BY <1>d, <2>6, TaskFields, AtPC DEF PC, Holding, Recheck
    <3>2. \/ proc' = [proc EXCEPT ![p] = next]
          \/ proc' = [proc EXCEPT ![p] = [proc[p] EXCEPT !.pc = "prune"]]
      BY <1>d, <2>6 DEF Recheck, ProcOK
    <3> QED
      BY <1>d, <2>a, <3>1, <3>2, ProcStep
  <2>7. CASE Prune(p)
    BY <1>d, <2>7, <2>a, ProcStep DEF Prune
  <2>8. ASSUME NEW to \in Track, Split(p, to) PROVE ProcOK'
    <3>1. proc[p].cur \in Track
      BY <1>d, <2>8, TaskFields DEF Split, Holding
    <3> DEFINE marking == Working("dirty", "reshape", {proc[p].cur, to})
    <3>2. marking \in Task /\ marking.pc \notin Holding
      BY <3>1, WorkingType DEF PC, Op, Holding
    <3>3. proc' = [proc EXCEPT ![p] = Idle] \/ proc' = [proc EXCEPT ![p] = marking]
      BY <2>8 DEF Split
    <3> QED
      BY <1>d, <2>b, <3>2, <3>3, ProcStep
  <2>9. CASE Merge(p)
    <3>1. proc[p].cur \in Track
      BY <1>d, <2>9, TaskFields DEF Merge, Holding
    <3> DEFINE marking == Working("dirty", "reshape", {proc[p].cur})
    <3>2. marking \in Task /\ marking.pc \notin Holding
      BY <3>1, WorkingType DEF PC, Op, Holding
    <3>3. proc' = [proc EXCEPT ![p] = Idle] \/ proc' = [proc EXCEPT ![p] = marking]
      BY <2>9 DEF Merge
    <3> QED
      BY <1>d, <2>b, <3>2, <3>3, ProcStep
  <2>10. CASE MarkStaleForCar(p)
    BY <1>d, <2>10, <2>b, ProcStep DEF MarkStaleForCar
  <2> QED
    BY <1>3, <2>1, <2>2, <2>3, <2>4, <2>5, <2>6, <2>7, <2>8, <2>9, <2>10 DEF Step
<1>4. ASSUME NEW p \in Proc, Start(p) PROVE ProcOK'
  <2>1. ASSUME NEW pc \in {"landed", "recompute", "carmark"}, NEW op \in Op, NEW T \in SUBSET Track,
               proc' = [proc EXCEPT ![p] = Working(pc, op, T)]
        PROVE  ProcOK'
    <3>1. pc \in PC /\ pc \notin Holding
      BY DEF PC, Holding
    <3>2. Working(pc, op, T) \in Task /\ Working(pc, op, T).pc = pc
      BY <3>1, WorkingType
    <3> QED
      BY <1>d, <2>1, <3>1, <3>2, ProcStep
  <2>2. ASSUME NEW pc \in {"split", "merge"}, NEW T \in SUBSET Track, NEW t \in Track,
               NEW Cut \in SUBSET Sample, proc' = [proc EXCEPT ![p] = Doing(pc, "reshape", T, t, Cut, 0, 0)]
        PROVE  ProcOK'
    <3>1. 0 \in 0..MaxEdits /\ 0 \in 0..MaxClock
      BY StatsAssumption
    <3>2. pc \in PC /\ "reshape" \in Op
      BY DEF PC, Op
    <3>3. Doing(pc, "reshape", T, t, Cut, 0, 0) \in Task /\ Doing(pc, "reshape", T, t, Cut, 0, 0).cur = t
      BY <3>1, <3>2, DoingType
    <3> QED
      BY <1>d, <2>2, <3>3, ProcStep
  <2>3. ASSUME NEW T \in SUBSET Track, NEW s \in Sample, InsertPoints(p, T, s) PROVE ProcOK'
    <3>1. proc' = [proc EXCEPT ![p] = Working("landed", "sample", T)] /\ "sample" \in Op
      BY <2>3 DEF InsertPoints, Op
    <3> QED
      BY <2>1, <3>1
  <2>4. ASSUME NEW t \in Track, FinishTrack(p, t) PROVE ProcOK'
    <3>1. proc' = [proc EXCEPT ![p] = Working("recompute", "finish", {t})] /\ "finish" \in Op
      BY <2>4 DEF FinishTrack, Op
    <3>2. {t} \in SUBSET Track
      OBVIOUS
    <3> QED
      BY <2>1, <3>1, <3>2
  <2>5. CASE Sweep(p)
    BY <2>1, <2>5 DEF Sweep, Refillable, Op
  <2>6. CASE \E due \in SUBSET Track : Retain(p, due)
    BY <2>1, <2>6 DEF Retain, Op
  <2>7. CASE \E from \in Track, Cut \in SUBSET Sample : CheckSplit(p, from, Cut)
    BY <2>2, <2>7 DEF CheckSplit
  <2>8. ASSUME NEW keep \in Track, NEW other \in Track, CheckMerge(p, keep, other) PROVE ProcOK'
    <3>1. proc' = [proc EXCEPT ![p] = Doing("merge", "reshape", {keep, other}, keep, {}, 0, 0)]
      BY <2>8 DEF CheckMerge
    <3>2. {keep, other} \in SUBSET Track /\ {} \in SUBSET Sample
      OBVIOUS
    <3> QED
      BY <2>2, <3>1, <3>2
  <2>9. CASE UpdateCar(p)
    <3>1. proc' = [proc EXCEPT ![p] = Working("carmark", "car", {})] /\ "car" \in Op
      BY <2>9 DEF UpdateCar, Op
    <3>2. {} \in SUBSET Track
      OBVIOUS
    <3> QED
      BY <2>1, <3>1, <3>2
  <2> QED
    BY <1>4, <2>3, <2>4, <2>5, <2>6, <2>7, <2>8, <2>9 DEF Start
<1> QED
  BY <1>1, <1>2, <1>3, <1>4 DEF FaultyNext, Next

LEMMA InitTypeOK == Init => TypeOK
<1> SUFFICES ASSUME Init PROVE TypeOK
  OBVIOUS
<1>1. MaxClock \in Nat \ {0} => DataOK
  <2>1. NoRow \in StatsRow
    BY StatsAssumption DEF NoRow, StatsRow
  <2> QED
    BY <2>1, StatsAssumption DEF Init, DataOK
<1>2. ProcOK
  BY IdleType DEF Init, ProcOK, Holding
<1> QED
  BY <1>1, <1>2, StatsAssumption DEF TypeOK

(* Every variable keeps its type, whichever tasks die.                     *)
THEOREM FaultyTypeCorrect == FaultySpec => []TypeOK
<1>1. TypeOK /\ UNCHANGED vars => TypeOK'
  BY DEF TypeOK, DataOK, ProcOK, vars
<1>2. TypeOK /\ [FaultyNext]_vars => TypeOK'
  BY <1>1, DataStep, ProcsStep DEF TypeOK
<1> QED
  BY InitTypeOK, <1>2, PTL DEF FaultySpec

(* The same of the server whose tasks all finish.                          *)
LEMMA TypeStep == TypeOK /\ Next => TypeOK'
BY DataStep, ProcsStep DEF TypeOK, FaultyNext

-----------------------------------------------------------------------------
(* What a step of one task leaves alone.                                   *)

LEMMA OtherTasks ==
    ASSUME ProcOK, NEW p \in Proc, NEW task, proc' = [proc EXCEPT ![p] = task]
    PROVE  proc'[p] = task /\ \A q \in Proc \ {p} : proc'[q] = proc[q]
BY DEF ProcOK

(* A task goes on with its list, or ends.                                  *)
LEMMA TaskGoesOn ==
    ASSUME ProcOK, NEW p \in Proc, NEW T \in SUBSET Track,
           \/ proc' = [proc EXCEPT ![p] = Idle]
           \/ proc' = [proc EXCEPT ![p] = NextTrack(proc[p].op, T)]
    PROVE  /\ \A q \in Proc \ {p} : proc'[q] = proc[q]
           /\ proc'[p].pc \in {"idle", "recompute"}
           /\ proc'[p].tracks \subseteq T
           /\ proc'[p].at = 0
<1>1. proc[p].op \in Op
  BY TaskFields
<1>2. CASE proc' = [proc EXCEPT ![p] = Idle]
  <2>1. proc'[p] = Idle /\ \A q \in Proc \ {p} : proc'[q] = proc[q]
    BY <1>2, OtherTasks
  <2> QED
    BY <2>1, IdleType
<1>3. CASE proc' = [proc EXCEPT ![p] = NextTrack(proc[p].op, T)]
  <2>1. proc'[p] = NextTrack(proc[p].op, T) /\ \A q \in Proc \ {p} : proc'[q] = proc[q]
    BY <1>3, OtherTasks
  <2>2. /\ NextTrack(proc[p].op, T).pc \in {"idle", "recompute"}
        /\ NextTrack(proc[p].op, T).tracks = T
        /\ NextTrack(proc[p].op, T).at = 0
    BY <1>1, NextTrackType
  <2> QED
    BY <2>1, <2>2
<1> QED
  BY <1>2, <1>3

LEMMA FlagsKept ==
    ASSUME NEW p \in Proc, \A q \in Proc \ {p} : proc'[q] = proc[q], NEW t
    PROVE  /\ proc[p].pc \notin {"landed", "dirty"} => (Unmarked(t) => Unmarked(t)')
           /\ proc[p].pc \notin {"landed", "dirty", "mark"} => (Marking(t) => Marking(t)')
           /\ proc[p].pc # "recheck" => (Rechecking(t) => Rechecking(t)')
BY DEF Unmarked, Marking, Rechecking

LEMMA FinishedStep ==
    ASSUME ProcOK, OnlyFinished, NEW p \in Proc, \A q \in Proc \ {p} : proc'[q] = proc[q],
           \A t \in Track : finished[t] => finished'[t],
           \A t \in Track : row'[t].present \/ pruned'[t] => finished'[t],
           OnFinished(proc[p])'
    PROVE  OnlyFinished'
<1>1. ASSUME NEW q \in Proc PROVE OnFinished(proc[q])'
  <2>1. CASE q = p
    BY <2>1
  <2>2. CASE q # p
    <3>1. proc'[q] = proc[q] /\ OnFinished(proc[q])
      BY <2>2 DEF OnlyFinished
    <3>2. proc[q].tracks \in SUBSET Track /\ (proc[q].pc \in Holding => proc[q].cur \in Track)
      BY TaskFields
    <3> QED
      BY <3>1, <3>2 DEF OnFinished
  <2> QED
    BY <2>1, <2>2
<1> QED
  BY <1>1 DEF OnlyFinished

(* A task goes from one program counter to another without touching the    *)
(* database, and drops no flag it owed: starting work, skipping a trip and *)
(* taking a complete snapshot are such steps.                              *)
LEMMA QuietStep ==
    ASSUME Inv, TypeOK', NEW p \in Proc, \A q \in Proc \ {p} : proc'[q] = proc[q],
           UNCHANGED <<pruned, deleted, points, landed, dirtyAt, row, clock>>,
           \A t \in Track : finished[t] => finished'[t],
           proc[p].pc \notin {"landed", "dirty", "mark", "recheck"},
           proc'[p].at <= clock,
           proc'[p].pc = "upsert" => proc'[p].points = landed[proc'[p].cur],
           OnFinished(proc[p])'
    PROVE  Inv'
<1>2. OnlyFinished'
  BY FinishedStep DEF Inv, TypeOK, OnlyFinished
<1>3. StoredPoints'
  BY DEF Inv, StoredPoints
<1>4. ClockAhead'
  BY DEF Inv, ClockAhead
<1>5. \A t : /\ Unmarked(t) => Unmarked(t)'
             /\ Marking(t) => Marking(t)'
             /\ Rechecking(t) => Rechecking(t)'
  BY FlagsKept
<1>6. SnapshotsFlagged'
  BY <1>5 DEF Inv, SnapshotsFlagged
<1>7. RowsFlagged'
  BY <1>5 DEF Inv, RowsFlagged, Usable
<1> QED
  BY <1>2, <1>3, <1>4, <1>6, <1>7 DEF Inv

-----------------------------------------------------------------------------
(* The actions, one lemma each where the step is not quiet.                *)

LEMMA TickInv == Inv /\ Tick => Inv'
<1> SUFFICES ASSUME Inv, Tick PROVE Inv'
  OBVIOUS
<1>1. TypeOK'
  BY TypeStep DEF Inv, Next
<1>2. OnlyFinished' /\ StoredPoints' /\ SnapshotsFlagged' /\ RowsFlagged'
  BY DEF Inv, Tick, OnlyFinished, OnFinished, StoredPoints, SnapshotsFlagged, RowsFlagged,
         Unmarked, Marking, Rechecking, Usable
<1>3. ClockAhead'
  <2>1. clock' = clock + 1 /\ row' = row /\ proc' = proc
    BY DEF Tick
  <2>2. \A t \in Track : row[t].at \in Nat
    BY StatsAssumption DEF Inv, TypeOK, DataOK, StatsRow
  <2>3. \A p \in Proc : proc[p].at \in Nat
    BY StatsAssumption, TaskFields DEF Inv, TypeOK
  <2>4. clock \in Nat
    BY DEF Inv, TypeOK, DataOK
  <2> QED
    BY <2>1, <2>2, <2>3, <2>4 DEF Inv, ClockAhead
<1> QED
  BY <1>1, <1>2, <1>3 DEF Inv

LEMMA PurgeTrackInv == ASSUME Inv, NEW t \in Track, PurgeTrack(t) PROVE Inv'
<1>1. TypeOK'
  BY TypeStep DEF Inv, Next
<1>2. /\ deleted' = deleted \union {t}
      /\ UNCHANGED <<finished, pruned, dirtyAt, clock, proc>>
      /\ row'[t] = NoRow /\ \A u \in Track \ {t} : row'[u] = row[u]
      /\ \A u \in Track \ {t} : points'[u] = points[u] /\ landed'[u] = landed[u]
  BY DEF PurgeTrack, Inv, TypeOK, DataOK
<1>3. OnlyFinished'
  BY <1>2 DEF Inv, OnlyFinished, OnFinished, NoRow
<1>4. StoredPoints'
  BY <1>2 DEF Inv, StoredPoints
<1>5. ClockAhead'
  <2>1. NoRow.at <= clock
    BY DEF NoRow, Inv, TypeOK, DataOK
  <2> QED
    BY <1>2, <2>1 DEF Inv, ClockAhead
<1>6. SnapshotsFlagged'
  <2>1. \A p \in Proc : proc[p].pc = "upsert" => proc[p].cur \in Track
    BY TaskFields DEF Inv, TypeOK, Holding
  <2> QED
    BY <1>2, <2>1 DEF Inv, SnapshotsFlagged, Unmarked
<1>7. RowsFlagged'
  BY <1>2 DEF Inv, RowsFlagged, Usable, Marking, Rechecking
<1> QED
  BY <1>1, <1>3, <1>4, <1>5, <1>6, <1>7 DEF Inv

LEMMA InsertPointsInv ==
    ASSUME Inv, NEW p \in Proc, NEW T \in SUBSET Track, NEW s \in Sample, InsertPoints(p, T, s)
    PROVE  Inv'
<1> DEFINE task == Working("landed", "sample", T)
<1>1. TypeOK'
  BY TypeStep DEF Inv, Next, Start
<1>2. /\ proc[p].pc = "idle"
      /\ UNCHANGED <<finished, pruned, deleted, dirtyAt, row, clock>>
      /\ points' = [t \in Track |-> IF t \in T THEN points[t] \union {s} ELSE points[t]]
      /\ landed' = [t \in Track |-> IF t \in T THEN landed[t] \union {s} ELSE landed[t]]
      /\ proc' = [proc EXCEPT ![p] = task]
  BY DEF InsertPoints
<1>3. task.pc = "landed" /\ task.tracks = T /\ task.at = 0
  BY WorkingType DEF PC, Op
<1>4. proc'[p] = task /\ \A q \in Proc \ {p} : proc'[q] = proc[q]
  BY <1>2, OtherTasks DEF Inv, TypeOK
<1>5. \A t : /\ Unmarked(t) => Unmarked(t)'
             /\ Marking(t) => Marking(t)'
             /\ Rechecking(t) => Rechecking(t)'
  BY <1>2, <1>4, FlagsKept
<1>6. \A t \in T : Unmarked(t)' /\ Marking(t)'
  BY <1>3, <1>4 DEF Unmarked, Marking
<1>7. OnlyFinished'
  <2>1. OnFinished(proc[p])'
    BY <1>3, <1>4 DEF OnFinished, Holding
  <2> QED
    BY <1>2, <1>4, <2>1, FinishedStep DEF Inv, TypeOK, OnlyFinished
<1>8. StoredPoints'
  BY <1>2 DEF Inv, StoredPoints
<1>9. ClockAhead'
  BY <1>2, <1>3, <1>4 DEF Inv, ClockAhead, TypeOK, DataOK
<1>10. SnapshotsFlagged'
  <2>1. \A q \in Proc : proc[q].pc = "upsert" => proc[q].cur \in Track
    BY TaskFields DEF Inv, TypeOK, Holding
  <2> QED
    BY <1>2, <1>3, <1>4, <1>5, <1>6, <2>1 DEF Inv, SnapshotsFlagged
<1>11. RowsFlagged'
  BY <1>2, <1>5, <1>6 DEF Inv, RowsFlagged, Usable
<1> QED
  BY <1>1, <1>7, <1>8, <1>9, <1>10, <1>11 DEF Inv

LEMMA ReadFinishedInv == ASSUME Inv, NEW p \in Proc, ReadFinished(p) PROVE Inv'
<1> DEFINE ended == {t \in proc[p].tracks : finished[t] /\ t \notin deleted}
           task == IF ended = {} THEN Idle ELSE Working("dirty", "sample", ended)
<1>1. TypeOK'
  BY TypeStep DEF Inv, Next, Step
<1>2. /\ proc[p].pc = "landed"
      /\ UNCHANGED <<finished, pruned, deleted, points, landed, dirtyAt, row, clock>>
      /\ proc' = [proc EXCEPT ![p] = task]
  BY DEF ReadFinished
<1>3. ended \in SUBSET Track
  BY TaskFields DEF Inv, TypeOK
<1>4. /\ ended = {} => task.pc = "idle"
      /\ ended # {} => task.pc = "dirty"
      /\ task.tracks = ended /\ task.at = 0
  BY <1>3, IdleType, WorkingType DEF PC, Op
<1>5. proc'[p] = task /\ \A q \in Proc \ {p} : proc'[q] = proc[q]
  BY <1>2, OtherTasks DEF Inv, TypeOK
<1>6. \A t : Rechecking(t) => Rechecking(t)'
  BY <1>2, <1>5, FlagsKept
<1>7. ASSUME NEW t \in Track, t \notin deleted, finished[t]
      PROVE  (Unmarked(t) => Unmarked(t)') /\ (Marking(t) => Marking(t)')
  <2>1. t \in proc[p].tracks => task.pc = "dirty" /\ t \in task.tracks
    BY <1>4, <1>7
  <2> QED
    BY <1>5, <2>1 DEF Unmarked, Marking
<1>8. OnlyFinished'
  <2>1. OnFinished(proc[p])'
    BY <1>2, <1>4, <1>5 DEF OnFinished, Holding
  <2> QED
    BY <1>2, <1>5, <2>1, FinishedStep DEF Inv, TypeOK, OnlyFinished
<1>9. StoredPoints'
  BY <1>2 DEF Inv, StoredPoints
<1>10. ClockAhead'
  <2>1. proc'[p].at = 0 /\ 0 <= clock
    BY <1>4, <1>5, StatsAssumption DEF Inv, TypeOK, DataOK
  <2> QED
    BY <1>2, <1>5, <2>1 DEF Inv, ClockAhead
<1>11. SnapshotsFlagged'
  <2>1. \A q \in Proc : proc[q].pc = "upsert" => proc[q].cur \in Track /\ finished[proc[q].cur]
    BY TaskFields DEF Inv, TypeOK, Holding, OnlyFinished, OnFinished
  <2> QED
    BY <1>2, <1>4, <1>5, <1>7, <2>1 DEF Inv, SnapshotsFlagged
<1>12. RowsFlagged'
  BY <1>2, <1>6, <1>7 DEF Inv, RowsFlagged, Usable, OnlyFinished
<1> QED
  BY <1>1, <1>8, <1>9, <1>10, <1>11, <1>12 DEF Inv

LEMMA MarkDirtyInv == ASSUME Inv, NEW p \in Proc, MarkDirty(p) PROVE Inv'
<1> DEFINE task == [proc[p] EXCEPT !.pc = "mark"]
<1>1. TypeOK'
  BY TypeStep DEF Inv, Next, Step
<1>2. /\ proc[p].pc = "dirty"
      /\ UNCHANGED <<finished, pruned, deleted, points, landed, row, clock>>
      /\ dirtyAt' = [t \in Track |-> IF t \in proc[p].tracks \ deleted THEN clock ELSE dirtyAt[t]]
      /\ proc' = [proc EXCEPT ![p] = task]
  BY DEF MarkDirty, Inv, TypeOK, ProcOK
<1>3. task.pc = "mark" /\ task.tracks = proc[p].tracks /\ task.at = proc[p].at
  BY AtPC, TaskFields DEF Inv, TypeOK, PC
<1>4. proc'[p] = task /\ \A q \in Proc \ {p} : proc'[q] = proc[q]
  BY <1>2, OtherTasks DEF Inv, TypeOK
<1>5. \A t : (Marking(t) => Marking(t)') /\ (Rechecking(t) => Rechecking(t)')
  BY <1>2, <1>3, <1>4 DEF Marking, Rechecking
<1>6. \A t : (Unmarked(t) => Unmarked(t)' \/ t \in proc[p].tracks)
  BY <1>4 DEF Unmarked
<1>7. \A t \in Track : dirtyAt'[t] = dirtyAt[t] \/ dirtyAt'[t] = clock
  BY <1>2
<1>8. OnlyFinished'
  <2>1. OnFinished(proc[p])'
    BY <1>2, <1>3, <1>4 DEF OnFinished, Holding, Inv, OnlyFinished
  <2> QED
    BY <1>2, <1>4, <2>1, FinishedStep DEF Inv, TypeOK, OnlyFinished
<1>9. StoredPoints'
  BY <1>2 DEF Inv, StoredPoints
<1>10. ClockAhead'
  BY <1>2, <1>3, <1>4 DEF Inv, ClockAhead
<1>11. SnapshotsFlagged'
  <2> SUFFICES ASSUME NEW q \in Proc, q # p, proc[q].pc = "upsert", proc[q].cur \notin deleted,
                      proc[q].points # landed[proc[q].cur]
               PROVE  \E t : t = proc[q].cur /\ (Unmarked(t)' \/ dirtyAt'[t] >= proc[q].at)
    <3>1. \A q \in Proc : proc'[q].pc = "upsert" => q # p
      BY <1>3, <1>4
    <3> QED
      BY <1>2, <1>4, <3>1 DEF SnapshotsFlagged, Unmarked
  <2>1. PICK t \in Track : t = proc[q].cur
    BY TaskFields DEF Inv, TypeOK, Holding
  <2>2. Unmarked(t) \/ dirtyAt[t] >= proc[q].at
    BY <2>1 DEF Inv, SnapshotsFlagged
  <2>3. clock >= proc[q].at
    BY StatsAssumption, TaskFields DEF Inv, ClockAhead, TypeOK, DataOK
  <2>4. t \in proc[p].tracks => dirtyAt'[t] = clock
    BY <1>2, <2>1
  <2>5. (Unmarked(t) => Unmarked(t)' \/ t \in proc[p].tracks) /\ (dirtyAt'[t] = dirtyAt[t] \/ dirtyAt'[t] = clock)
    BY <1>6, <1>7
  <2> QED
    BY <2>1, <2>2, <2>3, <2>4, <2>5
<1>12. RowsFlagged'
  <2>1. \A t \in Track : clock >= row[t].at
    BY StatsAssumption DEF Inv, ClockAhead, TypeOK, DataOK, StatsRow
  <2> QED
    BY <1>2, <1>5, <1>7, <2>1 DEF Inv, RowsFlagged, Usable
<1> QED
  BY <1>1, <1>8, <1>9, <1>10, <1>11, <1>12 DEF Inv

LEMMA MarkStaleInv == ASSUME Inv, NEW p \in Proc, MarkStale(p) PROVE Inv'
<1> DEFINE T == proc[p].tracks
<1>1. TypeOK'
  BY TypeStep DEF Inv, Next, Step
<1>2. /\ proc[p].pc = "mark"
      /\ UNCHANGED <<finished, pruned, deleted, points, landed, dirtyAt, clock>>
      /\ row' = MarkRows(T)
      /\ proc' = [proc EXCEPT ![p] = IF proc[p].op = "reshape" THEN NextTrack(proc[p].op, T) ELSE Idle]
  BY DEF MarkStale, Inv, TypeOK, ProcOK
<1>3. /\ \A q \in Proc \ {p} : proc'[q] = proc[q]
      /\ proc'[p].pc \in {"idle", "recompute"}
      /\ proc'[p].tracks \subseteq T
      /\ proc'[p].at = 0
  <2>1. T \in SUBSET Track
    BY TaskFields DEF Inv, TypeOK
  <2>2. \/ proc' = [proc EXCEPT ![p] = Idle]
        \/ proc' = [proc EXCEPT ![p] = NextTrack(proc[p].op, T)]
    BY <1>2
  <2> QED
    BY <2>1, <2>2, TaskGoesOn DEF Inv, TypeOK
<1>4. \A t \in Track : /\ row'[t].present = row[t].present
                       /\ row'[t].points = row[t].points
                       /\ row'[t].at = row[t].at
                       /\ row[t].stale => row'[t].stale
                       /\ t \in T /\ row[t].present => row'[t].stale
  BY <1>2, MarkRowsType DEF Inv, TypeOK, DataOK
<1>5. \A t : /\ Unmarked(t) => Unmarked(t)'
             /\ t \notin T => (Marking(t) => Marking(t)')
             /\ Rechecking(t) => Rechecking(t)'
  BY <1>2, <1>3 DEF Unmarked, Marking, Rechecking
<1>6. OnlyFinished'
  <2>1. OnFinished(proc[p])'
    BY <1>2, <1>3 DEF OnFinished, Holding, Inv, OnlyFinished
  <2> QED
    BY <1>2, <1>3, <1>4, <2>1, FinishedStep DEF Inv, TypeOK, OnlyFinished
<1>7. StoredPoints'
  BY <1>2 DEF Inv, StoredPoints
<1>8. ClockAhead'
  <2>1. 0 <= clock
    BY StatsAssumption DEF Inv, TypeOK, DataOK
  <2> QED
    BY <1>2, <1>3, <1>4, <2>1 DEF Inv, ClockAhead
<1>9. SnapshotsFlagged'
  BY <1>2, <1>3, <1>5 DEF Inv, SnapshotsFlagged
<1>10. RowsFlagged'
  BY <1>2, <1>4, <1>5 DEF Inv, RowsFlagged, Usable
<1> QED
  BY <1>1, <1>6, <1>7, <1>8, <1>9, <1>10 DEF Inv

LEMMA BeginRecomputeInv == ASSUME Inv, NEW p \in Proc, NEW t \in Track, BeginRecompute(p, t) PROVE Inv'
<1> DEFINE rest == proc[p].tracks \ {t}
<1>1. TypeOK'
  BY TypeStep DEF Inv, Next, Step
<1>2. /\ proc[p].pc = "recompute" /\ t \in proc[p].tracks
      /\ UNCHANGED <<finished, pruned, deleted, points, landed, dirtyAt, row, clock>>
  BY DEF BeginRecompute
<1>3. \A q \in Proc \ {p} : proc'[q] = proc[q]
  BY OtherTasks DEF BeginRecompute, Inv, TypeOK
<1>4. finished[t] /\ \A u \in rest : finished[u]
  BY <1>2 DEF Inv, OnlyFinished, OnFinished
<1>5. CASE t \in deleted \/ pruned[t]
  <2>1. proc' = [proc EXCEPT ![p] = NextTrack(proc[p].op, rest)]
    BY <1>5 DEF BeginRecompute
  <2>2. /\ proc'[p].pc \in {"idle", "recompute"}
        /\ proc'[p].tracks \subseteq rest
        /\ proc'[p].at = 0
    <3>1. PICK T \in SUBSET Track : T = rest
      BY TaskFields DEF Inv, TypeOK
    <3>2. proc' = [proc EXCEPT ![p] = NextTrack(proc[p].op, T)]
      BY <2>1, <3>1
    <3> HIDE DEF rest
    <3> QED
      BY <3>1, <3>2, TaskGoesOn DEF Inv, TypeOK
  <2>3. OnFinished(proc[p])'
    BY <1>2, <1>4, <2>2 DEF OnFinished, Holding
  <2>4. 0 <= clock
    BY StatsAssumption DEF Inv, TypeOK, DataOK
  <2> QED
    BY <1>1, <1>2, <1>3, <2>2, <2>3, <2>4, QuietStep
<1>6. CASE t \notin deleted /\ ~pruned[t]
  <2>1. proc' = [proc EXCEPT ![p] = Doing("upsert", proc[p].op, rest, t, points[t], car, clock)]
    BY <1>6 DEF BeginRecompute
  <2>2. /\ proc'[p].pc = "upsert"
        /\ proc'[p].tracks = rest
        /\ proc'[p].cur = t
        /\ proc'[p].points = points[t]
        /\ proc'[p].at = clock
    BY <2>1 DEF Doing, Inv, TypeOK, ProcOK
  <2>3. points[t] = landed[t]
    BY <1>6 DEF Inv, StoredPoints
  <2>4. OnFinished(proc[p])'
    BY <1>2, <1>4, <2>2 DEF OnFinished, Holding
  <2>5. clock <= clock
    BY StatsAssumption DEF Inv, TypeOK, DataOK
  <2> QED
    BY <1>1, <1>2, <1>3, <2>2, <2>3, <2>4, <2>5, QuietStep
<1> QED
  BY <1>5, <1>6

LEMMA UpsertInv == ASSUME Inv, NEW p \in Proc, Upsert(p) PROVE Inv'
<1>1. TypeOK'
  BY TypeStep DEF Inv, Next, Step
<1>2. PICK t \in Track : t = proc[p].cur /\ proc[p].pc = "upsert"
  BY TaskFields DEF Upsert, Inv, TypeOK, Holding
<1>3. /\ UNCHANGED <<finished, pruned, deleted, points, landed, dirtyAt, clock>>
  BY DEF Upsert
<1>4. finished[t] /\ \A u \in proc[p].tracks : finished[u]
  BY <1>2 DEF Inv, OnlyFinished, OnFinished, Holding
<1>5. CASE t \in deleted
  <2>1. /\ row' = row
        /\ proc' = [proc EXCEPT ![p] = IF proc[p].op = "prune" THEN Idle
                                       ELSE NextTrack(proc[p].op, proc[p].tracks)]
    BY <1>2, <1>5 DEF Upsert
  <2>2. /\ \A q \in Proc \ {p} : proc'[q] = proc[q]
        /\ proc'[p].pc \in {"idle", "recompute"}
        /\ proc'[p].tracks \subseteq proc[p].tracks
        /\ proc'[p].at = 0
    <3>1. proc[p].tracks \in SUBSET Track
      BY TaskFields DEF Inv, TypeOK
    <3>2. \/ proc' = [proc EXCEPT ![p] = Idle]
          \/ proc' = [proc EXCEPT ![p] = NextTrack(proc[p].op, proc[p].tracks)]
      BY <2>1
    <3> QED
      BY <3>1, <3>2, TaskGoesOn DEF Inv, TypeOK
  <2>3. OnFinished(proc[p])'
    BY <1>3, <1>4, <2>2 DEF OnFinished, Holding
  <2>4. 0 <= clock
    BY StatsAssumption DEF Inv, TypeOK, DataOK
  <2> QED
    BY <1>1, <1>2, <1>3, <2>1, <2>2, <2>3, <2>4, QuietStep
<1>6. CASE t \notin deleted
  <2> DEFINE new == [present |-> TRUE, stale |-> FALSE, points |-> proc[p].points,
                     car |-> proc[p].car, at |-> proc[p].at]
  <2>1. row' = [row EXCEPT ![t] = new] /\ proc' = [proc EXCEPT ![p] = [proc[p] EXCEPT !.pc = "recheck"]]
    BY <1>2, <1>6 DEF Upsert, Inv, TypeOK, ProcOK
  <2>2. /\ \A q \in Proc \ {p} : proc'[q] = proc[q]
        /\ proc'[p].pc = "recheck"
        /\ proc'[p].tracks = proc[p].tracks
        /\ proc'[p].cur = t
        /\ proc'[p].at = proc[p].at
    <3>1. proc'[p] = [proc[p] EXCEPT !.pc = "recheck"] /\ \A q \in Proc \ {p} : proc'[q] = proc[q]
      BY <2>1, OtherTasks DEF Inv, TypeOK
    <3>2. proc[p] \in Task /\ "recheck" \in PC
      BY TaskFields DEF Inv, TypeOK, PC
    <3> QED
      BY <1>2, <3>1, <3>2, AtPC
  <2>3. /\ row'[t].present /\ ~row'[t].stale
        /\ row'[t].points = proc[p].points /\ row'[t].at = proc[p].at
        /\ \A u \in Track \ {t} : row'[u] = row[u]
    BY <2>1 DEF Inv, TypeOK, DataOK
  <2>4. \A u : /\ Unmarked(u) => Unmarked(u)'
               /\ Marking(u) => Marking(u)'
               /\ Rechecking(u) => Rechecking(u)'
    BY <1>2, <2>2, FlagsKept
  <2>5. Rechecking(t)'
    BY <2>2 DEF Rechecking
  <2>6. OnlyFinished'
    <3>1. OnFinished(proc[p])'
      BY <1>3, <1>4, <2>2 DEF OnFinished
    <3> QED
      BY <1>3, <1>4, <2>2, <2>3, <3>1, FinishedStep DEF Inv, TypeOK, OnlyFinished
  <2>7. StoredPoints'
    BY <1>3 DEF Inv, StoredPoints
  <2>8. ClockAhead'
    BY <1>3, <2>2, <2>3 DEF Inv, ClockAhead
  <2>9. SnapshotsFlagged'
    BY <1>3, <2>2, <2>4 DEF Inv, SnapshotsFlagged
  <2>10. RowsFlagged'
    <3>1. proc[p].points # landed[t] => Marking(t) \/ dirtyAt[t] >= proc[p].at
      BY <1>2, <1>6 DEF Inv, SnapshotsFlagged, Unmarked, Marking
    <3> QED
      BY <1>3, <2>3, <2>4, <2>5, <3>1 DEF Inv, RowsFlagged, Usable
  <2> QED
    BY <1>1, <2>6, <2>7, <2>8, <2>9, <2>10 DEF Inv
<1> QED
  BY <1>5, <1>6

LEMMA RecheckInv == ASSUME Inv, NEW p \in Proc, Recheck(p) PROVE Inv'
<1>1. TypeOK'
  BY TypeStep DEF Inv, Next, Step
<1>2. PICK t \in Track : t = proc[p].cur /\ proc[p].pc = "recheck"
  BY TaskFields DEF Recheck, Inv, TypeOK, Holding
<1>3. /\ UNCHANGED <<finished, pruned, deleted, points, landed, dirtyAt, clock>>
      /\ row' = IF t \notin deleted /\ dirtyAt[t] >= row[t].at THEN MarkRows({t}) ELSE row
  BY <1>2 DEF Recheck
<1>4. finished[t] /\ \A u \in proc[p].tracks : finished[u]
  BY <1>2 DEF Inv, OnlyFinished, OnFinished, Holding
<1>5. /\ \A q \in Proc \ {p} : proc'[q] = proc[q]
      /\ proc'[p].pc \in {"idle", "recompute", "prune"}
      /\ proc'[p].tracks \subseteq proc[p].tracks
      /\ proc'[p].pc = "prune" => proc'[p].cur = t
      /\ proc'[p].at <= clock
  <2>1. CASE proc[p].op = "prune"
    <3>1. proc' = [proc EXCEPT ![p] = [proc[p] EXCEPT !.pc = "prune"]]
      BY <1>2, <2>1 DEF Recheck, Inv, TypeOK, ProcOK
    <3>2. proc'[p] = [proc[p] EXCEPT !.pc = "prune"] /\ \A q \in Proc \ {p} : proc'[q] = proc[q]
      BY <3>1, OtherTasks DEF Inv, TypeOK
    <3>3. proc[p] \in Task /\ "prune" \in PC
      BY TaskFields DEF Inv, TypeOK, PC
    <3>4. proc[p].at <= clock
      BY DEF Inv, ClockAhead
    <3> QED
      BY <1>2, <3>2, <3>3, <3>4, AtPC
  <2>2. CASE proc[p].op # "prune"
    <3>1. proc' = [proc EXCEPT ![p] = NextTrack(proc[p].op, proc[p].tracks)]
      BY <1>2, <2>2 DEF Recheck, Inv, TypeOK, ProcOK
    <3>2. proc[p].tracks \in SUBSET Track
      BY TaskFields DEF Inv, TypeOK
    <3>3. 0 <= clock
      BY StatsAssumption DEF Inv, TypeOK, DataOK
    <3>4. /\ \A q \in Proc \ {p} : proc'[q] = proc[q]
          /\ proc'[p].pc \in {"idle", "recompute"}
          /\ proc'[p].tracks \subseteq proc[p].tracks
          /\ proc'[p].at = 0
      BY <3>1, <3>2, TaskGoesOn DEF Inv, TypeOK
    <3> QED
      BY <3>3, <3>4
  <2> QED
    BY <2>1, <2>2
<1>6. /\ \A u \in Track : /\ row'[u].present = row[u].present
                          /\ row'[u].points = row[u].points
                          /\ row'[u].at = row[u].at
                          /\ row[u].stale => row'[u].stale
      /\ t \notin deleted /\ dirtyAt[t] >= row[t].at /\ row[t].present => row'[t].stale
  BY <1>3, MarkRowsType DEF Inv, TypeOK, DataOK
<1>7. \A u : /\ Unmarked(u) => Unmarked(u)'
             /\ Marking(u) => Marking(u)'
             /\ u # t => (Rechecking(u) => Rechecking(u)')
  BY <1>2, <1>5 DEF Unmarked, Marking, Rechecking
<1>8. OnlyFinished'
  <2>1. OnFinished(proc[p])'
    BY <1>3, <1>4, <1>5 DEF OnFinished, Holding
  <2> QED
    BY <1>3, <1>5, <1>6, <2>1, FinishedStep DEF Inv, TypeOK, OnlyFinished
<1>9. StoredPoints'
  BY <1>3 DEF Inv, StoredPoints
<1>10. ClockAhead'
  BY <1>3, <1>5, <1>6 DEF Inv, ClockAhead
<1>11. SnapshotsFlagged'
  BY <1>3, <1>5, <1>7 DEF Inv, SnapshotsFlagged
<1>12. RowsFlagged'
  BY <1>3, <1>6, <1>7 DEF Inv, RowsFlagged, Usable
<1> QED
  BY <1>1, <1>8, <1>9, <1>10, <1>11, <1>12 DEF Inv

LEMMA PruneInv == ASSUME Inv, NEW p \in Proc, Prune(p) PROVE Inv'
<1>1. TypeOK'
  BY TypeStep DEF Inv, Next, Step
<1>2. PICK t \in Track : t = proc[p].cur /\ proc[p].pc = "prune"
  BY TaskFields DEF Prune, Inv, TypeOK, Holding
<1>3. /\ UNCHANGED <<finished, deleted, landed, dirtyAt, row, clock>>
      /\ pruned' = IF t \in deleted THEN pruned ELSE [pruned EXCEPT ![t] = TRUE]
      /\ points' = [points EXCEPT ![t] = {}]
      /\ proc' = [proc EXCEPT ![p] = NextTrack(proc[p].op, proc[p].tracks)]
  BY <1>2 DEF Prune, Inv, TypeOK, ProcOK
<1>4. finished[t] /\ \A u \in proc[p].tracks : finished[u]
  BY <1>2 DEF Inv, OnlyFinished, OnFinished, Holding
<1>5. /\ \A q \in Proc \ {p} : proc'[q] = proc[q]
      /\ proc'[p].pc \in {"idle", "recompute"}
      /\ proc'[p].tracks \subseteq proc[p].tracks
      /\ proc'[p].at = 0
  <2>1. proc[p].tracks \in SUBSET Track
    BY TaskFields DEF Inv, TypeOK
  <2> QED
    BY <1>3, <2>1, TaskGoesOn DEF Inv, TypeOK
<1>6. \A u : /\ Unmarked(u) => Unmarked(u)'
             /\ Marking(u) => Marking(u)'
             /\ Rechecking(u) => Rechecking(u)'
  BY <1>2, <1>5, FlagsKept
<1>7. OnlyFinished'
  <2>1. OnFinished(proc[p])'
    BY <1>3, <1>4, <1>5 DEF OnFinished, Holding
  <2>2. \A u \in Track : pruned'[u] => u = t \/ pruned[u]
    BY <1>3 DEF Inv, TypeOK, DataOK
  <2> QED
    BY <1>3, <1>4, <1>5, <2>1, <2>2, FinishedStep DEF Inv, TypeOK, OnlyFinished
<1>8. StoredPoints'
  <2>1. \A u \in Track \ {t} : points'[u] = points[u] /\ pruned'[u] = pruned[u]
    BY <1>3 DEF Inv, TypeOK, DataOK
  <2>2. t \in deleted \/ pruned'[t]
    BY <1>3 DEF Inv, TypeOK, DataOK
  <2> QED
    BY <1>3, <2>1, <2>2 DEF Inv, StoredPoints
<1>9. ClockAhead'
  <2>1. 0 <= clock
    BY StatsAssumption DEF Inv, TypeOK, DataOK
  <2> QED
    BY <1>3, <1>5, <2>1 DEF Inv, ClockAhead
<1>10. SnapshotsFlagged'
  BY <1>3, <1>5, <1>6 DEF Inv, SnapshotsFlagged
<1>11. RowsFlagged'
  BY <1>3, <1>6 DEF Inv, RowsFlagged, Usable
<1> QED
  BY <1>1, <1>7, <1>8, <1>9, <1>10, <1>11 DEF Inv

LEMMA MarkStaleForCarInv == ASSUME Inv, NEW p \in Proc, MarkStaleForCar(p) PROVE Inv'
<1>1. TypeOK'
  BY TypeStep DEF Inv, Next, Step
<1>2. /\ proc[p].pc = "carmark"
      /\ UNCHANGED <<finished, pruned, deleted, points, landed, dirtyAt, clock>>
      /\ row' = MarkRows(Legacy)
      /\ proc' = [proc EXCEPT ![p] = Idle]
  BY DEF MarkStaleForCar
<1>3. /\ \A q \in Proc \ {p} : proc'[q] = proc[q]
      /\ proc'[p].pc \in {"idle", "recompute"}
      /\ proc'[p].tracks \subseteq {}
      /\ proc'[p].at = 0
  <2>1. {} \in SUBSET Track
    OBVIOUS
  <2> QED
    BY <1>2, <2>1, TaskGoesOn DEF Inv, TypeOK
<1>4. \A t \in Track : /\ row'[t].present = row[t].present
                       /\ row'[t].points = row[t].points
                       /\ row'[t].at = row[t].at
                       /\ row[t].stale => row'[t].stale
  BY <1>2, MarkRowsType DEF Inv, TypeOK, DataOK
<1>5. \A t : /\ Unmarked(t) => Unmarked(t)'
             /\ Marking(t) => Marking(t)'
             /\ Rechecking(t) => Rechecking(t)'
  BY <1>2, <1>3, FlagsKept
<1>6. OnlyFinished'
  <2>1. OnFinished(proc[p])'
    BY <1>3 DEF OnFinished, Holding
  <2> QED
    BY <1>2, <1>3, <1>4, <2>1, FinishedStep DEF Inv, TypeOK, OnlyFinished
<1>7. StoredPoints'
  BY <1>2 DEF Inv, StoredPoints
<1>8. ClockAhead'
  <2>1. 0 <= clock
    BY StatsAssumption DEF Inv, TypeOK, DataOK
  <2> QED
    BY <1>2, <1>3, <1>4, <2>1 DEF Inv, ClockAhead
<1>9. SnapshotsFlagged'
  BY <1>2, <1>3, <1>5 DEF Inv, SnapshotsFlagged
<1>10. RowsFlagged'
  BY <1>2, <1>4, <1>5 DEF Inv, RowsFlagged, Usable
<1> QED
  BY <1>1, <1>6, <1>7, <1>8, <1>9, <1>10 DEF Inv

LEMMA SplitInv == ASSUME Inv, NEW p \in Proc, NEW to \in Track, Split(p, to) PROVE Inv'
<1>1. TypeOK'
  BY TypeStep DEF Inv, Next, Step
<1>2. PICK from \in Track : from = proc[p].cur /\ proc[p].pc = "split"
  BY TaskFields DEF Split, Inv, TypeOK, Holding
<1>3. /\ UNCHANGED <<pruned, deleted, dirtyAt, row, clock>>
      /\ ~finished[to]
  BY DEF Split
<1>4. finished[from] /\ from # to
  BY <1>2, <1>3 DEF Inv, OnlyFinished, OnFinished, Holding
<1>5. ~row[to].present /\ ~pruned[to]
  BY <1>3 DEF Inv, OnlyFinished
<1>6. CASE from \in deleted
  <2>1. proc' = [proc EXCEPT ![p] = Idle] /\ UNCHANGED <<finished, points, landed>>
    BY <1>2, <1>6 DEF Split
  <2>2. {} \in SUBSET Track
    OBVIOUS
  <2>3. /\ \A q \in Proc \ {p} : proc'[q] = proc[q]
        /\ proc'[p].pc \in {"idle", "recompute"}
        /\ proc'[p].tracks \subseteq {}
        /\ proc'[p].at = 0
    <3>1. ProcOK /\ Idle.pc = "idle" /\ Idle.tracks = {} /\ Idle.at = 0
      BY IdleType DEF Inv, TypeOK, Idle
    <3> QED
      BY <2>1, <3>1, OtherTasks
  <2>4. OnFinished(proc[p])'
    BY <2>3 DEF OnFinished, Holding
  <2>5. 0 <= clock
    BY StatsAssumption DEF Inv, TypeOK, DataOK
  <2> QED
    BY <1>1, <1>2, <1>3, <2>1, <2>3, <2>4, <2>5, QuietStep
<1>7. CASE from \notin deleted
  <2>1. PICK moved : moved = proc[p].points \intersect points[from]
    OBVIOUS
  <2>2. /\ finished' = [finished EXCEPT ![to] = TRUE]
        /\ points' = [points EXCEPT ![from] = points[from] \ moved, ![to] = moved]
        /\ landed' = [landed EXCEPT ![from] = landed[from] \ moved, ![to] = moved]
        /\ proc' = [proc EXCEPT ![p] = Working("dirty", "reshape", {from, to})]
    BY <1>2, <1>4, <1>7, <2>1 DEF Split, Inv, TypeOK, DataOK
  <2>3. /\ \A q \in Proc \ {p} : proc'[q] = proc[q]
        /\ proc'[p].pc = "dirty"
        /\ proc'[p].tracks = {from, to}
        /\ proc'[p].at = 0
    <3>1. proc'[p] = Working("dirty", "reshape", {from, to}) /\ \A q \in Proc \ {p} : proc'[q] = proc[q]
      BY <2>2, OtherTasks DEF Inv, TypeOK
    <3>2. "dirty" \in PC /\ "reshape" \in Op /\ {from, to} \in SUBSET Track
      BY DEF PC, Op
    <3> QED
      BY <3>1, <3>2, WorkingType
  <2>4. /\ finished'[from] /\ finished'[to]
        /\ \A t \in Track : finished[t] => finished'[t]
    BY <1>4, <2>2 DEF Inv, TypeOK, DataOK
  <2>5. /\ points'[to] = moved /\ landed'[to] = moved
        /\ points'[from] = points[from] \ moved /\ landed'[from] = landed[from] \ moved
        /\ \A t \in Track \ {from, to} : points'[t] = points[t] /\ landed'[t] = landed[t]
    BY <1>4, <2>2 DEF Inv, TypeOK, DataOK
  <2>6. \A t : /\ Unmarked(t) => Unmarked(t)'
               /\ Marking(t) => Marking(t)'
               /\ Rechecking(t) => Rechecking(t)'
    BY <1>2, <2>3, FlagsKept
  <2>7. \A t \in {from, to} : Unmarked(t)' /\ Marking(t)'
    BY <2>3 DEF Unmarked, Marking
  <2>8. OnlyFinished'
    <3>1. OnFinished(proc[p])'
      BY <2>3, <2>4 DEF OnFinished, Holding
    <3>2. \A t \in Track : row'[t].present \/ pruned'[t] => finished'[t]
      BY <1>3, <2>4 DEF Inv, OnlyFinished
    <3> QED
      BY <2>3, <2>4, <3>1, <3>2, FinishedStep DEF Inv, TypeOK
  <2>9. StoredPoints'
    BY <1>3, <2>5 DEF Inv, StoredPoints
  <2>10. ClockAhead'
    <3>1. 0 <= clock
      BY StatsAssumption DEF Inv, TypeOK, DataOK
    <3> QED
      BY <1>3, <2>3, <3>1 DEF Inv, ClockAhead
  <2>11. SnapshotsFlagged'
    <3>1. \A q \in Proc : proc[q].pc = "upsert" => proc[q].cur \in Track
      BY TaskFields DEF Inv, TypeOK, Holding
    <3> QED
      BY <1>3, <2>3, <2>5, <2>6, <2>7, <3>1 DEF Inv, SnapshotsFlagged
  <2>12. RowsFlagged'
    BY <1>3, <2>5, <2>6, <2>7 DEF Inv, RowsFlagged, Usable
  <2> QED
    BY <1>1, <2>8, <2>9, <2>10, <2>11, <2>12 DEF Inv
<1> QED
  BY <1>6, <1>7

LEMMA MergeInv == ASSUME Inv, NEW p \in Proc, Merge(p) PROVE Inv'
<1>1. TypeOK'
  BY TypeStep DEF Inv, Next, Step
<1>2. PICK keep \in Track : keep = proc[p].cur /\ proc[p].pc = "merge"
  BY TaskFields DEF Merge, Inv, TypeOK, Holding
<1>3. UNCHANGED <<finished, pruned, dirtyAt, clock>>
  BY DEF Merge
<1>4. finished[keep]
  BY <1>2 DEF Inv, OnlyFinished, OnFinished, Holding
<1>5. CASE keep \in deleted
  <2>1. proc' = [proc EXCEPT ![p] = Idle] /\ UNCHANGED <<points, landed, row, deleted>>
    BY <1>2, <1>5 DEF Merge
  <2>2. {} \in SUBSET Track
    OBVIOUS
  <2>3. /\ \A q \in Proc \ {p} : proc'[q] = proc[q]
        /\ proc'[p].pc \in {"idle", "recompute"}
        /\ proc'[p].tracks \subseteq {}
        /\ proc'[p].at = 0
    <3>1. ProcOK /\ Idle.pc = "idle" /\ Idle.tracks = {} /\ Idle.at = 0
      BY IdleType DEF Inv, TypeOK, Idle
    <3> QED
      BY <2>1, <3>1, OtherTasks
  <2>4. OnFinished(proc[p])'
    BY <2>3 DEF OnFinished, Holding
  <2>5. 0 <= clock
    BY StatsAssumption DEF Inv, TypeOK, DataOK
  <2> QED
    BY <1>1, <1>2, <1>3, <2>1, <2>3, <2>4, <2>5, QuietStep
<1>6. CASE keep \notin deleted
  <2>1. PICK others \in SUBSET Track : others = proc[p].tracks \ {keep}
    BY TaskFields DEF Inv, TypeOK
  <2>2. PICK gained : gained = UNION {points[o] : o \in others}
    OBVIOUS
  <2>3. /\ deleted' = deleted \union others
        /\ points' = [t \in Track |-> IF t = keep THEN points[keep] \union gained
                                      ELSE IF t \in others THEN {} ELSE points[t]]
        /\ landed' = [t \in Track |-> IF t = keep THEN landed[keep] \union gained
                                      ELSE IF t \in others THEN {} ELSE landed[t]]
        /\ row' = [t \in Track |-> IF t \in others THEN NoRow ELSE row[t]]
        /\ proc' = [proc EXCEPT ![p] = Working("dirty", "reshape", {keep})]
    BY <1>2, <1>6, <2>1, <2>2 DEF Merge
  <2>4. /\ \A q \in Proc \ {p} : proc'[q] = proc[q]
        /\ proc'[p].pc = "dirty"
        /\ proc'[p].tracks = {keep}
        /\ proc'[p].at = 0
    <3>1. proc'[p] = Working("dirty", "reshape", {keep}) /\ \A q \in Proc \ {p} : proc'[q] = proc[q]
      BY <2>3, OtherTasks DEF Inv, TypeOK
    <3>2. "dirty" \in PC /\ "reshape" \in Op /\ {keep} \in SUBSET Track
      BY DEF PC, Op
    <3> QED
      BY <3>1, <3>2, WorkingType
  <2>5. \A t : /\ Unmarked(t) => Unmarked(t)'
               /\ Marking(t) => Marking(t)'
               /\ Rechecking(t) => Rechecking(t)'
    BY <1>2, <2>4, FlagsKept
  <2>6. Unmarked(keep)' /\ Marking(keep)'
    BY <2>4 DEF Unmarked, Marking
  <2>7. /\ points'[keep] = points[keep] \union gained /\ landed'[keep] = landed[keep] \union gained
        /\ \A t \in Track \ deleted' : t # keep => points'[t] = points[t] /\ landed'[t] = landed[t]
        /\ \A t \in Track \ deleted' : row'[t] = row[t]
        /\ \A t \in Track : row'[t] = row[t] \/ row'[t] = NoRow
    BY <2>3
  <2>8. OnlyFinished'
    <3>1. OnFinished(proc[p])'
      BY <1>3, <1>4, <2>4 DEF OnFinished, Holding
    <3>2. \A t \in Track : row'[t].present \/ pruned'[t] => finished'[t]
      BY <1>3, <2>7 DEF Inv, OnlyFinished, NoRow
    <3> QED
      BY <1>3, <2>4, <3>1, <3>2, FinishedStep DEF Inv, TypeOK
  <2>9. StoredPoints'
    <3>1. \A t \in Track \ deleted' : t \notin deleted /\ pruned'[t] = pruned[t]
      BY <1>3, <2>3
    <3> QED
      BY <2>3, <2>7, <3>1 DEF Inv, StoredPoints
  <2>10. ClockAhead'
    <3>1. 0 <= clock /\ NoRow.at = 0
      BY StatsAssumption DEF Inv, TypeOK, DataOK, NoRow
    <3> QED
      BY <1>3, <2>4, <2>7, <3>1 DEF Inv, ClockAhead
  <2>11. SnapshotsFlagged'
    <3>1. \A q \in Proc : proc[q].pc = "upsert" => proc[q].cur \in Track
      BY TaskFields DEF Inv, TypeOK, Holding
    <3> QED
      BY <1>3, <2>3, <2>4, <2>5, <2>6, <2>7, <3>1 DEF Inv, SnapshotsFlagged
  <2>12. RowsFlagged'
    BY <1>3, <2>3, <2>5, <2>6, <2>7 DEF Inv, RowsFlagged, Usable
  <2> QED
    BY <1>1, <2>8, <2>9, <2>10, <2>11, <2>12 DEF Inv
<1> QED
  BY <1>5, <1>6

(* A task that begins work holds no snapshot and owes no flag.             *)
LEMMA StartInv == ASSUME Inv, NEW p \in Proc, Start(p) PROVE Inv'
<1>1. TypeOK'
  BY TypeStep DEF Inv, Next
<1>2. 0 <= clock
  BY StatsAssumption DEF Inv, TypeOK, DataOK
<1>3. ASSUME NEW op \in Op, NEW T \in SUBSET Track, proc[p].pc = "idle",
             UNCHANGED <<pruned, deleted, points, landed, dirtyAt, row, clock>>,
             \A t \in Track : finished[t] => finished'[t],
             \A t \in T : finished'[t],
             proc' = [proc EXCEPT ![p] = Working("recompute", op, T)]
      PROVE  Inv'
  <2>1. /\ proc'[p] = Working("recompute", op, T)
        /\ \A q \in Proc \ {p} : proc'[q] = proc[q]
    BY <1>3, OtherTasks DEF Inv, TypeOK
  <2>2. proc'[p].pc = "recompute" /\ proc'[p].tracks = T /\ proc'[p].at = 0
    BY <2>1, WorkingType DEF PC
  <2>3. OnFinished(proc[p])'
    BY <1>3, <2>2 DEF OnFinished, Holding
  <2> QED
    BY <1>1, <1>2, <1>3, <2>1, <2>2, <2>3, QuietStep
<1>4. ASSUME NEW pc \in {"split", "merge"}, NEW T \in SUBSET Track, NEW t \in Track,
             NEW Cut \in SUBSET Sample, proc[p].pc = "idle",
             UNCHANGED <<finished, pruned, deleted, points, landed, dirtyAt, row, clock>>,
             finished[t], \A u \in T : finished[u],
             proc' = [proc EXCEPT ![p] = Doing(pc, "reshape", T, t, Cut, 0, 0)]
      PROVE  Inv'
  <2>1. /\ proc'[p] = Doing(pc, "reshape", T, t, Cut, 0, 0)
        /\ \A q \in Proc \ {p} : proc'[q] = proc[q]
    BY <1>4, OtherTasks DEF Inv, TypeOK
  <2>2. proc'[p].pc = pc /\ proc'[p].tracks = T /\ proc'[p].cur = t /\ proc'[p].at = 0
    BY <2>1 DEF Doing
  <2>3. OnFinished(proc[p])'
    BY <1>4, <2>2 DEF OnFinished, Holding
  <2> QED
    BY <1>1, <1>2, <1>4, <2>1, <2>2, <2>3, QuietStep
<1>5. CASE \E T \in SUBSET Track, s \in Sample : InsertPoints(p, T, s)
  BY <1>5, InsertPointsInv
<1>6. ASSUME NEW t \in Track, FinishTrack(p, t) PROVE Inv'
  <2>1. /\ proc[p].pc = "idle"
        /\ UNCHANGED <<pruned, deleted, points, landed, dirtyAt, row, clock>>
        /\ proc' = [proc EXCEPT ![p] = Working("recompute", "finish", {t})]
    BY <1>6 DEF FinishTrack
  <2>2. finished'[t] /\ \A u \in Track : finished[u] => finished'[u]
    BY <1>6 DEF FinishTrack, Inv, TypeOK, DataOK
  <2>3. "finish" \in Op /\ {t} \in SUBSET Track
    BY DEF Op
  <2> QED
    BY <1>3, <2>1, <2>2, <2>3
<1>7. CASE Sweep(p)
  <2>1. PICK T \in SUBSET Track : T = Refillable
    BY DEF Refillable
  <2>2. /\ proc[p].pc = "idle"
        /\ UNCHANGED <<finished, pruned, deleted, points, landed, dirtyAt, row, clock>>
        /\ proc' = [proc EXCEPT ![p] = Working("recompute", "sweep", T)]
    BY <1>7, <2>1 DEF Sweep
  <2>3. "sweep" \in Op /\ \A t \in T : finished[t]
    BY <2>1 DEF Op, Refillable
  <2> QED
    BY <1>3, <2>2, <2>3
<1>8. ASSUME NEW due \in SUBSET Track, Retain(p, due) PROVE Inv'
  <2>1. /\ proc[p].pc = "idle" /\ \A t \in due : finished[t]
        /\ UNCHANGED <<finished, pruned, deleted, points, landed, dirtyAt, row, clock>>
        /\ proc' = [proc EXCEPT ![p] = Working("recompute", "prune", due)]
    BY <1>8 DEF Retain
  <2>2. "prune" \in Op
    BY DEF Op
  <2> QED
    BY <1>3, <2>1, <2>2
<1>9. ASSUME NEW from \in Track, NEW Cut \in SUBSET Sample, CheckSplit(p, from, Cut) PROVE Inv'
  <2>1. /\ proc[p].pc = "idle" /\ finished[from]
        /\ UNCHANGED <<finished, pruned, deleted, points, landed, dirtyAt, row, clock>>
        /\ proc' = [proc EXCEPT ![p] = Doing("split", "reshape", {}, from, Cut, 0, 0)]
    BY <1>9 DEF CheckSplit
  <2>2. {} \in SUBSET Track /\ \A u \in {} : finished[u]
    OBVIOUS
  <2> QED
    BY <1>4, <2>1, <2>2
<1>10. ASSUME NEW keep \in Track, NEW other \in Track, CheckMerge(p, keep, other) PROVE Inv'
  <2>1. /\ proc[p].pc = "idle" /\ \A t \in {keep, other} : finished[t]
        /\ UNCHANGED <<finished, pruned, deleted, points, landed, dirtyAt, row, clock>>
        /\ proc' = [proc EXCEPT ![p] = Doing("merge", "reshape", {keep, other}, keep, {}, 0, 0)]
    BY <1>10 DEF CheckMerge
  <2>2. {keep, other} \in SUBSET Track /\ {} \in SUBSET Sample /\ finished[keep]
    BY <2>1
  <2> QED
    BY <1>4, <2>1, <2>2
<1>11. CASE UpdateCar(p)
  <2>1. /\ proc[p].pc = "idle"
        /\ UNCHANGED <<finished, pruned, deleted, points, landed, dirtyAt, row, clock>>
        /\ proc' = [proc EXCEPT ![p] = Working("carmark", "car", {})]
    BY <1>11 DEF UpdateCar
  <2>2. "carmark" \in PC /\ "car" \in Op /\ {} \in SUBSET Track
    BY DEF PC, Op
  <2>3. /\ proc'[p] = Working("carmark", "car", {})
        /\ \A q \in Proc \ {p} : proc'[q] = proc[q]
    BY <2>1, OtherTasks DEF Inv, TypeOK
  <2>4. proc'[p].pc = "carmark" /\ proc'[p].at = 0
    BY <2>2, <2>3, WorkingType
  <2>5. OnFinished(proc[p])'
    BY <2>4 DEF OnFinished, Holding
  <2> QED
    BY <1>1, <1>2, <2>1, <2>3, <2>4, <2>5, QuietStep
<1> QED
  BY <1>5, <1>6, <1>7, <1>8, <1>9, <1>10, <1>11 DEF Start

LEMMA InvInit == Init => Inv
<1> SUFFICES ASSUME Init PROVE Inv
  OBVIOUS
<1>1. TypeOK
  BY InitTypeOK
<1>2. \A t \in Track : ~row[t].present /\ ~pruned[t] /\ row[t].at = 0 /\ points[t] = landed[t]
  BY DEF Init, NoRow
<1>3. \A p \in Proc : proc[p].pc = "idle" /\ proc[p].at = 0
  BY IdleType DEF Init
<1>4. OnlyFinished
  BY <1>2, <1>3 DEF OnlyFinished, OnFinished, Holding
<1>5. StoredPoints /\ SnapshotsFlagged /\ RowsFlagged
  BY <1>2, <1>3 DEF StoredPoints, SnapshotsFlagged, RowsFlagged, Usable
<1>6. ClockAhead
  BY <1>2, <1>3 DEF Init, ClockAhead
<1> QED
  BY <1>1, <1>4, <1>5, <1>6 DEF Inv

LEMMA InvStep == Inv /\ [Next]_vars => Inv'
<1> SUFFICES ASSUME Inv, [Next]_vars PROVE Inv'
  OBVIOUS
<1>1. CASE Tick
  BY <1>1, TickInv
<1>2. CASE \E t \in Track : PurgeTrack(t)
  BY <1>2, PurgeTrackInv
<1>3. ASSUME NEW p \in Proc, Step(p) PROVE Inv'
  BY <1>3, ReadFinishedInv, MarkDirtyInv, MarkStaleInv, BeginRecomputeInv, UpsertInv, RecheckInv,
     PruneInv, SplitInv, MergeInv, MarkStaleForCarInv DEF Step
<1>4. ASSUME NEW p \in Proc, Start(p) PROVE Inv'
  BY <1>4, StartInv
<1>5. CASE UNCHANGED vars
  BY <1>5 DEF vars, Inv, TypeOK, DataOK, ProcOK, OnlyFinished, OnFinished, StoredPoints, ClockAhead,
              SnapshotsFlagged, RowsFlagged, Unmarked, Marking, Rechecking, Usable
<1> QED
  BY <1>1, <1>2, <1>3, <1>4, <1>5 DEF Next

(* Once the requests that changed a trip have answered, a row that readers *)
(* use counts every point the trip ever took: mark_stale and the check at  *)
(* the end of recompute close every window between them.                   *)
THEOREM FreshRowsAreExact == Spec => []FreshRowIsExact
<1>1. Inv => FreshRowIsExact
  BY DEF Inv, RowsFlagged, FreshRowIsExact
<1> QED
  BY InvInit, InvStep, <1>1, PTL DEF Spec

-----------------------------------------------------------------------------
(* Behind a pruned trip there is a row, and there is one in front of a     *)
(* task that is about to prune a trip or has just written its row.         *)
HasRow(t) == t \in deleted \/ row[t].present

Pruning(p) == proc[p].pc \in {"recheck", "prune"} => HasRow(proc[p].cur)

RowsBehind == (\A t \in Track : pruned[t] => HasRow(t)) /\ (\A p \in Proc : Pruning(p))

(* Rows go with their trips only.                                          *)
RowsRemain == \A t \in Track : HasRow(t) => HasRow(t)'

LEMMA PruningStays ==
    ASSUME TypeOK, RowsRemain, NEW p \in Proc, Pruning(p), proc'[p] = proc[p]
    PROVE  Pruning(p)'
<1> PICK t : t = proc[p].cur
  OBVIOUS
<1>1. proc[p].pc \in {"recheck", "prune"} => t \in Track
  BY TaskFields DEF TypeOK, Holding
<1>2. t \in Track /\ HasRow(t) => HasRow(t)'
  BY DEF RowsRemain
<1> QED BY <1>1, <1>2 DEF Pruning

(* A step of one task that goes on to something else than a pruning.       *)
LEMMA OthersPrune ==
    ASSUME TypeOK, RowsBehind, RowsRemain, UNCHANGED pruned, NEW p \in Proc, NEW next,
           proc' = [proc EXCEPT ![p] = next], next.pc \notin {"recheck", "prune"}
    PROVE  RowsBehind'
<1>1. proc'[p] = next /\ \A q \in Proc \ {p} : proc'[q] = proc[q]
  BY OtherTasks DEF TypeOK
<1>2. \A q \in Proc : Pruning(q)'
  BY <1>1, PruningStays DEF RowsBehind, Pruning
<1>3. \A t \in Track : pruned'[t] => HasRow(t)'
  BY DEF RowsBehind, RowsRemain
<1> QED BY <1>2, <1>3 DEF RowsBehind

LEMMA SameRowsRemain == ASSUME UNCHANGED <<deleted, row>> PROVE RowsRemain
BY DEF RowsRemain, HasRow

LEMMA MarkedRowsRemain ==
    ASSUME TypeOK, NEW T, row' = row \/ row' = MarkRows(T), UNCHANGED deleted
    PROVE  RowsRemain
<1>1. row \in [Track -> StatsRow]
  BY DEF TypeOK, DataOK
<1>2. \A t \in Track : row'[t].present = row[t].present
  BY <1>1, MarkRowsType
<1> QED BY <1>2 DEF RowsRemain, HasRow

LEMMA RowsBehindStep == ASSUME TypeOK, RowsBehind, FaultyNext PROVE RowsBehind'
<1>a. DataOK /\ ProcOK
  BY DEF TypeOK
<1>b. Idle.pc = "idle"
  BY IdleType
<1>1. CASE Tick
  BY <1>1, SameRowsRemain DEF Tick, RowsBehind, Pruning, HasRow
<1>2. ASSUME NEW t \in Track, PurgeTrack(t) PROVE RowsBehind'
  <2>1. RowsRemain /\ UNCHANGED <<pruned, proc>>
    BY <1>a, <1>2 DEF PurgeTrack, RowsRemain, HasRow, DataOK
  <2>2. \A q \in Proc : Pruning(q)'
    BY <2>1, PruningStays DEF RowsBehind
  <2> QED BY <2>1, <2>2 DEF RowsBehind, RowsRemain
<1>3. ASSUME NEW p \in Proc, Fail(p) PROVE RowsBehind'
  BY <1>b, <1>3, SameRowsRemain, OthersPrune DEF Fail
<1>4. ASSUME NEW p \in Proc, Step(p) PROVE RowsBehind'
  <2> DEFINE next == NextTrack(proc[p].op, proc[p].tracks)
  <2>0. next.pc \notin {"recheck", "prune"}
    BY <1>a, TaskFields, NextTrackType
  <2>1. CASE ReadFinished(p)
    <3> PICK new : new = IF \A t \in proc[p].tracks : ~(finished[t] /\ t \notin deleted) THEN Idle
                         ELSE Working("dirty", "sample", {t \in proc[p].tracks : finished[t] /\ t \notin deleted})
      OBVIOUS
    <3>1. proc' = [proc EXCEPT ![p] = new] /\ UNCHANGED <<deleted, row, pruned>>
      BY <2>1 DEF ReadFinished
    <3>2. new.pc \notin {"recheck", "prune"}
      BY <1>b DEF Working, Doing
    <3> QED BY <3>1, <3>2, SameRowsRemain, OthersPrune
  <2>2. CASE MarkDirty(p)
    <3> PICK new : new = [proc[p] EXCEPT !.pc = "mark"]
      OBVIOUS
    <3>1. proc' = [proc EXCEPT ![p] = new] /\ UNCHANGED <<deleted, row, pruned>>
      BY <1>a, <2>2 DEF MarkDirty, ProcOK
    <3>2. new.pc = "mark"
      BY <1>a, TaskFields, AtPC DEF PC
    <3> QED BY <3>1, <3>2, SameRowsRemain, OthersPrune
  <2>3. CASE MarkStale(p)
    <3>1. RowsRemain
      BY <2>3, MarkedRowsRemain DEF MarkStale
    <3>2. proc' = [proc EXCEPT ![p] = next] \/ proc' = [proc EXCEPT ![p] = Idle]
      BY <2>3 DEF MarkStale
    <3>3. UNCHANGED pruned
      BY <2>3 DEF MarkStale
    <3> QED BY <1>b, <2>0, <3>1, <3>2, <3>3, OthersPrune
  <2>4. ASSUME NEW t \in Track, BeginRecompute(p, t) PROVE RowsBehind'
    <3> PICK new : new = IF t \in deleted \/ pruned[t] THEN NextTrack(proc[p].op, proc[p].tracks \ {t})
                         ELSE Doing("upsert", proc[p].op, proc[p].tracks \ {t}, t, points[t], car, clock)
      OBVIOUS
    <3>1. proc' = [proc EXCEPT ![p] = new] /\ UNCHANGED <<deleted, row, pruned>>
      BY <2>4 DEF BeginRecompute
    <3>2. NextTrack(proc[p].op, proc[p].tracks \ {t}).pc \notin {"recheck", "prune"}
      BY <1>a, TaskFields, NextTrackType
    <3>3. new.pc \notin {"recheck", "prune"}
      BY <3>2 DEF Doing
    <3> QED BY <3>1, <3>3, SameRowsRemain, OthersPrune
  <2>5. CASE Upsert(p)
    <3> PICK t \in Track : t = proc[p].cur
      BY <1>a, <2>5, TaskFields DEF Upsert, Holding
    <3>1. UNCHANGED <<pruned, deleted>>
      BY <2>5 DEF Upsert
    <3>2. CASE t \in deleted
      BY <1>b, <2>0, <2>5, <3>1, <3>2, SameRowsRemain, OthersPrune DEF Upsert
    <3>3. CASE t \notin deleted
      <4> PICK new : new = [proc[p] EXCEPT !.pc = "recheck"]
        OBVIOUS
      <4>1. proc' = [proc EXCEPT ![p] = new]
        BY <1>a, <2>5, <3>3 DEF Upsert, ProcOK
      <4>2. new.pc = "recheck" /\ new.cur = t
        BY <1>a, TaskFields, AtPC DEF PC
      <4> PICK stored : stored = [present |-> TRUE, stale |-> FALSE, points |-> proc[p].points,
                                  car |-> proc[p].car, at |-> proc[p].at]
        OBVIOUS
      <4>3. row' = [row EXCEPT ![t] = stored] /\ stored.present
        BY <2>5, <3>3 DEF Upsert
      <4>4. HasRow(t)' /\ RowsRemain
        BY <1>a, <3>1, <4>3 DEF HasRow, RowsRemain, DataOK
      <4>5. proc'[p] = new /\ \A q \in Proc \ {p} : proc'[q] = proc[q]
        BY <1>a, <4>1, OtherTasks
      <4>6. Pruning(p)' /\ \A q \in Proc \ {p} : Pruning(q)'
        BY <4>2, <4>4, <4>5, PruningStays DEF RowsBehind, Pruning
      <4> QED BY <3>1, <4>4, <4>6 DEF RowsBehind, RowsRemain
    <3> QED BY <3>2, <3>3
  <2>6. CASE Recheck(p)
    <3> PICK t \in Track : t = proc[p].cur
      BY <1>a, <2>6, TaskFields DEF Recheck, Holding
    <3>1. RowsRemain /\ UNCHANGED pruned
      <4>1. row' = row \/ row' = MarkRows({t})
        BY <2>6 DEF Recheck
      <4> QED BY <2>6, <4>1, MarkedRowsRemain DEF Recheck
    <3>2. CASE proc[p].op = "prune"
      <4> PICK new : new = [proc[p] EXCEPT !.pc = "prune"]
        OBVIOUS
      <4>1. proc' = [proc EXCEPT ![p] = new]
        BY <1>a, <2>6, <3>2 DEF Recheck, ProcOK
      <4>2. new.cur = t
        BY <1>a, TaskFields, AtPC DEF PC
      <4>3. HasRow(t)'
        BY <2>6, <3>1 DEF Recheck, RowsBehind, Pruning, RowsRemain
      <4>4. proc'[p] = new /\ \A q \in Proc \ {p} : proc'[q] = proc[q]
        BY <1>a, <4>1, OtherTasks
      <4>5. Pruning(p)' /\ \A q \in Proc \ {p} : Pruning(q)'
        BY <3>1, <4>2, <4>3, <4>4, PruningStays DEF RowsBehind, Pruning
      <4> QED BY <3>1, <4>5 DEF RowsBehind, RowsRemain
    <3>3. CASE proc[p].op # "prune"
      <4>1. proc' = [proc EXCEPT ![p] = next]
        BY <2>6, <3>3 DEF Recheck
      <4> QED BY <2>0, <3>1, <4>1, OthersPrune
    <3> QED BY <3>2, <3>3
  <2>7. CASE Prune(p)
    <3> PICK t \in Track : t = proc[p].cur /\ HasRow(t)
      BY <1>a, <2>7, TaskFields DEF Prune, Holding, RowsBehind, Pruning
    <3>1. /\ RowsRemain /\ proc' = [proc EXCEPT ![p] = next]
          /\ \A u \in Track \ {t} : pruned'[u] = pruned[u]
      BY <1>a, <2>7, SameRowsRemain DEF Prune, DataOK
    <3>2. proc'[p] = next /\ \A q \in Proc \ {p} : proc'[q] = proc[q]
      BY <1>a, <3>1, OtherTasks
    <3> HIDE DEF next
    <3>3. \A q \in Proc : Pruning(q)'
      BY <2>0, <3>1, <3>2, PruningStays DEF RowsBehind, Pruning
    <3>4. \A u \in Track : pruned'[u] => HasRow(u)'
      BY <3>1 DEF RowsBehind, RowsRemain
    <3> QED BY <3>3, <3>4 DEF RowsBehind
  <2>8. ASSUME NEW to \in Track, Split(p, to) PROVE RowsBehind'
    <3> PICK new : new = Working("dirty", "reshape", {proc[p].cur, to})
      OBVIOUS
    <3>1. proc' = [proc EXCEPT ![p] = Idle] \/ proc' = [proc EXCEPT ![p] = new]
      BY <2>8 DEF Split
    <3>2. new.pc = "dirty" /\ UNCHANGED <<deleted, row, pruned>>
      BY <2>8 DEF Working, Doing, Split
    <3> QED BY <1>b, <3>1, <3>2, SameRowsRemain, OthersPrune
  <2>9. CASE Merge(p)
    <3> PICK new : new = Working("dirty", "reshape", {proc[p].cur})
      OBVIOUS
    <3>1. proc' = [proc EXCEPT ![p] = Idle] \/ proc' = [proc EXCEPT ![p] = new]
      BY <2>9 DEF Merge
    <3>2. new.pc = "dirty" /\ UNCHANGED pruned
      BY <2>9 DEF Working, Doing, Merge
    <3>3. RowsRemain
      BY <2>9 DEF Merge, RowsRemain, HasRow
    <3> QED BY <1>b, <3>1, <3>2, <3>3, OthersPrune
  <2>10. CASE MarkStaleForCar(p)
    <3>1. RowsRemain /\ UNCHANGED pruned /\ proc' = [proc EXCEPT ![p] = Idle]
      BY <2>10, MarkedRowsRemain DEF MarkStaleForCar
    <3> QED BY <1>b, <3>1, OthersPrune
  <2> QED
    BY <1>4, <2>1, <2>2, <2>3, <2>4, <2>5, <2>6, <2>7, <2>8, <2>9, <2>10 DEF Step
<1>5. ASSUME NEW p \in Proc, Start(p) PROVE RowsBehind'
  <2>1. UNCHANGED <<deleted, row, pruned>>
    BY <1>5 DEF Start, InsertPoints, FinishTrack, Sweep, Retain, CheckSplit, CheckMerge, UpdateCar
  <2>2. \E new : proc' = [proc EXCEPT ![p] = new] /\ new.pc \notin {"recheck", "prune"}
    BY <1>5 DEF Start, InsertPoints, FinishTrack, Sweep, Retain, CheckSplit, CheckMerge, UpdateCar, Working, Doing
  <2> QED BY <2>1, <2>2, SameRowsRemain, OthersPrune
<1> QED
  BY <1>1, <1>2, <1>3, <1>4, <1>5 DEF FaultyNext, Next

(* Retention deletes the points of no trip without a stored row, whichever *)
(* tasks die: the row is written before the points go, and rows go with    *)
(* their trips only.                                                       *)
THEOREM PrunedTripsHaveRows == FaultySpec => []PrunedHasRow
<1>1. Init => RowsBehind
  BY IdleType DEF Init, RowsBehind, Pruning
<1>2. TypeOK /\ RowsBehind /\ [FaultyNext]_vars => RowsBehind'
  <2> SUFFICES ASSUME TypeOK, RowsBehind, [FaultyNext]_vars PROVE RowsBehind'
    OBVIOUS
  <2> QED BY RowsBehindStep DEF vars, RowsBehind, Pruning, HasRow
<1>3. RowsBehind => PrunedHasRow
  BY DEF RowsBehind, HasRow, PrunedHasRow
<1> QED
  BY <1>1, <1>2, <1>3, FaultyTypeCorrect, PTL DEF FaultySpec

=============================================================================
