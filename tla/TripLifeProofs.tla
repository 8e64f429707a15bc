--------------------------- MODULE TripLifeProofs ---------------------------
(***************************************************************************)
(* Types of TripLife; that a tracking id leads to a trip through any       *)
(* merges; that no change of a finished trip escapes finalize; and that a  *)
(* stored sample is lost only in the ways TripLife names.                  *)
(***************************************************************************)
EXTENDS TripLife, FiniteSetTheorems, WellFoundedInduction, TLAPS

(* The last of the instants of a trip's points.  It is the instant with    *)
(* the fewest after it: inclusion is well-founded on finite sets.          *)
LEMMA LastIsInstant ==
    ASSUME NEW S \in SUBSET Instant, S # {}
    PROVE  Max(S) \in S
<1> DEFINE After(x) == (x + 1)..LastInstant
           Afters == {After(x) : x \in S}
           All == FiniteSubsetsOf(1..LastInstant)
<1>1. LastInstant \in Nat /\ Instant = 1..LastInstant
  BY LifeAssumption DEF Instant
<1>2. IsFiniteSet(1..LastInstant)
  BY <1>1, FS_Interval
<1>3. All = SUBSET (1..LastInstant)
  BY <1>2, FS_FiniteSubsetsOfFinite
<1>4. Afters \subseteq All /\ Afters # {}
  <2>1. \A x \in S : After(x) \in SUBSET (1..LastInstant)
    BY <1>1
  <2> HIDE DEF After, All
  <2> QED BY <1>3, <2>1
<1>5. IsWellFoundedOn(StrictSubsetOrdering(1..LastInstant), All)
  BY FS_StrictSubsetOrderingWellFounded
<1>6. \E A \in Afters : \A B \in Afters : <<B, A>> \notin StrictSubsetOrdering(1..LastInstant)
  <2> HIDE DEF Afters, All
  <2> QED BY <1>4, <1>5, WFMin
<1>7. PICK x \in S : \A y \in S : <<After(y), After(x)>> \notin StrictSubsetOrdering(1..LastInstant)
  BY <1>6
<1>8. \A y \in S : x >= y
  <2> SUFFICES ASSUME NEW y \in S, y > x PROVE FALSE
    BY <1>1
  <2>1. After(y) \subseteq After(x) /\ y \in After(x) /\ y \notin After(y)
    BY <1>1
  <2>2. After(y) \subseteq 1..LastInstant /\ After(x) \subseteq 1..LastInstant
    BY <1>1
  <2>3. <<After(y), After(x)>> \in StrictSubsetOrdering(1..LastInstant)
    <3> HIDE DEF After
    <3> QED BY <2>1, <2>2 DEF StrictSubsetOrdering
  <2> QED BY <1>7, <2>3
<1> QED BY <1>8 DEF Max

-----------------------------------------------------------------------------
LEMMA LiveRow ==
    ASSUME NEW key \in Nat, NEW end \in Nat, NEW finished \in BOOLEAN, NEW points \in SUBSET Sample
    PROVE  /\ LiveTrip(key, end, finished, points) \in TripRow
           /\ LiveTrip(key, end, finished, points).state = "live"
           /\ LiveTrip(key, end, finished, points).key = key
           /\ LiveTrip(key, end, finished, points).points = points
BY DEF LiveTrip, TripRow

LEMMA GoneRow == Gone \in TripRow /\ Gone.state = "gone" /\ Gone.points = {}
BY DEF Gone, Unused, LiveTrip, TripRow

LEMMA RowFields ==
    ASSUME TypeOK, NEW t \in Trip
    PROVE  /\ trip[t] \in TripRow /\ trip[t].key \in Nat /\ trip[t].start \in Nat /\ trip[t].end \in Nat
           /\ trip[t].points \in SUBSET Sample /\ trip[t].finished \in BOOLEAN
           /\ Rows(trip[t].points) \in SUBSET Instant
BY DEF TypeOK, TripRow, Rows, Sample

LEMMA LastRow ==
    ASSUME NEW points \in SUBSET Sample, points # {}
    PROVE  Max(Rows(points)) \in Nat
<1>1. Rows(points) \in SUBSET Instant /\ Rows(points) # {}
  BY DEF Rows, Sample
<1> QED BY <1>1, LastIsInstant, LifeAssumption DEF Instant

LEMMA TaskFields ==
    ASSUME TypeOK, NEW p \in Task
    PROVE  /\ task[p] \in TaskState /\ task[p].pc \in PC
           /\ task[p].trip \in Trip \union {NoTrip} /\ task[p].other \in Trip \union {NoTrip}
           /\ task[p].sample \in Sample \union {NoSample} /\ task[p].at \in Nat
           /\ task[p].moved \in SUBSET Sample /\ task[p].queue \in SUBSET Trip
BY DEF TypeOK, TaskState

LEMMA IdleType ==
    /\ IdleTask \in TaskState /\ IdleTask.pc = "idle" /\ IdleTask.queue = {}
    /\ \A T \in SUBSET Trip : /\ Queueing(T) \in TaskState
                              /\ Queueing(T).pc = "queue" /\ Queueing(T).queue = T
BY DEF IdleTask, Queueing, TaskState, PC

LEMMA ByKeyType ==
    ASSUME TypeOK, NEW k \in Instant
    PROVE  ByKey(k) \in Trip \union {NoTrip}
BY DEF TypeOK, ByKey, OwnTrip, Live

(* The rows and the jobs; a trip that is not live has neither.             *)
DataOK ==
    /\ trip \in [Trip -> TripRow]
    /\ alias \in [Instant -> Trip \union {NoTrip}]
    /\ job \in [Trip -> {"none", "queued", "running"}]
    /\ \A t \in Trip \ Live : trip[t].points = {} /\ job[t] = "none"

LEMMA DataSame == ASSUME DataOK, UNCHANGED <<trip, alias, job>> PROVE DataOK'
BY DEF DataOK, Live

LEMMA Deleting ==
    ASSUME TypeOK, NEW t \in Trip, DeleteTracks(t)
    PROVE  DataOK' /\ started' \in SUBSET Start
<1>1. Gone \in TripRow /\ Gone.points = {}
  BY RowFields, GoneRow
<1>2. trip' \in [Trip -> TripRow] /\ \A u \in Trip : trip'[u] = IF u = t THEN Gone ELSE trip[u]
  BY <1>1 DEF DeleteTracks, TypeOK
<1>3. \A u \in Trip \ Live' : u = t \/ u \in Trip \ Live
  BY <1>2 DEF Live
<1>4. job' \in [Trip -> {"none", "queued", "running"}] /\ \A u \in Trip : job'[u] = IF u = t THEN "none" ELSE job[u]
  BY DEF DeleteTracks, TypeOK
<1>5. \A u \in Trip \ Live' : trip'[u].points = {} /\ job'[u] = "none"
  BY <1>1, <1>2, <1>3, <1>4 DEF TypeOK
<1>6. alias' \in [Instant -> Trip \union {NoTrip}] /\ started' \in SUBSET Start
  BY DEF DeleteTracks, TypeOK
<1> QED BY <1>2, <1>4, <1>5, <1>6 DEF DataOK

LEMMA InitTypeOK == Init => TypeOK
<1> SUFFICES ASSUME Init PROVE TypeOK
  OBVIOUS
<1>1. Unused \in TripRow /\ Unused.points = {}
  BY DEF Unused, LiveTrip, TripRow
<1>2. /\ trip \in [Trip -> TripRow] /\ alias \in [Instant -> Trip \union {NoTrip}]
      /\ job \in [Trip -> {"none", "queued", "running"}]
      /\ \A t \in Trip : trip[t].points = {} /\ job[t] = "none"
  BY <1>1 DEF Init
<1>3. task \in [Task -> TaskState] /\ seen \in [Trip -> SUBSET (Sample \union {NoSample})]
  BY IdleType DEF Init
<1>4. now \in Nat /\ started \in SUBSET Start /\ unqueued \in SUBSET Trip
      /\ {acked, raced} \subseteq SUBSET Sample
  BY LifeAssumption DEF Init
<1> QED BY <1>2, <1>3, <1>4 DEF TypeOK

(* The rows stay what they are, live or not.                               *)
LEMMA DataKept ==
    ASSUME DataOK, trip' \in [Trip -> TripRow], alias' = alias,
           \A u \in Trip : trip'[u].state = trip[u].state,
           \A u \in Trip \ Live : trip'[u] = trip[u] /\ job'[u] = job[u],
           job' \in [Trip -> {"none", "queued", "running"}]
    PROVE  DataOK'
<1>1. Live' = Live
  BY DEF Live
<1> QED BY <1>1 DEF DataOK

(* Fields of a row that change: a trip is finished, keeps what a merge     *)
(* moves to it, or is left with one part of a split.                       *)
AllRows(f) == f \in [Trip -> TripRow]

Ended(f, t, end) == [f EXCEPT ![t].finished = TRUE, ![t].end = end]
Extended(f, t, end, moved) == [f EXCEPT ![t].end = end, ![t].points = @ \union moved]
Shortened(f, t, end, points) == [f EXCEPT ![t].points = points, ![t].end = end]

SameTrips(f, g) == \A u \in Trip : g[u].state = f[u].state /\ g[u].key = f[u].key
SameBut(t, f, g) == \A u \in Trip \ {t} : g[u] = f[u]

LEMMA Ending ==
    ASSUME NEW f, AllRows(f), NEW t \in Trip, NEW end \in Nat
    PROVE  /\ AllRows(Ended(f, t, end))
           /\ SameTrips(f, Ended(f, t, end)) /\ SameBut(t, f, Ended(f, t, end))
           /\ Ended(f, t, end)[t].points = f[t].points
<1> USE DEF AllRows, SameTrips, SameBut
<1>1. PICK finished \in BOOLEAN : finished = TRUE
  OBVIOUS
<1> DEFINE one == [f EXCEPT ![t].finished = finished]
           two == [one EXCEPT ![t].end = end]
<1>2. one \in [Trip -> TripRow] /\ SameTrips(f, one) /\ SameBut(t, f, one) /\ one[t].points = f[t].points
  BY DEF TripRow
<1>3. two \in [Trip -> TripRow] /\ SameTrips(one, two) /\ SameBut(t, one, two) /\ two[t].points = one[t].points
  <2>1. one \in [Trip -> TripRow]
    BY <1>2
  <2> HIDE DEF one
  <2> QED BY <2>1 DEF TripRow
<1>4. two = Ended(f, t, end)
  BY <1>1 DEF Ended
<1> HIDE DEF one, two
<1> QED BY <1>2, <1>3, <1>4

LEMMA Extending ==
    ASSUME NEW f, AllRows(f), NEW t \in Trip, NEW end \in Nat, NEW moved \in SUBSET Sample
    PROVE  /\ AllRows(Extended(f, t, end, moved))
           /\ SameTrips(f, Extended(f, t, end, moved)) /\ SameBut(t, f, Extended(f, t, end, moved))
BY DEF TripRow, AllRows, SameTrips, SameBut, Extended

LEMMA Shortening ==
    ASSUME NEW f, AllRows(f), NEW t \in Trip, NEW end \in Nat, NEW points \in SUBSET Sample
    PROVE  /\ AllRows(Shortened(f, t, end, points))
           /\ SameTrips(f, Shortened(f, t, end, points)) /\ SameBut(t, f, Shortened(f, t, end, points))
BY DEF TripRow, AllRows, SameTrips, SameBut, Shortened

(* A task that is to insert a sample has one, one that is to merge has a   *)
(* trip to absorb, and only one that is to queue finalize has trips for it. *)
Held ==
    \A p \in Task :
        /\ task[p].pc = "insert" => task[p].sample \in Sample
        /\ task[p].pc = "merge" => task[p].other \in Trip
        /\ task[p].pc # "queue" => task[p].queue = {}

LEMMA NextData == ASSUME TypeOK, Held, Next PROVE DataOK' /\ started' \in SUBSET Start
<1>0. DataOK /\ started \in SUBSET Start
  BY DEF TypeOK, DataOK
<1>1. CASE Tick \/ (\E p \in Task, s \in Sent : ResolveTrack(p, s))
  BY <1>0, <1>1, DataSame DEF Tick, ResolveTrack
<1>2. ASSUME NEW k \in Start, TrackStart(k) PROVE DataOK' /\ started' \in SUBSET Start
  <2>1. k \in Nat
    BY LifeAssumption DEF Instant
  <2>2. LiveTrip(k, 0, FALSE, {}) \in TripRow /\ LiveTrip(k, 0, FALSE, {}).state = "live"
    BY <2>1 DEF LiveTrip, TripRow
  <2>3. PICK t \in Trip : trip' = [trip EXCEPT ![t] = LiveTrip(k, 0, FALSE, {})]
    BY <1>2 DEF TrackStart
  <2> QED BY <1>0, <1>2, <2>2, <2>3 DEF TrackStart, DataOK, Live
<1>3. ASSUME NEW p \in Task, InsertPoints(p) PROVE DataOK' /\ started' \in SUBSET Start
  <2>0. task[p].trip \in Trip \union {NoTrip} /\ task[p].sample \in Sample \union {NoSample}
    BY TaskFields
  <2>1. CASE UNCHANGED trip
    BY <1>0, <1>3, <2>1, DataSame DEF InsertPoints
  <2>2. CASE ~UNCHANGED trip
    <3>1. /\ task[p].trip \in Live
          /\ trip' = [trip EXCEPT ![task[p].trip].points = @ \union {task[p].sample}]
      BY <1>3, <2>2 DEF InsertPoints
    <3>2. task[p].pc = "insert"
      BY <1>3 DEF InsertPoints
    <3>3. task[p].sample \in Sample
      BY <3>2 DEF Held
    <3>4. PICK t \in Trip, s \in Sample : t = task[p].trip /\ s = task[p].sample /\ t \in Live
      BY <3>1, <3>3 DEF Live
    <3>5. trip' = Extended(trip, t, trip[t].end, {s})
      <4>1. trip[t].end = trip[t].end /\ trip[t] \in TripRow /\ AllRows(trip)
        BY <1>0 DEF DataOK, AllRows
      <4> QED BY <3>1, <3>4, <4>1 DEF Extended, AllRows, TripRow
    <3>6. AllRows(trip') /\ SameTrips(trip, trip') /\ SameBut(t, trip, trip')
      <4>1. AllRows(trip) /\ trip[t].end \in Nat /\ {s} \in SUBSET Sample
        BY <1>0, RowFields DEF DataOK, AllRows
      <4> QED BY <3>5, <4>1, Extending
    <3>7. UNCHANGED <<alias, job, started>>
      BY <1>3 DEF InsertPoints
    <3> QED BY <1>0, <3>4, <3>6, <3>7, DataKept DEF DataOK, AllRows, SameTrips, SameBut
  <2> QED BY <2>1, <2>2
<1>4. ASSUME NEW p \in Task, AfterPointsLanded(p) PROVE DataOK' /\ started' \in SUBSET Start
  BY <1>0, <1>4 DEF AfterPointsLanded, Enqueue, DataOK, Live
<1>5. ASSUME NEW p \in Task, NEW t \in Trip, FinishTrack(p, t) PROVE DataOK' /\ started' \in SUBSET Start
  <2>1. (IF trip[t].points = {} THEN trip[t].start ELSE Max(Rows(trip[t].points))) \in Nat
    BY RowFields, LastRow
  <2>2. now \in Nat /\ trip[t].start \in Nat
    BY RowFields DEF TypeOK
  <2>3. PICK end \in Nat : trip' = Ended(trip, t, end)
    BY <1>5, <2>1, <2>2 DEF FinishTrack, Ended
  <2>4. t \in Live /\ UNCHANGED <<alias, job, started>>
    BY <1>5 DEF FinishTrack
  <2>5. AllRows(trip') /\ SameTrips(trip, trip') /\ SameBut(t, trip, trip')
    BY <1>0, <2>3, Ending DEF DataOK, AllRows
  <2> QED BY <1>0, <2>4, <2>5, DataKept DEF DataOK, AllRows, SameTrips, SameBut
<1>6. ASSUME NEW p \in Task, QueueFinalize(p) PROVE DataOK' /\ started' \in SUBSET Start
  BY <1>0, <1>6 DEF QueueFinalize, Enqueue, DataOK, Live
<1>7. ASSUME NEW p \in Task, NEW t \in Trip, Finalize(p, t) PROVE DataOK' /\ started' \in SUBSET Start
  BY <1>0, <1>7 DEF Finalize, DataOK, Live
<1>8. ASSUME NEW p \in Task, PurgeTrack(p) PROVE DataOK' /\ started' \in SUBSET Start
  <2>1. CASE task[p].trip \in Live
    BY <1>8, <2>1, Deleting DEF PurgeTrack, Live
  <2>2. CASE task[p].trip \notin Live
    BY <1>0, <1>8, <2>2, DataSame DEF PurgeTrack
  <2> QED BY <2>1, <2>2
<1>9. ASSUME NEW t \in Trip, DeleteTrip(t) PROVE DataOK' /\ started' \in SUBSET Start
  BY <1>9, Deleting DEF DeleteTrip
<1>10. ASSUME NEW t \in Trip, PruneRawPoints(t) PROVE DataOK' /\ started' \in SUBSET Start
  BY <1>0, <1>10 DEF PruneRawPoints, DataOK, Live, TripRow
<1>11. ASSUME NEW p \in Task, NEW keep \in Trip, NEW other \in Trip, CheckMerge(p, keep, other)
       PROVE  DataOK' /\ started' \in SUBSET Start
  BY <1>0, <1>11, DataSame DEF CheckMerge
<1>12. ASSUME NEW p \in Task, MoveMerged(p) PROVE DataOK' /\ started' \in SUBSET Start
  BY <1>0, <1>12, DataSame DEF MoveMerged
<1>13. ASSUME NEW p \in Task, CommitMerge(p) PROVE DataOK' /\ started' \in SUBSET Start
  <2> DEFINE keep == task[p].trip
             other == task[p].other
  <2>1. CASE keep \notin Live
    BY <1>0, <1>13, <2>1, DataSame DEF CommitMerge
  <2>2. CASE keep \in Live
    <3>0. keep \in Trip /\ task[p].at \in Nat /\ task[p].moved \in SUBSET Sample /\ started' = started
      BY <1>13, <2>2, TaskFields DEF Live, CommitMerge
    <3>1. alias' \in [Instant -> Trip \union {NoTrip}]
      BY <1>0, <1>13, <2>2, <3>0 DEF CommitMerge, FollowMerge, DataOK
    <3>2. job' = [job EXCEPT ![other] = "none"]
      BY <1>13, <2>2 DEF CommitMerge
    <3>3. job' \in [Trip -> {"none", "queued", "running"}]
          /\ \A u \in Trip : job'[u] = "none" \/ job'[u] = job[u]
      BY <1>0, <3>2 DEF DataOK
    <3>4. CASE other \in Live
      <4>1. other \in Trip /\ trip[other] \in TripRow /\ trip[keep] \in TripRow
        BY <3>0, <3>4, RowFields DEF Live
      <4> DEFINE kept == Extended(trip, keep, task[p].at, task[p].moved)
      <4>3. AllRows(kept) /\ SameTrips(trip, kept) /\ SameBut(keep, trip, kept)
        BY <1>0, <3>0, Extending DEF DataOK, AllRows
      <4>4. trip' = [kept EXCEPT ![other] = Gone]
        BY <1>13, <2>2, <3>4 DEF CommitMerge, Merged, Extended
      <4> HIDE DEF kept
      <4> USE DEF AllRows, SameTrips, SameBut
      <4>5. Gone \in TripRow /\ Gone.points = {}
        BY <4>1, <4>3, GoneRow
      <4>6. /\ trip' \in [Trip -> TripRow] /\ trip'[other].points = {}
            /\ \A u \in Trip \ {other} : trip'[u] = kept[u]
        BY <4>1, <4>3, <4>4, <4>5
      <4>7. \A u \in Trip \ Live' : u = other \/ (u \in Trip \ Live /\ trip'[u] = trip[u])
        BY <2>2, <4>3, <4>6 DEF Live
      <4> QED BY <1>0, <3>0, <3>1, <3>2, <3>3, <4>1, <4>6, <4>7 DEF DataOK
    <3>5. CASE other \notin Live
      <4>1. trip' = [trip EXCEPT ![keep].end = task[p].at]
        BY <1>13, <2>2, <3>5 DEF CommitMerge
      <4>2. trip' \in [Trip -> TripRow]
        BY <1>0, <3>0, <4>1 DEF DataOK, TripRow
      <4>3. \A u \in Trip : trip'[u].state = trip[u].state /\ (u # keep => trip'[u] = trip[u])
        BY <1>0, <3>0, <4>1 DEF DataOK, TripRow
      <4>4. \A u \in Trip \ Live' : u \in Trip \ Live /\ trip'[u] = trip[u]
        BY <2>2, <4>3 DEF Live
      <4> QED BY <1>0, <3>0, <3>1, <3>3, <4>2, <4>4 DEF DataOK
    <3> QED BY <3>4, <3>5
  <2> QED BY <2>1, <2>2
<1>14. ASSUME NEW p \in Task, NEW t \in Trip, NEW at \in Instant, CheckSplit(p, t, at)
       PROVE  DataOK' /\ started' \in SUBSET Start
  BY <1>0, <1>14, DataSame DEF CheckSplit
<1>15. ASSUME NEW p \in Task, SplitTrip(p) PROVE DataOK' /\ started' \in SUBSET Start
  <2> DEFINE t == task[p].trip
             left == {s \in trip[t].points : s.at < task[p].at}
             right == trip[t].points \ left
             end == IF left = {} THEN 0 ELSE Max(Rows(left))
  <2>1. CASE UNCHANGED trip
    BY <1>0, <1>15, <2>1, DataSame DEF SplitTrip
  <2>2. CASE ~UNCHANGED trip
    <3>1. t \in Live /\ UNCHANGED <<alias, job, started>>
      BY <1>15, <2>2 DEF SplitTrip
    <3>2. t \in Trip /\ trip[t] \in TripRow /\ trip[t].state = "live" /\ trip[t].end \in Nat
          /\ left \in SUBSET Sample /\ right \in SUBSET Sample /\ task[p].at \in Nat
      BY <3>1, RowFields, TaskFields DEF Live
    <3>3. end \in Nat
      BY <3>2, LastRow
    <3>4. PICK new \in Trip :
            /\ trip[new].state = "unused"
            /\ trip' = [trip EXCEPT ![t].points = left, ![t].end = end,
                                    ![new] = LiveTrip(task[p].at, trip[t].end, TRUE, right)]
      BY <1>15, <2>2 DEF SplitTrip
    <3> HIDE DEF left, right, end
    <3>5. PICK row : row = LiveTrip(task[p].at, trip[t].end, TRUE, right)
      OBVIOUS
    <3>6. row \in TripRow /\ row.state = "live"
      BY <3>2, <3>5 DEF LiveTrip, TripRow
    <3>7. /\ trip' \in [Trip -> TripRow] /\ trip'[t].state = "live" /\ trip'[new].state = "live"
          /\ \A u \in Trip \ {t, new} : trip'[u] = trip[u]
      BY <1>0, <3>2, <3>3, <3>4, <3>5, <3>6 DEF DataOK, TripRow
    <3>8. \A u \in Trip \ Live' : u \in Trip \ Live /\ trip'[u] = trip[u]
      BY <3>7 DEF Live
    <3> QED BY <1>0, <3>1, <3>7, <3>8 DEF DataOK
  <2> QED BY <2>1, <2>2
<1>16. CASE Crash \/ \E p \in Task : Abort(p)
  <2>1. PICK P : job' = Requeued(P)
    BY <1>16 DEF Crash, Abort
  <2>2. \A u \in Trip : job'[u] = job[u] \/ (job[u] = "running" /\ job'[u] = "queued")
    BY <2>1 DEF Requeued
  <2>3. job' \in [Trip -> {"none", "queued", "running"}]
    BY <1>0, <2>1 DEF Requeued, DataOK
  <2> QED BY <1>0, <1>16, <2>2, <2>3 DEF Crash, Abort, DataOK, Live
<1> QED BY <1>1, <1>2, <1>3, <1>4, <1>5, <1>6, <1>7, <1>8, <1>9, <1>10, <1>11, <1>12, <1>13, <1>14,
        <1>15, <1>16 DEF Next, Proceeds, Goes

-----------------------------------------------------------------------------
LEMMA Becoming ==
    ASSUME TypeOK, Held, NEW p \in Task, NEW state \in TaskState, Becomes(p, state),
           state.pc = "insert" => state.sample \in Sample,
           state.pc = "merge" => state.other \in Trip,
           state.pc # "queue" => state.queue = {}
    PROVE  task' \in [Task -> TaskState] /\ Held'
<1>1. task' \in [Task -> TaskState] /\ \A q \in Task : task'[q] = IF q = p THEN state ELSE task[q]
  BY DEF TypeOK, Becomes
<1> QED BY <1>1 DEF Held

LEMMA Resting ==
    ASSUME TypeOK, Held, NEW p \in Task, Becomes(p, IdleTask)
    PROVE  task' \in [Task -> TaskState] /\ Held'
BY IdleType, Becoming

LEMMA Asking ==
    ASSUME TypeOK, Held, NEW p \in Task, NEW T \in SUBSET Trip, Becomes(p, Queueing(T))
    PROVE  task' \in [Task -> TaskState] /\ Held'
BY IdleType, Becoming

LEMMA NextTasks ==
    ASSUME TypeOK, Held, Next
    PROVE  task' \in [Task -> TaskState] /\ Held'
<1> DEFINE Goal == task' \in [Task -> TaskState] /\ Held'
<1>0. CASE UNCHANGED task
  BY <1>0 DEF TypeOK, Held
<1>1. CASE Tick \/ (\E k \in Start : TrackStart(k)) \/ (\E t \in Trip : DeleteTrip(t) \/ PruneRawPoints(t))
  BY <1>0, <1>1 DEF Tick, TrackStart, DeleteTrip, PruneRawPoints
<1>2. ASSUME NEW p \in Task, NEW s \in Sent, ResolveTrack(p, s) PROVE Goal
  <2>1. s \in Sample /\ s.key \in Instant
    BY LifeAssumption DEF Sample
  <2>2. ByKey(s.key) \in Trip \union {NoTrip}
    BY <2>1, ByKeyType
  <2> DEFINE state == [IdleTask EXCEPT !.pc = "insert", !.trip = ByKey(s.key), !.sample = s]
  <2>3. state \in TaskState /\ state.pc = "insert" /\ state.sample = s /\ state.queue = {}
    BY <2>1, <2>2, IdleType DEF TaskState, PC
  <2>4. Becomes(p, state)
    BY <1>2 DEF ResolveTrack
  <2> HIDE DEF state
  <2> QED BY <2>1, <2>3, <2>4, Becoming
<1>3. ASSUME NEW p \in Task, InsertPoints(p) PROVE Goal
  <2>1. CASE Becomes(p, IdleTask)
    BY <2>1, Resting
  <2>2. CASE Becomes(p, [task[p] EXCEPT !.pc = "landed"])
    <3> DEFINE state == [task[p] EXCEPT !.pc = "landed"]
    <3>1. state \in TaskState /\ state.pc = "landed" /\ state.queue = task[p].queue
      BY TaskFields DEF TaskState, PC
    <3>2. task[p].queue = {}
      BY <1>3 DEF InsertPoints, Held
    <3> HIDE DEF state
    <3> QED BY <2>2, <3>1, <3>2, Becoming DEF state
  <2> QED BY <1>3, <2>1, <2>2 DEF InsertPoints
<1>4. ASSUME NEW p \in Task, AfterPointsLanded(p) \/ QueueFinalize(p) \/ PurgeTrack(p) \/ Abort(p) PROVE Goal
  BY <1>4, Resting DEF AfterPointsLanded, QueueFinalize, PurgeTrack, Abort
<1>5. ASSUME NEW p \in Task, NEW t \in Trip, FinishTrack(p, t) PROVE Goal
  <2>1. {t} \in SUBSET Trip /\ Becomes(p, Queueing({t}))
    BY <1>5 DEF FinishTrack
  <2> QED BY <2>1, Asking
<1>6. ASSUME NEW p \in Task, NEW t \in Trip, Finalize(p, t) PROVE Goal
  <2>1. CASE Becomes(p, IdleTask)
    BY <2>1, Resting
  <2>2. CASE Becomes(p, [IdleTask EXCEPT !.pc = "purge", !.trip = t])
    <3> DEFINE state == [IdleTask EXCEPT !.pc = "purge", !.trip = t]
    <3>1. state \in TaskState /\ state.pc = "purge" /\ state.queue = {}
      BY IdleType DEF TaskState, PC
    <3> HIDE DEF state
    <3> QED BY <2>2, <3>1, Becoming DEF state
  <2> QED BY <1>6, <2>1, <2>2 DEF Finalize
<1>7. ASSUME NEW p \in Task, NEW keep \in Trip, NEW other \in Trip, CheckMerge(p, keep, other) PROVE Goal
  <2> DEFINE ends == {trip[keep].end, trip[other].end} \ {0}
             last == IF ends = {} THEN trip[keep].start ELSE Max(ends)
             state == [IdleTask EXCEPT !.pc = "merge", !.trip = keep, !.other = other, !.at = last]
  <2>1. last \in Nat
    <3>1. trip[keep].end \in Nat /\ trip[other].end \in Nat /\ trip[keep].start \in Nat
      BY RowFields
    <3> QED BY <3>1 DEF Max
  <2>2. Becomes(p, state)
    BY <1>7 DEF CheckMerge
  <2> HIDE DEF last
  <2>3. state \in TaskState /\ state.pc = "merge" /\ state.other = other /\ state.queue = {}
    BY <2>1, IdleType DEF TaskState, PC
  <2> HIDE DEF state
  <2> QED BY <2>2, <2>3, Becoming
<1>8. ASSUME NEW p \in Task, MoveMerged(p) PROVE Goal
  <2> DEFINE moved == trip[task[p].other].points
             state == [task[p] EXCEPT !.pc = "moved", !.moved = moved]
  <2>1. CASE Becomes(p, IdleTask)
    BY <2>1, Resting
  <2>2. CASE Becomes(p, state)
    <3>1. moved \in SUBSET Sample /\ task[p].queue = {}
      BY <1>8, RowFields DEF MoveMerged, Held
    <3> HIDE DEF moved
    <3>2. state \in TaskState /\ state.pc = "moved" /\ state.queue = task[p].queue
      BY <3>1, TaskFields DEF TaskState, PC
    <3> HIDE DEF state
    <3> QED BY <2>2, <3>1, <3>2, Becoming
  <2> QED BY <1>8, <2>1, <2>2 DEF MoveMerged
<1>9. ASSUME NEW p \in Task, CommitMerge(p) PROVE Goal
  <2>1. CASE Becomes(p, IdleTask)
    BY <2>1, Resting
  <2>2. CASE task[p].trip \in Live /\ Becomes(p, Queueing({task[p].trip}))
    <3>1. {task[p].trip} \in SUBSET Trip
      BY <2>2 DEF Live
    <3> QED BY <2>2, <3>1, Asking
  <2> QED BY <1>9, <2>1, <2>2 DEF CommitMerge
<1>10. ASSUME NEW p \in Task, NEW t \in Trip, NEW at \in Instant, CheckSplit(p, t, at) PROVE Goal
  <2> DEFINE state == [IdleTask EXCEPT !.pc = "split", !.trip = t, !.at = at]
  <2>1. Becomes(p, state) /\ at \in Nat
    BY <1>10, LifeAssumption DEF CheckSplit, Instant
  <2>2. state \in TaskState /\ state.pc = "split" /\ state.queue = {}
    BY <2>1, IdleType DEF TaskState, PC
  <2> HIDE DEF state
  <2> QED BY <2>1, <2>2, Becoming
<1>11. ASSUME NEW p \in Task, SplitTrip(p) PROVE Goal
  <2>1. CASE Becomes(p, IdleTask)
    BY <2>1, Resting
  <2>2. CASE task[p].trip \in Live /\ \E new \in Trip : Becomes(p, Queueing({task[p].trip, new}))
    <3>1. PICK new \in Trip : Becomes(p, Queueing({task[p].trip, new}))
      BY <2>2
    <3>2. {task[p].trip, new} \in SUBSET Trip
      BY <2>2 DEF Live
    <3> QED BY <3>1, <3>2, Asking
  <2> QED BY <1>11, <2>1, <2>2 DEF SplitTrip
<1>12. CASE Crash
  BY <1>12, IdleType DEF Crash, Held
<1> QED BY <1>1, <1>2, <1>3, <1>4, <1>5, <1>6, <1>7, <1>8, <1>9, <1>10, <1>11, <1>12 DEF Next, Proceeds, Goes

LEMMA NextRest ==
    ASSUME TypeOK, Held, Next
    PROVE  /\ now' \in Nat /\ unqueued' \in SUBSET Trip
           /\ {acked', raced'} \subseteq SUBSET Sample
           /\ seen' \in [Trip -> SUBSET (Sample \union {NoSample})]
<1> DEFINE Goal == /\ now' \in Nat /\ unqueued' \in SUBSET Trip
                   /\ {acked', raced'} \subseteq SUBSET Sample
                   /\ seen' \in [Trip -> SUBSET (Sample \union {NoSample})]
<1>1. CASE Tick
  BY <1>1 DEF Tick, TypeOK
<1>2. CASE Crash \/ \E p \in Task : Abort(p)
  BY <1>2 DEF Crash, Abort, Unqueued, Live, TypeOK
<1>3. ASSUME NEW p \in Task, InsertPoints(p) PROVE Goal
  <2>1. task[p].sample \in Sample
    BY <1>3 DEF InsertPoints, Held
  <2>2. UNCHANGED <<now, seen, unqueued>> /\ acked' \in SUBSET Sample /\ raced' \in SUBSET Sample
    BY <1>3, <2>1 DEF InsertPoints, TypeOK
  <2> QED BY <2>2 DEF TypeOK
<1>4. ASSUME NEW p \in Task, NEW t \in Trip, Finalize(p, t) PROVE Goal
  <2>1. trip[t].points \in SUBSET (Sample \union {NoSample})
    BY RowFields
  <2>2. UNCHANGED <<now, acked, raced>> /\ unqueued' \in SUBSET Trip
        /\ seen' \in [Trip -> SUBSET (Sample \union {NoSample})]
    BY <1>4, <2>1 DEF Finalize, TypeOK
  <2> QED BY <2>2 DEF TypeOK
<1>5. ASSUME NEW t, Forget(t)
      PROVE  seen' \in [Trip -> SUBSET (Sample \union {NoSample})] /\ unqueued' \in SUBSET Trip
  BY <1>5 DEF Forget, TypeOK
<1>6. ASSUME NEW p \in Task, PurgeTrack(p) PROVE Goal
  <2>1. UNCHANGED <<now, raced>> /\ acked' \in SUBSET Sample
    BY <1>6 DEF PurgeTrack, TypeOK
  <2>2. UNCHANGED <<seen, unqueued>> \/ Forget(task[p].trip)
    BY <1>6 DEF PurgeTrack, DeleteTracks
  <2> QED BY <1>5, <2>1, <2>2 DEF TypeOK
<1>7. ASSUME NEW t \in Trip, DeleteTrip(t) PROVE Goal
  <2>1. UNCHANGED <<now, raced>> /\ acked' \in SUBSET Sample /\ Forget(t)
    BY <1>7 DEF DeleteTrip, DeleteTracks, TypeOK
  <2> QED BY <1>5, <2>1 DEF TypeOK
<1>8. ASSUME NEW p \in Task, CommitMerge(p) PROVE Goal
  <2>1. UNCHANGED <<now, acked>> /\ raced' \in SUBSET Sample
    BY <1>8, TaskFields DEF CommitMerge, TypeOK
  <2>2. UNCHANGED <<seen, unqueued>> \/ Forget(task[p].other)
    BY <1>8 DEF CommitMerge
  <2> QED BY <1>5, <2>1, <2>2 DEF TypeOK
<1>9. ASSUME NEW t \in Trip, PruneRawPoints(t) PROVE Goal
  BY <1>9 DEF PruneRawPoints, TypeOK
<1>10. ASSUME NEW p \in Task, AfterPointsLanded(p) \/ QueueFinalize(p) PROVE Goal
  BY <1>10 DEF AfterPointsLanded, QueueFinalize, Enqueue, TypeOK
<1>11. CASE UNCHANGED <<now, unqueued, acked, raced, seen>>
  BY <1>11 DEF TypeOK
<1>12. CASE \/ \E k \in Start : TrackStart(k)
            \/ \E p \in Task, s \in Sent : ResolveTrack(p, s)
            \/ \E p \in Task, t \in Trip : FinishTrack(p, t)
            \/ \E p \in Task, keep \in Trip, other \in Trip : CheckMerge(p, keep, other)
            \/ \E p \in Task, t \in Trip, at \in Instant : CheckSplit(p, t, at)
            \/ \E p \in Task : MoveMerged(p) \/ SplitTrip(p)
  BY <1>11, <1>12 DEF TrackStart, ResolveTrack, FinishTrack, CheckMerge, CheckSplit, MoveMerged, SplitTrip
<1> QED BY <1>1, <1>2, <1>3, <1>4, <1>6, <1>7, <1>8, <1>9, <1>10, <1>12 DEF Next, Proceeds, Goes

LEMMA Typed == Spec => [](TypeOK /\ Held)
<1>1. Init => TypeOK /\ Held
  BY InitTypeOK, IdleType DEF Init, Held
<1>2. TypeOK /\ Held /\ [Next]_vars => (TypeOK /\ Held)'
  <2> SUFFICES ASSUME TypeOK, Held, [Next]_vars PROVE (TypeOK /\ Held)'
    OBVIOUS
  <2>1. CASE Next
    BY <2>1, NextData, NextTasks, NextRest DEF TypeOK, DataOK
  <2>2. CASE UNCHANGED vars
    BY <2>2 DEF vars, TypeOK, Held, Live
  <2> QED BY <2>1, <2>2
<1> QED BY <1>1, <1>2, PTL DEF Spec

(* Rows, aliases, jobs and tasks are of the types TripLife states.         *)
THEOREM TypeCorrect == Spec => []TypeOK
BY Typed, PTL

-----------------------------------------------------------------------------
(* A tracking id leads to its own trip, or to the one that absorbed it.    *)
Leads(k) == (\E t \in Trip : trip[t].state = "live" /\ trip[t].key = k) \/ alias[k] # NoTrip

AllLead == \A k \in started : Leads(k)

LEMMA LeadingResolves == ASSUME TypeOK PROVE AllLead => KeysResolve
<1> SUFFICES ASSUME NEW k \in started, Leads(k) PROVE ByKey(k) # NoTrip
  BY DEF AllLead, KeysResolve
<1>1. OwnTrip(k) = {t \in Trip : trip[t].state = "live" /\ trip[t].key = k}
  BY DEF OwnTrip, Live
<1>2. CASE OwnTrip(k) # {}
  <2>1. ByKey(k) \in OwnTrip(k)
    BY <1>2 DEF ByKey
  <2> QED BY <1>1, <2>1, LifeAssumption
<1>3. CASE OwnTrip(k) = {}
  BY <1>1, <1>3 DEF ByKey, Leads
<1> QED BY <1>2, <1>3

LEMMA LeadingSame ==
    ASSUME AllLead, UNCHANGED <<alias, started>>,
           \A t \in Trip : trip[t].state = "live" => trip'[t].state = "live" /\ trip'[t].key = trip[t].key
    PROVE  AllLead'
BY DEF AllLead, Leads

LEMMA LeadingDeletes == ASSUME TypeOK, AllLead, NEW t \in Trip, DeleteTracks(t) PROVE AllLead'
<1>1. \A u \in Trip \ {t} : trip'[u] = trip[u]
  BY DEF DeleteTracks, TypeOK
<1>2. \A k \in started' : k \in started /\ k # trip[t].key /\ k \in Instant /\ alias[k] # t
  BY LifeAssumption DEF DeleteTracks, TypeOK
<1>3. \A k \in started' : alias'[k] = alias[k]
  BY <1>2 DEF DeleteTracks
<1> QED BY <1>1, <1>2, <1>3 DEF AllLead, Leads

LEMMA NextLeads == ASSUME TypeOK, Held, AllLead, Next PROVE AllLead'
<1>0. AllRows(trip)
  BY DEF TypeOK, AllRows
<1>1. ASSUME UNCHANGED <<trip, alias, started>> PROVE AllLead'
  BY <1>1, LeadingSame
<1>2. ASSUME NEW k \in Start, TrackStart(k) PROVE AllLead'
  <2>1. PICK t \in Trip : trip[t].state = "unused" /\ trip' = [trip EXCEPT ![t] = LiveTrip(k, 0, FALSE, {})]
    BY <1>2 DEF TrackStart
  <2>2. LiveTrip(k, 0, FALSE, {}).state = "live" /\ LiveTrip(k, 0, FALSE, {}).key = k
    BY DEF LiveTrip
  <2>3. trip'[t].state = "live" /\ trip'[t].key = k /\ \A u \in Trip \ {t} : trip'[u] = trip[u]
    BY <1>0, <2>1, <2>2 DEF AllRows
  <2>4. UNCHANGED alias /\ started' = started \union {k}
    BY <1>2 DEF TrackStart
  <2> QED BY <2>1, <2>3, <2>4 DEF AllLead, Leads
<1>3. ASSUME NEW p \in Task, InsertPoints(p) PROVE AllLead'
  <2>1. \A t \in Trip : trip'[t].state = trip[t].state /\ trip'[t].key = trip[t].key
    BY <1>0, <1>3 DEF InsertPoints, AllRows, TripRow
  <2> QED BY <1>3, <2>1, LeadingSame DEF InsertPoints
<1>4. ASSUME NEW p \in Task, NEW t \in Trip, FinishTrack(p, t) PROVE AllLead'
  <2>1. (IF trip[t].points = {} THEN trip[t].start ELSE Max(Rows(trip[t].points))) \in Nat
    BY RowFields, LastRow
  <2>2. now \in Nat /\ trip[t].start \in Nat
    BY RowFields DEF TypeOK
  <2>3. PICK end \in Nat : trip' = Ended(trip, t, end)
    BY <1>4, <2>1, <2>2 DEF FinishTrack, Ended
  <2>4. SameTrips(trip, trip')
    BY <1>0, <2>3, Ending
  <2> QED BY <1>4, <2>4, LeadingSame DEF FinishTrack, SameTrips
<1>5. ASSUME NEW p \in Task, PurgeTrack(p) PROVE AllLead'
  <2>1. CASE task[p].trip \in Live
    BY <1>5, <2>1, LeadingDeletes DEF PurgeTrack, Live
  <2>2. CASE task[p].trip \notin Live
    BY <1>1, <1>5, <2>2 DEF PurgeTrack
  <2> QED BY <2>1, <2>2
<1>6. ASSUME NEW t \in Trip, DeleteTrip(t) PROVE AllLead'
  BY <1>6, LeadingDeletes DEF DeleteTrip
<1>7. ASSUME NEW t \in Trip, PruneRawPoints(t) PROVE AllLead'
  <2>1. \A u \in Trip : trip'[u].state = trip[u].state /\ trip'[u].key = trip[u].key
    BY <1>0, <1>7 DEF PruneRawPoints, AllRows, TripRow
  <2> QED BY <1>7, <2>1, LeadingSame DEF PruneRawPoints
<1>8. ASSUME NEW p \in Task, CommitMerge(p) PROVE AllLead'
  <2> DEFINE keep == task[p].trip
             other == task[p].other
  <2>1. CASE keep \notin Live
    BY <1>1, <1>8, <2>1 DEF CommitMerge
  <2>2. CASE keep \in Live
    <3>1. /\ keep \in Trip /\ keep # NoTrip /\ task[p].at \in Nat /\ task[p].moved \in SUBSET Sample
          /\ started' = started /\ alias' = FollowMerge(keep, other)
      BY <1>8, <2>2, TaskFields, LifeAssumption DEF Live, CommitMerge
    <3>2. \A k \in started : k \in Instant
      BY LifeAssumption DEF TypeOK
    <3>3. \A k \in started : alias[k] # NoTrip => alias'[k] # NoTrip
      BY <3>1, <3>2 DEF FollowMerge
    <3>4. CASE other \in Live
      <4>1. \A k \in started : k = trip[other].key => alias'[k] # NoTrip
        BY <3>1, <3>2, <3>4 DEF FollowMerge
      <4> DEFINE kept == Extended(trip, keep, task[p].at, task[p].moved)
      <4>2. AllRows(kept) /\ SameTrips(trip, kept)
        BY <1>0, <3>1, Extending
      <4>3. trip' = [kept EXCEPT ![other] = Gone]
        BY <1>8, <2>2, <3>4 DEF CommitMerge, Merged, Extended
      <4> HIDE DEF kept
      <4>4. \A u \in Trip \ {other} : trip'[u].state = trip[u].state /\ trip'[u].key = trip[u].key
        BY <4>2, <4>3 DEF AllRows, SameTrips
      <4> QED BY <3>1, <3>3, <4>1, <4>4 DEF AllLead, Leads
    <3>5. CASE other \notin Live
      <4>1. trip' = [trip EXCEPT ![keep].end = task[p].at]
        BY <1>8, <2>2, <3>5 DEF CommitMerge
      <4>2. \A u \in Trip : trip'[u].state = trip[u].state /\ trip'[u].key = trip[u].key
        BY <1>0, <3>1, <4>1 DEF AllRows, TripRow
      <4> QED BY <3>1, <3>3, <4>2 DEF AllLead, Leads
    <3> QED BY <3>4, <3>5
  <2> QED BY <2>1, <2>2
<1>9. ASSUME NEW p \in Task, SplitTrip(p) PROVE AllLead'
  <2> DEFINE t == task[p].trip
             left == {s \in trip[t].points : s.at < task[p].at}
             right == trip[t].points \ left
             end == IF left = {} THEN 0 ELSE Max(Rows(left))
  <2>1. CASE UNCHANGED trip
    BY <1>1, <1>9, <2>1 DEF SplitTrip
  <2>2. CASE ~UNCHANGED trip
    <3>1. t \in Live /\ UNCHANGED <<alias, started>>
      BY <1>9, <2>2 DEF SplitTrip
    <3>2. PICK new \in Trip :
            /\ trip[new].state = "unused"
            /\ trip' = [trip EXCEPT ![t].points = left, ![t].end = end,
                                    ![new] = LiveTrip(task[p].at, trip[t].end, TRUE, right)]
      BY <1>9, <2>2 DEF SplitTrip
    <3>3. t \in Trip /\ t # new
      BY <3>1, <3>2 DEF Live
    <3> HIDE DEF left, right, end
    <3>4. \A u \in Trip \ {new} : trip'[u].state = trip[u].state /\ trip'[u].key = trip[u].key
      BY <1>0, <3>2, <3>3 DEF AllRows, TripRow
    <3> QED BY <3>1, <3>2, <3>4, LeadingSame
  <2> QED BY <2>1, <2>2
<1>10. CASE \/ Tick \/ Crash \/ \E p \in Task : Abort(p)
            \/ \E p \in Task, s \in Sent : ResolveTrack(p, s)
            \/ \E p \in Task, t \in Trip : Finalize(p, t)
            \/ \E p \in Task, keep \in Trip, other \in Trip : CheckMerge(p, keep, other)
            \/ \E p \in Task, t \in Trip, at \in Instant : CheckSplit(p, t, at)
            \/ \E p \in Task : AfterPointsLanded(p) \/ QueueFinalize(p) \/ MoveMerged(p)
  BY <1>1, <1>10 DEF Tick, Crash, Abort, ResolveTrack, Finalize, CheckMerge, CheckSplit, AfterPointsLanded,
      QueueFinalize, MoveMerged
<1> QED BY <1>2, <1>3, <1>4, <1>5, <1>6, <1>7, <1>8, <1>9, <1>10 DEF Next, Proceeds, Goes

(* For any number of trips, merges, splits and crashes: a tracking id the  *)
(* server knows resolves to a trip until that trip is deleted or purged.   *)
THEOREM KeysAlwaysResolve == Spec => []KeysResolve
<1>1. Init => AllLead
  BY DEF Init, AllLead
<1>2. TypeOK /\ Held /\ AllLead /\ [Next]_vars => AllLead'
  <2> SUFFICES ASSUME TypeOK, Held, AllLead, [Next]_vars PROVE AllLead'
    OBVIOUS
  <2> QED BY NextLeads DEF vars, AllLead, Leads
<1>3. TypeOK /\ AllLead => KeysResolve
  BY LeadingResolves
<1> QED BY <1>1, <1>2, <1>3, Typed, PTL DEF Spec

-----------------------------------------------------------------------------
(* A finished trip whose points finalize has not seen has finalize queued, *)
(* or a task on its way to queue it, unless the last such task failed.     *)
Asked(t) == \E p \in Task : \/ task[p].pc = "landed" /\ task[p].trip = t
                            \/ t \in task[p].queue

Settled(t) ==
    /\ trip[t].state = "live" /\ t \notin unqueued
    /\ trip[t].finished /\ ~trip[t].pruned /\ seen[t] # trip[t].points
    => job[t] # "none" \/ Asked(t)

AllSettled == \A t \in Trip : Settled(t)

LEMMA SettledIsFinalized == AllSettled <=> ChangesAreFinalized
BY DEF AllSettled, Settled, Asked, ChangesAreFinalized, Live

(* A task that neither follows up a sample nor is to queue finalize asks   *)
(* for nothing, so what it becomes takes nothing back.                     *)
LEMMA StillAsked ==
    ASSUME TypeOK, Held, NEW p \in Task, NEW state, Becomes(p, state),
           task[p].pc # "landed", task[p].pc # "queue", NEW t \in Trip, Asked(t)
    PROVE  Asked(t)'
<1>1. \A q \in Task \ {p} : task'[q] = task[q]
  BY DEF Becomes, TypeOK
<1>2. task[p].queue = {}
  BY DEF Held
<1> QED BY <1>1, <1>2 DEF Asked

LEMMA AskedNow ==
    ASSUME TypeOK, NEW p \in Task, NEW T \in SUBSET Trip, Becomes(p, Queueing(T)), NEW t \in T
    PROVE  Asked(t)'
<1>1. task'[p] = Queueing(T)
  BY DEF Becomes, TypeOK
<1> QED BY <1>1, IdleType DEF Asked

(* A trip whose row, points seen and jobs are left alone stays settled.    *)
LEMMA StaysSettled ==
    ASSUME NEW t \in Trip, Settled(t), trip'[t] = trip[t], seen'[t] = seen[t],
           t \in unqueued => t \in unqueued',
           job[t] # "none" => job'[t] # "none",
           Asked(t) => Asked(t)' \/ job'[t] # "none"
    PROVE  Settled(t)'
BY DEF Settled

(* All trips but those of S are left alone, and those of S are settled.    *)
LeftAlone(S) ==
    \A u \in Trip \ S : /\ trip'[u] = trip[u] /\ seen'[u] = seen[u]
                        /\ u \in unqueued => u \in unqueued'
                        /\ job[u] # "none" => job'[u] # "none"

AreSettled(S) == \A u \in S : Settled(u)

LEMMA SettledWithoutTasks ==
    ASSUME AllSettled, UNCHANGED task, NEW S \in SUBSET Trip, LeftAlone(S), AreSettled(S)'
    PROVE  AllSettled'
BY StaysSettled DEF AllSettled, Asked, LeftAlone, AreSettled

LEMMA SettledBut ==
    ASSUME TypeOK, Held, AllSettled, NEW p \in Task, NEW state, Becomes(p, state),
           task[p].pc # "landed", task[p].pc # "queue",
           NEW S \in SUBSET Trip, LeftAlone(S), AreSettled(S)'
    PROVE  AllSettled'
<1>1. \A u \in Trip : Asked(u) => Asked(u)'
  BY StillAsked
<1>2. \A u \in Trip \ S : Settled(u)'
  BY <1>1, StaysSettled DEF AllSettled, LeftAlone
<1> QED BY <1>2 DEF AllSettled, AreSettled

(* A step of a task that leaves every trip alone.                          *)
LEMMA SettledByOthers ==
    ASSUME TypeOK, Held, AllSettled, NEW p \in Task, NEW state, Becomes(p, state),
           task[p].pc # "landed", task[p].pc # "queue", UNCHANGED <<trip, seen, job, unqueued>>
    PROVE  AllSettled'
<1>1. LeftAlone({}) /\ AreSettled({})'
  BY DEF LeftAlone, AreSettled
<1> QED BY <1>1, SettledBut

LEMMA Forgetting ==
    ASSUME TypeOK, NEW t, Forget(t)
    PROVE  \A u \in Trip \ {t} : seen'[u] = seen[u] /\ (u \in unqueued => u \in unqueued')
BY DEF Forget, TypeOK

LEMMA DeletingSettles ==
    ASSUME TypeOK, NEW t \in Trip, DeleteTracks(t)
    PROVE  Settled(t)' /\ LeftAlone({t})
<1>1. trip'[t] = Gone /\ \A u \in Trip \ {t} : trip'[u] = trip[u] /\ job'[u] = job[u]
  BY DEF DeleteTracks, TypeOK
<1>2. trip'[t].state # "live"
  BY <1>1, GoneRow
<1>3. \A u \in Trip \ {t} : seen'[u] = seen[u] /\ (u \in unqueued => u \in unqueued')
  BY Forgetting DEF DeleteTracks
<1> QED BY <1>1, <1>2, <1>3 DEF Settled, LeftAlone

(* Tasks fail: what they were to queue finalize for and finalize has not   *)
(* seen is unqueued.                                                       *)
Fail(P) ==
    /\ \A q \in Task : q \notin P => task'[q] = task[q]
    /\ job' = Requeued(P)
    /\ unqueued' = Unqueued(UNION {Owes(q) : q \in P})
    /\ UNCHANGED <<trip, seen>>

LEMMA FailingSettles ==
    ASSUME TypeOK, Held, AllSettled, NEW P \in SUBSET Task, Fail(P)
    PROVE  AllSettled'
<1> SUFFICES ASSUME NEW t \in Trip, trip[t].state = "live", t \notin unqueued', trip[t].finished,
                    ~trip[t].pruned, seen[t] # trip[t].points
             PROVE  job'[t] # "none" \/ Asked(t)'
  BY DEF AllSettled, Settled, Fail
<1>1. t \notin unqueued /\ \A q \in P : t \notin Owes(q)
  BY DEF Fail, Unqueued, Live
<1>2. job[t] # "none" \/ Asked(t)
  BY <1>1 DEF AllSettled, Settled
<1>3. CASE job[t] # "none"
  <2>1. job'[t] = "queued" \/ job'[t] = job[t]
    BY DEF Fail, Requeued
  <2> QED BY <1>3, <2>1
<1>4. CASE Asked(t)
  <2>1. PICK q \in Task : (task[q].pc = "landed" /\ task[q].trip = t) \/ t \in task[q].queue
    BY <1>4 DEF Asked
  <2>2. t \in Owes(q)
    BY <2>1 DEF Owes, Held
  <2>3. task'[q] = task[q]
    BY <1>1, <2>2 DEF Fail
  <2> QED BY <2>1, <2>3 DEF Asked
<1> QED BY <1>2, <1>3, <1>4

(* A task queues finalize for what it owes.                                *)
LEMMA EnqueueSettles ==
    ASSUME TypeOK, Held, AllSettled, NEW p \in Task, Becomes(p, IdleTask), Enqueue(Owes(p)),
           UNCHANGED <<trip, seen>>
    PROVE  AllSettled'
<1> SUFFICES ASSUME NEW t \in Trip, t \in Live, t \notin unqueued', trip[t].finished,
                    ~trip[t].pruned, seen[t] # trip[t].points
             PROVE  job'[t] # "none" \/ Asked(t)'
  BY DEF AllSettled, Settled, Live
<1>1. job'[t] = IF t \in Owes(p) THEN "queued" ELSE job[t]
  BY DEF Enqueue
<1>2. CASE t \notin Owes(p)
  <2>1. t \notin unqueued
    BY <1>2 DEF Enqueue
  <2>2. job[t] # "none" \/ Asked(t)
    BY <2>1 DEF AllSettled, Settled, Live
  <2>3. Asked(t) => Asked(t)'
    <3>1. \A q \in Task \ {p} : task'[q] = task[q]
      BY DEF Becomes, TypeOK
    <3>2. ~(task[p].pc = "landed" /\ task[p].trip = t) /\ t \notin task[p].queue
      BY <1>2 DEF Owes, Held
    <3> QED BY <3>1, <3>2 DEF Asked
  <2> QED BY <1>1, <1>2, <2>2, <2>3
<1> QED BY <1>1, <1>2

LEMMA NextSettles == ASSUME TypeOK, Held, AllSettled, Next PROVE AllSettled'
<1>0. AllRows(trip)
  BY DEF TypeOK, AllRows
<1>1. CASE Tick
  BY <1>1, StaysSettled DEF Tick, AllSettled, Asked
<1>2. ASSUME NEW k \in Start, TrackStart(k) PROVE AllSettled'
  <2>1. PICK t \in Trip : trip' = [trip EXCEPT ![t] = LiveTrip(k, 0, FALSE, {})]
    BY <1>2 DEF TrackStart
  <2>2. PICK row : row = LiveTrip(k, 0, FALSE, {})
    OBVIOUS
  <2>3. trip'[t] = row /\ ~row.finished /\ \A u \in Trip \ {t} : trip'[u] = trip[u]
    BY <1>0, <2>1, <2>2 DEF AllRows, LiveTrip
  <2>4. Settled(t)'
    BY <2>3 DEF Settled
  <2>5. UNCHANGED <<task, seen, job, unqueued>>
    BY <1>2 DEF TrackStart
  <2>6. LeftAlone({t}) /\ AreSettled({t})'
    BY <2>3, <2>4, <2>5 DEF LeftAlone, AreSettled
  <2> QED BY <2>5, <2>6, SettledWithoutTasks
<1>3. ASSUME NEW p \in Task, NEW s \in Sent, ResolveTrack(p, s) PROVE AllSettled'
  <2>1. task[p].pc = "idle" /\ UNCHANGED <<trip, seen, job, unqueued>>
    BY <1>3 DEF ResolveTrack, Idle
  <2>2. PICK state : Becomes(p, state)
    BY <1>3 DEF ResolveTrack
  <2> QED BY <2>1, <2>2, SettledByOthers
<1>4. ASSUME NEW p \in Task, InsertPoints(p) PROVE AllSettled'
  <2> DEFINE landed == [task[p] EXCEPT !.pc = "landed"]
  <2>0. task[p].pc # "landed" /\ task[p].pc # "queue" /\ UNCHANGED <<seen, job, unqueued>>
    BY <1>4 DEF InsertPoints
  <2>1. CASE trip' = trip /\ Becomes(p, IdleTask)
    BY <2>0, <2>1, SettledByOthers
  <2>2. CASE /\ task[p].trip \in Live
             /\ trip' = [trip EXCEPT ![task[p].trip].points = @ \union {task[p].sample}]
             /\ Becomes(p, landed)
    <3> PICK t \in Trip : t = task[p].trip
      BY <2>2 DEF Live
    <3>1. \A u \in Trip \ {t} : trip'[u] = trip[u]
      BY <1>0, <2>2 DEF AllRows
    <3>2. landed.pc = "landed" /\ landed.trip = t
      BY TaskFields DEF TaskState
    <3>3. task'[p] = landed
      BY <2>2 DEF Becomes, TypeOK
    <3> HIDE DEF landed
    <3>4. Asked(t)'
      BY <3>2, <3>3 DEF Asked
    <3>5. Settled(t)'
      BY <3>4 DEF Settled
    <3>6. LeftAlone({t}) /\ AreSettled({t})'
      BY <2>0, <3>1, <3>5 DEF LeftAlone, AreSettled
    <3> QED BY <2>0, <2>2, <3>1, <3>6, SettledBut
  <2> QED BY <1>4, <2>1, <2>2 DEF InsertPoints
<1>5. ASSUME NEW p \in Task, AfterPointsLanded(p) \/ QueueFinalize(p) PROVE AllSettled'
  BY <1>5, EnqueueSettles DEF AfterPointsLanded, QueueFinalize
<1>6. ASSUME NEW p \in Task, NEW t \in Trip, FinishTrack(p, t) PROVE AllSettled'
  <2>1. (IF trip[t].points = {} THEN trip[t].start ELSE Max(Rows(trip[t].points))) \in Nat
    BY RowFields, LastRow
  <2>2. now \in Nat /\ trip[t].start \in Nat
    BY RowFields DEF TypeOK
  <2>3. PICK end \in Nat : trip' = Ended(trip, t, end)
    BY <1>6, <2>1, <2>2 DEF FinishTrack, Ended
  <2>4. \A u \in Trip \ {t} : trip'[u] = trip[u]
    BY <1>0, <2>3, Ending DEF SameBut
  <2>5. Becomes(p, Queueing({t})) /\ task[p].pc = "idle" /\ UNCHANGED <<seen, job, unqueued>>
    BY <1>6 DEF FinishTrack, Idle
  <2>6. Asked(t)'
    BY <2>5, AskedNow
  <2>7. Settled(t)'
    BY <2>6 DEF Settled
  <2>8. LeftAlone({t}) /\ AreSettled({t})'
    BY <2>4, <2>5, <2>7 DEF LeftAlone, AreSettled
  <2> QED BY <2>5, <2>8, SettledBut
<1>7. CASE Crash \/ \E p \in Task : Abort(p)
  <2>1. ASSUME Crash PROVE Fail(Task)
    BY <2>1 DEF Crash, Fail
  <2>2. ASSUME NEW p \in Task, Abort(p) PROVE Fail({p})
    <3>1. UNION {Owes(q) : q \in {p}} = Owes(p)
      OBVIOUS
    <3> QED BY <2>2, <3>1 DEF Abort, Fail, Becomes, TypeOK
  <2> QED BY <1>7, <2>1, <2>2, FailingSettles
<1>8. ASSUME NEW p \in Task, NEW t \in Trip, Finalize(p, t) PROVE AllSettled'
  <2> DEFINE empty == Cardinality(Rows(trip[t].points)) <= EmptyMax
  <2>0. trip' = trip /\ task[p].pc = "idle"
    BY <1>8 DEF Finalize, Idle
  <2> PICK state : Becomes(p, state)
    BY <1>8 DEF Finalize
  <2>1. CASE empty
    <3>1. job'[t] = "running" /\ UNCHANGED <<seen, unqueued>> /\ \A u \in Trip \ {t} : job'[u] = job[u]
      BY <1>8, <2>1 DEF Finalize, TypeOK
    <3>2. Settled(t)'
      BY <3>1 DEF Settled
    <3>3. LeftAlone({t}) /\ AreSettled({t})'
      BY <2>0, <3>1, <3>2 DEF LeftAlone, AreSettled
    <3> QED BY <2>0, <3>3, SettledBut
  <2>2. CASE ~empty
    <3>1. /\ seen'[t] = trip[t].points /\ unqueued' = unqueued \ {t}
          /\ \A u \in Trip \ {t} : job'[u] = job[u] /\ seen'[u] = seen[u]
      BY <1>8, <2>2 DEF Finalize, TypeOK
    <3>2. Settled(t)'
      BY <2>0, <3>1 DEF Settled
    <3>3. LeftAlone({t}) /\ AreSettled({t})'
      BY <2>0, <3>1, <3>2 DEF LeftAlone, AreSettled
    <3> QED BY <2>0, <3>3, SettledBut
  <2> QED BY <2>1, <2>2
<1>9. ASSUME NEW p \in Task, PurgeTrack(p) PROVE AllSettled'
  <2>0. task[p].pc = "purge" /\ Becomes(p, IdleTask)
    BY <1>9 DEF PurgeTrack
  <2>1. CASE task[p].trip \in Live
    <3> PICK t \in Trip : t = task[p].trip
      BY <2>1 DEF Live
    <3>1. DeleteTracks(t)
      BY <1>9, <2>1 DEF PurgeTrack
    <3>2. LeftAlone({t}) /\ AreSettled({t})'
      BY <2>0, <3>1, DeletingSettles DEF AreSettled
    <3> QED BY <2>0, <3>1, <3>2, SettledBut
  <2>2. CASE task[p].trip \notin Live
    <3>1. UNCHANGED <<trip, seen, job, unqueued>>
      BY <1>9, <2>2 DEF PurgeTrack
    <3> QED BY <2>0, <3>1, SettledByOthers
  <2> QED BY <2>1, <2>2
<1>10. ASSUME NEW t \in Trip, DeleteTrip(t) PROVE AllSettled'
  <2>1. LeftAlone({t}) /\ AreSettled({t})' /\ UNCHANGED task
    BY <1>10, DeletingSettles DEF DeleteTrip, AreSettled
  <2> QED BY <2>1, SettledWithoutTasks
<1>11. ASSUME NEW t \in Trip, PruneRawPoints(t) PROVE AllSettled'
  <2>1. PICK pruned \in BOOLEAN : pruned = TRUE
    OBVIOUS
  <2>2. trip' = [trip EXCEPT ![t].points = {}, ![t].pruned = pruned]
    BY <1>11, <2>1 DEF PruneRawPoints
  <2>3. trip'[t].pruned = pruned /\ \A u \in Trip \ {t} : trip'[u] = trip[u]
    BY <1>0, <2>2 DEF AllRows, TripRow
  <2>4. Settled(t)'
    BY <2>1, <2>3 DEF Settled
  <2>5. UNCHANGED <<task, seen, job, unqueued>>
    BY <1>11 DEF PruneRawPoints
  <2>6. LeftAlone({t}) /\ AreSettled({t})'
    BY <2>3, <2>4, <2>5 DEF LeftAlone, AreSettled
  <2> QED BY <2>5, <2>6, SettledWithoutTasks
<1>12. ASSUME NEW p \in Task, NEW keep \in Trip, NEW other \in Trip, CheckMerge(p, keep, other)
       PROVE  AllSettled'
  <2>1. task[p].pc = "idle" /\ UNCHANGED <<trip, seen, job, unqueued>>
    BY <1>12 DEF CheckMerge, Idle
  <2>2. PICK state : Becomes(p, state)
    BY <1>12 DEF CheckMerge
  <2> QED BY <2>1, <2>2, SettledByOthers
<1>13. ASSUME NEW p \in Task, MoveMerged(p) PROVE AllSettled'
  <2>1. PICK state : Becomes(p, state)
    BY <1>13 DEF MoveMerged
  <2>2. task[p].pc = "merge" /\ UNCHANGED <<trip, seen, job, unqueued>>
    BY <1>13 DEF MoveMerged
  <2> QED BY <2>1, <2>2, SettledByOthers
<1>14. ASSUME NEW p \in Task, CommitMerge(p) PROVE AllSettled'
  <2>0. task[p].pc = "moved"
    BY <1>14 DEF CommitMerge
  <2>1. CASE task[p].trip \notin Live
    <3>1. UNCHANGED <<trip, seen, job, unqueued>> /\ Becomes(p, IdleTask)
      BY <1>14, <2>1 DEF CommitMerge
    <3> QED BY <2>0, <3>1, SettledByOthers
  <2>2. CASE task[p].trip \in Live
    <3> PICK keep \in Trip : keep = task[p].trip
      BY <2>2 DEF Live
    <3> PICK other : other = task[p].other
      OBVIOUS
    <3>1. Becomes(p, Queueing({keep})) /\ job' = [job EXCEPT ![other] = "none"]
      BY <1>14, <2>2 DEF CommitMerge
    <3>2. Asked(keep)'
      <4>1. {keep} \in SUBSET Trip /\ keep \in {keep}
        OBVIOUS
      <4> QED BY <3>1, <4>1, AskedNow
    <3>3. Settled(keep)' /\ \A u \in Trip \ {other} : job'[u] = job[u]
      BY <3>1, <3>2 DEF Settled, TypeOK
    <3>6. \A u \in Trip \ {other} : seen'[u] = seen[u] /\ (u \in unqueued => u \in unqueued')
      BY <1>14, <2>2, Forgetting DEF CommitMerge
    <3>4. CASE other \in Live
      <4>1. other \in Trip
        BY <3>4 DEF Live
      <4> DEFINE kept == Extended(trip, keep, task[p].at, task[p].moved)
      <4>2. AllRows(kept) /\ SameBut(keep, trip, kept)
        BY <1>0, TaskFields, Extending
      <4>3. trip' = [kept EXCEPT ![other] = Gone]
        BY <1>14, <2>2, <3>4 DEF CommitMerge, Merged, Extended
      <4> HIDE DEF kept
      <4>4. trip'[other] = Gone /\ \A u \in Trip \ {keep, other} : trip'[u] = trip[u]
        BY <4>1, <4>2, <4>3 DEF AllRows, SameBut
      <4>5. trip'[other].state # "live"
        BY <4>4, GoneRow
      <4>6. Settled(other)'
        BY <4>5 DEF Settled
      <4>7. LeftAlone({keep, other}) /\ AreSettled({keep, other})'
        BY <3>3, <3>6, <4>4, <4>6 DEF LeftAlone, AreSettled
      <4> QED BY <2>0, <3>1, <4>1, <4>7, SettledBut
    <3>5. CASE other \notin Live
      <4>1. trip' = [trip EXCEPT ![keep].end = task[p].at]
        BY <1>14, <2>2, <3>5 DEF CommitMerge
      <4>2. \A u \in Trip \ {keep} : trip'[u] = trip[u]
        BY <1>0, <4>1 DEF AllRows
      <4>3. \A u \in Trip : u = other => Settled(u)'
        BY <2>2, <3>5, <4>2 DEF Settled, Live
      <4> DEFINE S == {keep} \union {u \in Trip : u = other}
      <4>4. S \in SUBSET Trip /\ LeftAlone(S) /\ AreSettled(S)'
        BY <3>3, <3>6, <4>2, <4>3 DEF LeftAlone, AreSettled
      <4> HIDE DEF S
      <4> QED BY <2>0, <3>1, <4>4, SettledBut
    <3> QED BY <3>4, <3>5
  <2> QED BY <2>1, <2>2
<1>15. ASSUME NEW p \in Task, NEW t \in Trip, NEW at \in Instant, CheckSplit(p, t, at) PROVE AllSettled'
  <2>1. task[p].pc = "idle" /\ UNCHANGED <<trip, seen, job, unqueued>>
    BY <1>15 DEF CheckSplit, Idle
  <2>2. PICK state : Becomes(p, state)
    BY <1>15 DEF CheckSplit
  <2> QED BY <2>1, <2>2, SettledByOthers
<1>16. ASSUME NEW p \in Task, SplitTrip(p) PROVE AllSettled'
  <2>0. task[p].pc = "split" /\ UNCHANGED <<seen, job, unqueued>>
    BY <1>16 DEF SplitTrip
  <2>1. CASE UNCHANGED trip /\ Becomes(p, IdleTask)
    BY <2>0, <2>1, SettledByOthers
  <2>2. CASE ~(UNCHANGED trip /\ Becomes(p, IdleTask))
    <3> PICK t \in Trip : t = task[p].trip
      BY <1>16, <2>2 DEF SplitTrip, Live
    <3> DEFINE left == {s \in trip[t].points : s.at < task[p].at}
               right == trip[t].points \ left
               end == IF left = {} THEN 0 ELSE Max(Rows(left))
    <3>1. PICK new \in Trip :
            /\ trip' = [trip EXCEPT ![t].points = left, ![t].end = end,
                                    ![new] = LiveTrip(task[p].at, trip[t].end, TRUE, right)]
            /\ Becomes(p, Queueing({t, new}))
      BY <1>16, <2>2 DEF SplitTrip
    <3> HIDE DEF left, right, end
    <3>2. \A u \in Trip \ {t, new} : trip'[u] = trip[u]
      BY <1>0, <3>1 DEF AllRows
    <3>3. {t, new} \in SUBSET Trip /\ t \in {t, new} /\ new \in {t, new}
      OBVIOUS
    <3>4. Asked(t)' /\ Asked(new)'
      BY <3>1, <3>3, AskedNow
    <3>5. Settled(t)' /\ Settled(new)'
      BY <3>4 DEF Settled
    <3>6. LeftAlone({t, new}) /\ AreSettled({t, new})'
      BY <2>0, <3>2, <3>5 DEF LeftAlone, AreSettled
    <3> QED BY <2>0, <3>1, <3>3, <3>6, SettledBut
  <2> QED BY <2>1, <2>2
<1> QED BY <1>1, <1>2, <1>3, <1>4, <1>5, <1>6, <1>7, <1>8, <1>9, <1>10, <1>11, <1>12, <1>13, <1>14,
        <1>15, <1>16 DEF Next, Proceeds, Goes

(* Whatever fails, for any trips, requests and edits: every change of a    *)
(* finished trip has a finalize coming, or a task that was to queue one    *)
(* failed or was dropped between its commit and that, and none was queued  *)
(* for the trip after it.                                                  *)
THEOREM EveryChangeIsFinalized == Spec => []ChangesAreFinalized
<1>1. Init => AllSettled
  BY DEF Init, AllSettled, Settled, Unused, LiveTrip
<1>2. TypeOK /\ Held /\ AllSettled /\ [Next]_vars => AllSettled'
  <2> SUFFICES ASSUME TypeOK, Held, AllSettled, [Next]_vars PROVE AllSettled'
    OBVIOUS
  <2> QED BY NextSettles DEF vars, AllSettled, Settled, Asked
<1>3. AllSettled => ChangesAreFinalized
  BY SettledIsFinalized
<1> QED BY <1>1, <1>2, <1>3, Typed, PTL DEF Spec

-----------------------------------------------------------------------------
(* A stored sample is with a trip, unless it raced.                        *)
Has(s) == \E t \in Trip : s \in trip[t].points

NoneLost == \A s \in acked \ raced : Has(s)

LEMMA HadIsKept == ASSUME TypeOK PROVE NoneLost => OnlyRacesLoseSamples
BY DEF TypeOK, NoneLost, Has, OnlyRacesLoseSamples, Kept

(* What is about to delete a trip: a merge has moved every point of it     *)
(* that did not race, and a purge has counted as many as it takes for      *)
(* none.                                                                   *)
Punctual(t) == trip[t].points \ raced

FewPunctual(t) == Cardinality(Rows(Punctual(t))) <= EmptyMax

Known(t) == t \in Trip /\ trip[t].state # "unused"

Deletions ==
    \A p \in Task :
        /\ task[p].pc = "purge" => Known(task[p].trip) /\ FewPunctual(task[p].trip)
        /\ task[p].pc \in {"merge", "moved"} => Known(task[p].other) /\ task[p].other # task[p].trip
        /\ task[p].pc = "moved" => Punctual(task[p].other) \subseteq task[p].moved

LEMMA FewerRows ==
    ASSUME NEW few, NEW many \in SUBSET Sample, few \subseteq many
    PROVE  /\ Cardinality(Rows(few)) \in Nat /\ Cardinality(Rows(many)) \in Nat
           /\ Cardinality(Rows(few)) <= Cardinality(Rows(many))
<1>1. IsFiniteSet(Instant)
  BY LifeAssumption, FS_Interval DEF Instant
<1>2. Rows(few) \subseteq Rows(many) /\ Rows(many) \subseteq Instant
  BY DEF Rows, Sample
<1>3. IsFiniteSet(Rows(few)) /\ IsFiniteSet(Rows(many))
  BY <1>1, <1>2, FS_Subset
<1> QED BY <1>2, <1>3, FS_Subset, FS_CardinalityType

(* No step gives a trip that is about to be deleted points that do not     *)
(* race.                                                                   *)
Shrinks(t) == trip'[t].state # "unused" /\ Punctual(t)' \subseteq Punctual(t)

DoomedShrink == \A t \in Trip : Known(t) /\ Doomed(t) => Shrinks(t)

LEMMA ShrinksWithPoints ==
    ASSUME TypeOK, NEW t \in Trip, trip'[t].state # "unused", raced \subseteq raced',
           trip'[t].points \subseteq trip[t].points
    PROVE  Shrinks(t)
BY DEF Shrinks, Punctual

LEMMA SameShrink == ASSUME TypeOK, UNCHANGED <<trip, raced>> PROVE DoomedShrink
BY DEF DoomedShrink, Shrinks, Punctual, Known

LEMMA PunctualStay ==
    ASSUME TypeOK, NEW t \in Trip, FewPunctual(t), Shrinks(t)
    PROVE  FewPunctual(t)'
<1>1. Punctual(t) \in SUBSET Sample /\ Punctual(t)' \subseteq Punctual(t)
  BY RowFields DEF Punctual, Shrinks
<1>2. EmptyMax \in Nat
  BY LifeAssumption
<1>3. Cardinality(Rows(Punctual(t)')) <= Cardinality(Rows(Punctual(t)))
      /\ Cardinality(Rows(Punctual(t)')) \in Nat /\ Cardinality(Rows(Punctual(t))) \in Nat
  BY <1>1, FewerRows
<1>4. Rows(Punctual(t))' = Rows(Punctual(t)')
  BY DEF Rows
<1> QED BY <1>2, <1>3, <1>4 DEF FewPunctual

(* A task that goes on as it was, while doomed trips shrink.               *)
DeletionOf(p) ==
    /\ task[p].pc = "purge" => Known(task[p].trip) /\ FewPunctual(task[p].trip)
    /\ task[p].pc \in {"merge", "moved"} => Known(task[p].other) /\ task[p].other # task[p].trip
    /\ task[p].pc = "moved" => Punctual(task[p].other) \subseteq task[p].moved

LEMMA DeletionGoesOn ==
    ASSUME TypeOK, DoomedShrink, NEW q \in Task, DeletionOf(q), task'[q] = task[q]
    PROVE  DeletionOf(q)'
<1>1. CASE task[q].pc = "purge"
  <2> PICK t : t = task[q].trip
    OBVIOUS
  <2>1. t \in Trip /\ Known(t) /\ Doomed(t) /\ FewPunctual(t)
    BY <1>1 DEF DeletionOf, Known, Doomed
  <2>2. Shrinks(t)
    BY <2>1 DEF DoomedShrink
  <2>3. FewPunctual(t)' /\ Known(t)'
    BY <2>1, <2>2, PunctualStay DEF Known, Shrinks
  <2> QED BY <1>1, <2>3 DEF DeletionOf
<1>2. CASE task[q].pc \in {"merge", "moved"}
  <2> PICK t : t = task[q].other
    OBVIOUS
  <2>1. t \in Trip /\ Known(t) /\ Doomed(t)
    BY <1>2 DEF DeletionOf, Known, Doomed
  <2>2. Shrinks(t)
    BY <2>1 DEF DoomedShrink
  <2>3. Known(t)' /\ Punctual(t)' \subseteq Punctual(t)
    BY <2>1, <2>2 DEF Known, Shrinks
  <2> QED BY <1>2, <2>3 DEF DeletionOf
<1>3. CASE task[q].pc \notin {"purge", "merge", "moved"}
  BY <1>3 DEF DeletionOf
<1> QED BY <1>1, <1>2, <1>3

LEMMA DeletionsGoOn ==
    ASSUME TypeOK, Deletions, DoomedShrink, NEW p \in Task, NEW state, Becomes(p, state),
           state.pc \notin {"purge", "merge", "moved"}
    PROVE  Deletions'
<1>1. task'[p] = state /\ \A q \in Task \ {p} : task'[q] = task[q]
  BY DEF Becomes, TypeOK
<1>2. \A q \in Task \ {p} : DeletionOf(q)'
  BY <1>1, DeletionGoesOn DEF Deletions, DeletionOf
<1> QED BY <1>1, <1>2 DEF Deletions, DeletionOf

(* The rows after the commit of a merge, and after a split.                *)
MergedInto(keep, other, moved) ==
    \A u \in Trip :
        /\ u = other => trip'[u].state = "gone" /\ trip'[u].points = {}
        /\ u # other => /\ trip'[u].state = trip[u].state
                        /\ trip'[u].points = IF u = keep THEN trip[u].points \union moved
                                             ELSE trip[u].points

LEMMA MergedRows ==
    ASSUME AllRows(trip), NEW keep \in Trip, NEW other \in Trip, NEW last \in Nat, NEW moved \in SUBSET Sample,
           trip' = Merged(keep, other, last, moved)
    PROVE  MergedInto(keep, other, moved)
<1> DEFINE kept == Extended(trip, keep, last, moved)
<1>1. AllRows(kept) /\ SameTrips(trip, kept) /\ SameBut(keep, trip, kept)
  BY Extending
<1>2. kept[keep].points = trip[keep].points \union moved
  BY DEF Extended, AllRows, TripRow
<1>3. trip' = [kept EXCEPT ![other] = Gone]
  BY DEF Merged, Extended
<1> HIDE DEF kept
<1>4. trip'[other] = Gone /\ \A u \in Trip \ {other} : trip'[u] = kept[u]
  BY <1>1, <1>3 DEF AllRows
<1>5. Gone.points = {} /\ Gone.state = "gone"
  BY <1>1, GoneRow DEF AllRows
<1> QED BY <1>1, <1>2, <1>4, <1>5 DEF SameTrips, SameBut, MergedInto

LEMMA SplitRows ==
    ASSUME TypeOK, NEW p \in Task, SplitTrip(p), ~UNCHANGED trip
    PROVE  \E t \in Trip, new \in Trip : \E left \in SUBSET trip[t].points :
              /\ trip[new].state = "unused"
              /\ \A u \in Trip \ {new} : trip'[u].state = trip[u].state
              /\ trip'[new].state = "live"
              /\ trip'[t].points = left /\ trip'[new].points = trip[t].points \ left
              /\ \A u \in Trip \ {t, new} : trip'[u].points = trip[u].points
<1> PICK t \in Trip : t = task[p].trip /\ trip[t].state = "live"
  BY DEF SplitTrip, Live
<1> DEFINE left == {s \in trip[t].points : s.at < task[p].at}
           right == trip[t].points \ left
           end == IF left = {} THEN 0 ELSE Max(Rows(left))
<1>1. PICK new \in Trip :
        /\ trip[new].state = "unused"
        /\ trip' = [trip EXCEPT ![t].points = left, ![t].end = end,
                                ![new] = LiveTrip(task[p].at, trip[t].end, TRUE, right)]
  BY DEF SplitTrip
<1>2. left \in SUBSET trip[t].points /\ right = trip[t].points \ left
  OBVIOUS
<1> HIDE DEF left, right, end
<1>3. PICK row : row = LiveTrip(task[p].at, trip[t].end, TRUE, right)
  OBVIOUS
<1>4. row.state = "live" /\ row.points = right
  BY <1>3 DEF LiveTrip
<1>5. /\ trip'[new] = row /\ trip'[t].points = left /\ trip'[t].state = trip[t].state
      /\ \A u \in Trip \ {t, new} : trip'[u] = trip[u]
  <2>1. trip \in [Trip -> TripRow] /\ t # new
    BY <1>1 DEF TypeOK
  <2>2. trip' = [Shortened(trip, t, end, left) EXCEPT ![new] = row]
    BY <1>1, <1>3 DEF Shortened
  <2>3. /\ Shortened(trip, t, end, left)[t].points = left
        /\ Shortened(trip, t, end, left)[t].state = trip[t].state
        /\ \A u \in Trip \ {t} : Shortened(trip, t, end, left)[u] = trip[u]
        /\ DOMAIN Shortened(trip, t, end, left) = Trip
    BY <2>1 DEF Shortened, TripRow
  <2> QED BY <2>1, <2>2, <2>3
<1>6. \A u \in Trip \ {new} : trip'[u].state = trip[u].state
  BY <1>5
<1>7. \A u \in Trip \ {t, new} : trip'[u].points = trip[u].points
  BY <1>5
<1>8. PICK part \in SUBSET trip[t].points : part = left
  BY <1>2
<1>9. trip'[t].points = part /\ trip'[new].points = trip[t].points \ part /\ trip'[new].state = "live"
  BY <1>2, <1>4, <1>5, <1>8
<1> WITNESS t \in Trip, new \in Trip
<1> WITNESS part \in SUBSET trip[t].points
<1> QED BY <1>1, <1>6, <1>7, <1>9

LEMMA NextShrinks == ASSUME TypeOK, Held, Next PROVE DoomedShrink /\ raced \subseteq raced'
<1>0. AllRows(trip)
  BY DEF TypeOK, AllRows
<1> DEFINE Goal == DoomedShrink /\ raced \subseteq raced'
<1>1. CASE UNCHANGED <<trip, raced>>
  BY <1>1, SameShrink
<1>2. ASSUME NEW k \in Start, TrackStart(k) PROVE Goal
  <2>1. PICK t \in Trip : trip[t].state = "unused" /\ trip' = [trip EXCEPT ![t] = LiveTrip(k, 0, FALSE, {})]
    BY <1>2 DEF TrackStart
  <2>2. UNCHANGED raced /\ \A u \in Trip \ {t} : trip'[u] = trip[u]
    BY <1>0, <1>2, <2>1 DEF AllRows, TrackStart
  <2> QED BY <2>1, <2>2 DEF DoomedShrink, Known, Shrinks, Punctual
<1>3. ASSUME NEW p \in Task, InsertPoints(p) PROVE Goal
  <2>1. CASE UNCHANGED trip
    BY <1>3, <2>1 DEF InsertPoints, DoomedShrink, Known, Shrinks, Punctual
  <2>2. CASE ~UNCHANGED trip
    <3> PICK t \in Trip : t = task[p].trip
      BY <1>3, <2>2 DEF InsertPoints, Live
    <3> PICK s : s = task[p].sample
      OBVIOUS
    <3>1. trip' = [trip EXCEPT ![t].points = @ \union {s}]
      BY <1>3, <2>2 DEF InsertPoints
    <3>2. raced' = IF Doomed(t) THEN raced \union {s} ELSE raced
      BY <1>3, <2>2 DEF InsertPoints
    <3>3. /\ trip'[t].points = trip[t].points \union {s} /\ trip'[t].state = trip[t].state
          /\ \A u \in Trip \ {t} : trip'[u] = trip[u]
      BY <1>0, <3>1 DEF AllRows, TripRow
    <3> QED BY <3>2, <3>3 DEF DoomedShrink, Known, Shrinks, Punctual
  <2> QED BY <2>1, <2>2
<1>4. ASSUME NEW p \in Task, NEW t \in Trip, FinishTrack(p, t) PROVE Goal
  <2>1. (IF trip[t].points = {} THEN trip[t].start ELSE Max(Rows(trip[t].points))) \in Nat
    BY RowFields, LastRow
  <2>2. now \in Nat /\ trip[t].start \in Nat
    BY RowFields DEF TypeOK
  <2>3. PICK end \in Nat : trip' = Ended(trip, t, end)
    BY <1>4, <2>1, <2>2 DEF FinishTrack, Ended
  <2>4. SameTrips(trip, trip') /\ SameBut(t, trip, trip') /\ trip'[t].points = trip[t].points
    BY <1>0, <2>3, Ending
  <2>5. UNCHANGED raced /\ \A u \in Trip : trip'[u].state = trip[u].state /\ trip'[u].points = trip[u].points
    BY <1>4, <2>4 DEF FinishTrack, SameTrips, SameBut
  <2> QED BY <2>5 DEF DoomedShrink, Known, Shrinks, Punctual
<1>5. ASSUME NEW t \in Trip, DeleteTracks(t), UNCHANGED raced PROVE Goal
  <2>1. Gone.points = {} /\ Gone.state = "gone"
    BY RowFields, GoneRow
  <2>2. trip'[t] = Gone /\ \A u \in Trip \ {t} : trip'[u] = trip[u]
    BY <1>0, <1>5 DEF DeleteTracks, AllRows
  <2> QED BY <1>5, <2>1, <2>2 DEF DoomedShrink, Known, Shrinks, Punctual
<1>6. ASSUME NEW p \in Task, PurgeTrack(p) PROVE Goal
  <2>1. CASE task[p].trip \in Live
    BY <1>5, <1>6, <2>1 DEF PurgeTrack, Live
  <2>2. CASE task[p].trip \notin Live
    BY <1>1, <1>6, <2>2 DEF PurgeTrack
  <2> QED BY <2>1, <2>2
<1>7. ASSUME NEW t \in Trip, PruneRawPoints(t) PROVE Goal
  <2>1. UNCHANGED raced /\ \A u \in Trip : /\ trip'[u].state = trip[u].state
                                           /\ trip'[u].points \subseteq trip[u].points
    BY <1>0, <1>7 DEF PruneRawPoints, AllRows, TripRow
  <2> QED BY <2>1 DEF DoomedShrink, Known, Shrinks, Punctual
<1>8. ASSUME NEW p \in Task, CommitMerge(p) PROVE Goal
  <2>1. CASE task[p].trip \notin Live
    BY <1>1, <1>8, <2>1 DEF CommitMerge
  <2>2. CASE task[p].trip \in Live
    <3> PICK keep \in Trip : keep = task[p].trip
      BY <2>2 DEF Live
    <3> PICK other, moved, last : other = task[p].other /\ moved = task[p].moved /\ last = task[p].at
      OBVIOUS
    <3>1. moved \in SUBSET Sample /\ last \in Nat
      BY TaskFields
    <3>2. raced' = IF Doomed(keep) THEN raced \union moved ELSE raced
      BY <1>8, <2>2 DEF CommitMerge
    <3>3. CASE other \in Live
      <4>1. other \in Trip /\ trip' = Merged(keep, other, last, moved)
        BY <1>8, <2>2, <3>3 DEF CommitMerge, Live
      <4>2. MergedInto(keep, other, moved)
        BY <1>0, <3>1, <4>1, MergedRows
      <4> QED BY <3>2, <4>2 DEF MergedInto, DoomedShrink, Known, Shrinks, Punctual
    <3>4. CASE other \notin Live
      <4>1. trip' = [trip EXCEPT ![keep].end = last]
        BY <1>8, <2>2, <3>4 DEF CommitMerge
      <4>2. \A u \in Trip : trip'[u].state = trip[u].state /\ trip'[u].points = trip[u].points
        BY <1>0, <3>1, <4>1 DEF AllRows, TripRow
      <4> QED BY <3>2, <4>2 DEF DoomedShrink, Known, Shrinks, Punctual
    <3> QED BY <3>3, <3>4
  <2> QED BY <2>1, <2>2
<1>9. ASSUME NEW p \in Task, SplitTrip(p) PROVE Goal
  <2>1. CASE UNCHANGED trip
    BY <1>1, <1>9, <2>1 DEF SplitTrip
  <2>2. CASE ~UNCHANGED trip
    <3>1. PICK t \in Trip, new \in Trip : \E left \in SUBSET trip[t].points :
            /\ trip[new].state = "unused"
            /\ \A u \in Trip \ {new} : trip'[u].state = trip[u].state
            /\ trip'[t].points = left /\ trip'[new].points = trip[t].points \ left
            /\ \A u \in Trip \ {t, new} : trip'[u].points = trip[u].points
      BY <1>9, <2>2, SplitRows
    <3>2. UNCHANGED raced
      BY <1>9 DEF SplitTrip
    <3> QED BY <3>1, <3>2 DEF DoomedShrink, Known, Shrinks, Punctual
  <2> QED BY <2>1, <2>2
<1>10. CASE \/ Tick \/ Crash \/ \E p \in Task : Abort(p)
            \/ \E p \in Task, s \in Sent : ResolveTrack(p, s)
            \/ \E p \in Task, t \in Trip : Finalize(p, t)
            \/ \E p \in Task, keep \in Trip, other \in Trip : CheckMerge(p, keep, other)
            \/ \E p \in Task, t \in Trip, at \in Instant : CheckSplit(p, t, at)
            \/ \E p \in Task : AfterPointsLanded(p) \/ QueueFinalize(p) \/ MoveMerged(p)
  BY <1>1, <1>10 DEF Tick, Crash, Abort, ResolveTrack, Finalize, CheckMerge, CheckSplit, AfterPointsLanded,
      QueueFinalize, MoveMerged
<1>11. ASSUME NEW t \in Trip, DeleteTrip(t) PROVE Goal
  BY <1>5, <1>11 DEF DeleteTrip
<1> QED BY <1>2, <1>3, <1>4, <1>6, <1>7, <1>8, <1>9, <1>10, <1>11 DEF Next, Proceeds, Goes

LEMMA NextDeletions == ASSUME TypeOK, Held, Deletions, Next PROVE Deletions'
<1>0. DoomedShrink
  BY NextShrinks
<1>1. ASSUME UNCHANGED task PROVE Deletions'
  <2>1. \A q \in Task : DeletionOf(q)'
    BY <1>0, <1>1, DeletionGoesOn DEF Deletions, DeletionOf
  <2> QED BY <2>1 DEF Deletions, DeletionOf
<1>2. ASSUME NEW p \in Task, Becomes(p, IdleTask) PROVE Deletions'
  BY <1>0, <1>2, IdleType, DeletionsGoOn
<1>3. ASSUME NEW p \in Task, NEW T \in SUBSET Trip, Becomes(p, Queueing(T)) PROVE Deletions'
  BY <1>0, <1>3, IdleType, DeletionsGoOn
<1>4. ASSUME NEW p \in Task, NEW s \in Sent, ResolveTrack(p, s) PROVE Deletions'
  <2> PICK state : state = [IdleTask EXCEPT !.pc = "insert", !.trip = ByKey(s.key), !.sample = s]
    OBVIOUS
  <2>1. Becomes(p, state) /\ state.pc = "insert"
    BY <1>4 DEF ResolveTrack, IdleTask
  <2> QED BY <1>0, <2>1, DeletionsGoOn
<1>5. ASSUME NEW p \in Task, InsertPoints(p) PROVE Deletions'
  <2> PICK state : state = [task[p] EXCEPT !.pc = "landed"]
    OBVIOUS
  <2>1. state.pc = "landed"
    BY TaskFields DEF TaskState
  <2>2. Becomes(p, state) \/ Becomes(p, IdleTask)
    BY <1>5 DEF InsertPoints
  <2> QED BY <1>0, <1>2, <2>1, <2>2, DeletionsGoOn
<1>6. ASSUME NEW p \in Task, AfterPointsLanded(p) \/ QueueFinalize(p) \/ PurgeTrack(p) \/ Abort(p)
      PROVE  Deletions'
  BY <1>2, <1>6 DEF AfterPointsLanded, QueueFinalize, PurgeTrack, Abort
<1>7. ASSUME NEW p \in Task, NEW t \in Trip, FinishTrack(p, t) PROVE Deletions'
  <2>1. {t} \in SUBSET Trip /\ Becomes(p, Queueing({t}))
    BY <1>7 DEF FinishTrack
  <2> QED BY <1>3, <2>1
<1>8. ASSUME NEW p \in Task, NEW t \in Trip, Finalize(p, t) PROVE Deletions'
  <2>1. CASE Becomes(p, IdleTask)
    BY <1>2, <2>1
  <2>2. CASE Cardinality(Rows(trip[t].points)) <= EmptyMax
    <3> PICK state : state = [IdleTask EXCEPT !.pc = "purge", !.trip = t]
      OBVIOUS
    <3>1. state.pc = "purge" /\ state.trip = t
      BY DEF IdleTask
    <3>2. task'[p] = state /\ \A q \in Task \ {p} : task'[q] = task[q]
      BY <1>8, <2>2 DEF Finalize, Becomes, TypeOK
    <3>3. UNCHANGED <<trip, raced>>
      BY <1>8 DEF Finalize
    <3>4. Known(t)'
      BY <1>8, <3>3 DEF Finalize, TypeOK, Known, Live
    <3>5. FewPunctual(t)
      <4>1. Punctual(t) \subseteq trip[t].points /\ trip[t].points \in SUBSET Sample /\ EmptyMax \in Nat
        BY RowFields, LifeAssumption DEF Punctual
      <4>2. /\ Cardinality(Rows(Punctual(t))) \in Nat /\ Cardinality(Rows(trip[t].points)) \in Nat
            /\ Cardinality(Rows(Punctual(t))) <= Cardinality(Rows(trip[t].points))
        BY <4>1, FewerRows
      <4> QED BY <2>2, <4>1, <4>2 DEF FewPunctual
    <3>6. FewPunctual(t)'
      BY <3>3, <3>5 DEF FewPunctual, Punctual, Rows
    <3>7. \A q \in Task \ {p} : DeletionOf(q)'
      BY <1>0, <3>2, DeletionGoesOn DEF Deletions, DeletionOf
    <3>8. DeletionOf(p)'
      BY <3>1, <3>2, <3>4, <3>6 DEF DeletionOf
    <3> QED BY <3>7, <3>8 DEF Deletions, DeletionOf
  <2> QED BY <1>8, <2>1, <2>2 DEF Finalize
<1>9. ASSUME NEW p \in Task, NEW keep \in Trip, NEW other \in Trip, CheckMerge(p, keep, other)
      PROVE  Deletions'
  <2> DEFINE ends == {trip[keep].end, trip[other].end} \ {0}
             last == IF ends = {} THEN trip[keep].start ELSE Max(ends)
  <2> PICK state : state = [IdleTask EXCEPT !.pc = "merge", !.trip = keep, !.other = other, !.at = last]
    OBVIOUS
  <2>1. Becomes(p, state) /\ UNCHANGED trip
    BY <1>9 DEF CheckMerge
  <2> HIDE DEF last
  <2>2. state.pc = "merge" /\ state.trip = keep /\ state.other = other
    BY DEF IdleTask
  <2>3. task'[p] = state /\ \A q \in Task \ {p} : task'[q] = task[q]
    BY <2>1 DEF Becomes, TypeOK
  <2>4. keep # other
    <3>1. trip[keep].start < trip[other].start /\ trip[keep].start \in Nat
      BY <1>9, RowFields DEF CheckMerge
    <3> QED BY <3>1
  <2>5. Known(other)'
    BY <1>9, <2>1 DEF CheckMerge, Known, Live
  <2>6. \A q \in Task \ {p} : DeletionOf(q)'
    BY <1>0, <2>3, DeletionGoesOn DEF Deletions, DeletionOf
  <2>7. DeletionOf(p)'
    BY <2>2, <2>3, <2>4, <2>5 DEF DeletionOf
  <2> QED BY <2>6, <2>7 DEF Deletions, DeletionOf
<1>10. ASSUME NEW p \in Task, MoveMerged(p) PROVE Deletions'
  <2>1. CASE Becomes(p, IdleTask)
    BY <1>2, <2>1
  <2>2. CASE ~Becomes(p, IdleTask)
    <3> PICK other : other = task[p].other
      OBVIOUS
    <3> PICK moved : moved = trip[other].points
      OBVIOUS
    <3> PICK state : state = [task[p] EXCEPT !.pc = "moved", !.moved = moved]
      OBVIOUS
    <3>1. Becomes(p, state) /\ UNCHANGED <<trip, raced>> /\ task[p].pc = "merge"
      BY <1>10, <2>2 DEF MoveMerged
    <3>2. state.pc = "moved" /\ state.other = other /\ state.trip = task[p].trip /\ state.moved = moved
      BY TaskFields DEF TaskState
    <3>3. task'[p] = state /\ \A q \in Task \ {p} : task'[q] = task[q]
      BY <3>1 DEF Becomes, TypeOK
    <3>4. Known(other) /\ other # task[p].trip
      BY <3>1 DEF Deletions
    <3>5. Known(other)' /\ Punctual(other)' \subseteq moved
      BY <3>1, <3>4 DEF Known, Punctual
    <3>6. \A q \in Task \ {p} : DeletionOf(q)'
      BY <1>0, <3>3, DeletionGoesOn DEF Deletions, DeletionOf
    <3>7. DeletionOf(p)'
      BY <3>2, <3>3, <3>4, <3>5 DEF DeletionOf
    <3> QED BY <3>6, <3>7 DEF Deletions, DeletionOf
  <2> QED BY <2>1, <2>2
<1>11. ASSUME NEW p \in Task, CommitMerge(p) PROVE Deletions'
  <2>1. CASE Becomes(p, IdleTask)
    BY <1>2, <2>1
  <2>2. CASE task[p].trip \in Live /\ Becomes(p, Queueing({task[p].trip}))
    <3> PICK keep \in Trip : keep = task[p].trip
      BY <2>2 DEF Live
    <3>1. {keep} \in SUBSET Trip /\ Becomes(p, Queueing({keep}))
      BY <2>2
    <3> QED BY <1>3, <3>1
  <2> QED BY <1>11, <2>1, <2>2 DEF CommitMerge
<1>12. ASSUME NEW p \in Task, NEW t \in Trip, NEW at \in Instant, CheckSplit(p, t, at) PROVE Deletions'
  <2> PICK state : state = [IdleTask EXCEPT !.pc = "split", !.trip = t, !.at = at]
    OBVIOUS
  <2>1. Becomes(p, state) /\ state.pc = "split"
    BY <1>12 DEF CheckSplit, IdleTask
  <2> QED BY <1>0, <2>1, DeletionsGoOn
<1>13. ASSUME NEW p \in Task, SplitTrip(p) PROVE Deletions'
  <2>1. CASE Becomes(p, IdleTask)
    BY <1>2, <2>1
  <2>2. CASE task[p].trip \in Live /\ \E new \in Trip : Becomes(p, Queueing({task[p].trip, new}))
    <3> PICK t \in Trip : t = task[p].trip
      BY <2>2 DEF Live
    <3> PICK new \in Trip : Becomes(p, Queueing({t, new}))
      BY <2>2
    <3>1. {t, new} \in SUBSET Trip
      OBVIOUS
    <3> QED BY <1>3, <3>1
  <2> QED BY <1>13, <2>1, <2>2 DEF SplitTrip
<1>14. CASE Crash
  BY <1>14, IdleType DEF Crash, Deletions
<1>15. CASE Tick \/ (\E k \in Start : TrackStart(k)) \/ (\E t \in Trip : DeleteTrip(t) \/ PruneRawPoints(t))
  BY <1>1, <1>15 DEF Tick, TrackStart, DeleteTrip, PruneRawPoints
<1> QED BY <1>4, <1>5, <1>6, <1>7, <1>8, <1>9, <1>10, <1>11, <1>12, <1>13, <1>14, <1>15 DEF Next, Proceeds, Goes

(* Nothing is lost while points only grow or move.                         *)
LEMMA StillHad ==
    ASSUME NoneLost, raced \subseteq raced', acked' \subseteq acked,
           \A s \in acked' \ raced' : Has(s) => Has(s)'
    PROVE  NoneLost'
BY DEF NoneLost

LEMMA PointsStay ==
    ASSUME NoneLost, UNCHANGED acked, raced \subseteq raced',
           \A t \in Trip : trip[t].points \subseteq trip'[t].points
    PROVE  NoneLost'
BY DEF NoneLost, Has

LEMMA NextKeeps == ASSUME TypeOK, Held, Deletions, NoneLost, Next PROVE NoneLost'
<1>0. AllRows(trip) /\ raced \subseteq raced'
  BY NextShrinks DEF TypeOK, AllRows
<1>1. ASSUME UNCHANGED <<trip, acked>> PROVE NoneLost'
  BY <1>0, <1>1, PointsStay
<1>2. ASSUME NEW k \in Start, TrackStart(k) PROVE NoneLost'
  <2>1. PICK t \in Trip : trip[t].state = "unused" /\ trip' = [trip EXCEPT ![t] = LiveTrip(k, 0, FALSE, {})]
    BY <1>2 DEF TrackStart
  <2>2. trip[t].points = {} /\ \A u \in Trip \ {t} : trip'[u] = trip[u]
    BY <1>0, <2>1 DEF AllRows, TypeOK, Live
  <2> QED BY <1>0, <1>2, <2>2, PointsStay DEF TrackStart
<1>3. ASSUME NEW p \in Task, InsertPoints(p) PROVE NoneLost'
  <2>1. CASE UNCHANGED <<trip, acked>>
    BY <1>1, <1>3, <2>1 DEF InsertPoints
  <2>2. CASE ~UNCHANGED <<trip, acked>>
    <3> PICK t \in Trip : t = task[p].trip
      BY <1>3, <2>2 DEF InsertPoints, Live
    <3> PICK s : s = task[p].sample
      OBVIOUS
    <3>1. trip' = [trip EXCEPT ![t].points = @ \union {s}] /\ acked' = acked \union {s}
      BY <1>3, <2>2 DEF InsertPoints
    <3>2. trip'[t].points = trip[t].points \union {s} /\ \A u \in Trip \ {t} : trip'[u] = trip[u]
      BY <1>0, <3>1 DEF AllRows, TripRow
    <3> QED BY <1>0, <3>1, <3>2 DEF NoneLost, Has
  <2> QED BY <2>1, <2>2
<1>4. ASSUME NEW p \in Task, NEW t \in Trip, FinishTrack(p, t) PROVE NoneLost'
  <2>1. (IF trip[t].points = {} THEN trip[t].start ELSE Max(Rows(trip[t].points))) \in Nat
    BY RowFields, LastRow
  <2>2. now \in Nat /\ trip[t].start \in Nat
    BY RowFields DEF TypeOK
  <2>3. PICK end \in Nat : trip' = Ended(trip, t, end)
    BY <1>4, <2>1, <2>2 DEF FinishTrack, Ended
  <2>4. SameBut(t, trip, trip') /\ trip'[t].points = trip[t].points
    BY <1>0, <2>3, Ending
  <2> QED BY <1>0, <1>4, <2>4, PointsStay DEF FinishTrack, SameBut
<1>5. ASSUME NEW t \in Trip, DeleteTracks(t), UNCHANGED raced,
             acked' \subseteq acked \ Punctual(t)
      PROVE  NoneLost'
  <2>1. \A u \in Trip \ {t} : trip'[u] = trip[u]
    BY <1>0, <1>5 DEF DeleteTracks, AllRows
  <2> QED BY <1>5, <2>1 DEF NoneLost, Has, Punctual
<1>6. ASSUME NEW p \in Task, PurgeTrack(p) PROVE NoneLost'
  <2>1. CASE task[p].trip \in Live
    <3> PICK t \in Trip : t = task[p].trip
      BY <2>1 DEF Live
    <3>1. task[p].pc = "purge" /\ DeleteTracks(t) /\ UNCHANGED raced
      BY <1>6, <2>1 DEF PurgeTrack
    <3>2. FewPunctual(t)
      BY <3>1 DEF Deletions
    <3>3. acked' = acked \ Punctual(t)
      BY <1>6, <2>1, <3>2 DEF PurgeTrack, Punctual, FewPunctual
    <3> QED BY <1>5, <3>1, <3>3
  <2>2. CASE task[p].trip \notin Live
    BY <1>1, <1>6, <2>2 DEF PurgeTrack
  <2> QED BY <2>1, <2>2
<1>7. ASSUME NEW t \in Trip, DeleteTrip(t) PROVE NoneLost'
  BY <1>5, <1>7 DEF DeleteTrip, Punctual
<1>8. ASSUME NEW t \in Trip, PruneRawPoints(t) PROVE NoneLost'
  <2>1. \A u \in Trip \ {t} : trip'[u] = trip[u]
    BY <1>0, <1>8 DEF PruneRawPoints, AllRows
  <2>2. UNCHANGED raced /\ acked' = acked \ trip[t].points
    BY <1>8 DEF PruneRawPoints
  <2> QED BY <2>1, <2>2 DEF NoneLost, Has
<1>9. ASSUME NEW p \in Task, CommitMerge(p) PROVE NoneLost'
  <2>1. CASE task[p].trip \notin Live
    BY <1>1, <1>9, <2>1 DEF CommitMerge
  <2>2. CASE task[p].trip \in Live
    <3> PICK keep \in Trip : keep = task[p].trip
      BY <2>2 DEF Live
    <3> PICK other, moved, last : other = task[p].other /\ moved = task[p].moved /\ last = task[p].at
      OBVIOUS
    <3>1. moved \in SUBSET Sample /\ last \in Nat
      BY TaskFields
    <3>2. UNCHANGED acked
      BY <1>9 DEF CommitMerge
    <3>3. CASE other \in Live
      <4>1. other \in Trip /\ trip' = Merged(keep, other, last, moved)
        BY <1>9, <2>2, <3>3 DEF CommitMerge, Live
      <4>2. MergedInto(keep, other, moved)
        BY <1>0, <3>1, <4>1, MergedRows
      <4>3. other # keep /\ Punctual(other) \subseteq moved
        BY <1>9 DEF CommitMerge, Deletions
      <4>4. \A s \in acked' \ raced' : Has(s) => Has(s)'
        BY <1>0, <4>1, <4>2, <4>3 DEF MergedInto, Has, Punctual
      <4> QED BY <1>0, <3>2, <4>4, StillHad
    <3>4. CASE other \notin Live
      <4>1. trip' = [trip EXCEPT ![keep].end = last]
        BY <1>9, <2>2, <3>4 DEF CommitMerge
      <4>2. \A u \in Trip : trip'[u].points = trip[u].points
        BY <1>0, <3>1, <4>1 DEF AllRows, TripRow
      <4> QED BY <1>0, <3>2, <4>2, PointsStay
    <3> QED BY <3>3, <3>4
  <2> QED BY <2>1, <2>2
<1>10. ASSUME NEW p \in Task, SplitTrip(p) PROVE NoneLost'
  <2>0. UNCHANGED <<acked, raced>>
    BY <1>10 DEF SplitTrip
  <2>1. CASE UNCHANGED trip
    BY <1>1, <2>0, <2>1
  <2>2. CASE ~UNCHANGED trip
    <3>1. PICK t \in Trip, new \in Trip : \E left \in SUBSET trip[t].points :
            /\ trip[new].state = "unused"
            /\ trip'[t].points = left /\ trip'[new].points = trip[t].points \ left
            /\ \A u \in Trip \ {t, new} : trip'[u].points = trip[u].points
      BY <1>10, <2>2, SplitRows
    <3>2. trip[new].points = {}
      BY <3>1 DEF TypeOK, Live
    <3> QED BY <2>0, <3>1, <3>2 DEF NoneLost, Has
  <2> QED BY <2>1, <2>2
<1>11. CASE \/ Tick \/ Crash \/ \E p \in Task : Abort(p)
            \/ \E p \in Task, s \in Sent : ResolveTrack(p, s)
            \/ \E p \in Task, t \in Trip : Finalize(p, t)
            \/ \E p \in Task, keep \in Trip, other \in Trip : CheckMerge(p, keep, other)
            \/ \E p \in Task, t \in Trip, at \in Instant : CheckSplit(p, t, at)
            \/ \E p \in Task : AfterPointsLanded(p) \/ QueueFinalize(p) \/ MoveMerged(p)
  BY <1>1, <1>11 DEF Tick, Crash, Abort, ResolveTrack, Finalize, CheckMerge, CheckSplit, AfterPointsLanded,
      QueueFinalize, MoveMerged
<1> QED BY <1>2, <1>3, <1>4, <1>6, <1>7, <1>8, <1>9, <1>10, <1>11 DEF Next, Proceeds, Goes

(* For any number of trips, samples, requests and crashes, and whatever is *)
(* merged, split or purged in between: a stored sample is in some trip,    *)
(* unless it was deleted, pruned or purged with so few that they count as  *)
(* none, or raced with the deletion of the trip it reached.                *)
THEOREM OnlyNamedLosses == Spec => []OnlyRacesLoseSamples
<1>1. Init => Deletions /\ NoneLost
  BY IdleType DEF Init, Deletions, NoneLost
<1>2. TypeOK /\ Held /\ Deletions /\ NoneLost /\ [Next]_vars => (Deletions /\ NoneLost)'
  <2> SUFFICES ASSUME TypeOK, Held, Deletions, NoneLost, [Next]_vars PROVE (Deletions /\ NoneLost)'
    OBVIOUS
  <2>1. CASE Next
    BY <2>1, NextDeletions, NextKeeps
  <2>2. CASE UNCHANGED vars
    BY <2>2 DEF vars, Deletions, NoneLost, Known, FewPunctual, Punctual, Rows, Has
  <2> QED BY <2>1, <2>2
<1>3. TypeOK /\ NoneLost => OnlyRacesLoseSamples
  BY HadIsKept
<1> QED BY <1>1, <1>2, <1>3, Typed, PTL DEF Spec
=============================================================================
