----------------------------- MODULE PointWatch -----------------------------
(***************************************************************************)
(* What happens, in the background, to the points an upload stored: the    *)
(* alert rules of the car (alerts.rs) and then its zones (geofences.rs).   *)
(*                                                                         *)
(* One trip, one point rule, one zone that notifies.  Every upload spawns  *)
(* a task for the points it stored, in the order of the upload; the tasks  *)
(* of one car interleave statement by statement.                           *)
(***************************************************************************)
EXTENDS Naturals, Sequences, SequencesExt, Lists

CONSTANTS
    Task,               \* background tasks that can be under way at once
    MinConsecutive,     \* MIN_CONSECUTIVE
    Limit,              \* the rule's threshold
    MaxValue,           \* bound: readings are 0..MaxValue, 0 when there is none
    MaxPoints,          \* bound: points of the trip
    Trip,               \* bound: the trips considered
    MaxDeaths           \* bound: statements that fail, or tasks that end with the process

VARIABLES
    trip,       \* the points the phone recorded
    stored,     \* those the server has
    task,       \* runs of on_points
    inside,     \* geofence_state, "unknown" while it has no row
    events,     \* geofence_events
    notices,    \* notifications of crossings
    member,     \* the rule's owner may read the car
    deaths,     \* failures so far
    seen,       \* history: points in the order the zone was evaluated for them
    overlapped  \* history: two tasks have been under way at once

vars == <<trip, stored, task, inside, events, notices, member, deaths, seen, overlapped>>

-----------------------------------------------------------------------------
Number == 1..MaxPoints
Side == {"inside", "outside"}

(* A point: where it lies, if it has a fix, and the reading the rule looks *)
(* at, if it has one.                                                      *)
Point == [fix : Side \cup {"none"}, value : 0..MaxValue]

WatchAssumption ==
    /\ MinConsecutive \in Nat \ {0}
    /\ {Limit, MaxValue, MaxPoints, MaxDeaths} \subseteq Nat
    /\ Trip \subseteq [Number -> Point]

Event == [kind : {"enter", "exit"}, point : Number]

TaskState ==
    [pc : {"idle"}] \cup
    [pc : {"rules", "read"}, batch : Seq(Number)] \cup
    [pc : {"alert"}, batch : Seq(Number), worst : Number] \cup
    [pc : {"zone"}, todo : Seq(Number), at : Side \cup {"unknown"}] \cup
    [pc : {"event", "notify"}, todo : Seq(Number), at : Side, point : Number]

Idle == [pc |-> "idle"]
Running(t) == task[t] # Idle

Init ==
    /\ trip \in Trip
    /\ stored = {}
    /\ task = [t \in Task |-> Idle]
    /\ inside = "unknown"
    /\ events = <<>>
    /\ notices = 0
    /\ member = TRUE
    /\ deaths = 0
    /\ seen = <<>>
    /\ overlapped = FALSE

-----------------------------------------------------------------------------
(* An upload of the points from..to, one of them or many; those stored     *)
(* before are left out.                                                    *)
OnPoints(t, from, to) ==
    LET new == Only([i \in 1..(to - from + 1) |-> from + i - 1], Number \ stored)
    IN  /\ task[t] = Idle
        /\ new # <<>>
        /\ stored' = stored \cup from..to
        /\ task' = [task EXCEPT ![t] = [pc |-> "rules", batch |-> new]]
        /\ overlapped' = (overlapped \/ \E o \in Task : Running(o))
        /\ UNCHANGED <<trip, inside, events, notices, member, deaths, seen>>

Hit(n) == trip[n].value > Limit

Worse(n, worst) == worst = 0 \/ trip[n].value > trip[worst].value

(* Mutant: a miss ends the run and not its worst reading.                  *)
CheckPointKeepsWorst(scan, n) ==
    IF scan.fired # 0 THEN scan
    ELSE IF ~Hit(n) THEN [scan EXCEPT !.run = 0]
    ELSE LET worst == IF Worse(n, scan.worst) THEN n ELSE scan.worst
         IN  [run |-> scan.run + 1, worst |-> worst,
              fired |-> IF scan.run + 1 >= MinConsecutive THEN worst ELSE 0]

(* One turn of check_rule's loop: the run of hits, its worst point, and    *)
(* the point it returns with, or 0.                                        *)
CheckPoint(scan, n) ==
    IF scan.fired # 0 THEN scan
    ELSE IF ~Hit(n) THEN [scan EXCEPT !.run = 0, !.worst = 0]
    ELSE LET worst == IF Worse(n, scan.worst) THEN n ELSE scan.worst
         IN  [run |-> scan.run + 1, worst |-> worst,
              fired |-> IF scan.run + 1 >= MinConsecutive THEN worst ELSE 0]

(* The point check_rule reports, or 0.                                     *)
CheckRule(batch) ==
    LET scan[n \in 0..Len(batch)] ==
            IF n = 0 THEN [run |-> 0, worst |-> 0, fired |-> 0]
                     ELSE CheckPoint(scan[n - 1], batch[n])
    IN  scan[Len(batch)].fired

(* evaluate_points of alerts.rs: no alert for an owner without access.     *)
EvaluateRules(t) ==
    /\ task[t].pc = "rules"
    /\ LET batch == task[t].batch
           found == IF member THEN CheckRule(batch) ELSE 0
       IN  task' = [task EXCEPT ![t] =
              IF found = 0 THEN [pc |-> "read", batch |-> batch]
                           ELSE [pc |-> "alert", batch |-> batch, worst |-> found]]
    /\ UNCHANGED <<trip, stored, inside, events, notices, member, deaths, seen, overlapped>>

(* notify, best effort: what is in the inbox is left out.                  *)
Alert(t) ==
    /\ task[t].pc = "alert"
    /\ task' = [task EXCEPT ![t] = [pc |-> "read", batch |-> @.batch]]
    /\ UNCHANGED <<trip, stored, inside, events, notices, member, deaths, seen, overlapped>>

(* evaluate_points of geofences.rs reads where the car is ...              *)
ReadZone(t) ==
    /\ task[t].pc = "read"
    /\ task' = [task EXCEPT ![t] = [pc |-> "zone", todo |-> @.batch, at |-> inside]]
    /\ UNCHANGED <<trip, stored, inside, events, notices, member, deaths, seen, overlapped>>

(* Points with a fix on the other side.                                    *)
Changes(todo, at) == {i \in 1..Len(todo) : trip[todo[i]].fix \in Side \ {at}}

(* Mutant: the first fix counts as a crossing.                             *)
FirstSightNever(at) == FALSE

(* The first fix only establishes where the car is.                        *)
FirstSight(at) == at = "unknown"

(* ... and goes through the points: to the next change, which it stores,   *)
(* or to the end.                                                          *)
EvaluateZone(t) ==
    /\ task[t].pc = "zone"
    /\ LET todo == task[t].todo
           at == task[t].at
       IN  \/ \E i \in Changes(todo, at) :
                /\ \A j \in Changes(todo, at) : i <= j
                /\ LET rest == SubSeq(todo, i + 1, Len(todo))
                       now == trip[todo[i]].fix
                   IN  /\ inside' = now
                       /\ task' = [task EXCEPT ![t] =
                             IF FirstSight(at) THEN [pc |-> "zone", todo |-> rest, at |-> now]
                             ELSE [pc |-> "event", todo |-> rest, at |-> now, point |-> todo[i]]]
                /\ seen' = seen \o SubSeq(todo, 1, i)
           \/ /\ Changes(todo, at) = {}
              /\ task' = [task EXCEPT ![t] = Idle]
              /\ seen' = seen \o todo
              /\ UNCHANGED inside
    /\ UNCHANGED <<trip, stored, events, notices, member, deaths, overlapped>>

InsertEvent(t) ==
    /\ task[t].pc = "event"
    /\ events' = Append(events, [kind |-> IF task[t].at = "inside" THEN "enter" ELSE "exit",
                                 point |-> task[t].point])
    /\ task' = [task EXCEPT ![t].pc = "notify"]
    /\ UNCHANGED <<trip, stored, inside, notices, member, deaths, seen, overlapped>>

NotifyCrossing(t) ==
    /\ task[t].pc = "notify"
    /\ notices' = notices + 1
    /\ task' = [task EXCEPT ![t] = [pc |-> "zone", todo |-> @.todo, at |-> @.at]]
    /\ UNCHANGED <<trip, stored, inside, events, member, deaths, seen, overlapped>>

(* notify is best effort.                                                  *)
NotifyFails(t) ==
    /\ task[t].pc = "notify"
    /\ deaths < MaxDeaths
    /\ deaths' = deaths + 1
    /\ task' = [task EXCEPT ![t] = [pc |-> "zone", todo |-> @.todo, at |-> @.at]]
    /\ UNCHANGED <<trip, stored, inside, events, notices, member, seen, overlapped>>

(* A statement fails, or the process restarts: a failure of the rules      *)
(* leaves the zones to be evaluated, any other ends the task.              *)
RulesFail(t) ==
    /\ task[t].pc \in {"rules", "alert"}
    /\ deaths < MaxDeaths
    /\ deaths' = deaths + 1
    /\ task' = [task EXCEPT ![t] = [pc |-> "read", batch |-> @.batch]]
    /\ UNCHANGED <<trip, stored, inside, events, notices, member, seen, overlapped>>

Die(t) ==
    /\ Running(t)
    /\ deaths < MaxDeaths
    /\ deaths' = deaths + 1
    /\ task' = [task EXCEPT ![t] = Idle]
    /\ UNCHANGED <<trip, stored, inside, events, notices, member, seen, overlapped>>

(* The rule's owner is no longer among those who may read the car.         *)
LoseAccess ==
    /\ member
    /\ member' = FALSE
    /\ UNCHANGED <<trip, stored, task, inside, events, notices, deaths, seen, overlapped>>

Next ==
    \/ \E t \in Task :
          \/ \E from \in Number : \E to \in from..MaxPoints : OnPoints(t, from, to)
          \/ EvaluateRules(t) \/ Alert(t) \/ RulesFail(t)
          \/ ReadZone(t) \/ EvaluateZone(t) \/ InsertEvent(t) \/ NotifyCrossing(t)
          \/ NotifyFails(t) \/ Die(t)
    \/ LoseAccess

Spec == Init /\ [][Next]_vars

-----------------------------------------------------------------------------
TypeOK ==
    /\ trip \in [Number -> Point]
    /\ stored \subseteq Number
    /\ task \in [Task -> TaskState]
    /\ inside \in Side \cup {"unknown"}
    /\ events \in Seq(Event)
    /\ notices \in Nat
    /\ {member, overlapped} \subseteq BOOLEAN
    /\ deaths \in 0..MaxDeaths
    /\ seen \in Seq(Number)

(* Where the car was seen to change sides: fixes that lie on the other     *)
(* side than the fix before them.                                          *)
Fixes == Only(seen, {n \in Number : trip[n].fix # "none"})
Crossings == {Fixes[i] : i \in {i \in 2..Len(Fixes) : trip[Fixes[i]].fix # trip[Fixes[i - 1]].fix}}

(* While the uploads of a car are evaluated one after the other, the       *)
(* events are its crossings, each on its side and told once, but for one   *)
(* event or notification lost with each failure.                           *)
EventsAreCrossings ==
    ~overlapped /\ (\A t \in Task : ~Running(t)) =>
        /\ Len(events) + deaths >= Cardinality(Crossings)
        /\ notices + deaths >= Len(events)
        /\ notices <= Len(events)
        /\ IsInjective(events)
        /\ \A i \in DOMAIN events :
              /\ events[i].point \in Crossings
              /\ events[i].kind = "enter" <=> trip[events[i].point].fix = "inside"

(* MIN_CONSECUTIVE points of the batch in a row exceed the threshold, from *)
(* the ith on.                                                             *)
RunAt(batch, i) == i + MinConsecutive - 1 <= Len(batch)
                   /\ \A j \in i..(i + MinConsecutive - 1) : Hit(batch[j])

(* "So a single glitchy reading does not alert" (alerts.rs): a batch       *)
(* alerts the rule's owner exactly when the owner may read the car and     *)
(* MIN_CONSECUTIVE of its points in a row exceed the threshold, and names  *)
(* the worst point of the first such run.                                  *)
AlertsAreEarned ==
    [][\A t \in Task :
          task[t].pc = "rules" /\ task'[t].pc \in {"alert", "read"} /\ deaths' = deaths =>
             LET batch == task[t].batch
                 runs == {i \in 1..Len(batch) : RunAt(batch, i)}
             IN  /\ task'[t].pc = "alert" <=> member /\ runs # {}
                 /\ task'[t].pc = "alert" =>
                       \E i \in runs :
                          /\ \A j \in runs : i <= j
                          /\ \E k \in i..(i + MinConsecutive - 1) :
                                /\ batch[k] = task'[t].worst
                                /\ \A j \in i..(i + MinConsecutive - 1) :
                                      trip[batch[j]].value <= trip[batch[k]].value]_vars
=============================================================================
