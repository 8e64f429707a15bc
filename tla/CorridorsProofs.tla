--------------------------- MODULE CorridorsProofs ---------------------------
(***************************************************************************)
(* Types of Corridors; that no route gets two corridors but by an INSERT   *)
(* that outlives its run's lock; and that a trip no run is at has the      *)
(* corridors its last completed run gave it.                               *)
(***************************************************************************)
EXTENDS Corridors, TLAPS

LEMMA PlanFacts ==
    ASSUME NEW plan \in Plan
    PROVE  /\ Len(plan) \in 0..MaxLegs
           /\ \A l \in 1..Len(plan) : plan[l] \in Route
           /\ plan # <<>> => Len(plan) >= 1
<1>1. PICK n \in 0..MaxLegs : plan \in [1..n -> Route]
  BY DEF Plan
<1>2. n \in Nat
  BY <1>1, CorridorAssumption
<1>3. plan \in Seq(Route) /\ Len(plan) = n
  BY <1>1, <1>2
<1> QED BY <1>1, <1>2, <1>3

LEMMA NoPlan == <<>> \in Plan
<1>1. <<>> \in [1..0 -> Route]
  OBVIOUS
<1> QED BY <1>1, CorridorAssumption DEF Plan

LEMMA IdleState ==
    /\ Idle \in TaskState
    /\ Idle.pc = "idle" /\ Idle.by = "request" /\ Idle.leg = 0 /\ Idle.track = None
BY NoPlan, CorridorAssumption DEF Idle, TaskState

LEMMA RunState ==
    ASSUME NEW x \in Track, NEW by \in {"job", "recompute"}, NEW plan \in Plan,
           NEW more \in SUBSET Track, assign \in [Track -> [Leg -> Corridor \cup {None}]]
    PROVE  /\ Run(x, by, plan, more) \in TaskState
           /\ Run(x, by, plan, more).pc = "clear"
           /\ Run(x, by, plan, more).by = by
           /\ Run(x, by, plan, more).track = x
           /\ Run(x, by, plan, more).leg = 1
<1>1. Assigned(x) \in SUBSET Corridor
  BY DEF Assigned
<1>2. 1 \in 0..MaxLegs
  BY CorridorAssumption
<1> QED BY <1>1, <1>2 DEF Run, TaskState

(* Fields of a task after a change of its program counter and one other.   *)
LEMMA Fields ==
    ASSUME TypeOK, NEW t \in Task
    PROVE  /\ task[t] \in TaskState
           /\ task[t].pc \in {"idle", "clear", "find", "create", "assign", "sync", "drop",
                              "purge", "next", "prune"}
           /\ task[t].by \in {"job", "recompute", "request", "late"}
           /\ task[t].track \in Track \cup {None}
           /\ task[t].plan \in Plan
           /\ task[t].leg \in 0..MaxLegs
           /\ task[t].found \in Corridor \cup {None}
           /\ task[t].old \in SUBSET Corridor
           /\ task[t].more \in SUBSET Track
BY DEF TypeOK, TaskState

LEMMA AssignedSubset ==
    ASSUME TypeOK, NEW x \in Track
    PROVE  Assigned(x) \subseteq Corridor
BY DEF TypeOK, Assigned

LEMMA InitTypeOK == Init => TypeOK
<1> SUFFICES ASSUME Init PROVE TypeOK
  OBVIOUS
<1>1. task \in [Task -> TaskState]
  BY IdleState DEF Init
<1>2. legs \in [Track -> Plan]
  BY NoPlan DEF Init
<1>3. assign \in [Track -> [Leg -> Corridor \cup {None}]]
  BY DEF Init, NoLegs
<1>4. faults \in 0..MaxFaults
  BY CorridorAssumption DEF Init
<1> QED BY <1>1, <1>2, <1>3, <1>4 DEF Init, TypeOK

-----------------------------------------------------------------------------
(* What a task has at each step: a run its trip and a leg of its plan; and *)
(* the lock, while it runs.                                                *)
Steps ==
    \A t \in Task :
        /\ task[t].pc = "clear" => task[t].leg = 1
        /\ task[t].pc \in {"find", "create", "assign"} =>
              task[t].leg >= 1 /\ task[t].leg <= Len(task[t].plan)
        /\ task[t].pc \in {"clear", "find", "create", "assign"} \/ InRun(t) =>
              task[t].track \in Track
        /\ task[t].pc \in {"clear", "find", "create", "assign"} => task[t].by # "request"
        /\ task[t].pc = "purge" => task[t].by = "request"

Locked == \A t \in Task : InRun(t) => lock = t

(* A corridor is created only for a route that has none.                   *)
Missing ==
    \A t \in Task : task[t].pc = "create" /\ ~Late(t) =>
        \A c \in Corridor \ stray : route[c] # task[t].plan[task[t].leg]

(* Task t becomes r.                                                       *)
LEMMA Becomes ==
    ASSUME TypeOK, NEW t \in Task, NEW r \in TaskState, task' = [task EXCEPT ![t] = r]
    PROVE  /\ task' \in [Task -> TaskState]
           /\ task'[t] = r
           /\ \A u \in Task : u # t => task'[u] = task[u]
BY DEF TypeOK

(* A step of one task keeps Steps if the task's new state does.            *)
LEMMA StepKeeps ==
    ASSUME TypeOK, Steps, NEW t \in Task, \A u \in Task : u # t => task'[u] = task[u],
           task'[t].pc = "clear" => task'[t].leg = 1,
           task'[t].pc \in {"find", "create", "assign"} =>
               task'[t].leg >= 1 /\ task'[t].leg <= Len(task'[t].plan),
           task'[t].pc \in {"clear", "find", "create", "assign"} \/ InRun(t)' =>
               task'[t].track \in Track,
           task'[t].pc \in {"clear", "find", "create", "assign"} => task'[t].by # "request",
           task'[t].pc = "purge" => task'[t].by = "request"
    PROVE  Steps'
BY DEF Steps, InRun

(* A change of some fields of a task within their sets.                    *)
LEMMA Changed ==
    ASSUME NEW r \in TaskState
    PROVE  /\ \A p \in {"idle", "clear", "find", "create", "assign", "sync", "drop", "purge",
                         "next", "prune"} :
                 /\ [r EXCEPT !.pc = p] \in TaskState
                 /\ [r EXCEPT !.pc = p, !.found = None] \in TaskState
                 /\ [r EXCEPT !.pc = p, !.track = None] \in TaskState
                 /\ \A c \in Corridor : [r EXCEPT !.pc = p, !.found = c] \in TaskState
                 /\ \A c \in Corridor :
                       [r EXCEPT !.pc = p, !.found = c, !.old = @ \ {c}] \in TaskState
                 /\ \A c \in Corridor, l \in 0..MaxLegs :
                       [r EXCEPT !.pc = p, !.leg = l, !.found = None, !.old = @ \ {c}]
                           \in TaskState
           /\ [r EXCEPT !.found = None] \in TaskState
           /\ [r EXCEPT !.by = "late"] \in TaskState
           /\ \A c \in Corridor : [r EXCEPT !.old = @ \ {c}] \in TaskState
           /\ \A x \in Track : [r EXCEPT !.more = @ \ {x}] \in TaskState
<1> DEFINE Pc == {"idle", "clear", "find", "create", "assign", "sync", "drop", "purge",
                  "next", "prune"}
<1>1. ASSUME NEW p \in Pc
      PROVE  /\ [r EXCEPT !.pc = p] \in TaskState
             /\ [r EXCEPT !.pc = p, !.found = None] \in TaskState
             /\ [r EXCEPT !.pc = p, !.track = None] \in TaskState
  BY DEF TaskState
<1>2. ASSUME NEW p \in Pc, NEW c \in Corridor
      PROVE  [r EXCEPT !.pc = p, !.found = c] \in TaskState
  BY DEF TaskState
<1>3. ASSUME NEW p \in Pc, NEW c \in Corridor
      PROVE  [r EXCEPT !.pc = p, !.found = c, !.old = @ \ {c}] \in TaskState
  BY DEF TaskState
<1>4. ASSUME NEW p \in Pc, NEW c \in Corridor, NEW l \in 0..MaxLegs
      PROVE  [r EXCEPT !.pc = p, !.leg = l, !.found = None, !.old = @ \ {c}] \in TaskState
  BY DEF TaskState
<1>5. [r EXCEPT !.found = None] \in TaskState /\ [r EXCEPT !.by = "late"] \in TaskState
  BY DEF TaskState
<1>6. \A c \in Corridor : [r EXCEPT !.old = @ \ {c}] \in TaskState
  BY DEF TaskState
<1>7. \A x \in Track : [r EXCEPT !.more = @ \ {x}] \in TaskState
  BY DEF TaskState
<1> QED BY <1>1, <1>2, <1>3, <1>4, <1>5, <1>6, <1>7

(* What a recount makes of the tasks.                                      *)
Recounts(t, c) ==
    \/ task' = [task EXCEPT ![t].pc = "drop", ![t].found = c, ![t].old = @ \ {c}]
    \/ \E U \in SUBSET Task :
          task' = [u \in Task |-> IF u \in U THEN [task[u] EXCEPT !.found = None]
                                 ELSE IF u = t THEN [task[u] EXCEPT !.old = @ \ {c}]
                                 ELSE task[u]]

LEMMA CountSteps ==
    ASSUME NEW t \in Task, SyncCount(t)
    PROVE  \E c \in task[t].old : Recounts(t, c)
BY DEF SyncCount, Recounts

LEMMA NextTypeOK ==
    ASSUME TypeOK, Steps, Next PROVE TypeOK'
<1> USE DEF TypeOK
<1>1. ASSUME NEW x \in Track, Enqueue(x) PROVE TypeOK'
  BY <1>1 DEF Enqueue
<1>2. ASSUME NEW t \in Task, NEW x \in Track, NEW plan \in Plan, StartJob(t, x, plan)
      PROVE  TypeOK'
  <2>1. Run(x, "job", plan, {}) \in TaskState
    BY RunState
  <2> QED BY <1>2, <2>1, Becomes DEF StartJob
<1>3. ASSUME NEW t \in Task, NEW x \in Track, NEW plan \in Plan, RecomputeNext(t, x, plan)
      PROVE  TypeOK'
  <2>1. task[t].more \ {x} \in SUBSET Track
    BY Fields
  <2>2. Run(x, "recompute", plan, task[t].more \ {x}) \in TaskState
    BY <2>1, RunState
  <2>3. [task[t] EXCEPT !.more = @ \ {x}] \in TaskState
    BY Fields, Changed
  <2>4. task' = [task EXCEPT ![t] = Run(x, "recompute", plan, task[t].more \ {x})]
        \/ task' = [task EXCEPT ![t] = [task[t] EXCEPT !.more = @ \ {x}]]
    BY <1>3 DEF RecomputeNext
  <2>5. task' \in [Task -> TaskState]
    BY <2>2, <2>3, <2>4, Becomes
  <2> QED BY <1>3, <2>5 DEF RecomputeNext
<1>4. ASSUME NEW t \in Task, NEW x \in Track, Purge(t, x) PROVE TypeOK'
  <2>1. [Idle EXCEPT !.pc = "purge", !.track = x, !.old = Assigned(x)] \in TaskState
    BY IdleState, AssignedSubset DEF TaskState
  <2> QED BY <1>4, <2>1, Becomes DEF Purge
<1>5. ASSUME NEW t \in Task, NEW c \in Corridor, OpenCorridor(t, c) PROVE TypeOK'
  <2>1. [Idle EXCEPT !.pc = "sync", !.old = {c}] \in TaskState
    BY IdleState DEF TaskState
  <2> QED BY <1>5, <2>1, Becomes DEF OpenCorridor
<1>6. ASSUME NEW t \in Task, NEW newest \in SUBSET Track, Recompute(t, newest) PROVE TypeOK'
  <2>1. [Idle EXCEPT !.pc = "next", !.by = "recompute", !.more = newest] \in TaskState
    BY IdleState DEF TaskState
  <2>2. assign' \in [Track -> [Leg -> Corridor \cup {None}]]
    BY <1>6 DEF Recompute, NoLegs
  <2> QED BY <1>6, <2>1, <2>2, Becomes DEF Recompute
<1>7. ASSUME NEW t \in Task, Clear(t) PROVE TypeOK'
  <2>1. task[t].track \in Track
    BY <1>7 DEF Clear, Steps
  <2>2. \A p \in {"sync", "find"} : [task[t] EXCEPT !.pc = p] \in TaskState
    BY Fields, Changed
  <2>3. task' \in [Task -> TaskState]
    BY <1>7, <2>2, IdleState, Becomes DEF Clear, Then
  <2>4. assign' \in [Track -> [Leg -> Corridor \cup {None}]]
    BY <1>7 DEF Clear, NoLegs
  <2> QED BY <1>7, <2>1, <2>3, <2>4 DEF Clear
<1>8. ASSUME NEW t \in Task, Find(t) PROVE TypeOK'
  <2>1. [task[t] EXCEPT !.pc = "create"] \in TaskState
    BY Fields, Changed
  <2>2. \A c \in Corridor : [task[t] EXCEPT !.pc = "assign", !.found = c] \in TaskState
    BY Fields, Changed
  <2>3. \/ \E c \in Corridor :
              task' = [task EXCEPT ![t] = [task[t] EXCEPT !.pc = "assign", !.found = c]]
        \/ task' = [task EXCEPT ![t] = [task[t] EXCEPT !.pc = "create"]]
    BY <1>8 DEF Find
  <2>4. task' \in [Task -> TaskState]
    BY <2>1, <2>2, <2>3, Becomes
  <2> QED BY <1>8, <2>4 DEF Find
<1>9. ASSUME NEW t \in Task, Create(t) PROVE TypeOK'
  <2>1. task[t].plan[task[t].leg] \in Route
    BY <1>9, PlanFacts, Fields DEF Create, Steps
  <2>2. \A c \in Corridor : [task[t] EXCEPT !.pc = "assign", !.found = c] \in TaskState
    BY Fields, Changed
  <2>3. task' \in [Task -> TaskState]
    BY <1>9, <2>2, IdleState, Becomes DEF Create, Then
  <2> QED BY <1>9, <2>1, <2>3 DEF Create
<1>10. ASSUME NEW t \in Task, Assign(t) PROVE TypeOK'
  <2>1. task[t].track \in Track /\ task[t].found \in Corridor
    BY <1>10 DEF Assign, Steps, There
  <2>2. /\ task[t].leg \in 0..MaxLegs
        /\ task[t].leg # Len(task[t].plan) => task[t].leg + 1 \in 0..MaxLegs
    BY <1>10, PlanFacts, Fields, CorridorAssumption DEF Assign, Steps
  <2>3. \A p \in {"sync", "find"}, l \in 0..MaxLegs :
            [task[t] EXCEPT !.pc = p, !.leg = l, !.found = None,
                            !.old = @ \ {task[t].found}] \in TaskState
    BY <2>1, Fields, Changed
  <2>4. task' \in [Task -> TaskState]
    BY <1>10, <2>2, <2>3, IdleState, Becomes DEF Assign, Then
  <2>5. assign' \in [Track -> [Leg -> Corridor \cup {None}]]
    BY <1>10, <2>1 DEF Assign
  <2> QED BY <1>10, <2>1, <2>4, <2>5 DEF Assign
<1>11. ASSUME NEW t \in Task, SyncCount(t) PROVE TypeOK'
  <2>1. ASSUME NEW u \in Task
        PROVE  /\ [task[u] EXCEPT !.found = None] \in TaskState
               /\ \A c \in Corridor :
                     /\ [task[u] EXCEPT !.old = @ \ {c}] \in TaskState
                     /\ [task[u] EXCEPT !.pc = "drop", !.found = c, !.old = @ \ {c}]
                           \in TaskState
    BY Fields, Changed
  <2>2. PICK c \in task[t].old : Recounts(t, c)
    BY <1>11, CountSteps
  <2>3. c \in Corridor
    <3>1. task[t].old \in SUBSET Corridor
      BY Fields
    <3> QED BY <2>2, <3>1
  <2>4. CASE task' = [task EXCEPT ![t].pc = "drop", ![t].found = c, ![t].old = @ \ {c}]
    <3>1. task' = [task EXCEPT ![t] = [task[t] EXCEPT !.pc = "drop", !.found = c,
                                                      !.old = @ \ {c}]]
      BY <2>4
    <3> QED BY <1>11, <2>1, <2>3, <3>1, Becomes DEF SyncCount
  <2>5. CASE \E U \in SUBSET Task :
                task' = [u \in Task |->
                       IF u \in U THEN [task[u] EXCEPT !.found = None]
                       ELSE IF u = t THEN [task[u] EXCEPT !.old = @ \ {c}]
                       ELSE task[u]]
    <3>1. \A u \in Task : task'[u] \in {[task[u] EXCEPT !.found = None],
                                         [task[u] EXCEPT !.old = @ \ {c}], task[u]}
      BY <2>5
    <3>2. \A u \in Task : task'[u] \in TaskState
      BY <2>1, <2>3, <3>1, Fields
    <3>3. task' = [u \in Task |-> task'[u]]
      BY <2>5
    <3>4. task' \in [Task -> TaskState]
      BY <3>2, <3>3
    <3> QED BY <1>11, <3>4 DEF SyncCount
  <2> QED BY <2>2, <2>4, <2>5 DEF Recounts
<1>12. ASSUME NEW C, Drop(C)
       PROVE  /\ route' \in [Corridor -> Route \cup {None}]
              /\ assign' \in [Track -> [Leg -> Corridor \cup {None}]]
              /\ lost' \subseteq Track
  BY <1>12 DEF Drop
<1>13. ASSUME NEW t \in Task, SyncDrop(t) PROVE TypeOK'
  <2>1. [task[t] EXCEPT !.pc = "sync", !.found = None] \in TaskState
    BY Fields, Changed
  <2>2. task' \in [Task -> TaskState]
    BY <1>13, <2>1, IdleState, Becomes DEF SyncDrop, Then
  <2> QED BY <1>12, <1>13, <2>2 DEF SyncDrop
<1>14. ASSUME NEW t \in Task PROVE AfterRun(t) \in TaskState
  <2>1. [Idle EXCEPT !.pc = "next", !.by = "recompute", !.more = task[t].more] \in TaskState
    BY IdleState, Fields DEF TaskState
  <2> QED BY <2>1, IdleState DEF AfterRun
<1>15. ASSUME NEW t \in Task, EndRun(t) PROVE TypeOK'
  <2>1. task[t].track \in Track
    BY <1>15 DEF EndRun, Steps
  <2> QED BY <1>14, <1>15, <2>1, Fields DEF EndRun
<1>16. ASSUME NEW t \in Task, EndSync(t) PROVE TypeOK'
  BY <1>16, IdleState DEF EndSync
<1>17. ASSUME NEW t \in Task, RunFails(t)
       PROVE  /\ lock' \in Task \cup {None} /\ jobs' \subseteq Track /\ lost' \subseteq Track
              /\ UNCHANGED <<trip, route, used, assign, legs, stray>>
  <2>1. task[t].track \in Track
    BY <1>17 DEF RunFails, Steps
  <2> QED BY <1>17, <2>1 DEF RunFails, Retry
<1>18. ASSUME NEW t \in Task, RequestEnds(t)
       PROVE  /\ lock' \in Task \cup {None} /\ jobs' \subseteq Track /\ lost' \subseteq Track
              /\ UNCHANGED <<trip, route, used, assign, legs, stray>>
  BY <1>18 DEF RequestEnds, Steps
<1>19. ASSUME NEW t \in Task, AssignFails(t) PROVE TypeOK'
  <2>1. task' \in [Task -> TaskState]
    BY <1>14, <1>19, IdleState DEF AssignFails
  <2> QED BY <1>17, <1>19, <2>1 DEF AssignFails
<1>20. ASSUME NEW t \in Task, Fail(t) PROVE TypeOK'
  <2>1. [task[t] EXCEPT !.by = "late"] \in TaskState
    BY Fields, Changed
  <2>2. Behind(t) \subseteq TaskState
    BY <2>1, IdleState DEF Behind
  <2>3. task' \in [Task -> TaskState]
    BY <1>14, <1>20, <2>2 DEF Fail
  <2>4. faults' \in 0..MaxFaults
    BY <1>20, CorridorAssumption DEF Fail
  <2> QED BY <1>17, <1>18, <1>20, <2>3, <2>4 DEF Fail
<1>21. ASSUME NEW t \in Task, DeleteTrack(t) PROVE TypeOK'
  <2>1. [task[t] EXCEPT !.pc = "sync", !.track = None] \in TaskState
    BY Fields, Changed
  <2>2. task' = [task EXCEPT ![t] = [task[t] EXCEPT !.pc = "sync", !.track = None]]
    BY <1>21 DEF DeleteTrack
  <2>3. task' \in [Task -> TaskState]
    BY <2>1, <2>2, Becomes
  <2>4. assign' \in [Track -> [Leg -> Corridor \cup {None}]]
    BY <1>21 DEF DeleteTrack, NoLegs
  <2>5. trip' \in [Track -> {"new", "there", "gone"}]
    BY <1>21 DEF DeleteTrack
  <2> QED BY <1>21, <2>3, <2>4, <2>5 DEF DeleteTrack
<1>22. [Idle EXCEPT !.pc = "prune", !.old = {c \in Corridor : Empty(c)}] \in TaskState
  BY IdleState DEF TaskState
<1>23. ASSUME NEW t \in Task, OpenSummary(t) \/ RecomputeEnd(t) PROVE TypeOK'
  BY <1>22, <1>23, Becomes DEF OpenSummary, RecomputeEnd
<1>24. ASSUME NEW t \in Task, Prune(t) PROVE TypeOK'
  BY <1>12, <1>24, IdleState, Becomes DEF Prune
<1> QED BY <1>1, <1>2, <1>3, <1>4, <1>5, <1>6, <1>7, <1>8, <1>9, <1>10, <1>11, <1>13, <1>15,
           <1>16, <1>19, <1>20, <1>21, <1>23, <1>24 DEF Next

(* How a step changes tasks: one of them moves on within its run or its    *)
(* request, starts one, or ends; others only lose a corridor they found.   *)
Moves(t) ==
    /\ task'[t].pc = "clear" => task'[t].leg = 1
    /\ task'[t].pc \in {"find", "create", "assign"} =>
           task'[t].leg >= 1 /\ task'[t].leg <= Len(task'[t].plan)
    /\ task'[t].pc \in {"clear", "find", "create", "assign"} \/ InRun(t)' =>
           task'[t].track \in Track
    /\ task'[t].pc \in {"clear", "find", "create", "assign"} => task'[t].by # "request"
    /\ task'[t].pc = "purge" => task'[t].by = "request"

LEMMA MovesKeep ==
    ASSUME TypeOK, Steps, NEW t \in Task, Moves(t), \A u \in Task : u # t => task'[u] = task[u]
    PROVE  Steps'
BY StepKeeps DEF Moves

LEMMA EndMoves ==
    ASSUME TypeOK, NEW t \in Task, task'[t] \in {Idle, AfterRun(t)} PROVE Moves(t)
BY IdleState DEF Moves, InRun, AfterRun, Idle

LEMMA PruneStarts ==
    ASSUME TypeOK, NEW t \in Task, OpenSummary(t) \/ RecomputeEnd(t)
    PROVE  task'[t].pc = "prune"
<1> DEFINE S == {c \in Corridor : Empty(c)}
           r == [Idle EXCEPT !.pc = "prune", !.old = S]
<1>1. S \in SUBSET Corridor
  OBVIOUS
<1>2. task' = [task EXCEPT ![t] = r]
  BY DEF OpenSummary, RecomputeEnd
<1> HIDE DEF S
<1>3. r.pc = "prune"
  BY <1>1, IdleState DEF TaskState
<1> HIDE DEF r
<1> QED BY <1>2, <1>3 DEF TypeOK

LEMMA StartMoves ==
    ASSUME TypeOK, Next, NEW t \in Task,
           \/ \E x \in Track, plan \in Plan : StartJob(t, x, plan) \/ RecomputeNext(t, x, plan)
           \/ \E x \in Track : Purge(t, x)
           \/ \E c \in Corridor : OpenCorridor(t, c)
           \/ \E newest \in SUBSET Track : Recompute(t, newest)
           \/ OpenSummary(t) \/ RecomputeEnd(t) \/ DeleteTrack(t),
           Steps
    PROVE  Moves(t) /\ \A u \in Task : u # t => task'[u] = task[u]
<1>1. ASSUME NEW x \in Track, NEW plan \in Plan, StartJob(t, x, plan) PROVE Moves(t)
  <2>1. task'[t] = Run(x, "job", plan, {})
    BY <1>1 DEF StartJob, TypeOK
  <2> QED BY <2>1 DEF Moves, InRun, Run
<1>2. ASSUME NEW x \in Track, NEW plan \in Plan, RecomputeNext(t, x, plan) PROVE Moves(t)
  <2>1. CASE task' = [task EXCEPT ![t] = Run(x, "recompute", plan, @.more \ {x})]
    <3>1. task'[t] = Run(x, "recompute", plan, task[t].more \ {x})
      BY <2>1 DEF TypeOK
    <3> QED BY <3>1 DEF Moves, InRun, Run
  <2>2. CASE task' = [task EXCEPT ![t].more = @ \ {x}]
    <3>1. task'[t].pc = "next"
      BY <1>2, <2>2 DEF RecomputeNext, TypeOK, TaskState
    <3> QED BY <3>1 DEF Moves, InRun
  <2> QED BY <1>2, <2>1, <2>2 DEF RecomputeNext
<1>3. ASSUME NEW x \in Track, Purge(t, x) PROVE Moves(t)
  <2>1. task'[t].pc = "purge" /\ task'[t].by = "request"
    BY <1>3, IdleState DEF Purge, TypeOK, TaskState
  <2> QED BY <2>1 DEF Moves, InRun
<1>4. ASSUME NEW c \in Corridor, OpenCorridor(t, c) PROVE Moves(t)
  <2>1. task'[t].pc = "sync" /\ task'[t].by = "request"
    BY <1>4, IdleState DEF OpenCorridor, TypeOK, TaskState
  <2> QED BY <2>1 DEF Moves, InRun
<1>5. ASSUME NEW newest \in SUBSET Track, Recompute(t, newest) PROVE Moves(t)
  <2>1. task'[t].pc = "next"
    BY <1>5, IdleState DEF Recompute, TypeOK, TaskState
  <2> QED BY <2>1 DEF Moves, InRun
<1>6. ASSUME OpenSummary(t) \/ RecomputeEnd(t) PROVE Moves(t)
  <2>1. task'[t].pc = "prune"
    BY <1>6, PruneStarts
  <2> QED BY <2>1 DEF Moves, InRun
<1>7. ASSUME DeleteTrack(t) PROVE Moves(t)
  <2>1. task'[t].pc = "sync" /\ task'[t].by = "request"
    BY <1>7, Fields DEF DeleteTrack, TypeOK, TaskState, Steps
  <2> QED BY <2>1 DEF Moves, InRun
<1>8. ASSUME NEW u \in Task, u # t PROVE task'[u] = task[u]
  BY <1>8 DEF StartJob, RecomputeNext, Purge, OpenCorridor, Recompute, OpenSummary,
              RecomputeEnd, DeleteTrack, TypeOK
<1> QED BY <1>1, <1>2, <1>3, <1>4, <1>5, <1>6, <1>7, <1>8

LEMMA RunMoves ==
    ASSUME TypeOK, NEW t \in Task, Steps,
           Clear(t) \/ Find(t) \/ Create(t) \/ Assign(t) \/ SyncDrop(t)
    PROVE  /\ Moves(t)
           /\ \A u \in Task : u # t => task'[u] = task[u]
           /\ InRun(t)' => InRun(t)
<1>1. /\ task[t].pc = "clear" => task[t].leg = 1
      /\ task[t].pc \in {"find", "create", "assign"} =>
            task[t].leg >= 1 /\ task[t].leg <= Len(task[t].plan)
      /\ task[t].pc \in {"clear", "find", "create", "assign"} \/ InRun(t) =>
            task[t].track \in Track
      /\ task[t].pc \in {"clear", "find", "create", "assign"} => task[t].by # "request"
      /\ Len(task[t].plan) \in Nat /\ (task[t].plan # <<>> => Len(task[t].plan) >= 1)
      /\ task[t].leg \in Nat
  BY PlanFacts, Fields, CorridorAssumption DEF Steps
<1>2. task'[t] = Idle => Moves(t) /\ ~InRun(t)'
  BY EndMoves, IdleState DEF InRun
<1>3. CASE Clear(t)
  <2>1. CASE task'[t] = [task[t] EXCEPT !.pc = IF task[t].plan = <<>> THEN "sync" ELSE "find"]
    <3>1. /\ task'[t].pc = IF task[t].plan = <<>> THEN "sync" ELSE "find"
          /\ task'[t].by = task[t].by /\ task'[t].track = task[t].track
          /\ task'[t].plan = task[t].plan /\ task'[t].leg = task[t].leg
      BY <2>1, Fields DEF TaskState
    <3> QED BY <1>1, <1>3, <3>1 DEF Clear, Moves, InRun, Then, TypeOK
  <2>2. task'[t] = Idle \/
        task'[t] = [task[t] EXCEPT !.pc = IF task[t].plan = <<>> THEN "sync" ELSE "find"]
    BY <1>3 DEF Clear, Then, TypeOK
  <2> QED BY <1>2, <1>3, <2>1, <2>2 DEF Clear, Then, TypeOK
<1>4. CASE Find(t)
  <2>1. /\ task'[t].pc \in {"assign", "create"}
        /\ task'[t].by = task[t].by /\ task'[t].track = task[t].track
        /\ task'[t].plan = task[t].plan /\ task'[t].leg = task[t].leg
    BY <1>4, Fields DEF Find, TypeOK, TaskState
  <2> QED BY <1>1, <1>4, <2>1 DEF Find, Moves, InRun, TypeOK
<1>5. CASE Create(t)
  <2>1. PICK c \in Corridor : task' = Then(t, [task[t] EXCEPT !.pc = "assign", !.found = c])
    BY <1>5 DEF Create
  <2>2. CASE task'[t] = [task[t] EXCEPT !.pc = "assign", !.found = c]
    <3>1. /\ task'[t].pc = "assign"
          /\ task'[t].by = task[t].by /\ task'[t].track = task[t].track
          /\ task'[t].plan = task[t].plan /\ task'[t].leg = task[t].leg
      BY <2>2, Fields DEF TaskState
    <3> QED BY <1>1, <1>5, <2>1, <3>1 DEF Create, Moves, InRun, Then, TypeOK
  <2> QED BY <1>2, <2>1, <2>2 DEF Then, TypeOK
<1>6. CASE Assign(t)
  <2> DEFINE last == task[t].leg = Len(task[t].plan)
             r == [task[t] EXCEPT !.pc = IF last THEN "sync" ELSE "find",
                                  !.leg = IF last THEN task[t].leg ELSE task[t].leg + 1,
                                  !.found = None,
                                  !.old = @ \ {task[t].found}]
  <2>1. task' = Then(t, r)
    BY <1>6 DEF Assign
  <2>2. CASE task'[t] = r
    <3>1. /\ task'[t].pc = IF last THEN "sync" ELSE "find"
          /\ task'[t].leg = IF last THEN task[t].leg ELSE task[t].leg + 1
          /\ task'[t].by = task[t].by /\ task'[t].track = task[t].track
          /\ task'[t].plan = task[t].plan
      BY <2>2, Fields DEF TaskState
    <3> HIDE DEF r
    <3> QED BY <1>1, <1>6, <2>1, <3>1 DEF Assign, Moves, InRun, Then, TypeOK
  <2>3. task'[t] = Idle \/ task'[t] = r
    BY <2>1 DEF Then, TypeOK
  <2> HIDE DEF r
  <2> QED BY <1>2, <2>1, <2>2, <2>3 DEF Then, TypeOK
<1>7. CASE SyncDrop(t)
  <2>1. task' = Then(t, [task[t] EXCEPT !.pc = "sync", !.found = None])
    BY <1>7 DEF SyncDrop
  <2>2. CASE task'[t] = [task[t] EXCEPT !.pc = "sync", !.found = None]
    <3>1. /\ task'[t].pc = "sync"
          /\ task'[t].by = task[t].by /\ task'[t].track = task[t].track
      BY <2>2, Fields DEF TaskState
    <3> QED BY <1>1, <1>7, <2>1, <3>1 DEF SyncDrop, Moves, InRun, Then, TypeOK
  <2> QED BY <1>2, <2>1, <2>2 DEF Then, TypeOK
<1> QED BY <1>3, <1>4, <1>5, <1>6, <1>7

(* The fields that the invariants read, after a recount.                   *)
LEMMA CountMoves ==
    ASSUME TypeOK, Steps, NEW t \in Task, SyncCount(t)
    PROVE  \A u \in Task :
              /\ task'[u].pc = task[u].pc \/ (u = t /\ task'[u].pc = "drop")
              /\ task'[u].by = task[u].by /\ task'[u].track = task[u].track
              /\ task'[u].plan = task[u].plan /\ task'[u].leg = task[u].leg
<1>1. PICK c \in task[t].old : Recounts(t, c)
  BY CountSteps
<1>2. CASE task' = [task EXCEPT ![t].pc = "drop", ![t].found = c, ![t].old = @ \ {c}]
  BY <1>2, Fields DEF TypeOK, TaskState
<1>3. CASE \E U \in SUBSET Task :
                task' = [u \in Task |->
                       IF u \in U THEN [task[u] EXCEPT !.found = None]
                       ELSE IF u = t THEN [task[u] EXCEPT !.old = @ \ {c}]
                       ELSE task[u]]
  BY <1>3, Fields DEF TypeOK, TaskState
<1> QED BY <1>1, <1>2, <1>3 DEF Recounts

(* What a failure leaves of its task.                                      *)
LEMMA FailMoves ==
    ASSUME TypeOK, Steps, NEW t \in Task, AssignFails(t) \/ Fail(t)
    PROVE  /\ Moves(t)
           /\ \A u \in Task : u # t => task'[u] = task[u]
           /\ ~InRun(t)' /\ (task'[t].pc \in {"create", "assign"} => Late(t)')
<1>1. \A u \in Task : u # t => task'[u] = task[u]
  BY DEF AssignFails, Fail, TypeOK
<1>2. task'[t] \in {Idle, AfterRun(t)} \cup Behind(t)
  BY DEF AssignFails, Fail, TypeOK
<1>3. CASE task'[t] \in {Idle, AfterRun(t)}
  <2>1. AfterRun(t).pc \in {"idle", "next"} /\ Idle.pc = "idle"
    BY IdleState DEF AfterRun, TaskState
  <2> QED BY <1>1, <1>3, <2>1, EndMoves DEF InRun
<1>4. CASE task'[t] = [task[t] EXCEPT !.by = "late"]
          /\ task[t].pc \in {"clear", "create", "assign", "drop"}
  <2>1. /\ task'[t].by = "late" /\ task'[t].pc = task[t].pc
        /\ task'[t].track = task[t].track /\ task'[t].plan = task[t].plan
        /\ task'[t].leg = task[t].leg
    BY <1>4, Fields DEF TaskState
  <2> QED BY <1>1, <1>4, <2>1 DEF Moves, Steps, InRun, Late
<1> QED BY <1>2, <1>3, <1>4 DEF Behind

LEMMA OtherMoves ==
    ASSUME TypeOK, NEW t \in Task, EndRun(t) \/ EndSync(t) \/ Prune(t)
    PROVE  /\ Moves(t)
           /\ \A u \in Task : u # t => task'[u] = task[u]
           /\ ~InRun(t)' /\ task'[t].pc \notin {"create", "assign"}
<1>1. \A u \in Task : u # t => task'[u] = task[u]
  BY DEF EndRun, EndSync, Prune, TypeOK
<1>2. task'[t] \in {Idle, AfterRun(t)}
  BY DEF EndRun, EndSync, Prune, TypeOK
<1>3. AfterRun(t).pc \in {"idle", "next"} /\ Idle.pc = "idle"
  BY IdleState DEF AfterRun, TaskState
<1> QED BY <1>1, <1>2, <1>3, EndMoves DEF InRun

(* The steps that start a request or a run.                                *)
Starts(t) ==
    \/ \E x \in Track, plan \in Plan : StartJob(t, x, plan) \/ RecomputeNext(t, x, plan)
    \/ \E x \in Track : Purge(t, x)
    \/ \E c \in Corridor : OpenCorridor(t, c)
    \/ \E newest \in SUBSET Track : Recompute(t, newest)
    \/ OpenSummary(t) \/ RecomputeEnd(t) \/ DeleteTrack(t)

Continues(t) == Clear(t) \/ Find(t) \/ Create(t) \/ Assign(t) \/ SyncDrop(t)

Ends(t) == AssignFails(t) \/ Fail(t) \/ EndRun(t) \/ EndSync(t) \/ Prune(t)

LEMMA NextSplit ==
    ASSUME Next
    PROVE  \/ \E x \in Track : Enqueue(x)
           \/ \E t \in Task : Starts(t) \/ Continues(t) \/ SyncCount(t) \/ Ends(t)
BY DEF Next, Starts, Continues, Ends

LEMMA NextSteps == ASSUME TypeOK, Steps, Next PROVE Steps'
<1>1. ASSUME NEW x \in Track, Enqueue(x) PROVE Steps'
  BY <1>1 DEF Enqueue, Steps, InRun
<1>2. ASSUME NEW t \in Task, Starts(t) PROVE Steps'
  BY <1>2, StartMoves, MovesKeep DEF Starts
<1>3. ASSUME NEW t \in Task, Continues(t) PROVE Steps'
  BY <1>3, RunMoves, MovesKeep DEF Continues
<1>4. ASSUME NEW t \in Task, SyncCount(t) PROVE Steps'
  <2>1. task[t].pc = "sync"
    BY <1>4 DEF SyncCount
  <2> QED BY <1>4, <2>1, CountMoves DEF Steps, InRun
<1>5. ASSUME NEW t \in Task, Ends(t) PROVE Steps'
  BY <1>5, FailMoves, OtherMoves, MovesKeep DEF Ends
<1> QED BY <1>1, <1>2, <1>3, <1>4, <1>5, NextSplit

-----------------------------------------------------------------------------
(* Who runs holds the lock: a start needs it free, an end gives it up.     *)
LEMMA StartLocks ==
    ASSUME TypeOK, Next, Steps, NEW t \in Task, Starts(t)
    PROVE  /\ \/ lock = None /\ lock' = t
              \/ ~InRun(t)' /\ lock' = lock
           /\ task'[t].pc \notin {"create", "assign"} /\ (InRun(t)' => task'[t].pc = "clear")
<1>1. ASSUME NEW x \in Track, NEW plan \in Plan, StartJob(t, x, plan)
      PROVE  lock = None /\ lock' = t /\ task'[t].pc = "clear"
  BY <1>1 DEF StartJob, LockFree, TypeOK, Run
<1>2. ASSUME NEW x \in Track, NEW plan \in Plan, RecomputeNext(t, x, plan)
      PROVE  /\ \/ lock = None /\ lock' = t
                \/ ~InRun(t)' /\ lock' = lock
             /\ task'[t].pc \in {"clear", "next"}
  <2>1. CASE lock = None /\ lock' = t
             /\ task' = [task EXCEPT ![t] = Run(x, "recompute", plan, @.more \ {x})]
    BY <2>1 DEF TypeOK, Run
  <2>2. CASE lock' = lock /\ task' = [task EXCEPT ![t].more = @ \ {x}]
    <3>1. task'[t].pc = "next"
      BY <1>2, <2>2 DEF RecomputeNext, TypeOK, TaskState
    <3> QED BY <2>2, <3>1 DEF InRun
  <2> QED BY <1>2, <2>1, <2>2 DEF RecomputeNext, LockFree
<1>3. ASSUME NEW x \in Track, Purge(t, x)
      PROVE  task'[t].pc = "purge" /\ lock' = lock
  BY <1>3, IdleState DEF Purge, TypeOK, TaskState
<1>4. ASSUME NEW c \in Corridor, OpenCorridor(t, c)
      PROVE  task'[t].pc = "sync" /\ task'[t].by = "request" /\ lock' = lock
  BY <1>4, IdleState DEF OpenCorridor, TypeOK, TaskState
<1>5. ASSUME NEW newest \in SUBSET Track, Recompute(t, newest)
      PROVE  task'[t].pc = "next" /\ lock' = lock
  BY <1>5, IdleState DEF Recompute, TypeOK, TaskState
<1>6. ASSUME OpenSummary(t) \/ RecomputeEnd(t)
      PROVE  task'[t].pc = "prune" /\ lock' = lock
  BY <1>6, PruneStarts DEF OpenSummary, RecomputeEnd
<1>7. ASSUME DeleteTrack(t)
      PROVE  task'[t].pc = "sync" /\ task'[t].by = "request" /\ lock' = lock
  BY <1>7, Fields DEF DeleteTrack, TypeOK, TaskState, Steps
<1> QED BY <1>1, <1>2, <1>3, <1>4, <1>5, <1>6, <1>7 DEF Starts, InRun

LEMMA NextLocked == ASSUME TypeOK, Steps, Locked, Next PROVE Locked'
<1>1. ASSUME NEW x \in Track, Enqueue(x) PROVE Locked'
  BY <1>1 DEF Enqueue, Locked, InRun
<1>2. ASSUME NEW t \in Task, Starts(t) PROVE Locked'
  <2>1. \A u \in Task : u # t => task'[u] = task[u]
    BY <1>2, StartMoves DEF Starts
  <2>2. lock = None => \A u \in Task : ~InRun(u)
    BY CorridorAssumption DEF Locked
  <2> QED BY <1>2, <2>1, <2>2, StartLocks DEF Locked, InRun
<1>3. ASSUME NEW t \in Task, Continues(t) PROVE Locked'
  <2>1. lock' = lock
    BY <1>3 DEF Continues, Clear, Find, Create, Assign, SyncDrop
  <2>2. InRun(t)' => InRun(t)
    BY <1>3, RunMoves DEF Continues
  <2>3. \A u \in Task : u # t => task'[u] = task[u]
    BY <1>3, RunMoves DEF Continues
  <2> QED BY <2>1, <2>2, <2>3 DEF Locked, InRun
<1>4. ASSUME NEW t \in Task, SyncCount(t) PROVE Locked'
  <2>1. task[t].pc = "sync" /\ lock' = lock
    BY <1>4 DEF SyncCount
  <2> QED BY <1>4, <2>1, CountMoves DEF Locked, InRun
<1>5. ASSUME NEW t \in Task, Ends(t) PROVE Locked'
  <2>1. ~InRun(t)' /\ \A u \in Task : u # t => task'[u] = task[u]
    BY <1>5, FailMoves, OtherMoves DEF Ends
  <2>2. lock' = lock \/ InRun(t)
    BY <1>5 DEF Ends, AssignFails, Fail, EndRun, EndSync, Prune, RunFails, RequestEnds
  <2>3. \A u \in Task : InRun(t) /\ u # t => ~InRun(u)
    BY DEF Locked
  <2> QED BY <2>1, <2>2, <2>3 DEF Locked, InRun
<1> QED BY <1>1, <1>2, <1>3, <1>4, <1>5, NextSplit

-----------------------------------------------------------------------------
(* Corridors come from Create alone.                                       *)
LEMMA Creations ==
    ASSUME TypeOK, Next, NEW c \in Corridor, route'[c] # None, route'[c] # route[c]
    PROVE  \E t \in Task : Create(t) /\ route'[c] = task[t].plan[task[t].leg]
<1>1. ASSUME NEW C, Drop(C) PROVE FALSE
  BY <1>1 DEF Drop
<1>2. ASSUME NEW t \in Task, Starts(t) PROVE FALSE
  BY <1>2 DEF Starts, StartJob, RecomputeNext, Purge, OpenCorridor, Recompute, OpenSummary,
              RecomputeEnd, DeleteTrack
<1>3. ASSUME NEW t \in Task, SyncCount(t) PROVE FALSE
  BY <1>3 DEF SyncCount
<1>4. ASSUME NEW t \in Task, Ends(t) PROVE FALSE
  BY <1>1, <1>4 DEF Ends, AssignFails, Fail, EndRun, EndSync, Prune, RunFails, RequestEnds
<1>5. ASSUME NEW x \in Track, Enqueue(x) PROVE FALSE
  BY <1>5 DEF Enqueue
<1>6. ASSUME NEW t \in Task, Clear(t) \/ Find(t) \/ Assign(t) \/ SyncDrop(t) PROVE FALSE
  BY <1>1, <1>6 DEF Clear, Find, Assign, SyncDrop
<1>7. PICK t \in Task : Create(t)
  BY <1>2, <1>3, <1>4, <1>5, <1>6, NextSplit DEF Continues
<1> QED BY <1>7 DEF Create, TypeOK

(* A late INSERT is kept apart; another run's needs the lock.              *)
LEMMA CreateAlone ==
    ASSUME TypeOK, Steps, Locked, NEW t \in Task, Create(t), NEW c \in Corridor,
           route'[c] # route[c]
    PROVE  \/ c \in stray'
           \/ ~Late(t) /\ \A u \in Task : InRun(u) => u = t
<1>1. PICK d \in Corridor : /\ route' = [route EXCEPT ![d] = task[t].plan[task[t].leg]]
                            /\ stray' = IF Late(t) THEN stray \cup {d} ELSE stray
  BY DEF Create
<1>2. c = d
  BY <1>1 DEF TypeOK
<1>3. CASE Late(t)
  BY <1>1, <1>2, <1>3
<1>4. CASE ~Late(t)
  <2>1. InRun(t)
    BY <1>4, Fields DEF Create, Late, InRun, Steps
  <2> QED BY <1>4, <2>1 DEF Locked
<1> QED BY <1>3, <1>4

LEMMA StrayGrows == ASSUME Next PROVE stray \subseteq stray'
<1>1. ASSUME NEW t \in Task, Starts(t) PROVE stray' = stray
  BY <1>1 DEF Starts, StartJob, RecomputeNext, Purge, OpenCorridor, Recompute, OpenSummary,
              RecomputeEnd, DeleteTrack
<1>2. ASSUME NEW t \in Task, SyncCount(t) PROVE stray' = stray
  BY <1>2 DEF SyncCount
<1>3. ASSUME NEW t \in Task, Ends(t) PROVE stray' = stray
  BY <1>3 DEF Ends, AssignFails, Fail, EndRun, EndSync, Prune, RunFails, RequestEnds
<1>4. ASSUME NEW x \in Track, Enqueue(x) PROVE stray' = stray
  BY <1>4 DEF Enqueue
<1>5. ASSUME NEW t \in Task, Continues(t) PROVE stray \subseteq stray'
  BY <1>5 DEF Continues, Clear, Find, Create, Assign, SyncDrop
<1> QED BY <1>1, <1>2, <1>3, <1>4, <1>5, NextSplit

(* Only Find leaves a task about to create.                                *)
LEMMA Creators ==
    ASSUME TypeOK, Steps, Next, NEW t \in Task, task'[t].pc = "create", ~Late(t)'
    PROVE  \/ Find(t)
           \/ /\ task[t].pc = "create" /\ ~Late(t)
              /\ task'[t].plan = task[t].plan /\ task'[t].leg = task[t].leg
<1> DEFINE Same == /\ task[t].pc = "create" /\ ~Late(t)
                   /\ task'[t].plan = task[t].plan /\ task'[t].leg = task[t].leg
<1>1. task'[t] = task[t] => Same
  BY DEF Late
<1>2. ASSUME NEW x \in Track, Enqueue(x) PROVE Same
  BY <1>1, <1>2 DEF Enqueue
<1>3. ASSUME NEW u \in Task, Starts(u) PROVE Same
  <2>1. task'[u].pc # "create" /\ \A v \in Task : v # u => task'[v] = task[v]
    BY <1>3, StartLocks, StartMoves DEF Starts
  <2> QED BY <1>1, <2>1
<1>4. ASSUME NEW u \in Task, SyncCount(u) PROVE Same
  BY <1>4, CountMoves DEF Late
<1>5. ASSUME NEW u \in Task, Ends(u) PROVE Same
  BY <1>1, <1>5, FailMoves, OtherMoves DEF Ends
<1>6. ASSUME NEW u \in Task, Continues(u) PROVE Same \/ Find(t)
  <2>1. CASE u # t
    BY <1>1, <1>6, <2>1, RunMoves DEF Continues
  <2>2. CASE u = t
    <3>1. CASE Find(t)
      BY <3>1
    <3>2. ASSUME Clear(t) PROVE FALSE
      <4>1. \A p \in {"sync", "find"} : [task[t] EXCEPT !.pc = p].pc # "create"
        BY Fields DEF TaskState
      <4> QED BY <3>2, <4>1, IdleState DEF Clear, Then, TypeOK
    <3>3. ASSUME Create(t) PROVE FALSE
      <4>1. \A c : [task[t] EXCEPT !.pc = "assign", !.found = c].pc # "create"
        BY Fields DEF TaskState
      <4> QED BY <3>3, <4>1, IdleState DEF Create, Then, TypeOK
    <3>4. ASSUME Assign(t) PROVE FALSE
      <4>1. \A p \in {"sync", "find"} : \A l, o :
               [task[t] EXCEPT !.pc = p, !.leg = l, !.found = None, !.old = o].pc # "create"
        BY Fields DEF TaskState
      <4>2. \E p \in {"sync", "find"} : \E l, o : task' = Then(t,
               [task[t] EXCEPT !.pc = p, !.leg = l, !.found = None, !.old = o])
        BY <3>4 DEF Assign
      <4> QED BY <4>1, <4>2, IdleState DEF Then, TypeOK
    <3>5. ASSUME SyncDrop(t) PROVE FALSE
      <4>1. [task[t] EXCEPT !.pc = "sync", !.found = None].pc # "create"
        BY Fields DEF TaskState
      <4> QED BY <3>5, <4>1, IdleState DEF SyncDrop, Then, TypeOK
    <3> QED BY <1>6, <2>2, <3>1, <3>2, <3>3, <3>4, <3>5 DEF Continues
  <2> QED BY <2>1, <2>2
<1> QED BY <1>2, <1>3, <1>4, <1>5, <1>6, NextSplit

LEMMA NextMissing == ASSUME TypeOK, Steps, Locked, Missing, Next PROVE Missing'
<1> SUFFICES ASSUME NEW t \in Task, task'[t].pc = "create", ~Late(t)',
                    NEW c \in Corridor \ stray'
             PROVE  route'[c] # task'[t].plan[task'[t].leg]
  BY DEF Missing
<1>1. c \in Corridor \ stray
  BY StrayGrows
<1>2. CASE Find(t)
  <2>1. /\ route' = route
        /\ \A d \in Corridor : route[d] # task[t].plan[task[t].leg]
    BY <1>2 DEF Find, TypeOK, TaskState
  <2>2. task'[t].plan = task[t].plan /\ task'[t].leg = task[t].leg
    BY <1>2, Fields DEF Find, TypeOK, TaskState
  <2> QED BY <2>1, <2>2
<1>3. CASE /\ task[t].pc = "create" /\ ~Late(t)
           /\ task'[t].plan = task[t].plan /\ task'[t].leg = task[t].leg
  <2>1. route[c] # task[t].plan[task[t].leg]
    BY <1>1, <1>3 DEF Missing
  <2>2. task[t].plan[task[t].leg] \in Route
    BY <1>3, PlanFacts, Fields DEF Steps
  <2>3. InRun(t)
    BY <1>3, Fields DEF Late, InRun, Steps
  <2>4. CASE route'[c] = route[c]
    BY <1>3, <2>1, <2>4
  <2>5. CASE route'[c] # route[c] /\ route'[c] # None
    <3>1. PICK u \in Task : Create(u)
      BY <2>5, Creations
    <3>2. u = t
      BY <2>3, <2>5, <3>1, CreateAlone
    <3>3. \A d : [task[t] EXCEPT !.pc = "assign", !.found = d].pc # "create"
      BY Fields DEF TaskState
    <3>4. task'[t].pc # "create"
      BY <3>1, <3>2, <3>3, IdleState DEF Create, Then, TypeOK
    <3> QED BY <3>4
  <2>6. CASE route'[c] = None
    BY <1>3, <2>2, <2>6, CorridorAssumption
  <2> QED BY <2>4, <2>5, <2>6
<1> QED BY <1>2, <1>3, Creators

LEMMA NextNoTwins ==
    ASSUME TypeOK, Steps, Locked, Missing, NoTwins, Next PROVE NoTwins'
<1> SUFFICES ASSUME NEW c \in Corridor \ stray', NEW d \in Corridor \ stray',
                    route'[c] # None, route'[c] = route'[d]
             PROVE  c = d
  BY DEF NoTwins, There
<1>1. c \in Corridor \ stray /\ d \in Corridor \ stray
  BY StrayGrows
<1>2. CASE route'[c] = route[c] /\ route'[d] = route[d]
  BY <1>1, <1>2 DEF NoTwins, There
<1>3. ASSUME NEW e \in Corridor \ stray', NEW f \in Corridor \ stray',
             route'[e] # None, route'[e] # route[e], route'[f] = route'[e]
      PROVE  f = e
  <2>1. PICK t \in Task : Create(t) /\ route'[e] = task[t].plan[task[t].leg]
    BY <1>3, Creations
  <2>2. ~Late(t)
    BY <1>3, <2>1, CreateAlone
  <2>3. f \in Corridor \ stray
    BY <1>3, StrayGrows
  <2>4. route[f] # task[t].plan[task[t].leg]
    BY <2>1, <2>2, <2>3 DEF Missing, Create
  <2>5. route'[f] # route[f]
    BY <1>3, <2>1, <2>4
  <2>6. PICK g \in Corridor : route' = [route EXCEPT ![g] = task[t].plan[task[t].leg]]
    BY <2>1 DEF Create
  <2> QED BY <1>3, <2>5, <2>6 DEF TypeOK
<1> QED BY <1>2, <1>3

(* Every variable keeps its type, and a run its trip, leg and lock.        *)
THEOREM TypeCorrect == Spec => [](TypeOK /\ Steps /\ Locked)
<1>1. Init => Steps /\ Locked
  BY IdleState DEF Init, Steps, Locked, InRun
<1>2. TypeOK /\ Steps /\ Locked /\ [Next]_vars => (TypeOK /\ Steps /\ Locked)'
  <2>1. CASE UNCHANGED vars
    BY <2>1 DEF vars, TypeOK, Steps, Locked, InRun
  <2> QED BY <2>1, NextTypeOK, NextSteps, NextLocked
<1> QED BY InitTypeOK, <1>1, <1>2, PTL DEF Spec

(* No two corridors of one route, however many trips, runs and requests,   *)
(* but for an INSERT that came after its run lost the lock.                *)
THEOREM OneCorridorPerRoute == Spec => []NoTwins
<1>1. Init => Missing /\ NoTwins
  BY IdleState DEF Init, Missing, NoTwins, There
<1>2. /\ TypeOK /\ Steps /\ Locked /\ Missing /\ NoTwins
      /\ [Next]_vars
      => (Missing /\ NoTwins)'
  <2>1. CASE UNCHANGED vars
    BY <2>1 DEF vars, Missing, NoTwins, There, Late
  <2> QED BY <2>1, NextMissing, NextNoTwins
<1> QED BY <1>1, <1>2, TypeCorrect, PTL DEF Spec

-----------------------------------------------------------------------------
(* RoutesFollowTrips is what a run leaves behind.  On its way it has set   *)
(* the legs before its own, each to a corridor of the leg's route          *)
(* (RunFollows), and what it is about to set is such a corridor or gone    *)
(* (FoundFits).  An id is used once (UsedOnly), so a corridor keeps its    *)
(* route as long as it is there; and nothing but a run touches the legs of *)
(* a trip without making it one of `lost'.                                 *)
UsedOnly == \A c \in Corridor : route[c] # None => c \in used

Follows(x, plan, D) ==
    \A l \in Leg :
        IF l \in D THEN assign[x][l] # None /\ route[assign[x][l]] = plan[l]
        ELSE assign[x][l] = None

Covered(t) == IF task[t].pc \in {"find", "create", "assign"} THEN 1..(task[t].leg - 1)
              ELSE DOMAIN task[t].plan

RunFollows ==
    \A t \in Task :
        InRun(t) /\ task[t].pc # "clear" /\ trip[task[t].track] = "there"
          /\ task[t].track \notin lost
        => Follows(task[t].track, task[t].plan, Covered(t))

FoundFits ==
    \A t \in Task : task[t].pc = "assign" /\ ~Late(t) /\ task[t].found # None =>
        /\ task[t].found \in used
        /\ route[task[t].found] \in {None, task[t].plan[task[t].leg]}

TripsFollow ==
    \A x \in Track \ (jobs \cup lost) :
        trip[x] = "there" /\ ~RunOf(x) => Follows(x, legs[x], DOMAIN legs[x])

Untouched(x) ==
    /\ assign'[x] = assign[x]
    /\ \A c \in Assigned(x) : route[c] # None => route'[c] = route[c]

LEMMA PlanDomain == ASSUME NEW plan \in Plan PROVE DOMAIN plan = 1..Len(plan)
<1>1. PICK n \in 0..MaxLegs : plan \in [1..n -> Route]
  BY DEF Plan
<1>2. n \in Nat
  BY <1>1, CorridorAssumption
<1>3. plan \in Seq(Route)
  BY <1>1, <1>2
<1> QED BY <1>3

LEMMA FollowsStays ==
    ASSUME TypeOK, NEW x \in Track, NEW plan \in Plan, NEW D \in SUBSET DOMAIN plan,
           Follows(x, plan, D), Untouched(x)
    PROVE  Follows(x, plan, D)'
<1> SUFFICES ASSUME NEW l \in Leg
             PROVE  IF l \in D THEN assign'[x][l] # None /\ route'[assign'[x][l]] = plan[l]
                    ELSE assign'[x][l] = None
  BY DEF Follows
<1>1. assign'[x][l] = assign[x][l]
  BY DEF Untouched
<1>2. CASE l \in D
  <2>1. assign[x][l] # None /\ route[assign[x][l]] = plan[l]
    BY <1>2 DEF Follows
  <2>2. plan[l] # None
    BY <1>2, PlanDomain, PlanFacts, CorridorAssumption
  <2>3. assign[x][l] \in Assigned(x)
    BY <2>1 DEF Assigned
  <2> QED BY <1>1, <1>2, <2>1, <2>2, <2>3 DEF Untouched
<1>3. CASE l \notin D
  BY <1>1, <1>3 DEF Follows
<1> QED BY <1>2, <1>3

(* A corridor keeps its route as long as it is there, and its id for ever. *)
LEMMA DropRoutes ==
    ASSUME NEW C, Drop(C), NEW c \in Corridor PROVE route'[c] \in {None, route[c]}
BY DEF Drop

LEMMA CreateRoutes ==
    ASSUME TypeOK, UsedOnly, NEW t \in Task, Create(t)
    PROVE  /\ UsedOnly' /\ used \subseteq used'
           /\ \A c \in used : route'[c] = route[c]
BY DEF Create, UsedOnly, TypeOK

LEMMA RoutesStay ==
    ASSUME TypeOK, UsedOnly, Next
    PROVE  /\ UsedOnly' /\ used \subseteq used'
           /\ \A c \in used : route'[c] \in {None, route[c]}
<1> DEFINE Stay == route' = route \/ (\E C : Drop(C))
<1>1. ASSUME Stay, used' = used
      PROVE  UsedOnly' /\ used \subseteq used' /\ \A c \in used : route'[c] \in {None, route[c]}
  BY <1>1, DropRoutes DEF UsedOnly, TypeOK
<1>2. ASSUME NEW t \in Task, Starts(t) PROVE Stay /\ used' = used
  BY <1>2 DEF Starts, StartJob, RecomputeNext, Purge, OpenCorridor, Recompute, OpenSummary,
              RecomputeEnd, DeleteTrack
<1>3. ASSUME NEW t \in Task, SyncCount(t) PROVE Stay /\ used' = used
  BY <1>3 DEF SyncCount
<1>4. ASSUME NEW t \in Task, Ends(t) PROVE Stay /\ used' = used
  BY <1>4 DEF Ends, AssignFails, Fail, EndRun, EndSync, Prune, RunFails, RequestEnds
<1>5. ASSUME NEW x \in Track, Enqueue(x) PROVE Stay /\ used' = used
  BY <1>5 DEF Enqueue
<1>6. ASSUME NEW t \in Task, Clear(t) \/ Find(t) \/ Assign(t) \/ SyncDrop(t)
      PROVE  Stay /\ used' = used
  BY <1>6 DEF Clear, Find, Assign, SyncDrop
<1>7. ASSUME NEW t \in Task, Create(t)
      PROVE  UsedOnly' /\ used \subseteq used' /\ \A c \in used : route'[c] \in {None, route[c]}
  BY <1>7, CreateRoutes
<1> HIDE DEF Stay
<1> QED BY <1>1, <1>2, <1>3, <1>4, <1>5, <1>6, <1>7, NextSplit DEF Continues

-----------------------------------------------------------------------------
(* A drop that takes no assignment of a trip leaves it alone.              *)
LEMMA DropSpares ==
    ASSUME TypeOK, NEW C, Drop(C), NEW x \in Track, x \notin lost'
    PROVE  x \notin lost /\ Untouched(x)
<1>1. x \notin lost /\ Assigned(x) \cap C = {}
  BY DEF Drop
<1>2. assign'[x] = [l \in Leg |-> IF assign[x][l] \in C THEN None ELSE assign[x][l]]
  BY DEF Drop
<1>3. \A l \in Leg : (IF assign[x][l] \in C THEN None ELSE assign[x][l]) = assign[x][l]
  BY <1>1 DEF Assigned
<1>4. assign[x] \in [Leg -> Corridor \cup {None}]
  BY DEF TypeOK
<1>5. assign'[x] = assign[x]
  BY <1>2, <1>3, <1>4
<1>6. \A c \in Assigned(x) : route'[c] = route[c]
  BY <1>1, AssignedSubset DEF Drop
<1> QED BY <1>1, <1>5, <1>6 DEF Untouched

(* A run at work on trip x.                                                *)
Writes(t, x) == InRun(t) /\ task[t].track = x /\ (Clear(t) \/ Assign(t))

(* A step that is no such run's either leaves the legs of a trip alone or  *)
(* makes it one of `lost', if it leaves the trip.                          *)
LEMMA Bystander ==
    ASSUME TypeOK, Steps, UsedOnly, Next, NEW x \in Track,
           x \notin lost', trip'[x] = "there", \A t \in Task : ~Writes(t, x)
    PROVE  x \notin lost /\ Untouched(x)
<1>1. ASSUME x \notin lost, route' = route, assign'[x] = assign[x] PROVE Untouched(x)
  BY <1>1 DEF Untouched
<1>2. ASSUME NEW y \in Track, Enqueue(y) PROVE x \notin lost /\ Untouched(x)
  BY <1>1, <1>2 DEF Enqueue
<1>3. ASSUME NEW t \in Task, Starts(t) PROVE x \notin lost /\ Untouched(x)
  <2>1. ASSUME NEW newest \in SUBSET Track, Recompute(t, newest)
        PROVE  x \notin lost /\ Untouched(x)
    BY <2>1 DEF Recompute
  <2>2. CASE DeleteTrack(t)
    <3>1. task[t].track # x
      BY <2>2 DEF DeleteTrack, TypeOK
    <3>2. assign'[x] = assign[x] /\ route' = route /\ lost' = lost
      BY <2>2, <3>1 DEF DeleteTrack, TypeOK
    <3> QED BY <1>1, <3>2
  <2>3. CASE OpenSummary(t) \/ RecomputeEnd(t)
    BY <1>1, <2>3 DEF OpenSummary, RecomputeEnd
  <2>4. ASSUME NEW y \in Track, NEW plan \in Plan, StartJob(t, y, plan) \/ RecomputeNext(t, y, plan)
        PROVE  x \notin lost /\ Untouched(x)
    BY <1>1, <2>4 DEF StartJob, RecomputeNext
  <2>5. ASSUME NEW y \in Track, Purge(t, y) PROVE x \notin lost /\ Untouched(x)
    BY <1>1, <2>5 DEF Purge
  <2>6. ASSUME NEW c \in Corridor, OpenCorridor(t, c) PROVE x \notin lost /\ Untouched(x)
    BY <1>1, <2>6 DEF OpenCorridor
  <2> QED BY <1>3, <2>1, <2>2, <2>3, <2>4, <2>5, <2>6 DEF Starts
<1>4. ASSUME NEW t \in Task, SyncCount(t) PROVE x \notin lost /\ Untouched(x)
  BY <1>1, <1>4 DEF SyncCount
<1>5. ASSUME NEW t \in Task, Ends(t) PROVE x \notin lost /\ Untouched(x)
  <2>1. CASE Prune(t)
    <3>1. PICK C : Drop(C)
      BY <2>1 DEF Prune
    <3> QED BY <3>1, DropSpares
  <2>2. CASE AssignFails(t) \/ Fail(t) \/ EndRun(t) \/ EndSync(t)
    <3>1. lost \subseteq lost' /\ route' = route /\ assign' = assign
      BY <2>2 DEF AssignFails, Fail, EndRun, EndSync, RunFails, RequestEnds
    <3> QED BY <1>1, <3>1
  <2> QED BY <1>5, <2>1, <2>2 DEF Ends
<1>6. ASSUME NEW t \in Task, Clear(t) \/ Assign(t) PROVE x \notin lost /\ Untouched(x)
  <2>1. task[t].track \in Track /\ (Late(t) \/ InRun(t))
    BY <1>6, Fields DEF Clear, Assign, Steps, InRun, Late
  <2>2. task[t].track # x
    BY <1>6, <2>1 DEF Clear, Assign, Writes
  <2>3. x \notin lost /\ route' = route /\ assign'[x] = assign[x]
    BY <1>6, <2>2 DEF Clear, Assign, TypeOK
  <2> QED BY <1>1, <2>3
<1>7. ASSUME NEW t \in Task, Find(t) PROVE x \notin lost /\ Untouched(x)
  BY <1>1, <1>7 DEF Find
<1>8. ASSUME NEW t \in Task, Create(t) PROVE x \notin lost /\ Untouched(x)
  <2>1. \A c \in used : route'[c] = route[c]
    BY <1>8, CreateRoutes
  <2>2. assign' = assign /\ lost' = lost
    BY <1>8 DEF Create
  <2> QED BY <2>1, <2>2, AssignedSubset DEF Untouched, UsedOnly
<1>9. ASSUME NEW t \in Task, SyncDrop(t) PROVE x \notin lost /\ Untouched(x)
  BY <1>9, DropSpares DEF SyncDrop
<1> QED BY <1>2, <1>3, <1>4, <1>5, <1>6, <1>7, <1>8, <1>9, NextSplit DEF Continues

(* How a run's task moves on.                                              *)
LEMMA RunFields ==
    ASSUME TypeOK, NEW t \in Task, ~Late(t), Continues(t)
    PROVE  /\ task'[t].by = task[t].by /\ task'[t].track = task[t].track
           /\ task'[t].plan = task[t].plan
           /\ Clear(t) => /\ task'[t].pc = IF task[t].plan = <<>> THEN "sync" ELSE "find"
                          /\ task'[t].leg = task[t].leg
           /\ Find(t) => /\ task'[t].leg = task[t].leg
                         /\ \/ task'[t].pc = "create"
                            \/ /\ task'[t].pc = "assign" /\ task'[t].found \in Corridor
                               /\ route[task'[t].found] = task[t].plan[task[t].leg]
           /\ Create(t) => /\ task'[t].pc = "assign" /\ task'[t].leg = task[t].leg
                           /\ task'[t].found \in used'
                           /\ route'[task'[t].found] = task[t].plan[task[t].leg]
           /\ Assign(t) => IF task[t].leg = Len(task[t].plan)
                           THEN task'[t].pc = "sync"
                           ELSE task'[t].pc = "find" /\ task'[t].leg = task[t].leg + 1
           /\ SyncDrop(t) => task'[t].pc = "sync"
<1>0. task[t] \in TaskState
  BY Fields
<1>1. ASSUME Clear(t)
      PROVE  /\ task[t].pc = "clear"
             /\ task'[t].by = task[t].by /\ task'[t].track = task[t].track
             /\ task'[t].plan = task[t].plan /\ task'[t].leg = task[t].leg
             /\ task'[t].pc = IF task[t].plan = <<>> THEN "sync" ELSE "find"
  <2> DEFINE p == IF task[t].plan = <<>> THEN "sync" ELSE "find"
  <2>1. task'[t] = [task[t] EXCEPT !.pc = p]
    BY <1>1 DEF Clear, Then, TypeOK
  <2> HIDE DEF p
  <2>2. task'[t].pc = p /\ task'[t].by = task[t].by /\ task'[t].track = task[t].track
        /\ task'[t].plan = task[t].plan /\ task'[t].leg = task[t].leg
    BY <1>0, <2>1 DEF TaskState
  <2> QED BY <1>1, <2>2 DEF Clear, p
<1>2. ASSUME Find(t)
      PROVE  /\ task[t].pc = "find"
             /\ task'[t].by = task[t].by /\ task'[t].track = task[t].track
             /\ task'[t].plan = task[t].plan /\ task'[t].leg = task[t].leg
             /\ \/ task'[t].pc = "create"
                \/ /\ task'[t].pc = "assign" /\ task'[t].found \in Corridor
                   /\ route[task'[t].found] = task[t].plan[task[t].leg]
  BY <1>0, <1>2 DEF Find, TypeOK, TaskState
<1>3. ASSUME Create(t)
      PROVE  /\ task[t].pc = "create"
             /\ task'[t].by = task[t].by /\ task'[t].track = task[t].track
             /\ task'[t].plan = task[t].plan /\ task'[t].leg = task[t].leg
             /\ task'[t].pc = "assign" /\ task'[t].found \in used'
             /\ route'[task'[t].found] = task[t].plan[task[t].leg]
  <2>1. PICK c \in Corridor :
            /\ route' = [route EXCEPT ![c] = task[t].plan[task[t].leg]]
            /\ used' = used \cup {c}
            /\ task' = Then(t, [task[t] EXCEPT !.pc = "assign", !.found = c])
    BY <1>3 DEF Create
  <2>2. task'[t] = [task[t] EXCEPT !.pc = "assign", !.found = c]
    BY <2>1 DEF Then, TypeOK
  <2>3. task'[t].pc = "assign" /\ task'[t].found = c /\ task'[t].by = task[t].by
        /\ task'[t].track = task[t].track /\ task'[t].plan = task[t].plan
        /\ task'[t].leg = task[t].leg
    BY <1>0, <2>2 DEF TaskState
  <2> QED BY <1>3, <2>1, <2>3 DEF Create, TypeOK
<1>4. ASSUME Assign(t)
      PROVE  /\ task[t].pc = "assign"
             /\ task'[t].by = task[t].by /\ task'[t].track = task[t].track
             /\ task'[t].plan = task[t].plan
             /\ IF task[t].leg = Len(task[t].plan)
                THEN task'[t].pc = "sync"
                ELSE task'[t].pc = "find" /\ task'[t].leg = task[t].leg + 1
  <2> DEFINE p == IF task[t].leg = Len(task[t].plan) THEN "sync" ELSE "find"
             n == IF task[t].leg = Len(task[t].plan) THEN task[t].leg ELSE task[t].leg + 1
             o == task[t].old \ {task[t].found}
  <2>1. task'[t] = [task[t] EXCEPT !.pc = p, !.leg = n, !.found = None, !.old = o]
    BY <1>4 DEF Assign, Then, TypeOK
  <2>2. task[t].pc = "assign"
    BY <1>4 DEF Assign
  <2> HIDE DEF p, n, o
  <2>3. task'[t].pc = p /\ task'[t].leg = n /\ task'[t].by = task[t].by
        /\ task'[t].track = task[t].track /\ task'[t].plan = task[t].plan
    BY <1>0, <2>1 DEF TaskState
  <2> QED BY <2>2, <2>3 DEF p, n
<1>5. ASSUME SyncDrop(t)
      PROVE  /\ task[t].pc = "drop"
             /\ task'[t].by = task[t].by /\ task'[t].track = task[t].track
             /\ task'[t].plan = task[t].plan /\ task'[t].pc = "sync"
  BY <1>0, <1>5 DEF SyncDrop, Then, TypeOK, TaskState
<1>6. /\ Clear(t) => task[t].pc = "clear"
      /\ Find(t) => task[t].pc = "find"
      /\ Create(t) => task[t].pc = "create"
      /\ Assign(t) => task[t].pc = "assign"
      /\ SyncDrop(t) => task[t].pc = "drop"
  BY DEF Clear, Find, Create, Assign, SyncDrop
<1> QED BY <1>1, <1>2, <1>3, <1>4, <1>5 DEF Continues

(* What a recount makes of what others found.                              *)
LEMMA CountFound ==
    ASSUME TypeOK, Steps, NEW t \in Task, SyncCount(t), NEW u \in Task, task[u].pc = "assign"
    PROVE  task'[u].found \in {None, task[u].found}
<1>1. task[t].pc = "sync"
  BY DEF SyncCount
<1>2. PICK c \in task[t].old :
          \/ task' = [task EXCEPT ![t].pc = "drop", ![t].found = c, ![t].old = @ \ {c}]
          \/ \E U \in SUBSET Task :
                task' = [v \in Task |->
                       IF v \in U THEN [task[v] EXCEPT !.found = None]
                       ELSE IF v = t THEN [task[v] EXCEPT !.old = @ \ {c}]
                       ELSE task[v]]
  BY DEF SyncCount
<1>3. u # t /\ task[u] \in TaskState
  BY <1>1, Fields
<1> QED BY <1>2, <1>3 DEF Recounts, TypeOK, TaskState

LEMMA NextFound == ASSUME TypeOK, Steps, UsedOnly, FoundFits, Next PROVE FoundFits'
<1> SUFFICES ASSUME NEW t \in Task, task'[t].pc = "assign", ~Late(t)', task'[t].found # None
             PROVE  /\ task'[t].found \in used'
                    /\ route'[task'[t].found] \in {None, task'[t].plan[task'[t].leg]}
  BY DEF FoundFits
<1> DEFINE Goal == /\ task'[t].found \in used'
                   /\ route'[task'[t].found] \in {None, task'[t].plan[task'[t].leg]}
<1>1. ASSUME task[t].pc = "assign", ~Late(t), task'[t].found \in {None, task[t].found},
             task'[t].plan = task[t].plan, task'[t].leg = task[t].leg
      PROVE  Goal
  <2>1. task[t].found \in used /\ route[task[t].found] \in {None, task[t].plan[task[t].leg]}
    BY <1>1 DEF FoundFits
  <2>2. task[t].found \in used' /\ route'[task[t].found] \in {None, route[task[t].found]}
    BY <2>1, RoutesStay
  <2> QED BY <1>1, <2>1, <2>2
<1>2. ASSUME task'[t] = task[t] PROVE Goal
  BY <1>1, <1>2 DEF Late
<1> HIDE DEF Goal
<1>3. ASSUME NEW x \in Track, Enqueue(x) PROVE Goal
  BY <1>2, <1>3 DEF Enqueue
<1>4. ASSUME NEW u \in Task, Starts(u) PROVE Goal
  <2>1. task'[u].pc # "assign" /\ \A v \in Task : v # u => task'[v] = task[v]
    BY <1>4, StartLocks, StartMoves DEF Starts
  <2> QED BY <1>2, <2>1
<1>5. ASSUME NEW u \in Task, SyncCount(u) PROVE Goal
  <2>1. /\ task[t].pc = "assign" /\ ~Late(t)
        /\ task'[t].plan = task[t].plan /\ task'[t].leg = task[t].leg
    BY <1>5, CountMoves DEF Late
  <2> QED BY <1>1, <1>5, <2>1, CountFound
<1>6. ASSUME NEW u \in Task, Ends(u) PROVE Goal
  <2>1. \A v \in Task : v # u => task'[v] = task[v]
    BY <1>6, FailMoves, OtherMoves DEF Ends
  <2>2. task'[u].pc = "assign" => Late(u)'
    BY <1>6, FailMoves, OtherMoves DEF Ends
  <2> QED BY <1>2, <2>1, <2>2
<1>7. ASSUME NEW u \in Task, Continues(u) PROVE Goal
  <2>1. CASE u # t
    BY <1>2, <1>7, <2>1, RunMoves DEF Continues
  <2>2. CASE u = t
    <3>1. CASE Late(t)
      <4>1. task'[t] = Idle \/ Find(t)
        BY <1>7, <2>2, <3>1 DEF Continues, Clear, Create, Assign, SyncDrop, Then, TypeOK
      <4>2. Find(t) => task'[t].by = task[t].by
        BY Fields DEF Find, TypeOK, TaskState
      <4> QED BY <3>1, <4>1, <4>2, IdleState DEF Late
    <3>2. CASE ~Late(t)
      <4>1. Continues(t)
        BY <1>7, <2>2
      <4>2. Find(t) \/ Create(t)
        BY <3>2, <4>1, RunFields DEF Continues
      <4>3. CASE Find(t)
        <5>1. task'[t].found \in Corridor
              /\ route[task'[t].found] = task[t].plan[task[t].leg]
              /\ task'[t].plan = task[t].plan /\ task'[t].leg = task[t].leg
          BY <3>2, <4>1, <4>3, RunFields
        <5>2. task[t].plan[task[t].leg] \in Route
          BY <4>3, PlanFacts, Fields DEF Steps, Find
        <5>3. route' = route /\ used' = used
          BY <4>3 DEF Find
        <5> QED BY <5>1, <5>2, <5>3, CorridorAssumption DEF UsedOnly, Goal
      <4>4. CASE Create(t)
        BY <3>2, <4>1, <4>4, RunFields DEF Goal
      <4> QED BY <4>2, <4>3, <4>4
    <3> QED BY <3>1, <3>2
  <2> QED BY <2>1, <2>2
<1> QED BY <1>3, <1>4, <1>5, <1>6, <1>7, NextSplit DEF Goal

-----------------------------------------------------------------------------
(* Of two runs at work on one trip one is the other.                       *)
LEMMA RunStays ==
    ASSUME TypeOK, Steps, Locked, UsedOnly, Next, NEW t \in Task, InRun(t), RunFollows,
           task[t].pc # "clear", task'[t].track = task[t].track, task'[t].plan = task[t].plan,
           Covered(t)' = Covered(t), trip'[task[t].track] = "there",
           trip[task[t].track] = "there", task[t].track \notin lost',
           ~Clear(t), ~Assign(t)
    PROVE  Follows(task[t].track, task[t].plan, Covered(t))'
<1>1. PICK x \in Track : x = task[t].track
  BY DEF Steps
<1>2. PICK plan \in Plan : plan = task[t].plan
  BY Fields
<1>3. PICK D \in SUBSET DOMAIN plan : D = Covered(t)
  <2>1. task[t].pc \in {"find", "create", "assign"} =>
            task[t].leg \in Nat /\ Len(plan) \in Nat /\ task[t].leg <= Len(plan)
    BY <1>2, Fields, PlanFacts, CorridorAssumption DEF Steps
  <2>2. DOMAIN plan = 1..Len(plan)
    BY PlanDomain
  <2>3. Covered(t) \subseteq DOMAIN plan
    BY <1>2, <2>1, <2>2 DEF Covered
  <2> QED BY <2>3
<1>4. \A u \in Task : ~Writes(u, x)
  BY DEF Writes, Locked
<1>5. x \notin lost /\ Untouched(x)
  BY <1>1, <1>4, Bystander
<1>6. Follows(x, plan, D)
  BY <1>1, <1>2, <1>3, <1>5 DEF RunFollows
<1>7. Follows(x, plan, D)'
  BY <1>5, <1>6, FollowsStays
<1>8. task'[t].track = x /\ task'[t].plan = plan /\ Covered(t)' = D
  BY <1>1, <1>2, <1>3
<1> QED BY <1>7, <1>8

-----------------------------------------------------------------------------
(* A run, and a job, has a trip that has been there.                       *)
Seen ==
    /\ \A x \in jobs : trip[x] # "new"
    /\ \A t \in Task : InRun(t) => trip[task[t].track] # "new"

(* What is in its run has been before, if not at its first statement.      *)
LEMMA RunBefore ==
    ASSUME TypeOK, Steps, Next, NEW t \in Task, InRun(t)', task'[t].pc # "clear"
    PROVE  /\ InRun(t)
           /\ task'[t].track = task[t].track /\ task'[t].plan = task[t].plan
           /\ Clear(t) \/ Assign(t) \/ (task[t].pc # "clear" /\ Covered(t)' = Covered(t))
<1> DEFINE Goal == /\ InRun(t)
                   /\ task'[t].track = task[t].track /\ task'[t].plan = task[t].plan
                   /\ Clear(t) \/ Assign(t)
                      \/ (task[t].pc # "clear" /\ Covered(t)' = Covered(t))
<1>1. ASSUME task'[t] = task[t] PROVE Goal
  BY <1>1 DEF InRun, Covered
<1>2. ASSUME task'[t].by = task[t].by, task'[t].track = task[t].track,
             task'[t].plan = task[t].plan, task[t].pc \in {"sync", "drop"},
             task'[t].pc \in {"sync", "drop"}
      PROVE  Goal
  BY <1>2 DEF InRun, Covered
<1>3. ASSUME ~Late(t), Continues(t) PROVE Goal
  <2>1. task'[t].by = task[t].by /\ task'[t].track = task[t].track
        /\ task'[t].plan = task[t].plan
    BY <1>3, RunFields
  <2>2. CASE Clear(t) \/ Assign(t)
    BY <2>1, <2>2 DEF InRun, Clear, Assign
  <2>3. CASE Find(t)
    BY <1>3, <2>1, <2>3, RunFields DEF InRun, Find, Covered
  <2>4. CASE Create(t)
    BY <1>3, <2>1, <2>4, RunFields DEF InRun, Create, Covered
  <2>5. CASE SyncDrop(t)
    <3>1. task[t].pc = "drop" /\ task'[t].pc = "sync"
      BY <1>3, <2>5, RunFields DEF SyncDrop
    <3> QED BY <1>2, <2>1, <3>1
  <2> QED BY <1>3, <2>2, <2>3, <2>4, <2>5 DEF Continues
<1> HIDE DEF Goal
<1>4. ASSUME NEW x \in Track, Enqueue(x) PROVE Goal
  BY <1>1, <1>4 DEF Enqueue
<1>5. ASSUME NEW u \in Task, Starts(u) PROVE Goal
  <2>1. \A v \in Task : v # u => task'[v] = task[v]
    BY <1>5, StartMoves DEF Starts
  <2>2. u # t
    BY <1>5, StartLocks
  <2> QED BY <1>1, <2>1, <2>2
<1>6. ASSUME NEW u \in Task, SyncCount(u) PROVE Goal
  <2>1. /\ task'[t].by = task[t].by /\ task'[t].track = task[t].track
        /\ task'[t].plan = task[t].plan /\ task'[t].leg = task[t].leg
        /\ task'[t].pc = task[t].pc \/ (u = t /\ task'[t].pc = "drop")
    BY <1>6, CountMoves
  <2>2. CASE task'[t].pc = task[t].pc
    BY <2>1, <2>2 DEF Goal, InRun, Covered
  <2>3. CASE u = t /\ task'[t].pc = "drop"
    <3>1. task[t].pc = "sync"
      BY <1>6, <2>3 DEF SyncCount
    <3> QED BY <1>2, <2>1, <2>3, <3>1
  <2> QED BY <2>1, <2>2, <2>3
<1>7. ASSUME NEW u \in Task, Ends(u) PROVE Goal
  <2>1. ~InRun(u)' /\ \A v \in Task : v # u => task'[v] = task[v]
    BY <1>7, FailMoves, OtherMoves DEF Ends
  <2> QED BY <1>1, <2>1
<1>8. ASSUME NEW u \in Task, Continues(u) PROVE Goal
  <2>1. CASE u # t
    BY <1>1, <1>8, <2>1, RunMoves DEF Continues
  <2>2. CASE u = t
    <3>1. InRun(t)
      BY <1>8, <2>2, RunMoves DEF Continues
    <3>2. ~Late(t)
      BY <3>1 DEF InRun, Late
    <3> QED BY <1>3, <1>8, <2>2, <3>2
  <2> QED BY <2>1, <2>2
<1> QED BY <1>4, <1>5, <1>6, <1>7, <1>8, NextSplit DEF Goal

(* Its trip was there, if it is.                                           *)
LEMMA TripBefore ==
    ASSUME TypeOK, Next, NEW x \in Track, trip'[x] = "there"
    PROVE  trip[x] = "there" \/ (trip[x] = "new" /\ Enqueue(x))
<1>1. ASSUME NEW y \in Track, Enqueue(y) PROVE x = y \/ trip'[x] = trip[x]
  BY <1>1 DEF Enqueue, TypeOK
<1>2. ASSUME NEW t \in Task, Starts(t) PROVE trip[x] = "there"
  <2>1. ASSUME DeleteTrack(t) PROVE trip[x] = "there"
    BY <2>1 DEF DeleteTrack, TypeOK
  <2> QED BY <1>2, <2>1
          DEF Starts, StartJob, RecomputeNext, Purge, OpenCorridor, Recompute, OpenSummary,
              RecomputeEnd
<1>3. ASSUME NEW t \in Task, SyncCount(t) \/ Ends(t) PROVE trip' = trip
  BY <1>3 DEF SyncCount, Ends, AssignFails, Fail, EndRun, EndSync, Prune, RunFails, RequestEnds
<1>4. ASSUME NEW t \in Task, Continues(t) PROVE trip' = trip
  BY <1>4 DEF Continues, Clear, Find, Create, Assign, SyncDrop
<1>5. ASSUME Enqueue(x) PROVE trip[x] \in {"new", "there"}
  BY <1>5 DEF Enqueue, TypeOK
<1> QED BY <1>1, <1>2, <1>3, <1>4, <1>5, NextSplit

LEMMA NextSeen == ASSUME TypeOK, Steps, Seen, Next PROVE Seen'
<1>1. ASSUME NEW x \in Track, trip[x] # "new" PROVE trip'[x] # "new"
  <2>1. ASSUME NEW y \in Track, Enqueue(y) PROVE trip'[x] # "new"
    BY <1>1, <2>1 DEF Enqueue, TypeOK
  <2>2. ASSUME NEW t \in Task, DeleteTrack(t) PROVE trip'[x] # "new"
    BY <1>1, <2>2 DEF DeleteTrack, TypeOK
  <2>3. ASSUME NEW t \in Task, Starts(t) PROVE trip' = trip \/ DeleteTrack(t)
    BY <2>3 DEF Starts, StartJob, RecomputeNext, Purge, OpenCorridor, Recompute, OpenSummary,
                RecomputeEnd
  <2>4. ASSUME NEW t \in Task, SyncCount(t) \/ Ends(t) PROVE trip' = trip
    BY <2>4 DEF SyncCount, Ends, AssignFails, Fail, EndRun, EndSync, Prune, RunFails,
                RequestEnds
  <2>5. ASSUME NEW t \in Task, Continues(t) PROVE trip' = trip
    BY <2>5 DEF Continues, Clear, Find, Create, Assign, SyncDrop
  <2> QED BY <1>1, <2>1, <2>2, <2>3, <2>4, <2>5, NextSplit
<1>2. ASSUME NEW x \in jobs' PROVE trip'[x] # "new"
  <2>1. ASSUME NEW y \in Track, Enqueue(y) PROVE x \in jobs \/ trip'[x] # "new"
    BY <2>1 DEF Enqueue, TypeOK
  <2>2. ASSUME NEW t \in Task, Starts(t) PROVE x \in jobs
    BY <2>2 DEF Starts, StartJob, RecomputeNext, Purge, OpenCorridor, Recompute, OpenSummary,
                RecomputeEnd, DeleteTrack
  <2>3. ASSUME NEW t \in Task, RunFails(t)
        PROVE  x \in jobs \/ (x \in Track /\ trip[x] # "new")
    BY <2>3 DEF RunFails, Retry, Steps
  <2>4. ASSUME NEW t \in Task, SyncCount(t) \/ Ends(t)
        PROVE  x \in jobs \/ (x \in Track /\ trip[x] # "new")
    BY <2>3, <2>4 DEF SyncCount, Ends, AssignFails, Fail, EndRun, EndSync, Prune, RequestEnds
  <2>5. ASSUME NEW t \in Task, Continues(t) PROVE x \in jobs
    BY <2>5 DEF Continues, Clear, Find, Create, Assign, SyncDrop
  <2>6. x \in jobs => x \in Track /\ trip[x] # "new"
    BY DEF TypeOK, Seen
  <2> QED BY <1>1, <2>1, <2>2, <2>4, <2>5, <2>6, NextSplit
<1>3. ASSUME NEW t \in Task, InRun(t)' PROVE trip'[task'[t].track] # "new"
  <2>1. CASE task'[t].pc # "clear" \/ task'[t] = task[t]
    <3>1. InRun(t) /\ task'[t].track = task[t].track
      BY <1>3, <2>1, RunBefore DEF InRun
    <3>2. task[t].track \in Track /\ trip[task[t].track] # "new"
      BY <3>1 DEF Seen, Steps
    <3> QED BY <1>1, <3>1, <3>2
  <2>2. CASE task'[t].pc = "clear" /\ task'[t] # task[t]
    <3>1. ASSUME NEW u \in Task, Starts(u) PROVE u = t
      BY <2>2, <3>1, StartMoves DEF Starts
    <3>2. ASSUME NEW u \in Task, Ends(u) PROVE FALSE
      BY <1>3, <2>2, <3>2, FailMoves, OtherMoves DEF Ends
    <3>3. ASSUME NEW u \in Task, SyncCount(u)
          PROVE  task[t].pc = "clear" /\ task'[t].by = task[t].by
                 /\ task'[t].track = task[t].track
      BY <2>2, <3>3, CountMoves
    <3>4. ASSUME NEW u \in Task, Continues(u) PROVE FALSE
      <4>1. u = t
        BY <2>2, <3>4, RunMoves DEF Continues
      <4>2. InRun(t) /\ Continues(t) /\ ~Late(t)
        BY <1>3, <3>4, <4>1, RunMoves DEF Continues, InRun, Late
      <4> QED BY <2>2, <4>2, RunFields DEF Continues
    <3>5. ASSUME NEW y \in Track, Enqueue(y) PROVE FALSE
      BY <2>2, <3>5 DEF Enqueue
    <3>6. CASE Starts(t)
      <4>1. ASSUME NEW x \in Track, NEW plan \in Plan, StartJob(t, x, plan)
            PROVE  task'[t].track = x /\ trip[x] # "new"
        <5>1. task'[t] = Run(x, "job", plan, {})
          BY <4>1 DEF StartJob, TypeOK
        <5> QED BY <4>1, <5>1 DEF StartJob, Seen, Run
      <4>2. ASSUME NEW x \in Track, NEW plan \in Plan, RecomputeNext(t, x, plan)
            PROVE  task'[t].track = x /\ trip[x] # "new"
        <5>1. CASE /\ trip[x] = "there"
                   /\ task' = [task EXCEPT ![t] = Run(x, "recompute", plan, @.more \ {x})]
          <6>1. task'[t] = Run(x, "recompute", plan, task[t].more \ {x})
            BY <5>1 DEF TypeOK
          <6> QED BY <5>1, <6>1 DEF Run
        <5>2. CASE task' = [task EXCEPT ![t].more = @ \ {x}]
          <6>1. task'[t].pc = "next"
            BY <4>2, <5>2 DEF RecomputeNext, TypeOK, TaskState
          <6> QED BY <2>2, <6>1
        <5> QED BY <4>2, <5>1, <5>2 DEF RecomputeNext
      <4>3. ASSUME NEW x \in Track, Purge(t, x) PROVE FALSE
        <5>1. task'[t].pc = "purge"
          BY <4>3, IdleState DEF Purge, TypeOK, TaskState
        <5> QED BY <2>2, <5>1
      <4>4. ASSUME NEW c \in Corridor, OpenCorridor(t, c) PROVE FALSE
        <5>1. task'[t].pc = "sync"
          BY <4>4, IdleState DEF OpenCorridor, TypeOK, TaskState
        <5> QED BY <2>2, <5>1
      <4>5. ASSUME NEW newest \in SUBSET Track, Recompute(t, newest) PROVE FALSE
        <5>1. task'[t].pc = "next"
          BY <4>5, IdleState DEF Recompute, TypeOK, TaskState
        <5> QED BY <2>2, <5>1
      <4>6. ASSUME OpenSummary(t) \/ RecomputeEnd(t) PROVE FALSE
        BY <2>2, <4>6, PruneStarts
      <4>7. ASSUME DeleteTrack(t) PROVE FALSE
        <5>1. task'[t].pc = "sync"
          BY <4>7, Fields DEF DeleteTrack, TypeOK, TaskState
        <5> QED BY <2>2, <5>1
      <4>8. \E x \in Track : task'[t].track = x /\ trip[x] # "new"
        BY <3>6, <4>1, <4>2, <4>3, <4>4, <4>5, <4>6, <4>7 DEF Starts
      <4> QED BY <1>1, <4>8
    <3>7. CASE \E u \in Task : SyncCount(u)
      <4>1. InRun(t) /\ task'[t].track = task[t].track
        BY <1>3, <2>2, <3>3, <3>7 DEF InRun
      <4>2. task[t].track \in Track /\ trip[task[t].track] # "new"
        BY <4>1 DEF Seen, Steps
      <4> QED BY <1>1, <4>1, <4>2
    <3> QED BY <3>1, <3>2, <3>4, <3>5, <3>6, <3>7, NextSplit
  <2> QED BY <2>1, <2>2
<1> QED BY <1>2, <1>3 DEF Seen

-----------------------------------------------------------------------------
(* The legs of a trip as its run begins to set them, ...                   *)
LEMMA ClearFollows ==
    ASSUME TypeOK, Steps, NEW t \in Task, InRun(t), Clear(t)
    PROVE  Follows(task[t].track, task[t].plan, Covered(t))'
<1>1. PICK x \in Track : x = task[t].track
  BY DEF Steps
<1>2. PICK plan \in Plan : plan = task[t].plan
  BY Fields
<1>3. ~Late(t) /\ task[t].pc = "clear" /\ task[t].leg = 1
  BY DEF InRun, Late, Clear, Steps
<1>4. /\ task'[t].track = x /\ task'[t].plan = plan /\ task'[t].leg = 1
      /\ task'[t].pc = IF plan = <<>> THEN "sync" ELSE "find"
  BY <1>1, <1>2, <1>3, RunFields DEF Continues
<1>5. Covered(t)' = {}
  <2>1. CASE plan = <<>>
    BY <1>4, <2>1 DEF Covered
  <2>2. CASE plan # <<>>
    BY <1>4, <2>2 DEF Covered
  <2> QED BY <2>1, <2>2
<1>6. \A l \in Leg : assign'[x][l] = None
  BY <1>1 DEF Clear, NoLegs, TypeOK
<1> QED BY <1>4, <1>5, <1>6 DEF Follows

(* ... and as it sets one.                                                 *)
LEMMA AssignFollows ==
    ASSUME TypeOK, Steps, FoundFits, RunFollows, NEW t \in Task, InRun(t), Assign(t),
           task[t].track \notin lost'
    PROVE  Follows(task[t].track, task[t].plan, Covered(t))'
<1>1. PICK x \in Track : x = task[t].track
  BY DEF Steps
<1>2. PICK plan \in Plan : plan = task[t].plan
  BY Fields
<1>3. PICK n \in Nat : n = task[t].leg /\ n >= 1 /\ n <= Len(plan) /\ Len(plan) \in Nat
  <2>1. task[t].pc = "assign"
    BY DEF Assign
  <2>2. task[t].leg \in Nat /\ Len(plan) \in Nat
    BY Fields, PlanFacts, CorridorAssumption
  <2>3. task[t].leg >= 1 /\ task[t].leg <= Len(plan)
    BY <1>2, <2>1 DEF Steps
  <2> QED BY <2>2, <2>3
<1>4. ~Late(t) /\ task[t].pc = "assign"
  BY DEF InRun, Late, Assign
<1>5. PICK c \in Corridor : c = task[t].found /\ route[c] = plan[n]
  BY <1>2, <1>3, <1>4, CorridorAssumption DEF Assign, There, FoundFits
<1>6. Follows(x, plan, 1..(n - 1))
  BY <1>1, <1>2, <1>3, <1>4 DEF RunFollows, Covered, Assign
<1>7. Follows(x, plan, 1..n)'
  <2> SUFFICES ASSUME NEW l \in Leg
               PROVE  IF l \in 1..n THEN assign'[x][l] # None /\ route'[assign'[x][l]] = plan[l]
                      ELSE assign'[x][l] = None
    BY DEF Follows
  <2>1. route' = route /\ assign' = [assign EXCEPT ![x][n] = c]
    BY <1>1, <1>3, <1>5 DEF Assign
  <2>2. n \in Leg /\ l \in Nat
    BY <1>2, <1>3, PlanFacts, CorridorAssumption DEF Leg
  <2>3. CASE l = n
    BY <1>3, <1>5, <2>1, <2>2, <2>3, CorridorAssumption DEF TypeOK
  <2>4. CASE l # n
    <3>1. assign'[x][l] = assign[x][l]
      BY <2>1, <2>2, <2>4 DEF TypeOK
    <3>2. l \in 1..n <=> l \in 1..(n - 1)
      BY <1>3, <2>2, <2>4
    <3> QED BY <1>6, <2>1, <3>1, <3>2 DEF Follows
  <2> QED BY <2>3, <2>4
<1>8. task'[t].track = x /\ task'[t].plan = plan /\ Covered(t)' = 1..n
  <2>1. /\ task'[t].track = x /\ task'[t].plan = plan
        /\ IF n = Len(plan) THEN task'[t].pc = "sync"
           ELSE task'[t].pc = "find" /\ task'[t].leg = n + 1
    BY <1>1, <1>2, <1>3, <1>4, RunFields DEF Continues
  <2>2. DOMAIN plan = 1..Len(plan)
    BY PlanDomain
  <2>3. (n + 1) - 1 = n
    BY <1>3
  <2> QED BY <2>1, <2>2, <2>3 DEF Covered
<1> QED BY <1>7, <1>8

LEMMA NextRunFollows ==
    ASSUME TypeOK, Steps, Locked, UsedOnly, FoundFits, Seen, RunFollows, Next
    PROVE  RunFollows'
<1> SUFFICES ASSUME NEW t \in Task, InRun(t)', task'[t].pc # "clear",
                    trip'[task'[t].track] = "there", task'[t].track \notin lost'
             PROVE  Follows(task[t].track, task[t].plan, Covered(t))'
  BY DEF RunFollows
<1>1. /\ InRun(t)
      /\ task'[t].track = task[t].track /\ task'[t].plan = task[t].plan
      /\ Clear(t) \/ Assign(t) \/ (task[t].pc # "clear" /\ Covered(t)' = Covered(t))
  BY RunBefore
<1>2. CASE Clear(t)
  BY <1>1, <1>2, ClearFollows
<1>3. CASE Assign(t)
  BY <1>1, <1>3, AssignFollows
<1>4. CASE ~Clear(t) /\ ~Assign(t)
  <2>1. task[t].track \in Track /\ trip[task[t].track] # "new"
    BY <1>1 DEF Seen, Steps
  <2>2. trip[task[t].track] = "there"
    BY <1>1, <2>1, TripBefore
  <2> QED BY <1>1, <1>4, <2>2, RunStays
<1> QED BY <1>2, <1>3, <1>4

-----------------------------------------------------------------------------
(* A run of trip x goes on, completes, or leaves x to be run again or      *)
(* lost.                                                                   *)
LEMMA RunEnds ==
    ASSUME TypeOK, Steps, Next, NEW x \in Track, NEW t \in Task, InRun(t),
           task[t].track = x, trip'[x] = "there", trip[x] = "there",
           x \notin jobs' \cup lost'
    PROVE  RunOf(x)' \/ EndRun(t)
<1>1. ASSUME task'[t].pc \in {"clear", "find", "create", "assign", "sync", "drop"},
             task'[t].by = task[t].by, task'[t].track = x
      PROVE  RunOf(x)'
  BY <1>1 DEF RunOf, InRun
<1>2. task'[t] = task[t] => RunOf(x)'
  BY <1>1 DEF InRun
<1>3. ASSUME NEW y \in Track, Enqueue(y) PROVE RunOf(x)'
  BY <1>2, <1>3 DEF Enqueue
<1>4. ASSUME NEW u \in Task, Starts(u) PROVE RunOf(x)'
  <2>1. u # t
    BY <1>4, IdleState DEF InRun, Starts, StartJob, RecomputeNext, Purge, OpenCorridor,
         Recompute, OpenSummary, RecomputeEnd, DeleteTrack
  <2> QED BY <1>2, <1>4, <2>1, StartMoves DEF Starts
<1>5. ASSUME NEW u \in Task, SyncCount(u) PROVE RunOf(x)'
  BY <1>1, <1>5, CountMoves DEF InRun
<1>6. ASSUME NEW u \in Task, Continues(u) PROVE RunOf(x)'
  <2>1. CASE u # t
    BY <1>2, <1>6, <2>1, RunMoves DEF Continues
  <2>2. CASE u = t
    <3>1. ~Late(t) /\ Continues(t)
      BY <1>6, <2>2 DEF InRun, Late
    <3> QED BY <1>1, <3>1, RunFields DEF Continues
  <2> QED BY <2>1, <2>2
<1>7. ASSUME NEW u \in Task, Ends(u) PROVE RunOf(x)' \/ EndRun(t)
  <2>1. CASE u # t
    BY <1>2, <1>7, <2>1, FailMoves, OtherMoves DEF Ends
  <2>2. CASE u = t
    <3>1. ASSUME RunFails(t) PROVE FALSE
      BY <3>1 DEF RunFails, Retry
    <3>2. ASSUME RequestEnds(t) PROVE FALSE
      BY <3>2 DEF RequestEnds
    <3>3. ~Late(t) /\ task[t].pc # "prune" /\ task[t].by # "request"
      BY DEF InRun, Late
    <3> QED BY <1>7, <2>2, <3>1, <3>2, <3>3 DEF Ends, AssignFails, Fail, EndSync, Prune
  <2> QED BY <2>1, <2>2
<1> QED BY <1>3, <1>4, <1>5, <1>6, <1>7, NextSplit

(* What is no job's any more is a run's.                                   *)
LEMMA JobsRun ==
    ASSUME TypeOK, Next, NEW x \in Track, x \in jobs, x \notin jobs', trip'[x] = "there"
    PROVE  RunOf(x)'
<1>1. ASSUME NEW t \in Task, NEW y \in Track, NEW plan \in Plan, StartJob(t, y, plan)
      PROVE  RunOf(x)'
  <2>1. y = x
    BY <1>1 DEF StartJob
  <2>2. task'[t] = Run(x, "job", plan, {})
    BY <1>1, <2>1 DEF StartJob, TypeOK
  <2> QED BY <2>2 DEF RunOf, InRun, Run
<1>2. ASSUME NEW t \in Task, DeleteTrack(t) PROVE FALSE
  <2>1. x = task[t].track
    BY <1>2 DEF DeleteTrack
  <2> QED BY <1>2, <2>1 DEF DeleteTrack, TypeOK
<1>3. ASSUME NEW t \in Task, Starts(t)
      PROVE  jobs' = jobs \/ DeleteTrack(t)
             \/ \E y \in Track, plan \in Plan : StartJob(t, y, plan)
  BY <1>3 DEF Starts, RecomputeNext, Purge, OpenCorridor, Recompute, OpenSummary, RecomputeEnd
<1>4. ASSUME NEW t \in Task, SyncCount(t) \/ Ends(t) PROVE x \in jobs'
  BY <1>4 DEF SyncCount, Ends, AssignFails, Fail, EndRun, EndSync, Prune, RunFails,
              RequestEnds, Retry
<1>5. ASSUME NEW t \in Task, Continues(t) PROVE x \in jobs'
  BY <1>5 DEF Continues, Clear, Find, Create, Assign, SyncDrop
<1>6. ASSUME NEW y \in Track, Enqueue(y) PROVE x \in jobs'
  BY <1>6 DEF Enqueue
<1> QED BY <1>1, <1>2, <1>3, <1>4, <1>5, <1>6, NextSplit

LEMMA NextTripsFollow ==
    ASSUME TypeOK, Steps, Locked, UsedOnly, RunFollows, TripsFollow, Next
    PROVE  TripsFollow'
<1> SUFFICES ASSUME NEW x \in Track, x \notin jobs' \cup lost', trip'[x] = "there", ~RunOf(x)'
             PROVE  Follows(x, legs[x], DOMAIN legs[x])'
  BY DEF TripsFollow
<1>1. trip[x] = "there"
  <2>1. ~Enqueue(x)
    BY DEF Enqueue
  <2> QED BY <2>1, TripBefore
<1>2. PICK plan \in Plan : plan = legs'[x]
  <2> QED BY NextTypeOK DEF TypeOK
<1>3. DOMAIN plan \in SUBSET DOMAIN plan
  OBVIOUS
<1>4. CASE RunOf(x)
  <2>1. PICK t \in Task : InRun(t) /\ task[t].track = x
    BY <1>4 DEF RunOf
  <2>2. EndRun(t)
    BY <1>1, <2>1, RunEnds
  <2>3. task[t].pc = "sync" /\ plan = task[t].plan /\ lost' = lost
        /\ assign' = assign /\ route' = route
    BY <1>2, <2>1, <2>2 DEF EndRun, TypeOK
  <2>4. Follows(x, plan, DOMAIN plan)
    BY <1>1, <2>1, <2>3 DEF RunFollows, Covered
  <2> QED BY <1>2, <2>3, <2>4 DEF Follows
<1>5. CASE ~RunOf(x)
  <2>1. \A t \in Task : ~Writes(t, x)
    BY <1>5 DEF Writes, RunOf
  <2>2. x \notin lost /\ Untouched(x)
    BY <2>1, Bystander
  <2>3. x \notin jobs
    BY JobsRun
  <2>4. legs'[x] = legs[x]
    <3>1. ASSUME NEW t \in Task, EndRun(t) PROVE legs'[x] = legs[x]
      <4>1. task[t].track # x
        BY <1>5, <3>1 DEF EndRun, RunOf
      <4> QED BY <3>1, <4>1 DEF EndRun, TypeOK
    <3>2. ASSUME NEW t \in Task, Starts(t) \/ SyncCount(t) PROVE legs' = legs
      BY <3>2 DEF Starts, StartJob, RecomputeNext, Purge, OpenCorridor, Recompute,
                  OpenSummary, RecomputeEnd, DeleteTrack, SyncCount
    <3>3. ASSUME NEW t \in Task, Ends(t) PROVE legs' = legs \/ EndRun(t)
      BY <3>3 DEF Ends, AssignFails, Fail, EndSync, Prune, RunFails, RequestEnds
    <3>4. ASSUME NEW t \in Task, Continues(t) PROVE legs' = legs
      BY <3>4 DEF Continues, Clear, Find, Create, Assign, SyncDrop
    <3>5. ASSUME NEW y \in Track, Enqueue(y) PROVE legs' = legs
      BY <3>5 DEF Enqueue
    <3> QED BY <3>1, <3>2, <3>3, <3>4, <3>5, NextSplit
  <2>5. Follows(x, plan, DOMAIN plan)
    BY <1>1, <1>2, <1>5, <2>2, <2>3, <2>4 DEF TripsFollow
  <2>6. Follows(x, plan, DOMAIN plan)'
    BY <1>3, <2>2, <2>5, FollowsStays
  <2> QED BY <1>2, <2>6
<1> QED BY <1>4, <1>5

(* A trip that no run is at, and none is queued for, has each leg of its   *)
(* last completed run at a corridor of the leg's route, for every number   *)
(* of trips, legs, corridors and tasks, but for the trips of `lost'.       *)
THEOREM LegsHaveTheirRoutes == Spec => []RoutesFollowTrips
<1> DEFINE Inv == UsedOnly /\ FoundFits /\ Seen /\ RunFollows /\ TripsFollow
<1>1. Init => Inv
  BY IdleState DEF Init, UsedOnly, FoundFits, Seen, RunFollows, TripsFollow, InRun
<1>2. TypeOK /\ Steps /\ Locked /\ Inv /\ [Next]_vars => Inv'
  <2>1. CASE UNCHANGED vars
    BY <2>1 DEF vars, UsedOnly, FoundFits, Seen, RunFollows, TripsFollow, Follows, Covered,
                InRun, RunOf, Late
  <2>2. CASE TypeOK /\ Steps /\ Locked /\ Inv /\ Next
    BY <2>2, RoutesStay, NextFound, NextSeen, NextRunFollows, NextTripsFollow
  <2> QED BY <2>1, <2>2
<1>3. Inv => RoutesFollowTrips
  BY DEF TripsFollow, RoutesFollowTrips, Follows
<1> HIDE DEF Inv
<1> QED BY <1>1, <1>2, <1>3, TypeCorrect, PTL DEF Spec

=============================================================================
