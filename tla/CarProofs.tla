----------------------------- MODULE CarProofs -----------------------------
(***************************************************************************)
(* Proofs about what a car keeps beside its trips.  FaultCodes: types,     *)
(* that the newest recorded report decides which codes are active, and     *)
(* that the owner hears of them.  PointWatch: types, that a rule's alert   *)
(* is earned, and that the events of a zone are the car's crossings.       *)
(* CarAccess: types, and that only the races it names leave a working      *)
(* token with someone who may not edit the car.                            *)
(***************************************************************************)
EXTENDS FreshPoints, MCCarAccess, ListsProofs, FiniteSetTheorems

-----------------------------------------------------------------------------
(* What a task holds at each program counter.                              *)
LEMMA TaskFields ==
    ASSUME TypeOK, NEW t \in Task
    PROVE  /\ task[t].pc \in {"idle", "upsert", "notify"}
           /\ task[t].pc # "idle" => task[t].at \in Time /\ task[t].todo \in SUBSET Code
           /\ task[t].pc = "notify" => task[t].code \in Code
BY DEF TypeOK, TaskState

LEMMA States ==
    /\ Idle \in TaskState /\ NoRow \in Row
    /\ \A at \in Time, todo \in SUBSET Code, c \in Code :
          /\ [pc |-> "upsert", at |-> at, todo |-> todo] \in TaskState
          /\ [pc |-> "notify", at |-> at, todo |-> todo, code |-> c] \in TaskState
BY FaultAssumption DEF Idle, TaskState, NoRow, Row

LEMMA RowFields ==
    ASSUME TypeOK, NEW c \in Code
    PROVE  /\ dtc[c].active \in BOOLEAN
           /\ dtc[c].first \in 0..MaxTime
           /\ dtc[c].last \in 0..MaxTime
BY DEF TypeOK, Row

LEMMA UpsertedRow ==
    ASSUME TypeOK, NEW c \in Code, NEW at \in Time
    PROVE  /\ Upserted(dtc[c], at) \in Row
           /\ Upserted(dtc[c], at).active
           /\ Upserted(dtc[c], at).last >= at
           /\ Upserted(dtc[c], at).last >= dtc[c].last
           /\ Upserted(dtc[c], at).last \in {at, dtc[c].last}
           /\ ~dtc[c].active => NewlyActive(dtc[c], at)
BY RowFields, FaultAssumption DEF Upserted, Row, Time, NewlyActive

LEMMA InitTypeOK == Init => TypeOK
<1> SUFFICES ASSUME Init PROVE TypeOK
  OBVIOUS
<1>1. dtc \in [Code -> Row] /\ task \in [Task -> TaskState]
  BY States DEF Init
<1>2. uploads \in 0..MaxUploads /\ deaths \in 0..MaxDeaths /\ cleared \in 0..MaxTime
  BY FaultAssumption DEF Init
<1> QED BY <1>1, <1>2 DEF Init, TypeOK

LEMMA NextTypeOK == ASSUME TypeOK, Next PROVE TypeOK'
<1> USE FaultAssumption DEF TypeOK
<1>1. ASSUME NEW t \in Task, NEW at \in Time, Upload(t, at) PROVE TypeOK'
  <2>3. report[at] \in SUBSET Code
    OBVIOUS
  <2>4. [pc |-> "upsert", at |-> at, todo |-> report[at]] \in TaskState
    BY <2>3 DEF TaskState
  <2>1. task' \in [Task -> TaskState]
    BY <1>1, <2>4 DEF Upload
  <2>2. uploads' \in 0..MaxUploads
    BY <1>1 DEF Upload
  <2> QED BY <1>1, <2>1, <2>2 DEF Upload
<1>2. ASSUME NEW t \in Task, NEW c \in Code, Upsert(t, c) PROVE TypeOK'
  <2>1. task[t].at \in Time /\ task[t].todo \in SUBSET Code
    BY <1>2, TaskFields DEF Upsert
  <2>2. dtc' \in [Code -> Row]
    BY <1>2, <2>1, UpsertedRow DEF Upsert
  <2>3. task' \in [Task -> TaskState]
    BY <1>2, <2>1, States DEF Upsert
  <2> QED BY <1>2, <2>2, <2>3 DEF Upsert
<1>3. ASSUME NEW t \in Task, Notify(t) PROVE TypeOK'
  <2>1. task' \in [Task -> TaskState]
    BY <1>3, TaskFields, States DEF Notify
  <2> QED BY <1>3, <2>1, TaskFields DEF Notify
<1>4. ASSUME NEW t \in Task, NotifyFails(t) PROVE TypeOK'
  <2>1. task' \in [Task -> TaskState]
    BY <1>4, TaskFields, States DEF NotifyFails
  <2>2. deaths' \in 0..MaxDeaths
    BY <1>4 DEF NotifyFails
  <2> QED BY <1>4, <2>1, <2>2 DEF NotifyFails
<1>5. ASSUME NEW t \in Task, Clear(t) PROVE TypeOK'
  <2>1. task' \in [Task -> TaskState]
    BY <1>5, States DEF Clear
  <2>2. dtc' \in [Code -> Row]
    BY <1>5, RowFields DEF Clear, Row
  <2>3. task[t].at \in 0..MaxTime
    BY <1>5, TaskFields DEF Clear, Time
  <2>4. cleared' \in 0..MaxTime /\ late' \subseteq Code /\ unheard' \subseteq Code
    BY <1>5, <2>3 DEF Clear
  <2> QED BY <1>5, <2>1, <2>2, <2>4 DEF Clear
<1>6. ASSUME NEW t \in Task, Die(t) PROVE TypeOK'
  <2>1. task' \in [Task -> TaskState]
    BY <1>6, States DEF Die
  <2>2. deaths' \in 0..MaxDeaths
    BY <1>6 DEF Die
  <2> QED BY <1>6, <2>1, <2>2 DEF Die
<1>7. ASSUME NEW c \in Code, DismissDtc(c) PROVE TypeOK'
  <2>1. dtc' \in [Code -> Row]
    BY <1>7 DEF DismissDtc, Row
  <2> QED BY <1>7, <2>1 DEF DismissDtc
<1>8. ASSUME NEW c \in Code, ReadOne(c) PROVE TypeOK'
  BY <1>8 DEF ReadOne
<1>9. CASE ReadAll
  BY <1>9 DEF ReadAll
<1> QED BY <1>1, <1>2, <1>3, <1>4, <1>5, <1>6, <1>7, <1>8, <1>9 DEF Next

(* Every variable keeps its type, however many codes, tasks and uploads.   *)
THEOREM TypeCorrect == Spec => []TypeOK
<1>1. TypeOK /\ [Next]_vars => TypeOK'
  BY NextTypeOK DEF vars, TypeOK
<1> QED BY InitTypeOK, <1>1, PTL DEF Spec

-----------------------------------------------------------------------------
(* What the rows say of the reports: a row was last seen when a report     *)
(* listed its code, and what a task has upserted, or the newest complete   *)
(* record has, is at least as new.                                         *)
LastReported ==
    \A c \in Code : dtc[c].last # 0 => c \in report[dtc[c].last]

TasksKnow ==
    \A t \in Task : task[t].pc # "idle" =>
        /\ task[t].todo \subseteq report[task[t].at]
        /\ \A c \in report[task[t].at] \ task[t].todo :
              /\ dtc[c].last >= task[t].at
              /\ task[t].at > cleared => dtc[c].active \/ c \in dismissed

ClearedSeen ==
    cleared # 0 => \A c \in report[cleared] : dtc[c].last >= cleared

RowInv == LastReported /\ TasksKnow /\ ClearedSeen /\ NewestReportDecides

LEMMA InitRowInv == Init => RowInv
BY DEF Init, RowInv, LastReported, TasksKnow, ClearedSeen, NewestReportDecides, NoRow, Idle

(* A step that leaves rows, reports and their history alone, and at most   *)
(* stops a task or sends it back from its notification.                    *)
LEMMA Harmless ==
    ASSUME TypeOK, RowInv, UNCHANGED <<report, dtc, cleared, late, dismissed>>,
           \A t \in Task : \/ task'[t].pc = "idle"
                           \/ /\ task[t].pc # "idle"
                              /\ task'[t].at = task[t].at
                              /\ task'[t].todo = task[t].todo
    PROVE  RowInv'
BY DEF RowInv, LastReported, TasksKnow, ClearedSeen, NewestReportDecides

LEMMA UploadRowInv ==
    ASSUME TypeOK, RowInv, NEW t \in Task, NEW at \in Time, Upload(t, at)
    PROVE  RowInv'
<1>1. UNCHANGED <<report, dtc, cleared, late, dismissed>>
  BY DEF Upload
<1>2. LastReported' /\ ClearedSeen' /\ NewestReportDecides'
  BY <1>1 DEF RowInv, LastReported, ClearedSeen, NewestReportDecides
<1>3. ASSUME NEW u \in Task, u # t PROVE task'[u] = task[u]
  BY <1>3 DEF Upload, TypeOK
<1>4. task'[t] = [pc |-> "upsert", at |-> at, todo |-> report[at]]
  BY DEF Upload, TypeOK
<1>5. TasksKnow'
  BY <1>1, <1>3, <1>4 DEF RowInv, TasksKnow
<1> QED BY <1>2, <1>5 DEF RowInv

LEMMA UpsertRowInv ==
    ASSUME TypeOK, RowInv, NEW t \in Task, NEW c \in Code, Upsert(t, c)
    PROVE  RowInv'
<1> DEFINE at == task[t].at
           todo == task[t].todo
           row == Upserted(dtc[c], at)
<1>1. at \in Time /\ task[t].pc = "upsert" /\ c \in todo /\ todo \subseteq report[at]
  BY TaskFields DEF Upsert, RowInv, TasksKnow
<1>2. /\ UNCHANGED <<report, cleared>>
      /\ dtc'[c] = row
      /\ \A d \in Code : d # c => dtc'[d] = dtc[d]
      /\ dismissed' = dismissed \ {c}
      /\ late \subseteq late' /\ (at < cleared /\ ~dtc[c].active => c \in late')
  BY DEF Upsert, TypeOK
<1>3. /\ row.active /\ row.last >= at /\ row.last >= dtc[c].last
      /\ row.last \in {at, dtc[c].last}
  BY <1>1, UpsertedRow
<1>4. c \in report[at]
  BY <1>1
<1>5. \A d \in Code : dtc[d].last \in Nat /\ dtc'[d].last \in Nat
  BY <1>1, <1>2, <1>3, RowFields DEF Time
<1>6. cleared \in Nat /\ at \in Nat \ {0} /\ report \in [Time -> SUBSET Code]
  BY <1>1 DEF TypeOK, Time
<1> HIDE DEF row
<1>7. LastReported'
  BY <1>2, <1>3, <1>4 DEF RowInv, LastReported
<1>8. ClearedSeen'
  <2> SUFFICES ASSUME cleared # 0, NEW d \in report[cleared] PROVE dtc'[d].last >= cleared
    BY <1>2 DEF ClearedSeen
  <2>1. d \in Code /\ dtc[d].last >= cleared
    BY <1>6 DEF RowInv, ClearedSeen, TypeOK, Time
  <2> QED BY <1>2, <1>3, <1>5, <1>6, <2>1
<1>9. NewestReportDecides'
  <2> SUFFICES ASSUME cleared # 0, NEW d \in Code
               PROVE  /\ d \in report[cleared] /\ d \notin dismissed' => dtc'[d].active
                      /\ dtc'[d].active => \/ d \in report[cleared]
                                           \/ dtc'[d].last > cleared
                                           \/ d \in late'
    BY <1>2 DEF NewestReportDecides
  <2>1. CASE d # c
    BY <1>2, <2>1 DEF RowInv, NewestReportDecides
  <2>2. CASE d = c
    <3>1. CASE at > cleared
      BY <1>2, <1>3, <1>5, <1>6, <2>2, <3>1
    <3>2. CASE at = cleared
      BY <1>2, <1>3, <1>4, <2>2, <3>2
    <3>3. CASE at < cleared /\ ~dtc[c].active
      BY <1>2, <1>3, <2>2, <3>3
    <3>4. CASE at < cleared /\ dtc[c].active
      <4>1. c \in report[cleared] \/ dtc[c].last > cleared \/ c \in late
        BY <3>4 DEF RowInv, NewestReportDecides
      <4> QED BY <1>2, <1>3, <1>5, <1>6, <2>2, <4>1
    <3> QED BY <1>6, <3>1, <3>2, <3>3, <3>4
  <2> QED BY <2>1, <2>2
<1>10. TasksKnow'
  <2> SUFFICES ASSUME NEW u \in Task, task'[u].pc # "idle"
               PROVE  /\ task'[u].todo \subseteq report[task'[u].at]
                      /\ \A d \in report[task'[u].at] \ task'[u].todo :
                            /\ dtc'[d].last >= task'[u].at
                            /\ task'[u].at > cleared => dtc'[d].active \/ d \in dismissed'
    BY <1>2 DEF TasksKnow
  <2>1. /\ task[u].pc # "idle" /\ task'[u].at = task[u].at
        /\ task'[u].todo = IF u = t THEN todo \ {c} ELSE task[u].todo
    BY DEF Upsert, TypeOK
  <2>2. task[u].at \in Time /\ task[u].at \in Nat /\ task[u].todo \subseteq report[task[u].at]
    BY <2>1, TaskFields DEF RowInv, TasksKnow, Time
  <2>3. ASSUME NEW d \in report[task[u].at] \ task'[u].todo, d # c
        PROVE  /\ dtc'[d].last >= task[u].at
               /\ task[u].at > cleared => dtc'[d].active \/ d \in dismissed'
    <3>1. d \in report[task[u].at] \ task[u].todo /\ d \in Code
      BY <1>6, <2>1, <2>2, <2>3
    <3> QED BY <1>2, <2>1, <2>3, <3>1 DEF RowInv, TasksKnow
  <2>4. ASSUME c \in report[task[u].at] \ task'[u].todo
        PROVE  dtc'[c].last >= task[u].at /\ dtc'[c].active
    <3>1. CASE u = t
      BY <1>2, <1>3, <3>1
    <3>2. CASE u # t
      <4>1. dtc[c].last >= task[u].at
        BY <2>1, <2>4, <3>2 DEF RowInv, TasksKnow
      <4> QED BY <1>2, <1>3, <1>5, <2>2, <4>1
    <3> QED BY <3>1, <3>2
  <2> QED BY <2>1, <2>2, <2>3, <2>4
<1> QED BY <1>7, <1>8, <1>9, <1>10 DEF RowInv

LEMMA ClearRowInv ==
    ASSUME TypeOK, RowInv, NEW t \in Task, Clear(t)
    PROVE  RowInv'
<1> DEFINE at == task[t].at
<1>1. at \in Time /\ at \in Nat \ {0} /\ task[t].todo = {} /\ task[t].pc = "upsert"
  BY TaskFields DEF Clear, Time
<1>2. /\ UNCHANGED <<report, dismissed>>
      /\ cleared' = IF at > cleared THEN at ELSE cleared
      /\ cleared \in Nat /\ report \in [Time -> SUBSET Code]
      /\ late' = (late \ Clearable(at)) \ (IF at >= cleared THEN report[at] ELSE {})
  BY DEF Clear, TypeOK, Time
<1>3. \A c \in Code : /\ dtc'[c].last = dtc[c].last
                      /\ dtc'[c].active <=> dtc[c].active /\ c \notin Clearable(at)
                      /\ dtc[c].last \in Nat
  BY RowFields DEF Clear, TypeOK, Row, Clearable
<1>4. \A c \in Code : c \in Clearable(at) <=>
                         dtc[c].active /\ c \notin report[at] /\ dtc[c].last < at
  BY DEF Clearable
<1>5. \A c \in report[at] : dtc[c].last >= at /\ (at > cleared => dtc[c].active \/ c \in dismissed)
  BY <1>1 DEF RowInv, TasksKnow
<1>6. LastReported'
  BY <1>2, <1>3 DEF RowInv, LastReported
<1>7. ClearedSeen'
  <2>1. report[at] \subseteq Code
    BY <1>1, <1>2
  <2>2. cleared # 0 => report[cleared] \subseteq Code
    BY DEF TypeOK, Time
  <2>3. CASE at > cleared
    BY <1>2, <1>3, <1>5, <2>1, <2>3 DEF ClearedSeen
  <2>4. CASE ~(at > cleared)
    BY <1>2, <1>3, <2>2, <2>4 DEF RowInv, ClearedSeen
  <2> QED BY <2>3, <2>4
<1>8. NewestReportDecides'
  <2> SUFFICES ASSUME cleared' # 0, NEW c \in Code
               PROVE  /\ c \in report[cleared'] /\ c \notin dismissed => dtc'[c].active
                      /\ dtc'[c].active => \/ c \in report[cleared']
                                           \/ dtc'[c].last > cleared'
                                           \/ c \in late'
    BY <1>2 DEF NewestReportDecides
  <2>1. CASE at > cleared
    <3>1. cleared' = at
      BY <1>2, <2>1
    <3>2. c \in report[at] /\ c \notin dismissed => dtc'[c].active
      BY <1>3, <1>4, <1>5, <2>1
    <3>3. ASSUME dtc'[c].active, c \notin report[at] PROVE dtc'[c].last > at
      <4>1. dtc[c].last >= at /\ dtc[c].last # 0
        BY <1>1, <1>3, <1>4, <3>3
      <4>2. dtc[c].last # at
        BY <4>1, <3>3 DEF RowInv, LastReported
      <4> QED BY <1>1, <1>3, <4>1, <4>2
    <3> QED BY <3>1, <3>2, <3>3
  <2>2. CASE ~(at > cleared)
    <3>1. cleared' = cleared /\ at <= cleared
      BY <1>1, <1>2, <2>2
    <3>2. ASSUME c \in report[cleared], c \notin dismissed PROVE dtc'[c].active
      <4>1. dtc[c].active /\ dtc[c].last >= cleared
        BY <3>1, <3>2 DEF RowInv, NewestReportDecides, ClearedSeen
      <4> QED BY <1>1, <1>2, <1>3, <1>4, <3>1, <4>1
    <3>3. ASSUME dtc'[c].active, c \notin report[cleared]
          PROVE  dtc'[c].last > cleared \/ c \in late'
      <4>1. dtc[c].active /\ c \notin Clearable(at)
        BY <1>3, <3>3
      <4>2. dtc[c].last > cleared \/ c \in late
        BY <3>1, <3>3, <4>1 DEF RowInv, NewestReportDecides
      <4>3. at >= cleared => at = cleared
        BY <1>1, <1>2, <3>1
      <4> QED BY <1>2, <1>3, <3>3, <4>1, <4>2, <4>3
    <3> QED BY <3>1, <3>2, <3>3
  <2> QED BY <2>1, <2>2
<1>9. TasksKnow'
  <2> SUFFICES ASSUME NEW u \in Task, task'[u].pc # "idle"
               PROVE  /\ task'[u].todo \subseteq report[task'[u].at]
                      /\ \A d \in report[task'[u].at] \ task'[u].todo :
                            /\ dtc'[d].last >= task'[u].at
                            /\ task'[u].at > cleared' => dtc'[d].active \/ d \in dismissed
    BY <1>2 DEF TasksKnow
  <2>1. u # t /\ task'[u] = task[u]
    BY DEF Clear, TypeOK, Idle
  <2>2. task[u].at \in Time /\ task[u].at \in Nat /\ task[u].todo \subseteq report[task[u].at]
    BY <2>1, TaskFields DEF RowInv, TasksKnow, Time
  <2>3. ASSUME NEW d \in report[task[u].at] \ task[u].todo
        PROVE  /\ dtc'[d].last >= task[u].at
               /\ task[u].at > cleared' => dtc'[d].active \/ d \in dismissed
    <3>1. d \in Code
      BY <1>2, <2>2
    <3>2. /\ dtc[d].last >= task[u].at
          /\ task[u].at > cleared => dtc[d].active \/ d \in dismissed
      BY <2>1 DEF RowInv, TasksKnow
    <3>3. ASSUME task[u].at > cleared' PROVE task[u].at > cleared /\ task[u].at > at
      BY <1>1, <1>2, <2>2, <3>3
    <3>4. ASSUME task[u].at > cleared' PROVE d \notin Clearable(at)
      BY <1>1, <1>3, <1>4, <2>2, <3>1, <3>2, <3>3, <3>4
    <3> QED BY <1>3, <3>1, <3>2, <3>3, <3>4
  <2> QED BY <2>1, <2>2, <2>3
<1> QED BY <1>6, <1>7, <1>8, <1>9 DEF RowInv

LEMMA DismissRowInv ==
    ASSUME TypeOK, RowInv, NEW c \in Code, DismissDtc(c)
    PROVE  RowInv'
<1>1. /\ UNCHANGED <<report, task, cleared>>
      /\ dismissed' = dismissed \cup {c} /\ late' = late \ {c}
      /\ ~dtc'[c].active /\ dtc'[c].last = dtc[c].last
      /\ \A d \in Code : d # c => dtc'[d] = dtc[d]
  BY DEF DismissDtc, TypeOK, Row
<1>2. \A d \in Code : dtc'[d].last = dtc[d].last
  BY <1>1
<1>3. /\ report \in [Time -> SUBSET Code] /\ (cleared # 0 => cleared \in Time)
      /\ \A u \in Task : task[u].pc # "idle" => task[u].at \in Time
  BY TaskFields DEF TypeOK, Time
<1>4. LastReported' /\ ClearedSeen'
  BY <1>1, <1>2, <1>3 DEF RowInv, LastReported, ClearedSeen
<1>5. NewestReportDecides'
  BY <1>1, <1>3 DEF RowInv, NewestReportDecides
<1>6. TasksKnow'
  BY <1>1, <1>2, <1>3 DEF RowInv, TasksKnow
<1> QED BY <1>4, <1>5, <1>6 DEF RowInv

LEMMA NextRowInv == ASSUME TypeOK, RowInv, Next PROVE RowInv'
<1>1. ASSUME NEW t \in Task, Notify(t) \/ NotifyFails(t) \/ Die(t) PROVE RowInv'
  <2>1. UNCHANGED <<report, dtc, cleared, late, dismissed>>
    BY <1>1 DEF Notify, NotifyFails, Die
  <2>2. ASSUME NEW u \in Task
        PROVE  \/ task'[u].pc = "idle"
               \/ /\ task[u].pc # "idle"
                  /\ task'[u].at = task[u].at
                  /\ task'[u].todo = task[u].todo
    <3>1. CASE u = t
      BY <1>1, <3>1 DEF Notify, NotifyFails, Die, TypeOK, Idle
    <3>2. CASE u # t
      <4>1. task'[u] = task[u]
        BY <1>1, <3>2 DEF Notify, NotifyFails, Die, TypeOK
      <4> QED BY <4>1
    <3> QED BY <3>1, <3>2
  <2> QED BY <2>1, <2>2, Harmless
<1>2. ASSUME (\E c \in Code : ReadOne(c)) \/ ReadAll PROVE RowInv'
  <2>1. UNCHANGED <<report, dtc, cleared, late, dismissed, task>>
    BY <1>2 DEF ReadOne, ReadAll
  <2> QED BY <2>1 DEF RowInv, LastReported, TasksKnow, ClearedSeen, NewestReportDecides
<1> QED BY <1>1, <1>2, UploadRowInv, UpsertRowInv, ClearRowInv, DismissRowInv DEF Next

(* In whatever order and however often reports are recorded, by however    *)
(* many tasks, the newest one whose record is complete decides which codes *)
(* are active, but for those an older one brought back.                    *)
THEOREM NewestDecides == Spec => []NewestReportDecides
<1>1. TypeOK /\ RowInv /\ [Next]_vars => RowInv'
  <2>1. CASE UNCHANGED vars
    BY <2>1 DEF vars, RowInv, LastReported, TasksKnow, ClearedSeen, NewestReportDecides
  <2> QED BY <2>1, NextRowInv
<1>2. RowInv => NewestReportDecides
  BY DEF RowInv
<1> QED BY InitRowInv, <1>1, <1>2, TypeCorrect, PTL DEF Spec

-----------------------------------------------------------------------------
LEMMA NextHeard == ASSUME TypeOK, OwnerHearsOfFaults, Next PROVE OwnerHearsOfFaults'
<1> SUFFICES ASSUME deaths' = 0, NEW c \in Code, dtc'[c].active
             PROVE  c \notin unheard' \/ Bringing(c)'
  BY DEF OwnerHearsOfFaults
<1>1. ASSUME NEW t \in Task, NEW at \in Time, Upload(t, at)
      PROVE  c \notin unheard' \/ Bringing(c)'
  BY <1>1 DEF Upload, TypeOK, Idle, OwnerHearsOfFaults, Bringing
<1>2. ASSUME NEW t \in Task, NEW d \in Code, Upsert(t, d)
      PROVE  c \notin unheard' \/ Bringing(c)'
  <2>1. deaths = 0
    BY <1>2 DEF Upsert
  <2>2. \A u \in Task : task[u].pc = "notify" => task'[u] = task[u]
    BY <1>2 DEF Upsert, TypeOK
  <2>3. Bringing(c) => Bringing(c)'
    BY <2>2 DEF Bringing
  <2>4. CASE c = d /\ ~dtc[c].active
    <3>1. task[t].at \in Time
      BY <1>2, TaskFields DEF Upsert
    <3>2. NewlyActive(dtc[c], task[t].at)
      BY <2>4, <3>1, UpsertedRow
    <3>3. task'[t].pc = "notify" /\ task'[t].code = c
      BY <1>2, <2>4, <3>2 DEF Upsert, TypeOK
    <3> QED BY <3>3 DEF Bringing
  <2>5. CASE ~(c = d /\ ~dtc[c].active)
    <3>1. dtc[c].active
      BY <1>2, <2>5 DEF Upsert, TypeOK
    <3>2. c \in unheard' => c \in unheard
      BY <1>2, <2>5 DEF Upsert
    <3> QED BY <2>1, <2>3, <3>1, <3>2 DEF OwnerHearsOfFaults
  <2> QED BY <2>4, <2>5
<1>3. ASSUME NEW t \in Task, Notify(t) PROVE c \notin unheard' \/ Bringing(c)'
  <2>1. \A u \in Task : u # t => task'[u] = task[u]
    BY <1>3 DEF Notify, TypeOK
  <2>2. c \notin unheard \/ Bringing(c)
    BY <1>3 DEF Notify, OwnerHearsOfFaults
  <2>3. c # task[t].code => (Bringing(c) => Bringing(c)')
    BY <2>1 DEF Bringing
  <2> QED BY <1>3, <2>2, <2>3 DEF Notify
<1>4. ASSUME NEW t \in Task, NotifyFails(t) \/ Die(t) PROVE c \notin unheard' \/ Bringing(c)'
  BY <1>4 DEF NotifyFails, Die, TypeOK
<1>5. ASSUME NEW t \in Task, Clear(t) PROVE c \notin unheard' \/ Bringing(c)'
  <2>1. dtc[c].active /\ deaths = 0 /\ (c \in unheard' => c \in unheard)
    BY <1>5 DEF Clear, TypeOK, Clearable
  <2>2. \A u \in Task : task[u].pc = "notify" => task'[u] = task[u]
    BY <1>5 DEF Clear, TypeOK
  <2> QED BY <2>1, <2>2 DEF OwnerHearsOfFaults, Bringing
<1>6. ASSUME NEW d \in Code, DismissDtc(d) PROVE c \notin unheard' \/ Bringing(c)'
  BY <1>6 DEF DismissDtc, TypeOK, Row, OwnerHearsOfFaults, Bringing
<1>7. ASSUME (\E d \in Code : ReadOne(d)) \/ ReadAll PROVE c \notin unheard' \/ Bringing(c)'
  BY <1>7 DEF ReadOne, ReadAll, OwnerHearsOfFaults, Bringing
<1> QED BY <1>1, <1>2, <1>3, <1>4, <1>5, <1>6, <1>7 DEF Next

(* While no task fails, the owner is told of every code that is active.    *)
THEOREM OwnerHears == Spec => []OwnerHearsOfFaults
<1>1. Init => OwnerHearsOfFaults
  BY DEF Init, OwnerHearsOfFaults, NoRow
<1>2. TypeOK /\ OwnerHearsOfFaults /\ [Next]_vars => OwnerHearsOfFaults'
  <2>1. CASE UNCHANGED vars
    BY <2>1 DEF vars, OwnerHearsOfFaults, Bringing
  <2> QED BY <2>1, NextHeard
<1> QED BY <1>1, <1>2, TypeCorrect, PTL DEF Spec

-----------------------------------------------------------------------------
(* What the history set gets to hold.                                      *)
LEMMA LapseSubset ==
    ASSUME Access!TypeOK, NEW u \in User, NEW r
    PROVE  Access!Lapse(u, r) \subseteq User
BY DEF Access!Lapse, Access!TypeOK

LEMMA InitAccess == Access!Init => Access!TypeOK
<1> SUFFICES ASSUME Access!Init PROVE Access!TypeOK
  OBVIOUS
<1>1. /\ Access!Idle \in Access!TaskState /\ Access!NoFeed \in Access!FeedState
      /\ "none" \in Access!Standing
  BY DEF Access!Idle, Access!TaskState, Access!NoFeed, Access!FeedState, Access!Standing
<1>2. device \in [Device -> Access!DeviceRow]
  BY DEF Access!Init, Access!DeviceRow, Access!Actor
<1>3. faults \in 0..MaxFaults /\ lapsed \subseteq User
  BY AccessFits DEF Access!Init, Access!AccessAssumption
<1>6. gone \subseteq User
  BY DEF Access!Init
<1>4. /\ share \in [User -> Access!Standing] /\ invite \in [User -> Access!Standing]
      /\ sharing \in BOOLEAN
  BY <1>1 DEF Access!Init
<1>5. request \in [Request -> Access!TaskState] /\ feed \in [User -> Access!FeedState]
  BY <1>1 DEF Access!Init
<1> QED BY <1>2, <1>3, <1>4, <1>5, <1>6 DEF Access!TypeOK

(* A request holds the user its program counter says it does.              *)
LEMMA RequestUsers ==
    ASSUME Access!TypeOK, NEW t \in Request
    PROVE  /\ request[t].pc \in {"leave", "revokeMade"} => request[t].user \in User
           /\ request[t].pc = "insert" => request[t].user \in Access!Actor
           /\ request[t].pc = "revokeOne" => request[t].dev \in Device
BY DEF Access!TypeOK, Access!TaskState

LEMMA NextAccess == ASSUME Access!TypeOK, Access!Next PROVE Access!TypeOK'
<1> USE AccessFits DEF Access!TypeOK, Access!AccessAssumption
<1>1. ASSUME NEW u \in User, NEW r \in Access!ShareRole, Access!CreateShare(u, r)
      PROVE  Access!TypeOK'
  BY <1>1 DEF Access!CreateShare, Access!Standing
<1>2. ASSUME NEW u \in User, Access!CancelInvite(u) PROVE Access!TypeOK'
  BY <1>2 DEF Access!CancelInvite, Access!Standing
<1>3. ASSUME NEW u \in User, Access!AcceptInvite(u) PROVE Access!TypeOK'
  <2>1. Access!Lapse(u, invite[u]) \subseteq User
    BY LapseSubset
  <2> QED BY <1>3, <2>1 DEF Access!AcceptInvite, Access!Standing
<1>4. ASSUME NEW t \in Request, NEW u \in User, NEW r \in Access!ShareRole,
             Access!UpdateShare(t, u, r)
      PROVE  Access!TypeOK'
  <2>1. share' \in [User -> Access!Standing]
    BY <1>4 DEF Access!UpdateShare, Access!Standing
  <2>2. request' \in [Request -> Access!TaskState]
    BY <1>4 DEF Access!UpdateShare, Access!TaskState, Access!Idle
  <2> QED BY <1>4, <2>1, <2>2 DEF Access!UpdateShare
<1>5. ASSUME NEW t \in Request, NEW u \in User, Access!DeleteShare(t, u) PROVE Access!TypeOK'
  <2>1. share' \in [User -> Access!Standing]
    BY <1>5 DEF Access!DeleteShare, Access!Standing
  <2>2. request' \in [Request -> Access!TaskState]
    BY <1>5 DEF Access!DeleteShare, Access!TaskState
  <2> QED BY <1>5, <2>1, <2>2 DEF Access!DeleteShare
<1>6. ASSUME NEW t \in Request, NEW u \in Access!Actor, Access!CheckLeave(t, u) PROVE Access!TypeOK'
  BY <1>6 DEF Access!CheckLeave, Access!TaskState, Access!Actor
<1>7. ASSUME NEW t \in Request, Access!LeaveShare(t) PROVE Access!TypeOK'
  <2>1. request[t].user \in User
    BY <1>7, RequestUsers DEF Access!LeaveShare
  <2>2. share' \in [User -> Access!Standing]
    BY <1>7 DEF Access!LeaveShare, Access!Standing
  <2>3. request' \in [Request -> Access!TaskState]
    BY <1>7, <2>1 DEF Access!LeaveShare, Access!TaskState
  <2> QED BY <1>7, <2>2, <2>3 DEF Access!LeaveShare
<1>8. ASSUME NEW t \in Request, Access!RevokeDevicesCreatedBy(t) PROVE Access!TypeOK'
  <2>1. device' \in [Device -> Access!DeviceRow]
    BY <1>8 DEF Access!RevokeDevicesCreatedBy, Access!DeviceRow
  <2>2. request' \in [Request -> Access!TaskState]
    BY <1>8 DEF Access!RevokeDevicesCreatedBy, Access!TaskState, Access!Idle
  <2> QED BY <1>8, <2>1, <2>2 DEF Access!RevokeDevicesCreatedBy
<1>9. ASSUME NEW t \in Request, Access!Fail(t) PROVE Access!TypeOK'
  <2>1. request' \in [Request -> Access!TaskState]
    BY <1>9 DEF Access!Fail, Access!TaskState, Access!Idle
  <2>2. lapsed' \subseteq User
    BY <1>9, RequestUsers, LapseSubset DEF Access!Fail
  <2> QED BY <1>9, <2>1, <2>2 DEF Access!Fail
<1>10. ASSUME NEW t \in Request, NEW u \in Access!Actor, Access!CheckCreate(t, u)
       PROVE  Access!TypeOK'
  BY <1>10 DEF Access!CheckCreate, Access!TaskState
<1>11. ASSUME NEW t \in Request, NEW d \in Device, Access!InsertDevice(t, d) PROVE Access!TypeOK'
  <2>1. request[t].user \in Access!Actor
    BY <1>11, RequestUsers DEF Access!InsertDevice
  <2>2. device' \in [Device -> Access!DeviceRow]
    BY <1>11, <2>1 DEF Access!InsertDevice, Access!DeviceRow
  <2>3. request' \in [Request -> Access!TaskState]
    BY <1>11 DEF Access!InsertDevice, Access!TaskState, Access!Idle
  <2>4. lapsed' \subseteq User
    BY <1>11, <2>1 DEF Access!InsertDevice, Access!CanEdit, Access!Role, Access!Actor
  <2> QED BY <1>11, <2>2, <2>3, <2>4 DEF Access!InsertDevice
<1>12. ASSUME NEW t \in Request, NEW u \in Access!Actor, NEW d \in Device,
              Access!CheckRevoke(t, u, d)
       PROVE  Access!TypeOK'
  BY <1>12 DEF Access!CheckRevoke, Access!TaskState
<1>13. ASSUME NEW t \in Request, Access!RevokeDevice(t) PROVE Access!TypeOK'
  <2>1. device' \in [Device -> Access!DeviceRow]
    BY <1>13, RequestUsers DEF Access!RevokeDevice, Access!DeviceRow
  <2>2. request' \in [Request -> Access!TaskState]
    BY <1>13 DEF Access!RevokeDevice, Access!TaskState, Access!Idle
  <2> QED BY <1>13, <2>1, <2>2 DEF Access!RevokeDevice
<1>14. CASE Access!Live
  <2>1. Access!Idle \in Access!TaskState /\ Access!NoFeed \in Access!FeedState
    BY DEF Access!Idle, Access!TaskState, Access!NoFeed, Access!FeedState
  <2>2. \A u \in User : Access!Visible(u) \in BOOLEAN
    BY DEF Access!Visible
  <2>3. CASE \E b \in BOOLEAN : Access!SetLiveSharing(b)
    BY <2>3 DEF Access!SetLiveSharing
  <2>4. ASSUME NEW u \in User, NEW f \in Access!FeedState, feed' = [feed EXCEPT ![u] = f],
               faults' \in 0..MaxFaults,
               UNCHANGED <<share, invite, sharing, device, request, gone, lapsed>>
        PROVE  Access!TypeOK'
    BY <2>4
  <2>5. ASSUME NEW u \in User, Access!OpenFeed(u) PROVE Access!TypeOK'
    BY <2>5, <2>2, <2>4 DEF Access!OpenFeed, Access!FeedState
  <2>6. ASSUME NEW u \in User, Access!CloseFeed(u) PROVE Access!TypeOK'
    BY <2>6, <2>1, <2>4 DEF Access!CloseFeed
  <2>7. ASSUME NEW u \in User, Access!RefreshDue(u) PROVE Access!TypeOK'
    BY <2>7 DEF Access!RefreshDue, Access!FeedState
  <2>8. ASSUME NEW u \in User, Access!Refresh(u) PROVE Access!TypeOK'
    BY <2>8, <2>2 DEF Access!Refresh, Access!FeedState
  <2>9. ASSUME NEW u \in User, Access!RefreshFails(u) PROVE Access!TypeOK'
    <3>1. faults' \in 0..MaxFaults
      BY <2>9 DEF Access!RefreshFails
    <3>2. feed' \in [User -> Access!FeedState]
      BY <2>9 DEF Access!RefreshFails, Access!FeedState
    <3> QED BY <2>9, <3>1, <3>2 DEF Access!RefreshFails
  <2> QED BY <1>14, <2>3, <2>5, <2>6, <2>7, <2>8, <2>9 DEF Access!Live
<1>15. ASSUME NEW u \in User, Access!DeleteAccount(u) PROVE Access!TypeOK'
  <2>1. share' \in [User -> Access!Standing]
    BY <1>15 DEF Access!DeleteAccount, Access!Standing
  <2>2. device' \in [Device -> Access!DeviceRow]
    BY <1>15 DEF Access!DeleteAccount, Access!DeviceRow, Access!Actor
  <2>3. request' \in [Request -> Access!TaskState]
    <3>1. Access!Idle \in Access!TaskState
      BY DEF Access!Idle, Access!TaskState
    <3> QED BY <1>15, <3>1 DEF Access!DeleteAccount
  <2> QED BY <1>15, <2>1, <2>2, <2>3 DEF Access!DeleteAccount
<1> QED BY <1>1, <1>2, <1>3, <1>4, <1>5, <1>6, <1>7, <1>8, <1>9, <1>10, <1>11, <1>12,
           <1>13, <1>14, <1>15 DEF Access!Next, Access!Sharing, Access!Devices

(* Every variable keeps to its type, whatever users, tokens and requests.  *)
THEOREM AccessTypeCorrect == Access!Spec => []Access!TypeOK
<1>1. Access!Init => Access!TypeOK
  BY InitAccess
<1>2. Access!TypeOK /\ [Access!Next]_(Access!vars) => Access!TypeOK'
  BY NextAccess DEF Access!vars, Access!TypeOK
<1> QED BY <1>1, <1>2, PTL DEF Access!Spec

-----------------------------------------------------------------------------
(* Whether a token is accounted for, token by token.                       *)
Accounted(d) ==
    LET u == device[d].maker
    IN  Access!TokenWorks(d) /\ ~Access!CanEdit(u) => Access!Revoking(u) \/ u \in lapsed \cup gone

(* created_by names the maker for as long as there is one.                 *)
MakersKept == \A d \in Device : device[d].maker \notin gone => device[d].by = device[d].maker

LEMMA NextMakersKept ==
    ASSUME Access!TypeOK, MakersKept, Access!Next PROVE MakersKept'
<1>1. CASE UNCHANGED <<device, gone>>
  BY <1>1 DEF MakersKept
<1>2. ASSUME NEW u \in User, Access!DeleteAccount(u) PROVE MakersKept'
  BY <1>2 DEF Access!DeleteAccount, MakersKept, Access!TypeOK, Access!DeviceRow
<1>3. ASSUME NEW t \in Request, Access!RevokeDevicesCreatedBy(t) PROVE MakersKept'
  BY <1>3 DEF Access!RevokeDevicesCreatedBy, MakersKept, Access!TypeOK, Access!DeviceRow
<1>4. ASSUME NEW t \in Request, NEW d \in Device, Access!InsertDevice(t, d) PROVE MakersKept'
  BY <1>4 DEF Access!InsertDevice, MakersKept, Access!TypeOK
<1>5. ASSUME NEW t \in Request, Access!RevokeDevice(t) PROVE MakersKept'
  BY <1>5, RequestUsers DEF Access!RevokeDevice, MakersKept, Access!TypeOK, Access!DeviceRow
<1>6. CASE Access!Live
  BY <1>1, <1>6 DEF Access!Live, Access!SetLiveSharing, Access!OpenFeed, Access!CloseFeed,
                    Access!RefreshDue, Access!Refresh,
                    Access!RefreshFails
<1>7. ASSUME NEW u \in User, NEW r \in Access!ShareRole, Access!CreateShare(u, r) PROVE MakersKept'
  BY <1>1, <1>7 DEF Access!CreateShare
<1>8. ASSUME NEW u \in User, Access!CancelInvite(u) \/ Access!AcceptInvite(u) PROVE MakersKept'
  BY <1>1, <1>8 DEF Access!CancelInvite, Access!AcceptInvite
<1>9. ASSUME NEW t \in Request, NEW u \in User, NEW r \in Access!ShareRole,
             Access!UpdateShare(t, u, r)
      PROVE  MakersKept'
  BY <1>1, <1>9 DEF Access!UpdateShare
<1>15. ASSUME NEW t \in Request, NEW u \in User, Access!DeleteShare(t, u) PROVE MakersKept'
  BY <1>1, <1>15 DEF Access!DeleteShare
<1>10. ASSUME NEW t \in Request, Access!LeaveShare(t) \/ Access!Fail(t) PROVE MakersKept'
  BY <1>1, <1>10 DEF Access!LeaveShare, Access!Fail
<1>11. ASSUME NEW t \in Request, NEW u \in Access!Actor, NEW d \in Device,
              Access!CheckRevoke(t, u, d)
       PROVE  MakersKept'
  BY <1>1, <1>11 DEF Access!CheckRevoke
<1>12. ASSUME NEW t \in Request, NEW u \in Access!Actor,
              Access!CheckLeave(t, u) \/ Access!CheckCreate(t, u)
       PROVE  MakersKept'
  BY <1>1, <1>12 DEF Access!CheckLeave, Access!CheckCreate
<1>13. CASE Access!Sharing
  BY <1>2, <1>3, <1>7, <1>8, <1>9, <1>10, <1>12, <1>13, <1>15 DEF Access!Sharing
<1>14. CASE Access!Devices
  BY <1>4, <1>5, <1>11, <1>12, <1>14 DEF Access!Devices
<1> QED BY <1>6, <1>13, <1>14 DEF Access!Next

(* Who may not edit: of the users, whoever is no editor.                   *)
LEMMA NonEditors ==
    ASSUME Access!TypeOK, NEW v \in User, share[v] # "editor"
    PROVE  ~Access!CanEdit(v)
BY AccessFits
   DEF Access!AccessAssumption, Access!CanEdit, Access!Role, Access!TypeOK, Access!Standing,
       Access!ShareRole

(* The property of one token after a step, by the name of its maker.       *)
LEMMA AccountedNext ==
    ASSUME NEW d \in Device, Access!TypeOK',
           ASSUME NEW v \in User, device'[d].maker = v, Access!TokenWorks(d)', share'[v] # "editor",
                  v \notin gone'
           PROVE  Access!Revoking(v)' \/ v \in lapsed'
    PROVE  Accounted(d)'
<1> SUFFICES ASSUME Access!TokenWorks(d)', ~Access!CanEdit(device[d].maker)',
                    device'[d].maker \notin gone'
             PROVE  Access!Revoking(device[d].maker)' \/ device'[d].maker \in lapsed'
  BY DEF Accounted
<1>1. device'[d].maker \in User /\ share'[device'[d].maker] # "editor"
  BY DEF Access!TypeOK, Access!DeviceRow, Access!CanEdit, Access!Role, Access!Actor
<1>2. PICK v \in User : device'[d].maker = v
  BY <1>1
<1>3. Access!Revoking(v)' \/ v \in lapsed'
  BY <1>1, <1>2
<1> QED BY <1>2, <1>3 DEF Access!Revoking

(* A request that was idle revokes nothing yet.                            *)
LEMMA IdleRequest ==
    ASSUME Access!TypeOK, NEW t \in Request, NEW s, request' = [request EXCEPT ![t] = s],
           request[t].pc # "revokeMade"
    PROVE  \A u \in User : Access!Revoking(u) => Access!Revoking(u)'
<1> SUFFICES ASSUME NEW u \in User, NEW q \in Request,
                    request[q] = [pc |-> "revokeMade", user |-> u]
             PROVE  request'[q] = [pc |-> "revokeMade", user |-> u]
  BY DEF Access!Revoking
<1>1. q # t
  OBVIOUS
<1> QED BY <1>1 DEF Access!TypeOK

LEMMA NextAccounted ==
    ASSUME Access!TypeOK, Access!TypeOK', MakersKept, MakersKept',
           Access!OnlyRacesLeaveTokens, Access!Next
    PROVE  Access!OnlyRacesLeaveTokens'
<1> SUFFICES ASSUME NEW d \in Device, NEW v \in User, device'[d].maker = v, Access!TokenWorks(d)',
                    share'[v] # "editor", v \notin gone'
             PROVE  Access!Revoking(v)' \/ v \in lapsed'
  BY AccountedNext DEF Access!OnlyRacesLeaveTokens, Accounted
<1>0. ASSUME Access!TokenWorks(d), device[d].maker = v, share[v] # "editor", gone' = gone
      PROVE  device[d].by = v /\ (Access!Revoking(v) \/ v \in lapsed)
  BY <1>0, NonEditors DEF Access!OnlyRacesLeaveTokens, MakersKept
<1>1. ASSUME UNCHANGED <<share, device, request, gone, lapsed>>
      PROVE  Access!Revoking(v)' \/ v \in lapsed'
  BY <1>0, <1>1 DEF Access!TokenWorks, Access!Revoking
<1>2. ASSUME NEW u \in User, NEW r \in Access!ShareRole, Access!CreateShare(u, r)
      PROVE  Access!Revoking(v)' \/ v \in lapsed'
  BY <1>2, <1>1 DEF Access!CreateShare
<1>3. ASSUME NEW u \in User, Access!CancelInvite(u) PROVE Access!Revoking(v)' \/ v \in lapsed'
  BY <1>3, <1>1 DEF Access!CancelInvite
<1>4. ASSUME NEW u \in User, Access!AcceptInvite(u) PROVE Access!Revoking(v)' \/ v \in lapsed'
  <2>1. /\ device' = device /\ request' = request /\ lapsed' = Access!Lapse(u, invite[u])
        /\ share' = [share EXCEPT ![u] = invite[u]]
        /\ Access!TokenWorks(d) /\ device[d].maker = v /\ gone' = gone
    BY <1>4 DEF Access!AcceptInvite, Access!TokenWorks
  <2>2. CASE v = u
    <3>1. device[d].by = v
      BY <2>1 DEF MakersKept
    <3> QED BY <2>1, <2>2, <3>1 DEF Access!Lapse, Access!WorkingTokens, Access!TypeOK
  <2>3. CASE v # u
    <3>1. Access!Revoking(v) \/ v \in lapsed
      BY <1>0, <2>1, <2>3 DEF Access!TypeOK
    <3> QED BY <2>1, <2>3, <3>1 DEF Access!Lapse, Access!Revoking
  <2> QED BY <2>2, <2>3
<1>5. ASSUME NEW t \in Request, NEW u \in User, NEW r, request[t].pc # "revokeMade",
             share' = [share EXCEPT ![u] = r],
             request' = [request EXCEPT ![t] = [pc |-> "revokeMade", user |-> u]],
             UNCHANGED <<device, gone, lapsed>>
      PROVE  Access!Revoking(v)' \/ v \in lapsed'
  <2>1. request'[t] = [pc |-> "revokeMade", user |-> u]
    BY <1>5 DEF Access!TypeOK
  <2>2. CASE v = u
    BY <2>1, <2>2 DEF Access!Revoking
  <2>3. CASE v # u
    <3>1. Access!Revoking(v) \/ v \in lapsed
      BY <1>0, <1>5, <2>3 DEF Access!TypeOK, Access!TokenWorks
    <3>2. Access!Revoking(v) => Access!Revoking(v)'
      BY <1>5, IdleRequest
    <3> QED BY <1>5, <3>1, <3>2
  <2> QED BY <2>2, <2>3
<1>6. ASSUME NEW t \in Request, NEW u \in User, NEW r \in Access!ShareRole,
             Access!UpdateShare(t, u, r)
      PROVE  Access!Revoking(v)' \/ v \in lapsed'
  <2>1. request[t].pc # "revokeMade"
    BY <1>6 DEF Access!UpdateShare, Access!Idle
  <2>2. CASE r = "viewer"
    BY <1>6, <2>1, <2>2, <1>5 DEF Access!UpdateShare
  <2>3. CASE r = "editor"
    <3>1. v # u /\ share[v] # "editor"
      BY <1>6, <2>3 DEF Access!UpdateShare, Access!TypeOK
    <3>2. Access!Revoking(v) \/ v \in lapsed
      BY <1>0, <1>6, <3>1 DEF Access!UpdateShare, Access!TokenWorks
    <3>3. Access!Revoking(v) => Access!Revoking(v)'
      BY <1>6, <2>1, IdleRequest DEF Access!UpdateShare
    <3> QED BY <1>6, <2>3, <3>1, <3>2, <3>3 DEF Access!UpdateShare
  <2> QED BY <2>2, <2>3 DEF Access!ShareRole
<1>7. ASSUME NEW t \in Request, NEW u \in User, Access!DeleteShare(t, u)
      PROVE  Access!Revoking(v)' \/ v \in lapsed'
  <2>1. request[t].pc # "revokeMade"
    BY <1>7 DEF Access!DeleteShare, Access!Idle
  <2> QED BY <1>7, <2>1, <1>5 DEF Access!DeleteShare
<1>8. ASSUME NEW t \in Request, Access!LeaveShare(t) PROVE Access!Revoking(v)' \/ v \in lapsed'
  BY <1>8, <1>5, RequestUsers DEF Access!LeaveShare
<1>9. ASSUME NEW t \in Request, NEW s, request' = [request EXCEPT ![t] = s],
             request[t].pc # "revokeMade", UNCHANGED <<share, device, gone, lapsed>>
      PROVE  Access!Revoking(v)' \/ v \in lapsed'
  BY <1>0, <1>9, IdleRequest DEF Access!TokenWorks
<1>10. ASSUME NEW t \in Request, NEW u \in Access!Actor,
              Access!CheckLeave(t, u) \/ Access!CheckCreate(t, u)
       PROVE  Access!Revoking(v)' \/ v \in lapsed'
  <2>1. request[t].pc # "revokeMade"
    BY <1>10 DEF Access!CheckLeave, Access!CheckCreate, Access!Idle
  <2> QED BY <1>9, <1>10, <2>1 DEF Access!CheckLeave, Access!CheckCreate
<1>11. ASSUME NEW t \in Request, NEW u \in Access!Actor, NEW e \in Device,
              Access!CheckRevoke(t, u, e)
       PROVE  Access!Revoking(v)' \/ v \in lapsed'
  <2>1. request[t].pc # "revokeMade"
    BY <1>11 DEF Access!CheckRevoke, Access!Idle
  <2> QED BY <1>9, <1>11, <2>1 DEF Access!CheckRevoke
<1>12. ASSUME NEW t \in Request, Access!RevokeDevicesCreatedBy(t)
       PROVE  Access!Revoking(v)' \/ v \in lapsed'
  <2>1. d \notin Access!WorkingTokens(request[t].user) /\ device'[d] = device[d]
    BY <1>12 DEF Access!RevokeDevicesCreatedBy, Access!TokenWorks
  <2>2. Access!TokenWorks(d) /\ v # request[t].user
    BY <1>12, <2>1 DEF Access!TokenWorks, Access!WorkingTokens, MakersKept,
                       Access!RevokeDevicesCreatedBy
  <2>3. Access!Revoking(v) \/ v \in lapsed
    BY <1>0, <1>12, <2>1, <2>2 DEF Access!RevokeDevicesCreatedBy
  <2>4. Access!Revoking(v) => Access!Revoking(v)'
    <3> SUFFICES ASSUME NEW q \in Request, request[q] = [pc |-> "revokeMade", user |-> v]
                 PROVE  request'[q] = [pc |-> "revokeMade", user |-> v]
      BY DEF Access!Revoking
    <3>1. q # t
      BY <2>2
    <3> QED BY <1>12, <3>1 DEF Access!RevokeDevicesCreatedBy, Access!TypeOK
  <2> QED BY <1>12, <2>2, <2>3, <2>4 DEF Access!RevokeDevicesCreatedBy
<1>13. ASSUME NEW t \in Request, Access!Fail(t) PROVE Access!Revoking(v)' \/ v \in lapsed'
  <2>1. CASE request[t].pc # "revokeMade"
    BY <1>13, <1>9, <2>1 DEF Access!Fail
  <2>2. CASE request[t].pc = "revokeMade"
    <3>1. /\ share' = share /\ device' = device
          /\ lapsed' = Access!Lapse(request[t].user, share[request[t].user])
      BY <1>13, <2>2 DEF Access!Fail
    <3>2. CASE v = request[t].user
      <4>1. device[d].by = v
        BY <1>13, <3>1 DEF MakersKept, Access!Fail
      <4> QED BY <3>1, <3>2, <4>1 DEF Access!Lapse, Access!WorkingTokens, Access!TokenWorks
    <3>3. CASE v # request[t].user
      <4>1. Access!Revoking(v) \/ v \in lapsed
        BY <1>0, <1>13, <3>1 DEF Access!TokenWorks, Access!Fail
      <4>2. Access!Revoking(v) => Access!Revoking(v)'
        <5> SUFFICES ASSUME NEW q \in Request, request[q] = [pc |-> "revokeMade", user |-> v]
                     PROVE  request'[q] = [pc |-> "revokeMade", user |-> v]
          BY DEF Access!Revoking
        <5>1. q # t
          BY <3>3
        <5> QED BY <1>13, <5>1 DEF Access!Fail, Access!TypeOK
      <4>3. v \in lapsed => v \in lapsed'
        BY <3>1, <3>3 DEF Access!Lapse
      <4> QED BY <4>1, <4>2, <4>3
    <3> QED BY <3>2, <3>3
  <2> QED BY <2>1, <2>2
<1>14. ASSUME NEW t \in Request, NEW e \in Device, Access!InsertDevice(t, e)
       PROVE  Access!Revoking(v)' \/ v \in lapsed'
  <2>1. /\ share' = share
        /\ lapsed' = IF Access!CanEdit(request[t].user) THEN lapsed
                    ELSE lapsed \cup {request[t].user}
    BY <1>14 DEF Access!InsertDevice
  <2>2. CASE d = e
    <3>1. v = request[t].user
      BY <1>14, <2>2 DEF Access!InsertDevice, Access!TypeOK
    <3>2. ~Access!CanEdit(v)
      BY <2>1, NonEditors
    <3> QED BY <2>1, <3>1, <3>2
  <2>3. CASE d # e
    <3>1. device'[d] = device[d]
      BY <1>14, <2>3 DEF Access!InsertDevice, Access!TypeOK
    <3>2. Access!Revoking(v) \/ v \in lapsed
      BY <1>0, <1>14, <2>1, <3>1 DEF Access!TokenWorks, Access!InsertDevice
    <3>3. Access!Revoking(v) => Access!Revoking(v)'
      BY <1>14, IdleRequest DEF Access!InsertDevice
    <3> QED BY <2>1, <3>2, <3>3
  <2> QED BY <2>2, <2>3
<1>15. ASSUME NEW t \in Request, Access!RevokeDevice(t) PROVE Access!Revoking(v)' \/ v \in lapsed'
  <2>1. Access!TokenWorks(d) /\ device[d].maker = v
    BY <1>15, RequestUsers DEF Access!RevokeDevice, Access!TokenWorks, Access!TypeOK,
                               Access!DeviceRow
  <2>2. Access!Revoking(v) \/ v \in lapsed
    BY <1>0, <1>15, <2>1 DEF Access!RevokeDevice
  <2>3. Access!Revoking(v) => Access!Revoking(v)'
    BY <1>15, IdleRequest DEF Access!RevokeDevice
  <2> QED BY <1>15, <2>2, <2>3 DEF Access!RevokeDevice
<1>16. CASE Access!Live
  BY <1>16, <1>1 DEF Access!Live, Access!SetLiveSharing, Access!OpenFeed, Access!CloseFeed,
                     Access!RefreshDue, Access!Refresh,
                     Access!RefreshFails
<1>17. ASSUME NEW u \in User, Access!DeleteAccount(u) PROVE Access!Revoking(v)' \/ v \in lapsed'
  <2>1. v # u /\ v \notin gone /\ share[v] # "editor" /\ lapsed' = lapsed
    BY <1>17 DEF Access!DeleteAccount, Access!TypeOK
  <2>2. Access!TokenWorks(d) /\ device[d].maker = v
    BY <1>17 DEF Access!DeleteAccount, Access!TokenWorks, Access!TypeOK, Access!DeviceRow
  <2>3. Access!Revoking(v) \/ v \in lapsed
    BY <2>1, <2>2, NonEditors DEF Access!OnlyRacesLeaveTokens
  <2>4. Access!Revoking(v) => Access!Revoking(v)'
    BY <1>17, <2>1 DEF Access!Revoking, Access!DeleteAccount, Access!TypeOK
  <2> QED BY <2>1, <2>3, <2>4
<1> QED BY <1>17, <1>2, <1>3, <1>4, <1>6, <1>7, <1>8, <1>10, <1>11, <1>12, <1>13, <1>14, <1>15,
           <1>16 DEF Access!Next, Access!Sharing, Access!Devices, Access!Actor

(* Tokens outlive their maker's right to edit the car only by the races    *)
(* the property names, however many users, tokens and requests.            *)
THEOREM TokensEndWithTheRole == Access!Spec => []OnlyRacesLeaveTokens
<1>1. Access!Init => Access!OnlyRacesLeaveTokens
  BY DEF Access!Init, Access!OnlyRacesLeaveTokens, Access!TokenWorks
<1>2. Access!Init => MakersKept
  BY DEF Access!Init, MakersKept
<1>3. Access!TypeOK /\ MakersKept /\ [Access!Next]_(Access!vars) => MakersKept'
  BY NextMakersKept DEF Access!vars, MakersKept
<1>4. Access!TypeOK /\ MakersKept /\ Access!OnlyRacesLeaveTokens /\ [Access!Next]_(Access!vars)
         => Access!OnlyRacesLeaveTokens'
  <2>1. CASE UNCHANGED Access!vars
    BY <2>1 DEF Access!vars, Access!OnlyRacesLeaveTokens, Access!TokenWorks, Access!CanEdit,
                Access!Role, Access!Revoking
  <2> QED BY <2>1, NextAccounted, NextAccess, NextMakersKept
<1> QED BY <1>1, <1>2, <1>3, <1>4, AccessTypeCorrect, PTL
           DEF Access!Spec, OnlyRacesLeaveTokens

-----------------------------------------------------------------------------
(* The points an upload stored.                                            *)
LEMMA PointBounds ==
    /\ MinConsecutive \in Nat /\ MinConsecutive # 0
    /\ Limit \in Nat /\ MaxValue \in Nat /\ MaxPoints \in Nat /\ MaxFailures \in Nat
    /\ Trips \subseteq [Watch!Number -> Watch!Point]
BY WatchFits DEF Watch!WatchAssumption

LEMMA WatchOnly == ASSUME NEW s, NEW T PROVE Watch!Only(s, T) = Only(s, T)
BY DEF Watch!Only, Only

LEMMA WatchCounts ==
    ASSUME NEW S
    PROVE  /\ Watch!Cardinality(S) = Cardinality(S)
           /\ Watch!IsInjective(S) = \A i, j \in DOMAIN S : S[i] = S[j] => i = j
<1>1. Watch!Cardinality(S) = Cardinality(S)
  BY DEF Watch!Cardinality, Cardinality
<1> QED BY <1>1 DEF Watch!IsInjective

(* Two facts of a state of the tasks: what is set, and who else stands.    *)
LEMMA TaskSet ==
    ASSUME points \in [Task -> Watch!TaskState], NEW t \in Task, NEW v,
           points' = [points EXCEPT ![t] = v]
    PROVE  points'[t] = v /\ \A u \in Task : u # t => points'[u] = points[u]
OBVIOUS

-----------------------------------------------------------------------------
(* What the loop over a batch knows after n points: of the points in a row *)
(* up to the nth, or of the run it has found.                              *)
Scan == [run : Nat, worst : Watch!Number \cup {0}, fired : Watch!Number \cup {0}]

Worst(batch, i, j, w) ==
    \E k \in i..j : batch[k] = w /\ \A l \in i..j : trip[batch[l]].value <= trip[batch[k]].value

NoneBefore(batch, n) == \A i \in 1..n : i + MinConsecutive - 1 <= n => ~Watch!RunAt(batch, i)

Counting(batch, n, s) ==
    /\ s.run <= n /\ s.run < MinConsecutive
    /\ \A j \in (n - s.run + 1)..n : Watch!Hit(batch[j])
    /\ s.run < n => ~Watch!Hit(batch[n - s.run])
    /\ s.run = 0 => s.worst = 0
    /\ s.run # 0 => s.worst # 0 /\ Worst(batch, n - s.run + 1, n, s.worst)
    /\ NoneBefore(batch, n)

Found(batch, w) ==
    \E i \in 1..Len(batch) :
        /\ Watch!RunAt(batch, i) /\ \A j \in 1..(i - 1) : ~Watch!RunAt(batch, j)
        /\ Worst(batch, i, i + MinConsecutive - 1, w)

Scanned(batch, n, s) ==
    /\ s \in Scan
    /\ s.fired = 0 => Counting(batch, n, s)
    /\ s.fired # 0 => Found(batch, s.fired)

LEMMA Values == ASSUME trip \in [Watch!Number -> Watch!Point]
                PROVE \A n \in Watch!Number : trip[n].value \in Nat
BY PointBounds DEF Watch!Point

LEMMA MissCounted ==
    ASSUME NEW batch \in Seq(Watch!Number), NEW n \in Nat, n + 1 \in 1..Len(batch),
           NEW s \in Scan, s.fired = 0, Counting(batch, n, s), ~Watch!Hit(batch[n + 1])
    PROVE  Scanned(batch, n + 1, Watch!CheckPoint(s, batch[n + 1]))
<1>1. PICK r \in Scan : /\ r = [s EXCEPT !.run = 0, !.worst = 0]
                        /\ r.run = 0 /\ r.worst = 0 /\ r.fired = 0
  <2> DEFINE e == [s EXCEPT !.run = 0, !.worst = 0]
  <2>1. s.run \in Nat /\ s.worst \in Watch!Number \cup {0} /\ s.fired \in Watch!Number \cup {0}
    BY DEF Scan
  <2>2. e \in Scan
    BY <2>1 DEF Scan
  <2>3. e.run = 0 /\ e.worst = 0 /\ e.fired = 0
    BY DEF Scan
  <2> QED BY <2>2, <2>3
<1>2. Watch!CheckPoint(s, batch[n + 1]) = r
  BY <1>1 DEF Watch!CheckPoint
<1>3. NoneBefore(batch, n + 1)
  <2> SUFFICES ASSUME NEW i \in 1..(n + 1), i + MinConsecutive - 1 <= n + 1, Watch!RunAt(batch, i)
               PROVE  FALSE
    BY DEF NoneBefore
  <2>1. CASE i + MinConsecutive - 1 <= n
    <3>1. i \in 1..n
      BY <2>1, PointBounds
    <3> QED BY <2>1, <3>1 DEF Counting, NoneBefore
  <2>2. CASE ~(i + MinConsecutive - 1 <= n)
    <3>1. n + 1 \in i..(i + MinConsecutive - 1)
      BY <2>2, PointBounds
    <3> QED BY <3>1 DEF Watch!RunAt
  <2> QED BY <2>1, <2>2
<1>4. Counting(batch, n + 1, r)
  BY <1>1, <1>3, PointBounds DEF Counting
<1> QED BY <1>1, <1>2, <1>4 DEF Scanned

LEMMA WorstOneMore ==
    ASSUME trip \in [Watch!Number -> Watch!Point], NEW batch \in Seq(Watch!Number),
           NEW n \in Nat, n + 1 \in 1..Len(batch),
           NEW i \in 1..(n + 1), NEW w \in Watch!Number, i = n + 1 \/ Worst(batch, i, n, w)
    PROVE  LET v == batch[n + 1]
           IN  /\ i = n + 1 => Worst(batch, i, n + 1, v)
               /\ i # n + 1 /\ trip[v].value > trip[w].value => Worst(batch, i, n + 1, v)
               /\ i # n + 1 /\ ~(trip[v].value > trip[w].value) => Worst(batch, i, n + 1, w)
<1> DEFINE v == batch[n + 1]
<1>1. \A j \in 1..(n + 1) : batch[j] \in Watch!Number /\ trip[batch[j]].value \in Nat
  BY Values
<1>2. ASSUME i = n + 1 PROVE Worst(batch, i, n + 1, v)
  BY <1>1, <1>2 DEF Worst
<1>3. ASSUME i # n + 1 PROVE \E k \in i..n : batch[k] = w
             /\ \A l \in i..n : trip[batch[l]].value <= trip[batch[k]].value
  BY <1>3 DEF Worst
<1>4. ASSUME i # n + 1, trip[v].value > trip[w].value PROVE Worst(batch, i, n + 1, v)
  <2>1. PICK k \in i..n : batch[k] = w
             /\ \A l \in i..n : trip[batch[l]].value <= trip[batch[k]].value
    BY <1>3, <1>4
  <2>2. ASSUME NEW l \in i..(n + 1) PROVE trip[batch[l]].value <= trip[batch[n + 1]].value
    <3>1. CASE l = n + 1
      BY <1>1, <3>1
    <3>2. CASE l # n + 1
      <4>1. l \in i..n /\ l \in 1..(n + 1) /\ n + 1 \in 1..(n + 1) /\ k \in 1..(n + 1)
        BY <3>2
      <4> QED BY <1>1, <1>4, <2>1, <4>1
    <3> QED BY <3>1, <3>2
  <2>3. n + 1 \in i..(n + 1)
    OBVIOUS
  <2> QED BY <2>2, <2>3 DEF Worst
<1>5. ASSUME i # n + 1, ~(trip[v].value > trip[w].value) PROVE Worst(batch, i, n + 1, w)
  <2>1. PICK k \in i..n : batch[k] = w
             /\ \A l \in i..n : trip[batch[l]].value <= trip[batch[k]].value
    BY <1>3, <1>5
  <2>2. ASSUME NEW l \in i..(n + 1) PROVE trip[batch[l]].value <= trip[batch[k]].value
    <3>1. CASE l = n + 1
      <4>1. n + 1 \in 1..(n + 1) /\ k \in 1..(n + 1)
        OBVIOUS
      <4> QED BY <1>1, <1>5, <2>1, <3>1, <4>1
    <3>2. CASE l # n + 1
      <4>1. l \in i..n
        BY <3>2
      <4> QED BY <2>1, <4>1
    <3> QED BY <3>1, <3>2
  <2>3. k \in i..(n + 1)
    OBVIOUS
  <2> QED BY <2>1, <2>2, <2>3 DEF Worst
<1> QED BY <1>2, <1>4, <1>5

LEMMA HitCounted ==
    ASSUME trip \in [Watch!Number -> Watch!Point], NEW batch \in Seq(Watch!Number),
           NEW n \in Nat, n + 1 \in 1..Len(batch),
           NEW s \in Scan, s.fired = 0, Counting(batch, n, s), Watch!Hit(batch[n + 1])
    PROVE  Scanned(batch, n + 1, Watch!CheckPoint(s, batch[n + 1]))
<1> DEFINE v == batch[n + 1]
<1>1. PICK w : w = IF Watch!Worse(v, s.worst) THEN v ELSE s.worst
  OBVIOUS
<1>2. PICK r : r = [run |-> s.run + 1, worst |-> w,
                    fired |-> IF s.run + 1 >= MinConsecutive THEN w ELSE 0]
  OBVIOUS
<1>3. Watch!CheckPoint(s, v) = r
  BY <1>1, <1>2 DEF Watch!CheckPoint
<1>4. PICK i : i = n - s.run + 1
  OBVIOUS
<1>5. s.run \in Nat /\ s.run <= n /\ s.run < MinConsecutive /\ i \in 1..(n + 1)
      /\ i = n + 1 - s.run
  BY <1>4 DEF Counting, Scan
<1>6. v \in Watch!Number /\ s.worst \in Watch!Number \cup {0} /\ 0 \notin Watch!Number
  <2>1. s.worst \in Watch!Number \cup {0}
    BY DEF Scan
  <2>2. 0 \notin Watch!Number
    BY DEF Watch!Number
  <2> QED BY <2>1, <2>2
<1>7. w \in Watch!Number /\ Worst(batch, i, n + 1, w)
  <2>1. CASE s.run = 0
    <3>1. s.worst = 0 /\ i = n + 1 /\ w = v
      BY <1>1, <1>5, <2>1 DEF Counting, Watch!Worse
    <3> QED BY <1>6, <3>1, WorstOneMore
  <2>2. CASE s.run # 0
    <3>1. s.worst \in Watch!Number /\ s.worst # 0 /\ Worst(batch, i, n, s.worst) /\ i # n + 1
      BY <1>4, <1>5, <1>6, <2>2 DEF Counting
    <3>2. Watch!Worse(v, s.worst) <=> trip[v].value > trip[s.worst].value
      BY <3>1 DEF Watch!Worse
    <3>3. CASE Watch!Worse(v, s.worst)
      BY <1>1, <1>5, <1>6, <3>1, <3>2, <3>3, WorstOneMore
    <3>4. CASE ~Watch!Worse(v, s.worst)
      BY <1>1, <1>5, <1>6, <3>1, <3>2, <3>4, WorstOneMore
    <3> QED BY <3>3, <3>4
  <2> QED BY <2>1, <2>2
<1>8. \A j \in i..(n + 1) : Watch!Hit(batch[j])
  <2> TAKE j \in i..(n + 1)
  <2>1. j = n + 1 \/ j \in i..n
    BY <1>5
  <2> QED BY <1>4, <2>1 DEF Counting
<1>9. r \in Scan
  BY <1>2, <1>5, <1>7 DEF Scan
<1>10. CASE s.run + 1 >= MinConsecutive
  <2>1. r.fired = w /\ r.fired # 0 /\ s.run + 1 = MinConsecutive /\ i + MinConsecutive - 1 = n + 1
    <3>1. s.run + 1 = MinConsecutive
      BY <1>5, <1>10, PointBounds
    <3>3. i + MinConsecutive - 1 = n + 1
      BY <1>5, <3>1
    <3>2. r.fired = w
      BY <1>2, <1>10
    <3> QED BY <1>6, <1>7, <3>1, <3>2, <3>3
  <2>2. Watch!RunAt(batch, i)
    BY <1>8, <2>1 DEF Watch!RunAt
  <2>3. ASSUME NEW j \in 1..(i - 1) PROVE ~Watch!RunAt(batch, j)
    <3>1. j \in Nat /\ 1 <= j /\ j + 1 <= i /\ MinConsecutive >= 1
      BY <1>5, PointBounds
    <3>2. i + MinConsecutive - 1 = n + 1
      BY <2>1
    <3>3. j \in 1..n /\ j + MinConsecutive - 1 <= n
      BY <1>5, <3>1, <3>2, PointBounds
    <3> QED BY <3>3 DEF Counting, NoneBefore
  <2>4. Found(batch, r.fired)
    <3>1. i \in 1..Len(batch)
      BY <1>5
    <3> QED BY <1>7, <2>1, <2>2, <2>3, <3>1 DEF Found
  <2> QED BY <1>3, <1>9, <2>1, <2>4 DEF Scanned
<1>11. CASE ~(s.run + 1 >= MinConsecutive)
  <2>1. r.fired = 0 /\ r.run = s.run + 1 /\ r.worst = w /\ w # 0
    BY <1>2, <1>6, <1>7, <1>11
  <2>2. n + 1 - r.run + 1 = i /\ n + 1 - r.run = n - s.run /\ r.run # 0
    BY <1>4, <1>5, <2>1
  <2>3. NoneBefore(batch, n + 1)
    <3> SUFFICES ASSUME NEW j \in 1..(n + 1), j + MinConsecutive - 1 <= n + 1,
                        Watch!RunAt(batch, j)
                 PROVE  FALSE
      BY DEF NoneBefore
    <3>1. CASE j + MinConsecutive - 1 <= n
      <4>1. j \in 1..n
        BY <3>1, PointBounds
      <4> QED BY <3>1, <4>1 DEF Counting, NoneBefore
    <3>2. CASE ~(j + MinConsecutive - 1 <= n)
      <4>1. n - s.run \in j..(j + MinConsecutive - 1) /\ s.run < n
        BY <1>5, <1>11, <3>2, PointBounds
      <4> QED BY <4>1 DEF Watch!RunAt, Counting
    <3> QED BY <3>1, <3>2
  <2>4. Counting(batch, n + 1, r)
    <3>1. r.run <= n + 1 /\ r.run < MinConsecutive
      BY <1>5, <1>11, <2>1, PointBounds
    <3>2. r.run < n + 1 => ~Watch!Hit(batch[n + 1 - r.run])
      BY <1>5, <2>1, <2>2 DEF Counting
    <3>3. \A j \in (n + 1 - r.run + 1)..(n + 1) : Watch!Hit(batch[j])
      BY <1>8, <2>2
    <3>4. Worst(batch, n + 1 - r.run + 1, n + 1, r.worst)
      BY <1>7, <2>1, <2>2
    <3>5. PICK m : m = n + 1
      OBVIOUS
    <3>6. r.run <= m /\ r.run < MinConsecutive /\ NoneBefore(batch, m)
      BY <2>3, <3>1, <3>5
    <3>8. r.run < m => ~Watch!Hit(batch[m - r.run])
      BY <1>5, <2>1, <3>2, <3>5
    <3>9. \A j \in (m - r.run + 1)..m : Watch!Hit(batch[j])
      BY <1>5, <2>1, <3>3, <3>5
    <3>10. Worst(batch, m - r.run + 1, m, r.worst)
      BY <1>5, <2>1, <3>4, <3>5
    <3>7. Counting(batch, m, r)
      BY <2>1, <2>2, <3>6, <3>8, <3>9, <3>10 DEF Counting
    <3> QED BY <3>5, <3>7
  <2> QED BY <1>3, <1>9, <2>1, <2>4 DEF Scanned
<1> QED BY <1>10, <1>11

LEMMA CheckPointScan ==
    ASSUME NEW s \in Scan, NEW n \in Watch!Number
    PROVE  Watch!CheckPoint(s, n) \in Scan
<1>1. s.run \in Nat /\ s.worst \in Watch!Number \cup {0} /\ s.fired \in Watch!Number \cup {0}
  BY DEF Scan
<1>2. [s EXCEPT !.run = 0, !.worst = 0] \in Scan
  BY <1>1 DEF Scan
<1>3. PICK w : w = IF Watch!Worse(n, s.worst) THEN n ELSE s.worst
  OBVIOUS
<1>4. PICK f : f = IF s.run + 1 >= MinConsecutive THEN w ELSE 0
  OBVIOUS
<1>5. w \in Watch!Number \cup {0} /\ f \in Watch!Number \cup {0}
  BY <1>1, <1>3, <1>4
<1>6. [run |-> s.run + 1, worst |-> w, fired |-> f] \in Scan
  BY <1>1, <1>5 DEF Scan
<1> QED BY <1>2, <1>3, <1>4, <1>6 DEF Watch!CheckPoint

LEMMA PointChecked ==
    ASSUME trip \in [Watch!Number -> Watch!Point], NEW batch \in Seq(Watch!Number),
           NEW n \in Nat, n + 1 \in 1..Len(batch),
           NEW s, Scanned(batch, n, s)
    PROVE  Scanned(batch, n + 1, Watch!CheckPoint(s, batch[n + 1]))
<1>1. CASE s.fired # 0
  <2>1. Watch!CheckPoint(s, batch[n + 1]) = s
    BY <1>1 DEF Watch!CheckPoint
  <2> QED BY <1>1, <2>1 DEF Scanned
<1>2. CASE s.fired = 0
  BY <1>2, MissCounted, HitCounted DEF Scanned
<1> QED BY <1>1, <1>2

(* The point check_rule reports is the worst of the first run, or 0 when   *)
(* there is none.                                                          *)
LEMMA RuleChecked ==
    ASSUME trip \in [Watch!Number -> Watch!Point], NEW batch \in Seq(Watch!Number)
    PROVE  /\ Watch!CheckRule(batch) \in Watch!Number \cup {0}
           /\ Watch!CheckRule(batch) = 0 => \A i \in 1..Len(batch) : ~Watch!RunAt(batch, i)
           /\ Watch!CheckRule(batch) # 0 => Found(batch, Watch!CheckRule(batch))
<1> DEFINE zero == [run |-> 0, worst |-> 0, fired |-> 0]
           N == Len(batch)
           step == [n \in 1..N |-> [s \in Scan |-> Watch!CheckPoint(s, batch[n])]]
           f == CHOOSE g : g =
                    [n \in 0..N |-> IF n = 0 THEN zero ELSE Watch!CheckPoint(g[n - 1], batch[n])]
<1>1. Watch!CheckRule(batch) = f[N].fired
  BY DEF Watch!CheckRule
<1>2. step \in [1..N -> [Scan -> Scan]]
  <2> SUFFICES ASSUME NEW n \in 1..N, NEW s \in Scan PROVE Watch!CheckPoint(s, batch[n]) \in Scan
    OBVIOUS
  <2>1. batch[n] \in Watch!Number
    OBVIOUS
  <2> QED BY <2>1, CheckPointScan
<1>3. N \in Nat /\ zero \in Scan
  BY DEF Scan
<1>4. \A n \in 1..N, s \in Scan : step[n][s] = Watch!CheckPoint(s, batch[n])
  OBVIOUS
<1> HIDE DEF step, zero
<1>5. PICK g \in [0..N -> Scan] : Recurs(g, N, zero, step)
  BY <1>2, <1>3, Recursion, Zenon
<1>6. g = [n \in 0..N |-> IF n = 0 THEN zero ELSE Watch!CheckPoint(g[n - 1], batch[n])]
  <2>1. ASSUME NEW n \in 0..N
               PROVE g[n] = IF n = 0 THEN zero ELSE Watch!CheckPoint(g[n - 1], batch[n])
    <3>1. CASE n = 0
      BY <1>5, <3>1 DEF Recurs
    <3>2. CASE n # 0
      <4>1. n \in 1..N /\ n - 1 \in 0..N /\ g[n - 1] \in Scan
        BY <1>3, <3>2
      <4>2. g[n] = step[n][g[n - 1]]
        BY <1>5, <4>1 DEF Recurs
      <4> QED BY <1>4, <3>2, <4>1, <4>2
    <3> QED BY <3>1, <3>2
  <2>2. g = [n \in 0..N |-> g[n]]
    OBVIOUS
  <2> QED BY <2>1, <2>2
<1>7. f = [n \in 0..N |-> IF n = 0 THEN zero ELSE Watch!CheckPoint(f[n - 1], batch[n])]
  BY <1>6
<1> HIDE DEF f
<1>8. /\ f[0] = zero
      /\ \A n \in 1..N : f[n] = Watch!CheckPoint(f[n - 1], batch[n])
  <2>1. ASSUME NEW n \in 1..N PROVE f[n] = Watch!CheckPoint(f[n - 1], batch[n])
    <3>1. n \in 0..N /\ n # 0
      OBVIOUS
    <3> QED BY <1>7, <3>1
  <2>2. 0 \in 0..N
    BY <1>3
  <2> QED BY <1>7, <2>1, <2>2
<1> DEFINE M == {n \in 0..N : Scanned(batch, n, f[n])}
<1>9. 0 \in M
  <2>1. Counting(batch, 0, zero) /\ zero.fired = 0
    BY PointBounds DEF Counting, NoneBefore, zero
  <2>2. 0 \in 0..N
    BY <1>3
  <2> QED BY <1>3, <1>8, <2>1, <2>2 DEF Scanned
<1>10. ASSUME NEW n \in 0..N, n \in M, n + 1 \in 0..N PROVE n + 1 \in M
  <2>1. n + 1 \in 1..N /\ (n + 1) - 1 = n /\ n \in Nat
    BY <1>3, <1>10
  <2>2. f[n + 1] = Watch!CheckPoint(f[n], batch[n + 1])
    BY <1>8, <2>1
  <2> QED BY <1>10, <2>1, <2>2, PointChecked
<1>11. 0..N \subseteq M
  <2> HIDE DEF M
  <2> QED BY <1>3, <1>9, <1>10, UpTo
<1>12. Scanned(batch, N, f[N])
  <2>1. N \in 0..N
    BY <1>3
  <2> QED BY <1>11, <2>1
<1>13. \A i \in 1..N : Watch!RunAt(batch, i) => i + MinConsecutive - 1 <= N
  BY DEF Watch!RunAt
<1> QED BY <1>1, <1>12, <1>13 DEF Scanned, Scan, Counting, NoneBefore

-----------------------------------------------------------------------------
LEMMA PointTypeInit == Watch!Init => Watch!TypeOK
<1> SUFFICES ASSUME Watch!Init PROVE Watch!TypeOK
  OBVIOUS
<1>1. Watch!Idle \in Watch!TaskState
  BY DEF Watch!Idle, Watch!TaskState
<1>2. trip \in [Watch!Number -> Watch!Point] /\ failures \in 0..MaxFailures
  BY PointBounds DEF Watch!Init
<1>3. points \in [Task -> Watch!TaskState]
  BY <1>1 DEF Watch!Init
<1>4. events \in Seq(Watch!Event) /\ seen \in Seq(Watch!Number)
  BY DEF Watch!Init
<1>5. member \in BOOLEAN /\ overlapped \in BOOLEAN
  BY DEF Watch!Init
<1> QED BY <1>2, <1>3, <1>4, <1>5 DEF Watch!Init, Watch!TypeOK

LEMMA TailTyped ==
    ASSUME NEW s \in Seq(Watch!Number), NEW i \in 1..Len(s)
    PROVE  /\ SubSeq(s, i + 1, Len(s)) \in Seq(Watch!Number)
           /\ SubSeq(s, 1, i) \in Seq(Watch!Number)
           /\ s[i] \in Watch!Number
OBVIOUS

LEMMA NewTyped ==
    ASSUME Watch!TypeOK, NEW from \in Watch!Number, NEW to \in from..MaxPoints
    PROVE  [i \in 1..(to - from + 1) |-> from + i - 1] \in Seq(Watch!Number)
<1>1. from \in Nat /\ to \in Nat /\ to - from + 1 \in Nat
  BY PointBounds DEF Watch!Number
<1>2. \A i \in 1..(to - from + 1) : from + i - 1 \in Watch!Number
  BY <1>1, PointBounds DEF Watch!Number
<1> QED BY <1>1, <1>2

(* What a task of each kind may be set to.                                 *)
LEMMA TaskShapes ==
    ASSUME NEW b \in Seq(Watch!Number), NEW n \in Watch!Number,
           NEW s \in Watch!Side \cup {"unknown"}
    PROVE  /\ [pc |-> "rules", batch |-> b] \in Watch!TaskState
           /\ [pc |-> "read", batch |-> b] \in Watch!TaskState
           /\ [pc |-> "alert", batch |-> b, worst |-> n] \in Watch!TaskState
           /\ [pc |-> "zone", todo |-> b, at |-> s] \in Watch!TaskState
           /\ s # "unknown" =>
                 [pc |-> "event", todo |-> b, at |-> s, point |-> n] \in Watch!TaskState
           /\ Watch!Idle \in Watch!TaskState
BY DEF Watch!TaskState, Watch!Idle

(* What a task holds, by where it stands.                                  *)
LEMMA TaskHolds ==
    ASSUME Watch!TypeOK, NEW t \in Task
    PROVE  /\ points[t].pc \in {"idle", "rules", "read", "alert", "zone", "event", "notify"}
           /\ points[t].pc = "idle" => points[t] = Watch!Idle
           /\ points[t].pc \in {"rules", "read", "alert"} => points[t].batch \in Seq(Watch!Number)
           /\ points[t].pc \in {"zone", "event", "notify"} => points[t].todo \in Seq(Watch!Number)
           /\ points[t].pc = "zone" => points[t].at \in Watch!Side \cup {"unknown"}
           /\ points[t].pc \in {"event", "notify"}
                 => points[t].at \in Watch!Side /\ points[t].point \in Watch!Number
<1>1. points[t] \in Watch!TaskState
  BY DEF Watch!TypeOK
<1> QED BY <1>1 DEF Watch!TaskState, Watch!Idle

LEMMA PointTypeNext == ASSUME Watch!TypeOK, Watch!Next PROVE Watch!TypeOK'
<1>0. Watch!TypeOK
  OBVIOUS
<1>1. ASSUME NEW t \in Task, NEW v \in Watch!TaskState, points' = [points EXCEPT ![t] = v]
      PROVE  points' \in [Task -> Watch!TaskState]
  BY <1>1 DEF Watch!TypeOK
<1>2. ASSUME NEW t \in Task, NEW from \in Watch!Number, NEW to \in from..MaxPoints,
             Watch!OnPoints(t, from, to)
      PROVE  Watch!TypeOK'
  <2>1. PICK q : q = Only([i \in 1..(to - from + 1) |-> from + i - 1], Watch!Number \ stored)
    OBVIOUS
  <2>2. q \in Seq(Watch!Number)
    BY <2>1, NewTyped, OnlyChosen
  <2>3. points' \in [Task -> Watch!TaskState]
    <3>1. [pc |-> "rules", batch |-> q] \in Watch!TaskState
      BY <2>2 DEF Watch!TaskState
    <3> QED BY <1>1, <1>2, <2>1, <3>1, WatchOnly DEF Watch!OnPoints
  <2>4. stored' \subseteq Watch!Number
    BY <1>2, PointBounds DEF Watch!OnPoints, Watch!Number, Watch!TypeOK
  <2> QED BY <1>2, <2>3, <2>4 DEF Watch!OnPoints, Watch!TypeOK
<1>3. ASSUME NEW t \in Task, Watch!EvaluateRules(t) PROVE Watch!TypeOK'
  <2>1. PICK batch \in Seq(Watch!Number) : batch = points[t].batch
    BY <1>3, TaskHolds DEF Watch!EvaluateRules
  <2>2. PICK found \in Watch!Number \cup {0} : found = IF member THEN Watch!CheckRule(batch) ELSE 0
    BY RuleChecked DEF Watch!TypeOK
  <2>3. points' \in [Task -> Watch!TaskState]
    <3>1. CASE found = 0
      BY <1>1, <1>3, <2>1, <2>2, <3>1 DEF Watch!EvaluateRules, Watch!TaskState
    <3>2. CASE found # 0
      <4>1. [pc |-> "alert", batch |-> batch, worst |-> found] \in Watch!TaskState
        BY <2>2, <3>2 DEF Watch!TaskState
      <4> QED BY <1>1, <1>3, <2>1, <2>2, <3>2, <4>1 DEF Watch!EvaluateRules
    <3> QED BY <3>1, <3>2
  <2> QED BY <1>3, <2>3 DEF Watch!EvaluateRules, Watch!TypeOK
<1>4. ASSUME NEW t \in Task, Watch!Alert(t) \/ Watch!RulesFail(t) PROVE Watch!TypeOK'
  <2>1. points[t].batch \in Seq(Watch!Number)
        /\ points' = [points EXCEPT ![t] = [pc |-> "read", batch |-> points[t].batch]]
    BY <1>4, TaskHolds DEF Watch!Alert, Watch!RulesFail, Watch!TypeOK
  <2>2. points' \in [Task -> Watch!TaskState]
    BY <1>1, <2>1 DEF Watch!TaskState
  <2> QED BY <1>4, <2>2, PointBounds DEF Watch!Alert, Watch!RulesFail, Watch!TypeOK
<1>5. ASSUME NEW t \in Task, Watch!ReadZone(t) PROVE Watch!TypeOK'
  <2>1. points[t].batch \in Seq(Watch!Number)
        /\ points' = [points EXCEPT ![t] = [pc |-> "zone", todo |-> points[t].batch,
           at |-> inside]]
    BY <1>5, TaskHolds DEF Watch!ReadZone, Watch!TypeOK
  <2>2. points' \in [Task -> Watch!TaskState]
    BY <1>0, <1>1, <2>1 DEF Watch!TaskState, Watch!TypeOK
  <2> QED BY <1>5, <2>2 DEF Watch!ReadZone, Watch!TypeOK
<1>6. ASSUME NEW t \in Task, Watch!EvaluateZone(t) PROVE Watch!TypeOK'
  <2>1. PICK todo \in Seq(Watch!Number) : todo = points[t].todo
    BY <1>6, TaskHolds DEF Watch!EvaluateZone
  <2>2. PICK at \in Watch!Side \cup {"unknown"} : at = points[t].at
    BY <1>6, TaskHolds DEF Watch!EvaluateZone
  <2>3. ASSUME NEW i \in Watch!Changes(todo, at),
               inside' = trip[todo[i]].fix,
               points' = [points EXCEPT ![t] =
                   IF Watch!FirstSight(at)
                   THEN [pc |-> "zone", todo |-> SubSeq(todo, i + 1, Len(todo)),
                         at |-> trip[todo[i]].fix]
                   ELSE [pc |-> "event", todo |-> SubSeq(todo, i + 1, Len(todo)),
                         at |-> trip[todo[i]].fix, point |-> todo[i]]],
               seen' = seen \o SubSeq(todo, 1, i)
        PROVE  Watch!TypeOK'
    <3>1. i \in 1..Len(todo) /\ trip[todo[i]].fix \in Watch!Side
      BY <2>3 DEF Watch!Changes
    <3>2. SubSeq(todo, i + 1, Len(todo)) \in Seq(Watch!Number)
          /\ SubSeq(todo, 1, i) \in Seq(Watch!Number)
          /\ todo[i] \in Watch!Number
      BY <3>1, TailTyped
    <3>3. points' \in [Task -> Watch!TaskState]
      <4>1. CASE Watch!FirstSight(at)
        BY <1>1, <2>3, <3>1, <3>2, <4>1 DEF Watch!TaskState
      <4>2. CASE ~Watch!FirstSight(at)
        BY <1>1, <2>3, <3>1, <3>2, <4>2 DEF Watch!TaskState
      <4> QED BY <4>1, <4>2
    <3>4. seen' \in Seq(Watch!Number)
      BY <2>3, <3>2 DEF Watch!TypeOK
    <3> QED BY <1>6, <2>3, <3>1, <3>3, <3>4 DEF Watch!EvaluateZone, Watch!TypeOK
  <2>4. ASSUME points' = [points EXCEPT ![t] = Watch!Idle], seen' = seen \o todo, UNCHANGED inside
        PROVE  Watch!TypeOK'
    <3>1. points' \in [Task -> Watch!TaskState]
      BY <1>1, <2>4 DEF Watch!TaskState, Watch!Idle
    <3>2. seen' \in Seq(Watch!Number)
      BY <2>4 DEF Watch!TypeOK
    <3> QED BY <1>6, <2>4, <3>1, <3>2 DEF Watch!EvaluateZone, Watch!TypeOK
  <2> QED BY <1>6, <2>1, <2>2, <2>3, <2>4 DEF Watch!EvaluateZone
<1>7. ASSUME NEW t \in Task, Watch!InsertEvent(t) PROVE Watch!TypeOK'
  <2>1. points[t].at \in Watch!Side /\ points[t].point \in Watch!Number
        /\ points[t].todo \in Seq(Watch!Number)
    BY <1>7, TaskHolds DEF Watch!InsertEvent
  <2>2. [points[t] EXCEPT !.pc = "notify"] \in Watch!TaskState
    BY <1>7 DEF Watch!InsertEvent, Watch!TypeOK, Watch!TaskState
  <2>3. points' \in [Task -> Watch!TaskState]
    BY <1>7, <2>2 DEF Watch!InsertEvent, Watch!TypeOK
  <2>4. events' \in Seq(Watch!Event)
    BY <1>7, <2>1 DEF Watch!InsertEvent, Watch!TypeOK, Watch!Event
  <2> QED BY <1>7, <2>3, <2>4 DEF Watch!InsertEvent, Watch!TypeOK
<1>8. ASSUME NEW t \in Task, Watch!NotifyCrossing(t) \/ Watch!NotifyFails(t) PROVE Watch!TypeOK'
  <2>1. /\ points[t].todo \in Seq(Watch!Number) /\ points[t].at \in Watch!Side
        /\ points' = [points EXCEPT ![t] = [pc |-> "zone", todo |-> points[t].todo,
           at |-> points[t].at]]
    BY <1>8, TaskHolds DEF Watch!NotifyCrossing, Watch!NotifyFails, Watch!TypeOK
  <2>2. points' \in [Task -> Watch!TaskState]
    BY <1>1, <2>1 DEF Watch!TaskState
  <2> QED BY <1>8, <2>2, PointBounds DEF Watch!NotifyCrossing, Watch!NotifyFails, Watch!TypeOK
<1>9. ASSUME NEW t \in Task, Watch!Die(t) PROVE Watch!TypeOK'
  <2>1. points' \in [Task -> Watch!TaskState]
    BY <1>1, <1>9 DEF Watch!Die, Watch!TaskState, Watch!Idle
  <2> QED BY <1>9, <2>1, PointBounds DEF Watch!Die, Watch!TypeOK
<1>10. ASSUME Watch!LoseAccess PROVE Watch!TypeOK'
  BY <1>10 DEF Watch!LoseAccess, Watch!TypeOK
<1> QED BY <1>2, <1>3, <1>4, <1>5, <1>6, <1>7, <1>8, <1>9, <1>10 DEF Watch!Next

(* The state of the points' evaluation is of the types PointWatch states.  *)
THEOREM PointTypeCorrect == Watch!Spec => []Watch!TypeOK
<1>1. ASSUME Watch!TypeOK, UNCHANGED Watch!vars PROVE Watch!TypeOK'
  BY <1>1 DEF Watch!TypeOK, Watch!vars
<1> QED BY <1>1, PointTypeInit, PointTypeNext, PTL DEF Watch!Spec
-----------------------------------------------------------------------------
(* What a rule's evaluation ends with.                                     *)
AlertEarned ==
    \A t \in Task :
        points[t].pc = "rules" /\ points'[t].pc \in {"alert", "read"} /\ failures' = failures =>
           LET batch == points[t].batch
               runs == {i \in 1..Len(batch) : Watch!RunAt(batch, i)}
           IN  /\ points'[t].pc = "alert" <=> member /\ runs # {}
               /\ points'[t].pc = "alert" =>
                     \E i \in runs :
                        /\ \A j \in runs : i <= j
                        /\ \E k \in i..(i + MinConsecutive - 1) :
                              /\ batch[k] = points'[t].worst
                              /\ \A j \in i..(i + MinConsecutive - 1) :
                                    trip[batch[j]].value <= trip[batch[k]].value

LEMMA OthersStand ==
    ASSUME Watch!TypeOK, NEW t \in Task, NEW u \in Task, u # t,
           \/ \E from \in Watch!Number : \E to \in from..MaxPoints : Watch!OnPoints(u, from, to)
           \/ Watch!EvaluateRules(u) \/ Watch!Alert(u) \/ Watch!RulesFail(u)
           \/ Watch!ReadZone(u) \/ Watch!EvaluateZone(u) \/ Watch!InsertEvent(u)
              \/ Watch!NotifyCrossing(u)
           \/ Watch!NotifyFails(u) \/ Watch!Die(u)
    PROVE  points'[t] = points[t]
<1>1. points \in [Task -> Watch!TaskState]
  BY DEF Watch!TypeOK
<1>2. CASE \E from \in Watch!Number : \E to \in from..MaxPoints : Watch!OnPoints(u, from, to)
  BY <1>1, <1>2 DEF Watch!OnPoints
<1>3. CASE Watch!EvaluateZone(u)
  BY <1>1, <1>3 DEF Watch!EvaluateZone
<1>4. CASE Watch!EvaluateRules(u)
  BY <1>1, <1>4 DEF Watch!EvaluateRules
<1>5. CASE Watch!Alert(u) \/ Watch!RulesFail(u) \/ Watch!ReadZone(u)
  BY <1>1, <1>5 DEF Watch!Alert, Watch!RulesFail, Watch!ReadZone
<1>6. CASE Watch!InsertEvent(u) \/ Watch!NotifyCrossing(u) \/ Watch!NotifyFails(u) \/ Watch!Die(u)
  BY <1>1, <1>6 DEF Watch!InsertEvent, Watch!NotifyCrossing, Watch!NotifyFails, Watch!Die
<1> QED BY <1>2, <1>3, <1>4, <1>5, <1>6

LEMMA AlertEarnedNext == ASSUME Watch!TypeOK, [Watch!Next]_(Watch!vars) PROVE AlertEarned
<1> SUFFICES ASSUME NEW t \in Task, points[t].pc = "rules", points'[t].pc \in {"alert", "read"},
                    failures' = failures
             PROVE  LET batch == points[t].batch
                        runs == {i \in 1..Len(batch) : Watch!RunAt(batch, i)}
                    IN  /\ points'[t].pc = "alert" <=> member /\ runs # {}
                        /\ points'[t].pc = "alert" =>
                              \E i \in runs :
                                 /\ \A j \in runs : i <= j
                                 /\ \E k \in i..(i + MinConsecutive - 1) :
                                       /\ batch[k] = points'[t].worst
                                       /\ \A j \in i..(i + MinConsecutive - 1) :
                                             trip[batch[j]].value <= trip[batch[k]].value
  BY DEF AlertEarned
<1>1. Watch!EvaluateRules(t)
  <2>1. Watch!Next
    BY DEF Watch!vars
  <2>2. ASSUME NEW u \in Task,
               \/ \E from \in Watch!Number : \E to \in from..MaxPoints :
                      Watch!OnPoints(u, from, to)
               \/ Watch!EvaluateRules(u) \/ Watch!Alert(u) \/ Watch!RulesFail(u)
               \/ Watch!ReadZone(u) \/ Watch!EvaluateZone(u) \/ Watch!InsertEvent(u)
                  \/ Watch!NotifyCrossing(u)
               \/ Watch!NotifyFails(u) \/ Watch!Die(u)
        PROVE  u = t
    BY <2>2, OthersStand
  <2>3. ~Watch!LoseAccess
    BY DEF Watch!LoseAccess
  <2>4. ~(\E from \in Watch!Number : \E to \in from..MaxPoints : Watch!OnPoints(t, from, to))
    <3>1. points[t] # Watch!Idle
      BY DEF Watch!Idle
    <3> QED BY <3>1 DEF Watch!OnPoints
  <2>5. ~Watch!RulesFail(t) /\ ~Watch!NotifyFails(t) /\ ~Watch!Die(t)
    BY PointBounds DEF Watch!RulesFail, Watch!NotifyFails, Watch!Die, Watch!TypeOK
  <2>6. ~(Watch!Alert(t) \/ Watch!ReadZone(t) \/ Watch!EvaluateZone(t) \/ Watch!InsertEvent(t)
        \/ Watch!NotifyCrossing(t))
    BY DEF Watch!Alert, Watch!ReadZone, Watch!EvaluateZone, Watch!InsertEvent,
       Watch!NotifyCrossing
  <2> QED BY <2>1, <2>2, <2>3, <2>4, <2>5, <2>6 DEF Watch!Next
<1>2. PICK batch \in Seq(Watch!Number) : batch = points[t].batch
  BY TaskHolds
<1>3. PICK found \in Watch!Number \cup {0} : found = IF member THEN Watch!CheckRule(batch) ELSE 0
  BY RuleChecked DEF Watch!TypeOK
<1>4. points'[t] = IF found = 0 THEN [pc |-> "read", batch |-> batch]
                              ELSE [pc |-> "alert", batch |-> batch, worst |-> found]
  BY <1>1, <1>2, <1>3 DEF Watch!EvaluateRules, Watch!TypeOK
<1>5. PICK runs : runs = {i \in 1..Len(batch) : Watch!RunAt(batch, i)}
  OBVIOUS
<1>6. CASE found = 0
  <2>1. points'[t].pc = "read"
    BY <1>4, <1>6
  <2>2. member => runs = {}
    <3>1. member => Watch!CheckRule(batch) = 0
      BY <1>3, <1>6
    <3> QED BY <1>5, <3>1, RuleChecked DEF Watch!TypeOK
  <2> QED BY <1>2, <1>5, <2>1, <2>2
<1>7. CASE found # 0
  <2>1. points'[t].pc = "alert" /\ points'[t].worst = found /\ member
        /\ found = Watch!CheckRule(batch)
    BY <1>3, <1>4, <1>7
  <2>2. PICK i \in 1..Len(batch) :
             /\ Watch!RunAt(batch, i) /\ \A j \in 1..(i - 1) : ~Watch!RunAt(batch, j)
             /\ Worst(batch, i, i + MinConsecutive - 1, found)
    BY <1>7, <2>1, RuleChecked DEF Watch!TypeOK, Found
  <2>3. i \in runs
    BY <1>5, <2>2
  <2>4. ASSUME NEW j \in runs PROVE i <= j
    <3>1. j \in 1..Len(batch) /\ Watch!RunAt(batch, j)
      BY <1>5
    <3> QED BY <2>2, <3>1
  <2>5. \E k \in i..(i + MinConsecutive - 1) :
           /\ batch[k] = points'[t].worst
           /\ \A j \in i..(i + MinConsecutive - 1) : trip[batch[j]].value <= trip[batch[k]].value
    BY <2>1, <2>2 DEF Worst
  <2> QED BY <1>2, <1>5, <2>1, <2>3, <2>4, <2>5
<1> QED BY <1>6, <1>7

(* A batch alerts the rule's owner exactly when the owner may read the car *)
(* and enough of its points in a row exceed the threshold, and names the   *)
(* worst point of the first such run, for any batch and any threshold.     *)
THEOREM EveryAlertIsEarned == Watch!Spec => AlertsAreEarned
<1>1. Watch!TypeOK /\ [Watch!Next]_(Watch!vars) => AlertEarned
  BY AlertEarnedNext
<1> QED BY <1>1, PointTypeCorrect, PTL DEF Watch!Spec, AlertsAreEarned, Watch!AlertsAreEarned,
           AlertEarned

-----------------------------------------------------------------------------
(* The fixes of a sequence of points, where the last of them lies, and     *)
(* which lie on the other side than the one before.                        *)
Fixed == {n \in Watch!Number : trip[n].fix # "none"}
Across(q) == {q[i] : i \in {j \in 2..Len(q) : trip[q[j]].fix # trip[q[j - 1]].fix}}
EndsAt(q) == IF q = <<>> THEN "unknown" ELSE trip[q[Len(q)]].fix
CrossingsOf(s) == Across(Only(s, Fixed))
SideOf(s) == EndsAt(Only(s, Fixed))

LEMMA FixSides ==
    ASSUME trip \in [Watch!Number -> Watch!Point], NEW n \in Watch!Number
    PROVE  trip[n].fix \in Watch!Side \cup {"none"}
           /\ (n \in Fixed <=> trip[n].fix \in Watch!Side)
BY DEF Watch!Point, Watch!Side, Fixed

LEMMA AcrossAppend ==
    ASSUME NEW q \in Seq(Watch!Number), NEW x \in Watch!Number
    PROVE  /\ q = <<>> \/ trip[q[Len(q)]].fix = trip[x].fix => Across(Append(q, x)) = Across(q)
           /\ q # <<>> /\ trip[q[Len(q)]].fix # trip[x].fix
                 => Across(Append(q, x)) = Across(q) \cup {x}
           /\ EndsAt(Append(q, x)) = trip[x].fix
<1>1. PICK m \in Nat : m = Len(q)
  OBVIOUS
<1>2. PICK r \in Seq(Watch!Number) : r = Append(q, x)
  <2>1. Append(q, x) \in Seq(Watch!Number)
    OBVIOUS
  <2> QED BY <2>1
<1>3. /\ Len(r) = m + 1 /\ r[m + 1] = x /\ r # <<>> /\ (q = <<>> <=> m = 0)
      /\ \A i \in 1..m : r[i] = q[i]
  BY <1>1, <1>2
<1>4. ASSUME NEW i \in 2..m PROVE r[i] = q[i] /\ r[i - 1] = q[i - 1]
  BY <1>3
<1>5. PICK old : old = {j \in 2..m : trip[q[j]].fix # trip[q[j - 1]].fix}
  OBVIOUS
<1>6. PICK new : new = {j \in 2..(m + 1) : trip[r[j]].fix # trip[r[j - 1]].fix}
  OBVIOUS
<1>7. \A i \in 2..m : i \in new <=> i \in old
  <2> TAKE i \in 2..m
  <2>1. i \in 2..(m + 1)
    OBVIOUS
  <2>2. i \in new <=> trip[r[i]].fix # trip[r[i - 1]].fix
    BY <1>6, <2>1
  <2>3. i \in old <=> trip[q[i]].fix # trip[q[i - 1]].fix
    BY <1>5
  <2> QED BY <1>4, <2>2, <2>3
<1>8. \A i \in new : i \in old \/ (i = m + 1 /\ m >= 1)
  BY <1>6, <1>7
<1>9. old \subseteq 2..m /\ \A i \in old : i \in new /\ r[i] = q[i]
  <2>1. old \subseteq 2..m
    BY <1>5
  <2> QED BY <1>4, <1>7, <2>1
<1>10. m + 1 \in new <=> m >= 1 /\ trip[q[m]].fix # trip[x].fix
  <2>1. m >= 1 => r[m] = q[m] /\ (m + 1) - 1 = m /\ m + 1 \in 2..(m + 1)
    BY <1>3
  <2>2. m + 1 \in 2..(m + 1) => m >= 1
    OBVIOUS
  <2> QED BY <1>3, <1>6, <2>1, <2>2
<1>11. Across(q) = {q[i] : i \in old} /\ Across(r) = {r[i] : i \in new}
  BY <1>1, <1>3, <1>5, <1>6 DEF Across
<1>12. ASSUME m + 1 \notin new PROVE Across(r) = Across(q)
  BY <1>8, <1>9, <1>11, <1>12
<1>13. ASSUME m + 1 \in new PROVE Across(r) = Across(q) \cup {x}
  BY <1>3, <1>8, <1>9, <1>11, <1>13
<1>14. EndsAt(r) = trip[x].fix
  BY <1>3 DEF EndsAt
<1> QED BY <1>1, <1>2, <1>3, <1>10, <1>12, <1>13, <1>14

(* What one more point changes.                                            *)
LEMMA OneMore ==
    ASSUME trip \in [Watch!Number -> Watch!Point], NEW s \in Seq(Watch!Number),
           NEW x \in Watch!Number
    PROVE  /\ SideOf(s) \in Watch!Side \cup {"unknown"}
           /\ trip[x].fix \in {"none", SideOf(s)} =>
                 SideOf(Append(s, x)) = SideOf(s) /\ CrossingsOf(Append(s, x)) = CrossingsOf(s)
           /\ trip[x].fix # "none" => SideOf(Append(s, x)) = trip[x].fix
           /\ trip[x].fix # "none" /\ SideOf(s) = "unknown"
                 => CrossingsOf(Append(s, x)) = CrossingsOf(s)
           /\ trip[x].fix # "none" /\ SideOf(s) \notin {"unknown", trip[x].fix} =>
                 CrossingsOf(Append(s, x)) = CrossingsOf(s) \cup {x}
<1>1. PICK q \in Seq(Watch!Number) : q = Only(s, Fixed)
  BY OnlyChosen
<1>2. PICK r : r = Append(s, x)
  OBVIOUS
<1>3. /\ x \in Fixed => Only(r, Fixed) = Append(q, x)
      /\ x \notin Fixed => Only(r, Fixed) = q
  BY <1>1, <1>2, OnlyAppend
<1>4. q = <<>> \/ (Len(q) \in 1..Len(q) /\ q[Len(q)] \in Fixed)
  <2>1. \A i \in 1..Len(q) : q[i] \in Fixed
    BY <1>1, OnlyChosen DEF Chosen
  <2> QED BY <2>1
<1>5. /\ SideOf(s) \in Watch!Side \cup {"unknown"} /\ (SideOf(s) = "unknown" <=> q = <<>>)
      /\ q # <<>> => SideOf(s) = trip[q[Len(q)]].fix
  BY <1>1, <1>4, FixSides DEF SideOf, EndsAt, Watch!Side, Fixed
<1>6. x \in Fixed <=> trip[x].fix # "none"
  BY DEF Fixed
<1>7. trip[x].fix \in Watch!Side \cup {"none"} /\ "unknown" \notin Watch!Side
      /\ "none" \notin Watch!Side
  BY FixSides DEF Watch!Side
<1>8. CASE x \notin Fixed
  BY <1>1, <1>2, <1>3, <1>5, <1>6, <1>7, <1>8 DEF SideOf, CrossingsOf
<1>9. CASE x \in Fixed
  <2>1. SideOf(r) = EndsAt(Append(q, x)) /\ CrossingsOf(r) = Across(Append(q, x))
        /\ CrossingsOf(s) = Across(q)
    BY <1>1, <1>3, <1>9 DEF SideOf, CrossingsOf
  <2> QED BY <1>2, <1>5, <1>6, <1>7, <1>9, <2>1, AcrossAppend
<1> QED BY <1>8, <1>9

LEMMA PrefixTyped ==
    ASSUME NEW s \in Seq(Watch!Number), NEW todo \in Seq(Watch!Number), NEW m \in 0..Len(todo)
    PROVE  s \o SubSeq(todo, 1, m) \in Seq(Watch!Number)
<1>1. m \in Nat /\ m <= Len(todo)
  OBVIOUS
<1>2. SubSeq(todo, 1, m) \in Seq(Watch!Number)
  BY <1>1
<1> QED BY <1>2

LEMMA UpToOne ==
    ASSUME NEW s \in Seq(Watch!Number), NEW todo \in Seq(Watch!Number), NEW m \in Nat,
           m + 1 \in 1..Len(todo)
    PROVE  s \o SubSeq(todo, 1, m + 1) = Append(s \o SubSeq(todo, 1, m), todo[m + 1])
OBVIOUS

(* Points without a fix, or on the side the car is, change nothing.        *)
LEMMA NothingChanges ==
    ASSUME trip \in [Watch!Number -> Watch!Point], NEW s \in Seq(Watch!Number),
           NEW todo \in Seq(Watch!Number),
           NEW m \in 0..Len(todo), \A j \in Watch!Changes(todo, SideOf(s)) : m < j
    PROVE  LET r == s \o SubSeq(todo, 1, m)
           IN  SideOf(r) = SideOf(s) /\ CrossingsOf(r) = CrossingsOf(s)
<1> DEFINE M == {n \in 0..m : /\ SideOf(s \o SubSeq(todo, 1, n)) = SideOf(s)
                              /\ CrossingsOf(s \o SubSeq(todo, 1, n)) = CrossingsOf(s)}
<1>1. 0 \in M
  <2>1. s \o SubSeq(todo, 1, 0) = s /\ 0 \in 0..m
    OBVIOUS
  <2> QED BY <2>1
<1>2. ASSUME NEW n \in 0..m, n \in M, n + 1 \in 0..m PROVE n + 1 \in M
  <2>1. n \in Nat /\ n \in 0..Len(todo) /\ n + 1 \in 1..Len(todo) /\ todo[n + 1] \in Watch!Number
    BY <1>2
  <2>2. PICK r \in Seq(Watch!Number) : r = s \o SubSeq(todo, 1, n)
    BY <2>1, PrefixTyped
  <2>3. s \o SubSeq(todo, 1, n + 1) = Append(r, todo[n + 1])
    BY <2>1, <2>2, UpToOne
  <2>4. SideOf(r) = SideOf(s) /\ CrossingsOf(r) = CrossingsOf(s)
    BY <1>2, <2>2
  <2>5. n + 1 \notin Watch!Changes(todo, SideOf(s))
    BY <1>2
  <2>6. trip[todo[n + 1]].fix \in {"none", SideOf(s)}
    BY <2>1, <2>5, FixSides DEF Watch!Changes
  <2>7. /\ SideOf(Append(r, todo[n + 1])) = SideOf(s)
        /\ CrossingsOf(Append(r, todo[n + 1])) = CrossingsOf(s)
    BY <2>1, <2>4, <2>6, OneMore
  <2> QED BY <1>2, <2>3, <2>7
<1>3. 0..m \subseteq M
  <2> HIDE DEF M
  <2>1. m \in Nat
    OBVIOUS
  <2> QED BY <1>1, <1>2, <2>1, UpTo
<1>4. m \in M
  BY <1>3
<1> QED BY <1>4

(* The first change is a crossing, but for the first fix there is.         *)
LEMMA FirstChange ==
    ASSUME trip \in [Watch!Number -> Watch!Point], NEW s \in Seq(Watch!Number),
           NEW todo \in Seq(Watch!Number),
           NEW i \in Watch!Changes(todo, SideOf(s)),
           \A j \in Watch!Changes(todo, SideOf(s)) : i <= j
    PROVE  LET r == s \o SubSeq(todo, 1, i)
           IN  /\ SideOf(r) = trip[todo[i]].fix
               /\ SideOf(s) = "unknown" => CrossingsOf(r) = CrossingsOf(s)
               /\ SideOf(s) # "unknown" => CrossingsOf(r) = CrossingsOf(s) \cup {todo[i]}
<1>1. i \in 1..Len(todo) /\ todo[i] \in Watch!Number
      /\ trip[todo[i]].fix \in Watch!Side \ {SideOf(s)}
  BY DEF Watch!Changes
<1>2. PICK m \in 0..Len(todo) : m + 1 = i
  <2>1. i - 1 \in 0..Len(todo) /\ (i - 1) + 1 = i
    BY <1>1
  <2> QED BY <2>1
<1>3. PICK r \in Seq(Watch!Number) : r = s \o SubSeq(todo, 1, m)
  BY PrefixTyped
<1>4. SideOf(r) = SideOf(s) /\ CrossingsOf(r) = CrossingsOf(s)
  <2>1. \A j \in Watch!Changes(todo, SideOf(s)) : m < j
    <3>1. \A j \in Watch!Changes(todo, SideOf(s)) : j \in Nat
      BY DEF Watch!Changes
    <3> QED BY <1>2, <3>1
  <2> QED BY <1>3, <2>1, NothingChanges
<1>5. s \o SubSeq(todo, 1, i) = Append(r, todo[i])
  <2>1. m \in Nat /\ m + 1 \in 1..Len(todo)
    BY <1>1, <1>2
  <2>2. s \o SubSeq(todo, 1, m + 1) = Append(s \o SubSeq(todo, 1, m), todo[m + 1])
    BY <2>1, UpToOne
  <2> QED BY <1>2, <1>3, <2>2
<1>6. trip[todo[i]].fix # "none" /\ trip[todo[i]].fix # SideOf(s)
  BY <1>1 DEF Watch!Side
<1>7. PICK x \in Watch!Number : x = todo[i]
  BY <1>1
<1>8. /\ SideOf(Append(r, x)) = trip[x].fix
      /\ SideOf(r) = "unknown" => CrossingsOf(Append(r, x)) = CrossingsOf(r)
      /\ SideOf(r) # "unknown" => CrossingsOf(Append(r, x)) = CrossingsOf(r) \cup {x}
  BY <1>4, <1>6, <1>7, OneMore
<1> QED BY <1>4, <1>5, <1>7, <1>8
-----------------------------------------------------------------------------
(* The points a task has before it, and those of a sequence.               *)
HeldBy(w) ==
    IF w.pc = "idle" THEN <<>>
    ELSE IF w.pc \in {"rules", "read", "alert"} THEN w.batch ELSE w.todo
Among(q) == {q[i] : i \in 1..Len(q)}
Distinct(q) == \A i, j \in 1..Len(q) : q[i] = q[j] => i = j

(* Every point is evaluated for one task, and once.                        *)
HeldFits ==
    /\ Among(seen) \subseteq stored
    /\ \A t \in Task : Distinct(HeldBy(points[t])) /\ Among(HeldBy(points[t])) \subseteq stored

Told == {events[i].point : i \in 1..Len(events)}
TasksAt(p) == IF \E t \in Task : points[t].pc = p THEN 1 ELSE 0

Alone == \A t, u \in Task : Watch!Running(t) /\ Watch!Running(u) => t = u

TaskFits(t) ==
    /\ Among(HeldBy(points[t])) \cap Among(seen) = {}
    /\ points[t].pc \in {"zone", "event", "notify"} => points[t].at = inside
    /\ points[t].pc = "event" => /\ points[t].point \in CrossingsOf(seen) \ Told
                                 /\ trip[points[t].point].fix = points[t].at

Recorded ==
    /\ \A i \in 1..Len(events) :
          /\ events[i].point \in CrossingsOf(seen)
          /\ events[i].kind = "enter" <=> trip[events[i].point].fix = "inside"
    /\ \A i, j \in 1..Len(events) : events[i].point = events[j].point => i = j

Counted ==
    /\ Cardinality(CrossingsOf(seen)) <= Len(events) + failures + TasksAt("event")
    /\ notices + TasksAt("notify") <= Len(events)
    /\ Len(events) <= notices + failures + TasksAt("notify")

(* While the uploads are evaluated one after the other: the row is where   *)
(* the last fix lies, and of the crossings, all that are neither stored    *)
(* nor about to be were lost with a failure.                               *)
InTurn ==
    /\ Alone /\ inside = SideOf(seen)
    /\ \A t \in Task : TaskFits(t)
    /\ Recorded /\ Counted

WatchInv == Watch!TypeOK /\ HeldFits /\ (~overlapped => InTurn)

LEMMA CrossingsSeen ==
    ASSUME NEW s \in Seq(Watch!Number)
    PROVE  CrossingsOf(s) \subseteq Among(s) /\ CrossingsOf(s) \subseteq Watch!Number
<1>1. PICK q \in Seq(Watch!Number) : q = Only(s, Fixed)
  BY OnlyChosen
<1>2. PICK h : Chosen(h, s, Len(s), Fixed, q)
  BY <1>1, OnlyChosen
<1>3. \A i \in 1..Len(q) : q[i] \in Among(s)
  BY <1>2 DEF Chosen, Among
<1>4. \A i \in 2..Len(q) : i \in 1..Len(q)
  OBVIOUS
<1>5. CrossingsOf(s) \subseteq {q[i] : i \in 2..Len(q)}
  BY <1>1 DEF CrossingsOf, Across
<1>6. \A i \in 1..Len(q) : q[i] \in Watch!Number
  OBVIOUS
<1> QED BY <1>3, <1>4, <1>5, <1>6

LEMMA CrossingsCount ==
    ASSUME NEW S, S \subseteq Watch!Number, NEW x \in Watch!Number
    PROVE  /\ Cardinality(S) \in Nat
           /\ Cardinality(S \cup {x}) \in Nat /\ Cardinality(S \cup {x}) <= Cardinality(S) + 1
<1>1. IsFiniteSet(Watch!Number)
  <2>1. 1 \in Int /\ MaxPoints \in Int
    BY PointBounds
  <2> QED BY <2>1, FS_Interval DEF Watch!Number
<1>2. IsFiniteSet(S)
  BY <1>1, FS_Subset
<1>3. Cardinality(S) \in Nat
  BY <1>2, FS_CardinalityType
<1>4. Cardinality(S \cup {x}) = IF x \in S THEN Cardinality(S) ELSE Cardinality(S) + 1
  BY <1>2, FS_AddElement
<1> QED BY <1>3, <1>4

LEMMA CrossingsFinite ==
    ASSUME NEW s \in Seq(Watch!Number)
    PROVE  Cardinality(CrossingsOf(s)) \in Nat
<1>1. IsFiniteSet(Watch!Number)
  <2>1. 1 \in Int /\ MaxPoints \in Int
    BY PointBounds
  <2> QED BY <2>1, FS_Interval DEF Watch!Number
<1>2. IsFiniteSet(CrossingsOf(s))
  BY <1>1, CrossingsSeen, FS_Subset
<1> QED BY <1>2, FS_CardinalityType

LEMMA SameTrip ==
    ASSUME trip' = trip
    PROVE  CrossingsOf(seen)' = CrossingsOf(seen') /\ SideOf(seen)' = SideOf(seen')
BY DEF CrossingsOf, SideOf, Across, EndsAt, Fixed

LEMMA HeldTyped == ASSUME Watch!TypeOK, NEW t \in Task
                   PROVE HeldBy(points[t]) \in Seq(Watch!Number)
BY TaskHolds DEF HeldBy

(* Whoever is not under way fits.                                          *)
LEMMA IdleFits ==
    ASSUME NEW t \in Task
    PROVE  /\ points[t] = Watch!Idle
                 => TaskFits(t) /\ Distinct(HeldBy(points[t])) /\ Among(HeldBy(points[t])) = {}
           /\ points'[t] = Watch!Idle
                 => TaskFits(t)' /\ Distinct(HeldBy(points'[t])) /\ Among(HeldBy(points'[t])) = {}
<1>1. HeldBy(Watch!Idle) = <<>> /\ Among(<<>>) = {} /\ Distinct(<<>>) /\ Watch!Idle.pc = "idle"
  BY DEF HeldBy, Among, Distinct, Watch!Idle
<1> QED BY <1>1 DEF TaskFits

(* When one task is under way alone, so it is after its step.              *)
LEMMA OneSteps ==
    ASSUME Watch!TypeOK, Alone, NEW t \in Task, Watch!Running(t), NEW v,
           points' = [points EXCEPT ![t] = v]
    PROVE  /\ points'[t] = v /\ \A u \in Task : u # t
                 => points[u] = Watch!Idle /\ points'[u] = Watch!Idle
           /\ Alone'
           /\ \A p \in {"event", "notify"} :
                 /\ TasksAt(p) = IF points[t].pc = p THEN 1 ELSE 0
                 /\ TasksAt(p)' = IF v.pc = p THEN 1 ELSE 0
<1>1. points'[t] = v /\ \A u \in Task : u # t => points[u] = Watch!Idle /\ points'[u] = Watch!Idle
  BY DEF Alone, Watch!Running, Watch!TypeOK
<1>2. Alone'
  BY <1>1 DEF Alone, Watch!Running
<1>3. Watch!Idle.pc = "idle"
  BY DEF Watch!Idle
<1>4. ASSUME NEW p \in {"event", "notify"}
      PROVE  /\ (\E u \in Task : points[u].pc = p) <=> points[t].pc = p
             /\ (\E u \in Task : points'[u].pc = p) <=> v.pc = p
  BY <1>1, <1>3
<1> QED BY <1>1, <1>2, <1>4 DEF TasksAt

LEMMA HeldStep ==
    ASSUME Watch!TypeOK, HeldFits, NEW t \in Task, NEW v, points' = [points EXCEPT ![t] = v],
           stored \subseteq stored', Among(seen') \subseteq stored',
           Distinct(HeldBy(v)), Among(HeldBy(v)) \subseteq stored'
    PROVE  HeldFits'
<1>1. \A u \in Task : points'[u] = IF u = t THEN v ELSE points[u]
  BY DEF Watch!TypeOK
<1>2. ASSUME NEW u \in Task PROVE Distinct(HeldBy(points'[u]))
             /\ Among(HeldBy(points'[u])) \subseteq stored'
  <2>1. CASE u = t
    BY <1>1, <2>1
  <2>2. CASE u # t
    BY <1>1, <2>2 DEF HeldFits
  <2> QED BY <2>1, <2>2
<1> QED BY <1>2 DEF HeldFits

-----------------------------------------------------------------------------
LEMMA WatchInit == Watch!Init => WatchInv
<1> SUFFICES ASSUME Watch!Init PROVE WatchInv
  OBVIOUS
<1>1. Watch!TypeOK
  BY PointTypeInit
<1>2. \A t \in Task : points[t] = Watch!Idle
  BY DEF Watch!Init
<1>3. seen = <<>> /\ Among(seen) = {} /\ events = <<>> /\ Len(events) = 0 /\ notices = 0
      /\ failures = 0
  BY DEF Watch!Init, Among
<1>4. HeldFits
  BY <1>2, <1>3, IdleFits DEF HeldFits
<1>5. SideOf(seen) = "unknown" /\ CrossingsOf(seen) = {}
  <2>1. Only(seen, Fixed) = <<>>
    BY <1>3, OnlyEmpty
  <2>2. EndsAt(<<>>) = "unknown" /\ Across(<<>>) = {}
    BY DEF EndsAt, Across
  <2> QED BY <2>1, <2>2 DEF SideOf, CrossingsOf
<1>6. TasksAt("event") = 0 /\ TasksAt("notify") = 0
  BY <1>2 DEF TasksAt, Watch!Idle
<1>7. Cardinality(CrossingsOf(seen)) = 0
  BY <1>5, FS_EmptySet
<1>8. Recorded /\ Counted
  BY <1>3, <1>6, <1>7 DEF Recorded, Counted
<1>9. Alone
  BY <1>2 DEF Alone, Watch!Running
<1>10. inside = SideOf(seen)
  BY <1>5 DEF Watch!Init
<1> QED BY <1>1, <1>2, <1>4, <1>8, <1>9, <1>10, IdleFits DEF WatchInv, InTurn

LEMMA WatchOnPoints ==
    ASSUME WatchInv, Watch!TypeOK', NEW t \in Task, NEW from \in Watch!Number,
           NEW to \in from..MaxPoints,
           Watch!OnPoints(t, from, to)
    PROVE  WatchInv'
<1>1. PICK b \in Seq(Watch!Number) : b = [i \in 1..(to - from + 1) |-> from + i - 1]
  BY NewTyped DEF WatchInv
<1>2. PICK q \in Seq(Watch!Number) : q = Only(b, Watch!Number \ stored)
  BY OnlyChosen
<1>3. PICK h : Chosen(h, b, Len(b), Watch!Number \ stored, q)
  BY <1>2, OnlyChosen
<1>4. PICK v : v = [pc |-> "rules", batch |-> q]
  OBVIOUS
<1>5. points' = [points EXCEPT ![t] = v] /\ points[t] = Watch!Idle
  BY <1>1, <1>2, <1>4, WatchOnly DEF Watch!OnPoints
<1>6. HeldBy(v) = q
  BY <1>4 DEF HeldBy
<1>7. from \in Nat /\ to \in Nat /\ from <= to
  BY PointBounds DEF Watch!Number
<1>8. Len(b) = to - from + 1 /\ \A i \in 1..Len(b) : b[i] = from + i - 1 /\ b[i] \in from..to
  BY <1>1, <1>7
<1>9. Distinct(q)
  <2> SUFFICES ASSUME NEW i \in 1..Len(q), NEW j \in 1..Len(q), q[i] = q[j] PROVE i = j
    BY DEF Distinct
  <2>1. h[i] \in 1..Len(b) /\ h[j] \in 1..Len(b) /\ b[h[i]] = b[h[j]]
    BY <1>3 DEF Chosen
  <2>2. h[i] = h[j]
    <3>1. PICK k \in 1..Len(b), l \in 1..Len(b) : k = h[i] /\ l = h[j]
      BY <2>1
    <3>2. from + k - 1 = from + l - 1
      BY <1>8, <2>1, <3>1
    <3> QED BY <1>7, <3>1, <3>2
  <2>3. ~(i < j) /\ ~(j < i)
    <3>1. (i < j => h[i] < h[j]) /\ (j < i => h[j] < h[i])
      BY <1>3 DEF Chosen
    <3> QED BY <1>8, <2>1, <2>2, <3>1
  <2> QED BY <2>3
<1>10. Among(q) \subseteq from..to /\ Among(q) \cap stored = {}
  BY <1>3, <1>8 DEF Chosen, Among
<1>11. HeldFits'
  <2>1. stored' = stored \cup from..to /\ seen' = seen
    BY DEF Watch!OnPoints
  <2>2. Watch!TypeOK /\ HeldFits
    BY DEF WatchInv
  <2>3. Among(seen') \subseteq stored' /\ stored \subseteq stored'
    BY <2>1, <2>2 DEF HeldFits
  <2> QED BY <1>5, <1>6, <1>9, <1>10, <2>1, <2>2, <2>3, HeldStep
<1>12. ASSUME ~overlapped' PROVE InTurn'
  <2>1. ~overlapped /\ \A u \in Task : points[u] = Watch!Idle
    BY <1>12 DEF Watch!OnPoints, Watch!Running
  <2>2. InTurn /\ HeldFits /\ Watch!TypeOK
    BY <2>1 DEF WatchInv
  <2>3. points'[t] = v /\ \A u \in Task : u # t => points'[u] = Watch!Idle
    BY <1>5, <2>1, <2>2 DEF Watch!TypeOK
  <2>4. UNCHANGED <<trip, inside, events, notices, failures, seen>>
    BY DEF Watch!OnPoints
  <2>5. UNCHANGED <<CrossingsOf(seen), SideOf(seen), Told>>
    BY <2>4, SameTrip DEF Told
  <2>6. TasksAt("event") = 0 /\ TasksAt("event")' = 0 /\ TasksAt("notify") = 0
        /\ TasksAt("notify")' = 0
    BY <1>4, <2>1, <2>3 DEF TasksAt, Watch!Idle
  <2>7. Alone'
    BY <2>3 DEF Alone, Watch!Running
  <2>8. TaskFits(t)'
    <3>1. Among(q) \cap Among(seen) = {}
      BY <1>10, <2>2 DEF HeldFits
    <3> QED BY <1>4, <1>6, <2>3, <2>4, <3>1 DEF TaskFits
  <2>9. \A u \in Task : TaskFits(u)'
    BY <2>3, <2>8, IdleFits
  <2>10. Recorded'
    BY <2>2, <2>4, <2>5 DEF Recorded, InTurn
  <2>11. Counted'
    BY <2>2, <2>4, <2>5, <2>6 DEF Counted, InTurn
  <2> QED BY <2>2, <2>4, <2>5, <2>7, <2>9, <2>10, <2>11 DEF InTurn
<1> QED BY <1>11, <1>12 DEF WatchInv

(* A step of the task that leaves what is seen, stored and told alone.     *)
LEMMA WatchGoesOn ==
    ASSUME WatchInv, Watch!TypeOK', NEW t \in Task, Watch!Running(t), NEW v,
           points' = [points EXCEPT ![t] = v],
           v.pc \notin {"event", "notify"}, HeldBy(v) = HeldBy(points[t]) \/ v = Watch!Idle,
           v.pc = "zone" => v.at = inside \/ (points[t].pc = "notify" /\ v.at = points[t].at),
           UNCHANGED <<trip, stored, inside, events, seen, overlapped>>,
           \/ failures' = failures /\ notices' = notices
              /\ points[t].pc \notin {"event", "notify"}
           \/ failures' = failures /\ notices' = notices + 1 /\ points[t].pc = "notify"
           \/ failures' = failures + 1 /\ notices' = notices
    PROVE  WatchInv'
<1>1. Watch!TypeOK /\ HeldFits
  BY DEF WatchInv
<1>2. Distinct(HeldBy(v)) /\ Among(HeldBy(v)) \subseteq Among(HeldBy(points[t]))
  <2>1. HeldBy(Watch!Idle) = <<>> /\ Among(<<>>) = {} /\ Distinct(<<>>)
    BY DEF HeldBy, Among, Distinct, Watch!Idle
  <2> QED BY <1>1, <2>1 DEF HeldFits
<1>3. HeldFits'
  <2>1. stored \subseteq stored' /\ Among(seen') \subseteq stored'
        /\ Among(HeldBy(v)) \subseteq stored'
    BY <1>1, <1>2 DEF HeldFits
  <2> QED BY <1>1, <1>2, <2>1, HeldStep
<1>4. ASSUME ~overlapped' PROVE InTurn'
  <2>1. InTurn
    BY <1>4 DEF WatchInv
  <2>2. Alone
    BY <2>1 DEF InTurn
  <2>3. /\ points'[t] = v /\ \A u \in Task : u # t => points'[u] = Watch!Idle
        /\ Alone'
        /\ TasksAt("event") = IF points[t].pc = "event" THEN 1 ELSE 0
        /\ TasksAt("notify") = IF points[t].pc = "notify" THEN 1 ELSE 0
        /\ TasksAt("event")' = 0 /\ TasksAt("notify")' = 0
    BY <1>1, <2>2, OneSteps
  <2>4. UNCHANGED <<CrossingsOf(seen), SideOf(seen), Told>>
    BY SameTrip DEF Told
  <2>5. TaskFits(t)'
    <3>1. TaskFits(t)
      BY <2>1 DEF InTurn
    <3> QED BY <1>2, <2>3, <3>1 DEF TaskFits
  <2>6. \A u \in Task : TaskFits(u)'
    BY <2>3, <2>5, IdleFits
  <2>7. Recorded'
    BY <2>1, <2>4 DEF Recorded, InTurn
  <2>8. Counted'
    <3>1. Cardinality(CrossingsOf(seen)) \in Nat
      BY <1>1, CrossingsFinite DEF Watch!TypeOK
    <3>2. /\ Len(events) \in Nat /\ Len(events') = Len(events) /\ failures \in Nat
             /\ notices \in Nat
          /\ CrossingsOf(seen)' = CrossingsOf(seen)
      BY <1>1, <2>4 DEF Watch!TypeOK
    <3>3. Counted
      BY <2>1 DEF InTurn
    <3> QED BY <2>3, <3>1, <3>2, <3>3 DEF Counted
  <2> QED BY <2>1, <2>3, <2>4, <2>6, <2>7, <2>8 DEF InTurn
<1> QED BY <1>3, <1>4 DEF WatchInv

LEMMA WatchEvent ==
    ASSUME WatchInv, Watch!TypeOK', NEW t \in Task, Watch!InsertEvent(t)
    PROVE  WatchInv'
<1>1. Watch!TypeOK /\ HeldFits /\ Watch!Running(t)
  BY DEF WatchInv, Watch!InsertEvent, Watch!Running, Watch!Idle
<1>2. PICK at \in Watch!Side, n \in Watch!Number, b \in Seq(Watch!Number) :
         points[t].at = at /\ points[t].point = n /\ points[t].todo = b
  BY <1>1, TaskHolds DEF Watch!InsertEvent
<1>3. PICK v : v = [points[t] EXCEPT !.pc = "notify"]
  OBVIOUS
<1>4. v.pc = "notify" /\ v.at = at /\ v.todo = b /\ points[t].pc = "event"
  <2>1. points[t] \in Watch!TaskState /\ points[t].pc = "event"
    BY <1>1 DEF Watch!TypeOK, Watch!InsertEvent
  <2> QED BY <1>2, <1>3, <2>1 DEF Watch!TaskState
<1>5. points' = [points EXCEPT ![t] = v]
  BY <1>3 DEF Watch!InsertEvent
<1>6. HeldBy(v) = b /\ HeldBy(points[t]) = b
  BY <1>2, <1>4 DEF HeldBy
<1>7. UNCHANGED <<trip, stored, inside, notices, failures, seen, overlapped>>
  BY DEF Watch!InsertEvent
<1>8. HeldFits'
  <2>1. Distinct(b) /\ Among(b) \subseteq stored /\ Among(seen') \subseteq stored'
        /\ stored \subseteq stored'
    BY <1>1, <1>6, <1>7 DEF HeldFits
  <2> QED BY <1>1, <1>5, <1>6, <1>7, <2>1, HeldStep
<1>9. ASSUME ~overlapped' PROVE InTurn'
  <2>1. InTurn
    BY <1>7, <1>9 DEF WatchInv
  <2>2. Alone
    BY <2>1 DEF InTurn
  <2>3. /\ points'[t] = v /\ \A u \in Task : u # t => points'[u] = Watch!Idle
        /\ Alone'
        /\ TasksAt("event") = 1 /\ TasksAt("notify") = 0
        /\ TasksAt("event")' = 0 /\ TasksAt("notify")' = 1
    BY <1>1, <1>4, <1>5, <2>2, OneSteps
  <2>4. UNCHANGED <<CrossingsOf(seen), SideOf(seen)>>
    BY <1>7, SameTrip
  <2>5. /\ Among(b) \cap Among(seen) = {} /\ at = inside
        /\ n \in CrossingsOf(seen) \ Told /\ trip[n].fix = at
    <3>1. TaskFits(t)
      BY <2>1 DEF InTurn
    <3> QED BY <1>2, <1>4, <1>6, <3>1 DEF TaskFits
  <2>6. TaskFits(t)'
    BY <1>4, <1>6, <1>7, <2>3, <2>5 DEF TaskFits
  <2>7. \A u \in Task : TaskFits(u)'
    BY <2>3, <2>6, IdleFits
  <2>8. PICK old \in Seq(Watch!Event) : old = events
    BY <1>1 DEF Watch!TypeOK
  <2>9. PICK e \in Watch!Event : e = [kind |-> IF at = "inside" THEN "enter" ELSE "exit",
             point |-> n]
    <3>1. PICK k \in {"enter", "exit"} : k = IF at = "inside" THEN "enter" ELSE "exit"
      OBVIOUS
    <3>2. [kind |-> k, point |-> n] \in Watch!Event
      BY DEF Watch!Event
    <3> QED BY <3>1, <3>2
  <2>10. events' = Append(old, e)
    BY <1>2, <2>8, <2>9 DEF Watch!InsertEvent
  <2>11. PICK m \in Nat : m = Len(old)
    OBVIOUS
  <2>12. /\ Len(events') = m + 1 /\ Len(events) = m /\ events'[m + 1] = e
         /\ \A i \in 1..m : events'[i] = events[i]
    BY <2>8, <2>10, <2>11
  <2>13. e.point = n /\ (e.kind = "enter" <=> trip[n].fix = "inside")
    BY <2>5, <2>9
  <2>14. Recorded
    BY <2>1 DEF InTurn
  <2>15. Recorded'
    <3>1. \A i \in 1..m : events[i].point # n
      BY <2>5, <2>12 DEF Told
    <3>2. ASSUME NEW i \in 1..(m + 1)
          PROVE  /\ events'[i].point \in CrossingsOf(seen)
                 /\ events'[i].kind = "enter" <=> trip[events'[i].point].fix = "inside"
      <4>1. CASE i = m + 1
        BY <2>5, <2>12, <2>13, <4>1
      <4>2. CASE i # m + 1
        <5>1. i \in 1..m
          BY <4>2
        <5> QED BY <2>12, <2>14, <5>1 DEF Recorded
      <4> QED BY <4>1, <4>2
    <3>3. ASSUME NEW i \in 1..(m + 1), NEW j \in 1..(m + 1), events'[i].point = events'[j].point
          PROVE  i = j
      <4>1. CASE i \in 1..m /\ j \in 1..m
        BY <2>12, <2>14, <3>3, <4>1 DEF Recorded
      <4>2. CASE ~(i \in 1..m /\ j \in 1..m)
        <5>1. (i = m + 1 \/ i \in 1..m) /\ (j = m + 1 \/ j \in 1..m)
          OBVIOUS
        <5> QED BY <2>12, <2>13, <3>1, <3>3, <4>2, <5>1
      <4> QED BY <4>1, <4>2
    <3> QED BY <1>7, <2>4, <2>12, <3>2, <3>3 DEF Recorded
  <2>16. Counted'
    <3>1. Cardinality(CrossingsOf(seen)) \in Nat
      BY <1>1, CrossingsFinite DEF Watch!TypeOK
    <3>2. failures \in Nat /\ notices \in Nat
      BY <1>1 DEF Watch!TypeOK
    <3>3. Counted
      BY <2>1 DEF InTurn
    <3>4. m \in Nat /\ Len(events) = m /\ Len(events') = m + 1
      BY <2>12
    <3>5. Cardinality(CrossingsOf(seen))' <= Len(events') + failures' + TasksAt("event")'
      BY <1>7, <2>3, <2>4, <3>1, <3>2, <3>3, <3>4 DEF Counted
    <3>6. notices' + TasksAt("notify")' <= Len(events')
      BY <1>7, <2>3, <3>2, <3>3, <3>4 DEF Counted
    <3>7. Len(events') <= notices' + failures' + TasksAt("notify")'
      BY <1>7, <2>3, <3>2, <3>3, <3>4 DEF Counted
    <3> QED BY <3>5, <3>6, <3>7 DEF Counted
  <2> QED BY <1>7, <2>1, <2>3, <2>4, <2>7, <2>15, <2>16 DEF InTurn
<1> QED BY <1>8, <1>9 DEF WatchInv

(* The task goes on to the first change, or to the end.                    *)
LEMMA PartsOf ==
    ASSUME NEW todo \in Seq(Watch!Number), NEW i \in 1..Len(todo)
    PROVE  LET rest == SubSeq(todo, i + 1, Len(todo))
           IN  /\ rest \in Seq(Watch!Number) /\ Among(rest) \subseteq Among(todo)
               /\ Distinct(todo) => /\ Distinct(rest)
                                    /\ Among(rest) \cap Among(SubSeq(todo, 1, i)) = {}
               /\ Among(SubSeq(todo, 1, i)) \subseteq Among(todo)
<1>1. PICK rest : rest = SubSeq(todo, i + 1, Len(todo))
  OBVIOUS
<1>2. PICK front : front = SubSeq(todo, 1, i)
  OBVIOUS
<1>3. /\ rest \in Seq(Watch!Number) /\ Len(rest) = Len(todo) - i
      /\ \A k \in 1..Len(rest) : rest[k] = todo[i + k] /\ i + k \in 1..Len(todo)
  BY <1>1
<1>4. Len(front) = i /\ \A k \in 1..Len(front) : front[k] = todo[k] /\ k \in 1..Len(todo)
  BY <1>2
<1>5. Among(rest) \subseteq Among(todo) /\ Among(front) \subseteq Among(todo)
  <2>1. ASSUME NEW k \in 1..Len(rest) PROVE rest[k] \in Among(todo)
    BY <1>3 DEF Among
  <2>2. ASSUME NEW k \in 1..Len(front) PROVE front[k] \in Among(todo)
    BY <1>4 DEF Among
  <2> QED BY <2>1, <2>2 DEF Among
<1>6. ASSUME Distinct(todo) PROVE Distinct(rest)
  <2> SUFFICES ASSUME NEW j \in 1..Len(rest), NEW k \in 1..Len(rest), rest[j] = rest[k]
               PROVE j = k
    BY DEF Distinct
  <2>1. i + j = i + k
    BY <1>3, <1>6 DEF Distinct
  <2> QED BY <2>1
<1>7. ASSUME Distinct(todo) PROVE Among(rest) \cap Among(front) = {}
  <2> SUFFICES ASSUME NEW j \in 1..Len(rest), NEW k \in 1..Len(front), rest[j] = front[k]
               PROVE FALSE
    BY DEF Among
  <2>1. i + j = k
    BY <1>3, <1>4, <1>7 DEF Distinct
  <2> QED BY <1>4, <2>1
<1> QED BY <1>1, <1>2, <1>3, <1>5, <1>6, <1>7

LEMMA InConcat ==
    ASSUME NEW s \in Seq(Watch!Number), NEW r \in Seq(Watch!Number)
    PROVE  Among(s \o r) = Among(s) \cup Among(r)
<1>1. PICK q : q = s \o r
  OBVIOUS
<1>2. /\ Len(q) = Len(s) + Len(r) /\ Len(s) \in Nat /\ Len(r) \in Nat
      /\ \A i \in 1..Len(s) : q[i] = s[i] /\ i \in 1..Len(q)
      /\ \A i \in 1..Len(r) : q[Len(s) + i] = r[i] /\ Len(s) + i \in 1..Len(q)
  BY <1>1
<1>3. Among(s) \cup Among(r) \subseteq Among(q)
  BY <1>2 DEF Among
<1>4. ASSUME NEW i \in 1..Len(q) PROVE q[i] \in Among(s) \cup Among(r)
  <2>1. CASE i \in 1..Len(s)
    BY <1>2, <2>1 DEF Among
  <2>2. CASE i \notin 1..Len(s)
    <3>1. i - Len(s) \in 1..Len(r) /\ Len(s) + (i - Len(s)) = i
      BY <1>2, <2>2
    <3> QED BY <1>2, <3>1 DEF Among
  <2> QED BY <2>1, <2>2
<1>5. Among(q) \subseteq Among(s) \cup Among(r)
  BY <1>4 DEF Among
<1> QED BY <1>1, <1>3, <1>5

(* Whose fix is where the car is seen next, and whether it crossed there.  *)
Changed(s, r, x) ==
    /\ SideOf(r) = trip[x].fix
    /\ SideOf(s) = "unknown" => CrossingsOf(r) = CrossingsOf(s)
    /\ SideOf(s) # "unknown" => CrossingsOf(r) = CrossingsOf(s) \cup {x}

LEMMA FirstChangeAt ==
    ASSUME trip \in [Watch!Number -> Watch!Point], NEW s \in Seq(Watch!Number),
           NEW todo \in Seq(Watch!Number),
           NEW i \in Watch!Changes(todo, SideOf(s)),
           \A j \in Watch!Changes(todo, SideOf(s)) : i <= j
    PROVE  Changed(s, s \o SubSeq(todo, 1, i), todo[i])
<1>1. LET q == s \o SubSeq(todo, 1, i)
      IN  /\ SideOf(q) = trip[todo[i]].fix
          /\ SideOf(s) = "unknown" => CrossingsOf(q) = CrossingsOf(s)
          /\ SideOf(s) # "unknown" => CrossingsOf(q) = CrossingsOf(s) \cup {todo[i]}
  BY FirstChange
<1> QED BY <1>1 DEF Changed

LEMMA WatchChange ==
    ASSUME WatchInv, Watch!TypeOK', NEW t \in Task, Watch!EvaluateZone(t),
           NEW todo \in Seq(Watch!Number), todo = points[t].todo,
           NEW at \in Watch!Side \cup {"unknown"}, at = points[t].at,
           NEW i \in Watch!Changes(todo, at), \A j \in Watch!Changes(todo, at) : i <= j,
           inside' = trip[todo[i]].fix,
           points' = [points EXCEPT ![t] =
               IF Watch!FirstSight(at)
               THEN [pc |-> "zone", todo |-> SubSeq(todo, i + 1, Len(todo)),
                     at |-> trip[todo[i]].fix]
               ELSE [pc |-> "event", todo |-> SubSeq(todo, i + 1, Len(todo)),
                     at |-> trip[todo[i]].fix, point |-> todo[i]]],
           seen' = seen \o SubSeq(todo, 1, i),
           SideOf(seen) = at => Changed(seen, seen \o SubSeq(todo, 1, i), todo[i])
    PROVE  WatchInv'
<1>1. Watch!TypeOK /\ HeldFits /\ Watch!Running(t) /\ points[t].pc = "zone"
  <2>1. points[t].pc = "zone" /\ Watch!Idle.pc = "idle"
    BY DEF Watch!EvaluateZone, Watch!Idle
  <2>2. Watch!Running(t)
    BY <2>1 DEF Watch!Running
  <2> QED BY <2>1, <2>2 DEF WatchInv
<1>2. i \in 1..Len(todo) /\ todo[i] \in Watch!Number /\ trip[todo[i]].fix \in Watch!Side
      /\ trip[todo[i]].fix # at
  BY DEF Watch!Changes
<1>3. PICK x \in Watch!Number, side \in Watch!Side : x = todo[i] /\ side = trip[x].fix
  BY <1>2
<1>4. PICK rest \in Seq(Watch!Number) : rest = SubSeq(todo, i + 1, Len(todo))
  BY <1>2, PartsOf
<1>5. PICK front \in Seq(Watch!Number) : front = SubSeq(todo, 1, i)
  BY <1>2, TailTyped
<1>6. PICK v : v = IF Watch!FirstSight(at) THEN [pc |-> "zone", todo |-> rest, at |-> side]
                   ELSE [pc |-> "event", todo |-> rest, at |-> side, point |-> x]
  OBVIOUS
<1>7. points' = [points EXCEPT ![t] = v] /\ inside' = side /\ seen' = seen \o front
  BY <1>3, <1>4, <1>5, <1>6
<1>8. /\ HeldBy(v) = rest /\ HeldBy(points[t]) = todo /\ v.at = side
      /\ v.pc = IF Watch!FirstSight(at) THEN "zone" ELSE "event"
      /\ v.pc = "event" => v.point = x
  BY <1>1, <1>6 DEF HeldBy
<1>9. Distinct(todo) /\ Among(todo) \subseteq stored /\ Among(seen) \subseteq stored
  BY <1>1, <1>8 DEF HeldFits
<1>10. /\ Distinct(rest) /\ Among(rest) \subseteq Among(todo)
          /\ Among(front) \subseteq Among(todo)
       /\ Among(rest) \cap Among(front) = {}
  BY <1>2, <1>4, <1>5, <1>9, PartsOf
<1>11. Among(seen') = Among(seen) \cup Among(front)
  BY <1>1, <1>7, InConcat DEF Watch!TypeOK
<1>12. UNCHANGED <<trip, stored, events, notices, failures, overlapped>>
  BY DEF Watch!EvaluateZone
<1>13. HeldFits'
  <2>1. Among(seen') \subseteq stored' /\ stored \subseteq stored'
        /\ Among(rest) \subseteq stored'
    BY <1>9, <1>10, <1>11, <1>12
  <2> QED BY <1>1, <1>7, <1>8, <1>10, <2>1, HeldStep
<1>14. ASSUME ~overlapped' PROVE InTurn'
  <2>1. InTurn
    BY <1>12, <1>14 DEF WatchInv
  <2>2. Alone /\ TaskFits(t)
    BY <2>1 DEF InTurn
  <2>3. /\ points'[t] = v /\ \A u \in Task : u # t => points'[u] = Watch!Idle
        /\ Alone'
        /\ TasksAt("event") = 0 /\ TasksAt("notify") = 0
        /\ TasksAt("event")' = (IF v.pc = "event" THEN 1 ELSE 0) /\ TasksAt("notify")' = 0
    BY <1>1, <1>7, <1>8, <2>2, OneSteps
  <2>4. Among(todo) \cap Among(seen) = {} /\ at = SideOf(seen)
    <3>1. Among(HeldBy(points[t])) \cap Among(seen) = {}
      BY <1>1, <2>2 DEF TaskFits
    <3>2. points[t].at = SideOf(seen)
      BY <1>1, <2>1, <2>2 DEF TaskFits, InTurn
    <3> QED BY <1>8, <3>1, <3>2
  <2>5. PICK s \in Seq(Watch!Number) : s = seen
    BY <1>1 DEF Watch!TypeOK
  <2>6. PICK r : r = s \o front
    OBVIOUS
  <2>7. /\ SideOf(r) = side
        /\ SideOf(s) = "unknown" => CrossingsOf(r) = CrossingsOf(s)
        /\ SideOf(s) # "unknown" => CrossingsOf(r) = CrossingsOf(s) \cup {x}
    <3>1. Changed(s, r, x)
      BY <1>3, <1>5, <2>4, <2>5, <2>6
    <3>2. trip[x].fix = side
      BY <1>3
    <3> QED BY <3>1, <3>2 DEF Changed
  <2>8. seen' = r /\ SideOf(seen)' = SideOf(r) /\ CrossingsOf(seen)' = CrossingsOf(r)
    BY <1>7, <1>12, <2>5, <2>6, SameTrip
  <2>9. inside' = SideOf(seen)'
    BY <1>7, <2>7, <2>8
  <2>10. x \in Among(front) /\ x \in Among(todo)
    <3>1. i \in 1..Len(front) /\ front[i] = x
      BY <1>2, <1>3, <1>5
    <3> QED BY <1>10, <3>1 DEF Among
  <2>11. Recorded /\ Told \subseteq CrossingsOf(seen) /\ CrossingsOf(seen) \subseteq Among(seen)
    <3>1. Recorded
      BY <2>1 DEF InTurn
    <3>2. CrossingsOf(seen) \subseteq Among(seen)
      BY <2>5, CrossingsSeen
    <3> QED BY <3>1, <3>2 DEF Recorded, Told
  <2>12. CrossingsOf(seen) \subseteq CrossingsOf(seen)' /\ Told' = Told
    BY <1>12, <2>5, <2>7, <2>8 DEF Told
  <2>13. v.pc = "event" => at # "unknown"
    BY <1>8 DEF Watch!FirstSight
  <2>14. v.pc = "zone" => at = "unknown"
    BY <1>8 DEF Watch!FirstSight
  <2>15. TaskFits(t)'
    <3>1. Among(rest) \cap Among(seen') = {}
      BY <1>10, <1>11, <2>4
    <3>2. v.pc = "event" => x \in CrossingsOf(seen)' \ Told'
      BY <2>4, <2>5, <2>7, <2>8, <2>10, <2>11, <2>12, <2>13
    <3>3. v.pc \in {"zone", "event"}
      BY <1>8
    <3> QED BY <1>3, <1>7, <1>8, <1>12, <2>3, <3>1, <3>2, <3>3 DEF TaskFits
  <2>16. \A u \in Task : TaskFits(u)'
    BY <2>3, <2>15, IdleFits
  <2>17. Recorded'
    BY <1>12, <2>11, <2>12 DEF Recorded
  <2>18. Counted'
    <3>1. Cardinality(CrossingsOf(s)) \in Nat /\ Cardinality(CrossingsOf(r)) \in Nat
      <4>1. r \in Seq(Watch!Number)
        BY <2>6
      <4> QED BY <4>1, CrossingsFinite
    <3>2. Cardinality(CrossingsOf(r)) <=
             Cardinality(CrossingsOf(s)) + IF v.pc = "event" THEN 1 ELSE 0
      <4>1. CASE v.pc = "event"
        <5>1. CrossingsOf(r) = CrossingsOf(s) \cup {x}
          BY <2>4, <2>5, <2>7, <2>13, <4>1
        <5> QED BY <4>1, <5>1, CrossingsSeen, CrossingsCount
      <4>2. CASE v.pc # "event"
        <5>1. CrossingsOf(r) = CrossingsOf(s)
          BY <1>8, <2>4, <2>5, <2>7, <2>14, <4>2
        <5> QED BY <3>1, <4>2, <5>1
      <4> QED BY <4>1, <4>2
    <3>3. Len(events) \in Nat /\ failures \in Nat /\ notices \in Nat
      BY <1>1 DEF Watch!TypeOK
    <3>4. Counted
      BY <2>1 DEF InTurn
    <3> QED BY <1>12, <2>3, <2>5, <2>8, <3>1, <3>2, <3>3, <3>4 DEF Counted
  <2> QED BY <2>3, <2>9, <2>16, <2>17, <2>18 DEF InTurn
<1> QED BY <1>13, <1>14 DEF WatchInv

LEMMA WatchEnds ==
    ASSUME WatchInv, Watch!TypeOK', NEW t \in Task, Watch!EvaluateZone(t),
           NEW todo \in Seq(Watch!Number), todo = points[t].todo,
           NEW at \in Watch!Side \cup {"unknown"}, at = points[t].at,
           Watch!Changes(todo, at) = {}, points' = [points EXCEPT ![t] = Watch!Idle],
           seen' = seen \o todo, UNCHANGED inside
    PROVE  WatchInv'
<1>1. Watch!TypeOK /\ HeldFits /\ Watch!Running(t) /\ points[t].pc = "zone"
      /\ HeldBy(points[t]) = todo
  BY DEF WatchInv, Watch!EvaluateZone, Watch!Running, Watch!Idle, HeldBy
<1>2. Among(todo) \subseteq stored /\ Among(seen) \subseteq stored
  BY <1>1 DEF HeldFits
<1>3. Among(seen') = Among(seen) \cup Among(todo)
  BY <1>1, InConcat DEF Watch!TypeOK
<1>4. UNCHANGED <<trip, stored, events, notices, failures, overlapped>>
  BY DEF Watch!EvaluateZone
<1>5. HeldBy(Watch!Idle) = <<>> /\ Among(<<>>) = {} /\ Distinct(<<>>) /\ Watch!Idle.pc = "idle"
  BY DEF HeldBy, Among, Distinct, Watch!Idle
<1>6. HeldFits'
  <2>1. Among(seen') \subseteq stored' /\ stored \subseteq stored' /\ Distinct(HeldBy(Watch!Idle))
        /\ Among(HeldBy(Watch!Idle)) \subseteq stored'
    BY <1>2, <1>3, <1>4, <1>5
  <2> QED BY <1>1, <2>1, HeldStep
<1>7. ASSUME ~overlapped' PROVE InTurn'
  <2>1. InTurn
    BY <1>4, <1>7 DEF WatchInv
  <2>2. Alone /\ TaskFits(t)
    BY <2>1 DEF InTurn
  <2>3. /\ points'[t] = Watch!Idle /\ \A u \in Task : u # t => points'[u] = Watch!Idle
        /\ Alone'
        /\ TasksAt("event") = 0 /\ TasksAt("notify") = 0
        /\ TasksAt("event")' = 0 /\ TasksAt("notify")' = 0
    BY <1>1, <1>5, <2>2, OneSteps
  <2>4. at = SideOf(seen)
    BY <1>1, <2>1, <2>2 DEF TaskFits, InTurn
  <2>5. PICK s \in Seq(Watch!Number) : s = seen
    BY <1>1 DEF Watch!TypeOK
  <2>6. SubSeq(todo, 1, Len(todo)) = todo /\ Len(todo) \in 0..Len(todo)
    OBVIOUS
  <2>7. SideOf(s \o todo) = SideOf(s) /\ CrossingsOf(s \o todo) = CrossingsOf(s)
    <3>1. trip \in [Watch!Number -> Watch!Point]
      BY <1>1 DEF Watch!TypeOK
    <3>2. \A j \in Watch!Changes(todo, SideOf(s)) : Len(todo) < j
      BY <2>4, <2>5
    <3>3. LET r == s \o SubSeq(todo, 1, Len(todo))
          IN  SideOf(r) = SideOf(s) /\ CrossingsOf(r) = CrossingsOf(s)
      BY <2>6, <3>1, <3>2, NothingChanges
    <3> QED BY <2>6, <3>3
  <2>8. UNCHANGED <<CrossingsOf(seen), SideOf(seen), Told>>
    BY <1>4, <2>5, <2>7, SameTrip DEF Told
  <2>9. \A u \in Task : TaskFits(u)'
    BY <2>3, IdleFits
  <2>10. Recorded'
    BY <1>4, <2>1, <2>8 DEF Recorded, InTurn
  <2>11. Counted'
    BY <1>4, <2>1, <2>3, <2>8 DEF Counted, InTurn
  <2> QED BY <2>1, <2>3, <2>8, <2>9, <2>10, <2>11 DEF InTurn
<1> QED BY <1>6, <1>7 DEF WatchInv

LEMMA WatchNext == ASSUME WatchInv, [Watch!Next]_(Watch!vars) PROVE WatchInv'
<1>0. Watch!TypeOK /\ Watch!TypeOK'
  <2>1. Watch!TypeOK
    BY DEF WatchInv
  <2>2. ASSUME UNCHANGED Watch!vars PROVE Watch!TypeOK'
    BY <2>1, <2>2 DEF Watch!TypeOK, Watch!vars
  <2> QED BY <2>1, <2>2, PointTypeNext
<1>1. ASSUME NEW t \in Task, NEW from \in Watch!Number, NEW to \in from..MaxPoints,
             Watch!OnPoints(t, from, to)
      PROVE  WatchInv'
  BY <1>0, <1>1, WatchOnPoints
<1>2. ASSUME NEW t \in Task, points[t].pc # "idle"
      PROVE  Watch!Running(t)
  BY <1>2 DEF Watch!Running, Watch!Idle
<1>3. ASSUME NEW t \in Task, Watch!EvaluateRules(t) PROVE WatchInv'
  <2>1. PICK b \in Seq(Watch!Number) : b = points[t].batch
    BY <1>0, <1>3, TaskHolds DEF Watch!EvaluateRules
  <2>2. PICK found : found = IF member THEN Watch!CheckRule(b) ELSE 0
    OBVIOUS
  <2>3. PICK v : v = IF found = 0 THEN [pc |-> "read", batch |-> b]
                     ELSE [pc |-> "alert", batch |-> b, worst |-> found]
    OBVIOUS
  <2>4. points' = [points EXCEPT ![t] = v] /\ points[t].pc = "rules"
    BY <1>3, <2>1, <2>2, <2>3 DEF Watch!EvaluateRules
  <2>5. v.pc \in {"read", "alert"} /\ HeldBy(v) = b /\ HeldBy(points[t]) = b
    BY <2>1, <2>3, <2>4 DEF HeldBy
  <2>6. UNCHANGED <<trip, stored, inside, events, notices, failures, seen, overlapped>>
    BY <1>3 DEF Watch!EvaluateRules
  <2> QED BY <1>0, <1>2, <2>4, <2>5, <2>6, WatchGoesOn
<1>4. ASSUME NEW t \in Task, Watch!Alert(t) \/ Watch!RulesFail(t) PROVE WatchInv'
  <2>1. PICK b \in Seq(Watch!Number) : b = points[t].batch
    BY <1>0, <1>4, TaskHolds DEF Watch!Alert, Watch!RulesFail
  <2>2. PICK v : v = [pc |-> "read", batch |-> b]
    OBVIOUS
  <2>3. points' = [points EXCEPT ![t] = v] /\ points[t].pc \in {"rules", "alert"}
    BY <1>0, <1>4, <2>1, <2>2 DEF Watch!Alert, Watch!RulesFail, Watch!TypeOK
  <2>4. v.pc = "read" /\ HeldBy(v) = b /\ HeldBy(points[t]) = b
    BY <2>1, <2>2, <2>3 DEF HeldBy
  <2>5. UNCHANGED <<trip, stored, inside, events, notices, seen, overlapped>>
        /\ (failures' = failures \/ failures' = failures + 1)
    BY <1>4 DEF Watch!Alert, Watch!RulesFail
  <2> QED BY <1>0, <1>2, <2>3, <2>4, <2>5, WatchGoesOn
<1>5. ASSUME NEW t \in Task, Watch!ReadZone(t) PROVE WatchInv'
  <2>1. PICK b \in Seq(Watch!Number) : b = points[t].batch
    BY <1>0, <1>5, TaskHolds DEF Watch!ReadZone
  <2>2. PICK v : v = [pc |-> "zone", todo |-> b, at |-> inside]
    OBVIOUS
  <2>3. points' = [points EXCEPT ![t] = v] /\ points[t].pc = "read"
    BY <1>0, <1>5, <2>1, <2>2 DEF Watch!ReadZone, Watch!TypeOK
  <2>4. v.pc = "zone" /\ v.at = inside /\ HeldBy(v) = b /\ HeldBy(points[t]) = b
    BY <2>1, <2>2, <2>3 DEF HeldBy
  <2>5. UNCHANGED <<trip, stored, inside, events, notices, failures, seen, overlapped>>
    BY <1>5 DEF Watch!ReadZone
  <2> QED BY <1>0, <1>2, <2>3, <2>4, <2>5, WatchGoesOn
<1>6. ASSUME NEW t \in Task, Watch!EvaluateZone(t) PROVE WatchInv'
  <2>1. PICK todo \in Seq(Watch!Number) : todo = points[t].todo
    BY <1>0, <1>6, TaskHolds DEF Watch!EvaluateZone
  <2>2. PICK at \in Watch!Side \cup {"unknown"} : at = points[t].at
    BY <1>0, <1>6, TaskHolds DEF Watch!EvaluateZone
  <2>3. ASSUME NEW i \in Watch!Changes(todo, at), \A j \in Watch!Changes(todo, at) : i <= j,
               inside' = trip[todo[i]].fix,
               points' = [points EXCEPT ![t] =
                   IF Watch!FirstSight(at)
                   THEN [pc |-> "zone", todo |-> SubSeq(todo, i + 1, Len(todo)),
                         at |-> trip[todo[i]].fix]
                   ELSE [pc |-> "event", todo |-> SubSeq(todo, i + 1, Len(todo)),
                         at |-> trip[todo[i]].fix, point |-> todo[i]]],
               seen' = seen \o SubSeq(todo, 1, i)
        PROVE  WatchInv'
    <3>1. ASSUME SideOf(seen) = at PROVE Changed(seen, seen \o SubSeq(todo, 1, i), todo[i])
      <4>1. PICK s \in Seq(Watch!Number) : s = seen
        BY <1>0 DEF Watch!TypeOK
      <4>2. trip \in [Watch!Number -> Watch!Point]
        BY <1>0 DEF Watch!TypeOK
      <4>3. i \in Watch!Changes(todo, SideOf(s))
            /\ \A j \in Watch!Changes(todo, SideOf(s)) : i <= j
        BY <2>3, <3>1, <4>1
      <4>4. Changed(s, s \o SubSeq(todo, 1, i), todo[i])
        BY <2>1, <4>1, <4>2, <4>3, FirstChangeAt
      <4> QED BY <4>1, <4>4
    <3> QED BY <1>0, <1>6, <2>1, <2>2, <2>3, <3>1, WatchChange
  <2>4. ASSUME Watch!Changes(todo, at) = {}, points' = [points EXCEPT ![t] = Watch!Idle],
               seen' = seen \o todo, UNCHANGED inside
        PROVE  WatchInv'
    BY <1>0, <1>6, <2>1, <2>2, <2>4, WatchEnds
  <2> QED BY <1>6, <2>1, <2>2, <2>3, <2>4 DEF Watch!EvaluateZone
<1>7. ASSUME NEW t \in Task, Watch!InsertEvent(t) PROVE WatchInv'
  BY <1>0, <1>7, WatchEvent
<1>8. ASSUME NEW t \in Task, Watch!NotifyCrossing(t) \/ Watch!NotifyFails(t) PROVE WatchInv'
  <2>1. PICK b \in Seq(Watch!Number), at \in Watch!Side : b = points[t].todo /\ at = points[t].at
    BY <1>0, <1>8, TaskHolds DEF Watch!NotifyCrossing, Watch!NotifyFails
  <2>2. PICK v : v = [pc |-> "zone", todo |-> b, at |-> at]
    OBVIOUS
  <2>3. points' = [points EXCEPT ![t] = v] /\ points[t].pc = "notify"
    BY <1>0, <1>8, <2>1, <2>2 DEF Watch!NotifyCrossing, Watch!NotifyFails, Watch!TypeOK
  <2>4. v.pc = "zone" /\ v.at = points[t].at /\ HeldBy(v) = b /\ HeldBy(points[t]) = b
    BY <2>1, <2>2, <2>3 DEF HeldBy
  <2>5. UNCHANGED <<trip, stored, inside, events, seen, overlapped>>
        /\ \/ failures' = failures /\ notices' = notices + 1
           \/ failures' = failures + 1 /\ notices' = notices
    BY <1>8 DEF Watch!NotifyCrossing, Watch!NotifyFails
  <2> QED BY <1>0, <1>2, <2>3, <2>4, <2>5, WatchGoesOn
<1>9. ASSUME NEW t \in Task, Watch!Die(t) PROVE WatchInv'
  <2>1. points' = [points EXCEPT ![t] = Watch!Idle] /\ Watch!Running(t) /\ Watch!Idle.pc = "idle"
    BY <1>9 DEF Watch!Die, Watch!Idle
  <2>2. UNCHANGED <<trip, stored, inside, events, notices, seen, overlapped>>
        /\ failures' = failures + 1
    BY <1>9 DEF Watch!Die
  <2> QED BY <1>0, <2>1, <2>2, WatchGoesOn
<1>10. ASSUME Watch!LoseAccess \/ UNCHANGED Watch!vars PROVE WatchInv'
  <2>1. UNCHANGED <<trip, stored, points, inside, events, notices, failures, seen, overlapped>>
    BY <1>10 DEF Watch!LoseAccess, Watch!vars
  <2>2. UNCHANGED <<CrossingsOf(seen), SideOf(seen), Told, TasksAt("event"), TasksAt("notify")>>
    BY <2>1, SameTrip DEF Told, TasksAt
  <2>3. HeldFits'
    BY <2>1 DEF HeldFits, WatchInv
  <2>4. ASSUME InTurn PROVE InTurn'
    <3>1. Alone' /\ \A t \in Task : TaskFits(t)'
      BY <2>1, <2>2, <2>4 DEF InTurn, Alone, Watch!Running, TaskFits
    <3>2. Recorded' /\ Counted'
      BY <2>1, <2>2, <2>4 DEF InTurn, Recorded, Counted
    <3> QED BY <2>1, <2>2, <2>4, <3>1, <3>2 DEF InTurn
  <2> QED BY <1>0, <2>1, <2>3, <2>4 DEF WatchInv
<1> QED BY <1>1, <1>3, <1>4, <1>5, <1>6, <1>7, <1>8, <1>9, <1>10 DEF Watch!Next

(* The invariant holds of any trip, uploads, tasks and failures.           *)
THEOREM WatchInvHolds == Watch!Spec => []WatchInv
BY WatchInit, WatchNext, PTL DEF Watch!Spec

(* While the uploads of a car are evaluated one after the other, the       *)
(* events are its crossings, each on its side and told once, but for one   *)
(* event or notification lost with each failure.                           *)
THEOREM EveryEventIsACrossing == Watch!Spec => []EventsAreCrossings
<1>1. WatchInv => EventsAreCrossings
  <2> SUFFICES ASSUME WatchInv, ~overlapped, \A t \in Task : ~Watch!Running(t)
               PROVE  /\ Len(events) + failures >= Cardinality(Watch!Crossings)
                      /\ notices + failures >= Len(events)
                      /\ notices <= Len(events)
                      /\ \A i, j \in DOMAIN events : events[i] = events[j] => i = j
                      /\ \A i \in DOMAIN events :
                            /\ events[i].point \in Watch!Crossings
                            /\ events[i].kind = "enter" <=> trip[events[i].point].fix = "inside"
    BY WatchCounts DEF EventsAreCrossings, Watch!EventsAreCrossings
  <2>1. Watch!TypeOK /\ Recorded /\ Counted
    BY DEF WatchInv, InTurn
  <2>2. Watch!Crossings = CrossingsOf(seen)
    BY WatchOnly DEF Watch!Crossings, Watch!Fixes, CrossingsOf, Across, Fixed
  <2>3. TasksAt("event") = 0 /\ TasksAt("notify") = 0
    BY DEF TasksAt, Watch!Running, Watch!Idle
  <2>4. DOMAIN events = 1..Len(events) /\ Len(events) \in Nat /\ failures \in Nat
        /\ notices \in Nat
    BY <2>1 DEF Watch!TypeOK
  <2>5. Cardinality(CrossingsOf(seen)) \in Nat
    BY <2>1, CrossingsFinite DEF Watch!TypeOK
  <2>6. /\ Len(events) + failures >= Cardinality(Watch!Crossings)
        /\ notices + failures >= Len(events) /\ notices <= Len(events)
    BY <2>1, <2>2, <2>3, <2>4, <2>5 DEF Counted
  <2>7. \A i, j \in DOMAIN events : events[i] = events[j] => i = j
    BY <2>1, <2>4 DEF Recorded
  <2> QED BY <2>1, <2>2, <2>4, <2>6, <2>7 DEF Recorded
<1> QED BY <1>1, WatchInvHolds, PTL
=============================================================================
