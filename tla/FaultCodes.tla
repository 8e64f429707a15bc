----------------------------- MODULE FaultCodes -----------------------------
(***************************************************************************)
(* The fault codes of one car (health.rs) and what its owner is told of    *)
(* them (notifications.rs).                                                *)
(*                                                                         *)
(* Every upload hands its newest report of codes to a background task      *)
(* (ingest/mod.rs, record_dtc_report), a batch sent again included: tasks  *)
(* of one car interleave statement by statement, in any order of their     *)
(* reports.  One upsert per code, one insert of a notification, and one    *)
(* UPDATE that clears what the report no longer lists.                     *)
(***************************************************************************)
EXTENDS Naturals

CONSTANTS
    Code,           \* fault codes
    Task,           \* background tasks that can be under way at once
    MaxTime,        \* bound: reports are read at 1..MaxTime
    MaxUploads,     \* bound: uploads, those sent again included
    MaxDeaths       \* bound: statements that fail, or tasks that end with the process

ASSUME FaultAssumption == {MaxTime, MaxUploads, MaxDeaths} \subseteq Nat

VARIABLES
    report,     \* the codes the car reports at each time
    uploads,    \* uploads so far
    dtc,        \* car_dtcs: the row of each code
    task,       \* runs of record_dtcs
    unread,     \* codes the owner has an unread notification of
    deaths,     \* failures so far
    cleared,    \* history: newest report whose clearing UPDATE has run, or 0
    late,       \* history: codes a report older than `cleared' brought back
    dismissed,  \* history: codes dismissed and not reported since
    unheard     \* history: codes made active and not brought to the owner yet

vars == <<report, uploads, dtc, task, unread, deaths, cleared, late, dismissed, unheard>>

-----------------------------------------------------------------------------
Time == 1..MaxTime

(* first and last are 0, and active FALSE, while the code has no row.      *)
Row == [active : BOOLEAN, first : 0..MaxTime, last : 0..MaxTime]
NoRow == [active |-> FALSE, first |-> 0, last |-> 0]

TaskState ==
    [pc : {"idle"}] \cup
    [pc : {"upsert"}, at : Time, todo : SUBSET Code] \cup
    [pc : {"notify"}, at : Time, todo : SUBSET Code, code : Code]

Idle == [pc |-> "idle"]
Running(t) == task[t] # Idle

Init ==
    /\ report \in [Time -> SUBSET Code]
    /\ uploads = 0
    /\ dtc = [c \in Code |-> NoRow]
    /\ task = [t \in Task |-> Idle]
    /\ unread = {}
    /\ deaths = 0
    /\ cleared = 0
    /\ late = {}
    /\ dismissed = {}
    /\ unheard = {}

-----------------------------------------------------------------------------
(* An upload whose newest report is that of `at', in whatever order the    *)
(* phone sends what it kept, or sends again.                               *)
Upload(t, at) ==
    /\ task[t] = Idle
    /\ uploads < MaxUploads
    /\ uploads' = uploads + 1
    /\ task' = [task EXCEPT ![t] = [pc |-> "upsert", at |-> at, todo |-> report[at]]]
    /\ UNCHANGED <<report, dtc, unread, deaths, cleared, late, dismissed, unheard>>

(* Mutant: last_seen is that of the upsert that came last.                 *)
UpsertedLast(r, at) ==
    [active |-> TRUE, first |-> IF r.active THEN r.first ELSE at, last |-> at]

(* The row the upsert leaves.                                              *)
Upserted(r, at) ==
    [active |-> TRUE,
     first  |-> IF r.active THEN r.first ELSE at,
     last   |-> IF r.last > at THEN r.last ELSE at]

(* Mutant: only a row that is new counts.                                  *)
NewlyActiveRow(r, at) == r = NoRow

(* What the upsert returns: the row is new, or first_seen is this report's. *)
NewlyActive(r, at) == r = NoRow \/ Upserted(r, at).first = at

(* The upsert of one code of the report.                                   *)
Upsert(t, c) ==
    /\ task[t].pc = "upsert"
    /\ c \in task[t].todo
    /\ LET at == task[t].at
           todo == task[t].todo \ {c}
       IN  /\ dtc' = [dtc EXCEPT ![c] = Upserted(@, at)]
           /\ task' = [task EXCEPT ![t] =
                 IF NewlyActive(dtc[c], at)
                 THEN [pc |-> "notify", at |-> at, todo |-> todo, code |-> c]
                 ELSE [pc |-> "upsert", at |-> at, todo |-> todo]]
           /\ late' = IF at < cleared /\ ~dtc[c].active THEN late \cup {c} ELSE late
    /\ dismissed' = dismissed \ {c}
    /\ unheard' = IF dtc[c].active THEN unheard ELSE unheard \cup {c}
    /\ UNCHANGED <<report, uploads, unread, deaths, cleared>>

(* notify, whose dedup key is the code's: an unread notification stands    *)
(* for the new one.                                                        *)
Notify(t) ==
    /\ task[t].pc = "notify"
    /\ unread' = unread \cup {task[t].code}
    /\ unheard' = unheard \ {task[t].code}
    /\ task' = [task EXCEPT ![t] = [pc |-> "upsert", at |-> @.at, todo |-> @.todo]]
    /\ UNCHANGED <<report, uploads, dtc, deaths, cleared, late, dismissed>>

(* notify is best effort: the run goes on without the notification.        *)
NotifyFails(t) ==
    /\ task[t].pc = "notify"
    /\ deaths < MaxDeaths
    /\ deaths' = deaths + 1
    /\ task' = [task EXCEPT ![t] = [pc |-> "upsert", at |-> @.at, todo |-> @.todo]]
    /\ UNCHANGED <<report, uploads, dtc, unread, cleared, late, dismissed, unheard>>

(* Active codes the report no longer lists, unless seen since.             *)
Clearable(at) == {c \in Code : dtc[c].active /\ c \notin report[at] /\ dtc[c].last < at}

(* The UPDATE that ends record_dtcs.                                       *)
Clear(t) ==
    /\ task[t].pc = "upsert"
    /\ task[t].todo = {}
    /\ LET at == task[t].at
       IN  /\ dtc' = [c \in Code |-> IF c \in Clearable(at)
                                     THEN [dtc[c] EXCEPT !.active = FALSE] ELSE dtc[c]]
           /\ cleared' = IF at > cleared THEN at ELSE cleared
           /\ late' = (late \ Clearable(at)) \ (IF at >= cleared THEN report[at] ELSE {})
           /\ unheard' = unheard \ Clearable(at)
    /\ task' = [task EXCEPT ![t] = Idle]
    /\ UNCHANGED <<report, uploads, unread, deaths, dismissed>>

(* A statement fails, or the process restarts: the report is not recorded  *)
(* any further.                                                            *)
Die(t) ==
    /\ Running(t)
    /\ deaths < MaxDeaths
    /\ deaths' = deaths + 1
    /\ task' = [task EXCEPT ![t] = Idle]
    /\ UNCHANGED <<report, uploads, dtc, unread, cleared, late, dismissed, unheard>>

(* dismiss_dtc                                                             *)
DismissDtc(c) ==
    /\ dtc' = [dtc EXCEPT ![c].active = FALSE]
    /\ dismissed' = dismissed \cup {c}
    /\ unheard' = unheard \ {c}
    /\ late' = late \ {c}
    /\ UNCHANGED <<report, uploads, task, unread, deaths, cleared>>

(* read_one, of the code's notification; read_all.                         *)
ReadOne(c) ==
    /\ c \in unread
    /\ unread' = unread \ {c}
    /\ UNCHANGED <<report, uploads, dtc, task, deaths, cleared, late, dismissed, unheard>>

ReadAll ==
    /\ unread' = {}
    /\ UNCHANGED <<report, uploads, dtc, task, deaths, cleared, late, dismissed, unheard>>

Next ==
    \/ \E t \in Task :
          \/ \E at \in Time : Upload(t, at)
          \/ \E c \in Code : Upsert(t, c)
          \/ Notify(t) \/ NotifyFails(t) \/ Clear(t) \/ Die(t)
    \/ \E c \in Code : DismissDtc(c) \/ ReadOne(c)
    \/ ReadAll

Spec == Init /\ [][Next]_vars

-----------------------------------------------------------------------------
TypeOK ==
    /\ report \in [Time -> SUBSET Code]
    /\ uploads \in 0..MaxUploads
    /\ dtc \in [Code -> Row]
    /\ task \in [Task -> TaskState]
    /\ unread \subseteq Code
    /\ deaths \in 0..MaxDeaths
    /\ cleared \in 0..MaxTime
    /\ late \subseteq Code
    /\ dismissed \subseteq Code
    /\ unheard \subseteq Code

(* In whatever order reports are recorded, the newest one whose record is  *)
(* complete decides: each of its codes is active unless dismissed since,   *)
(* and no other code is, unless a newer report, on its way or cut short,   *)
(* listed it, or a report older than the newest brought it back            *)
(* afterwards (`late').                                                    *)
NewestReportDecides ==
    cleared # 0 =>
        \A c \in Code :
            /\ c \in report[cleared] /\ c \notin dismissed => dtc[c].active
            /\ dtc[c].active => \/ c \in report[cleared]
                                \/ dtc[c].last > cleared
                                \/ c \in late

Bringing(c) == \E t \in Task : task[t].pc = "notify" /\ task[t].code = c

(* "A code the car had not reported (or had cleared) notifies the owner"   *)
(* (health.rs): of a code that is active, the owner has had a notification *)
(* since it became active, or has one unread of before, or a task is about *)
(* to insert it, unless a task failed.                                      *)
OwnerHearsOfFaults ==
    deaths = 0 => \A c \in Code : dtc[c].active => c \notin unheard \/ Bringing(c)
=============================================================================
