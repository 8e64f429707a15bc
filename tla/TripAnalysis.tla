---------------------------- MODULE TripAnalysis ----------------------------
(***************************************************************************)
(* The AI analysis of one trip (analysis/mod.rs, analysis/jobs.rs): the    *)
(* row's status, the process's registry of cancel flags, and the           *)
(* supervised tasks that race each other, the owner's cancels, their own   *)
(* timeout, the reaper and restarts to write that row.                     *)
(*                                                                         *)
(* Time runs in ticks of REAP_INTERVAL.  A statement is short beside it:   *)
(* those under way are over before the next tick.                          *)
(***************************************************************************)
EXTENDS Naturals

CONSTANTS
    Run,            \* start requests and the tasks they leave behind
    NoRun,          \* "no flag registered"
    Timeout,        \* ANALYSIS_JOB_TIMEOUT
    ReapGrace,      \* REAP_GRACE
    MaxStarts,      \* bound: analyses started
    MaxFaults       \* bound: dropped requests, failed sweeps and restarts

AnalysisAssumption ==
    /\ NoRun \notin Run
    /\ {Timeout, ReapGrace, MaxStarts, MaxFaults} \subseteq Nat
    /\ ReapGrace > 0

VARIABLES
    status,     \* tracks.analysis_status
    age,        \* ticks since tracks.analysis_started_at
    registry,   \* running_jobs(): the run whose flag the trip's entry is
    run,        \* what each run is doing
    releasing,  \* a cancel found no flag and is about to release the row
    starts,     \* history: analyses started
    saved,      \* history: `starts` when a report was last saved
    faults      \* history: faults so far

vars == <<status, age, registry, run, releasing, starts, saved, faults>>

-----------------------------------------------------------------------------
(* A run's own code (pc): its start committed 'pending' (accepted),        *)
(* supervise waits (supervised) and has returned (ended), the failure is   *)
(* about to be recorded (marking).  The job it supervises (job): about to  *)
(* claim the row, working, about to save, returned.  The claim or the save *)
(* of an aborted job may still reach the database.                         *)
RunState == [pc : {"idle", "accepted", "supervised", "ended", "marking"},
             job : {"none", "claim", "work", "save", "ok", "err"},
             left : 0..Timeout, cancelled : BOOLEAN, failed : BOOLEAN]

NoTask == [pc |-> "idle", job |-> "none", left |-> 0, cancelled |-> FALSE, failed |-> FALSE]

InFlight == status \in {"pending", "running"}

(* How old a row gets is told apart no further than the reaper does.       *)
Old == Timeout + ReapGrace + 1

Init ==
    /\ status = "none"
    /\ age = 0
    /\ registry = NoRun
    /\ run = [r \in Run |-> NoTask]
    /\ releasing = FALSE
    /\ starts = 0 /\ saved = 0 /\ faults = 0

(* Nothing that takes no time is under way.                                *)
Quiet ==
    /\ ~releasing
    /\ \A r \in Run : /\ run[r].pc \in {"idle", "supervised"}
                      /\ run[r].job \in {"none", "work"}
                      /\ run[r].pc = "supervised" => run[r].left > 0 /\ ~run[r].cancelled

Tick ==
    /\ Quiet
    /\ age' = IF age < Old THEN age + 1 ELSE age
    /\ run' = [r \in Run |-> IF run[r].left > 0 THEN [run[r] EXCEPT !.left = @ - 1] ELSE run[r]]
    /\ UNCHANGED <<status, registry, releasing, starts, saved, faults>>

-----------------------------------------------------------------------------
(* start_analysis: the guarded UPDATE decides between requests ...         *)
StartAnalysis(r) ==
    /\ run[r] = NoTask
    /\ starts < MaxStarts
    /\ ~InFlight
    /\ status' = "pending"
    /\ age' = 0
    /\ starts' = starts + 1
    /\ run' = [run EXCEPT ![r].pc = "accepted"]
    /\ UNCHANGED <<registry, releasing, saved, faults>>

(* ... then the flag is registered, over any other of the trip, and the    *)
(* supervised job spawned ...                                              *)
Register(r) ==
    /\ run[r].pc = "accepted"
    /\ registry' = r
    /\ run' = [run EXCEPT ![r].pc = "supervised", ![r].job = "claim", ![r].left = Timeout]
    /\ UNCHANGED <<status, age, releasing, starts, saved, faults>>

(* ... unless the client went away first and the handler was dropped.      *)
DropRequest(r) ==
    /\ run[r].pc = "accepted"
    /\ faults < MaxFaults
    /\ faults' = faults + 1
    /\ run' = [run EXCEPT ![r] = NoTask]
    /\ UNCHANGED <<status, age, registry, releasing, starts, saved>>

(* What a job does next, or comes to nothing once it is aborted.           *)
Advance(r, job) ==
    run' = [run EXCEPT ![r].job = IF run[r].pc = "supervised" THEN job ELSE "none"]

(* run_analysis_job claims the pending row, whoever made it pending ...    *)
ClaimRow(r) ==
    /\ run[r].job = "claim"
    /\ status' = IF status = "pending" THEN "running" ELSE status
    /\ age' = IF status = "pending" THEN 0 ELSE age
    /\ Advance(r, IF status = "pending" THEN "work" ELSE "err")
    /\ UNCHANGED <<registry, releasing, starts, saved, faults>>

(* ... the context and the model's answer are there, or any step failed    *)
(* or panicked ...                                                         *)
Answer(r, job) ==
    /\ run[r].pc = "supervised"
    /\ \/ run[r].job = "work" /\ job = "save"
       \/ run[r].job \in {"claim", "work", "save"} /\ job = "err"
    /\ run' = [run EXCEPT ![r].job = job]
    /\ UNCHANGED <<status, age, registry, releasing, starts, saved, faults>>

(* ... and the report is saved over a row in flight.                       *)
SaveReport(r) ==
    /\ run[r].job = "save"
    /\ status' = IF InFlight THEN "completed" ELSE status
    /\ saved' = IF InFlight THEN starts ELSE saved
    /\ Advance(r, "ok")
    /\ UNCHANGED <<age, registry, releasing, starts, faults>>

-----------------------------------------------------------------------------
(* supervise: the job returned, or its time is up or its flag is set and   *)
(* it is aborted, with a statement sent that may still be carried out.     *)
Joined(r) ==
    /\ run[r].pc = "supervised"
    /\ run[r].job \in {"ok", "err"}
    /\ run' = [run EXCEPT ![r] = [NoTask EXCEPT !.pc = "ended", !.failed = run[r].job = "err"]]
    /\ UNCHANGED <<status, age, registry, releasing, starts, saved, faults>>

Abort(r) ==
    /\ run[r].pc = "supervised"
    /\ run[r].left = 0 \/ run[r].cancelled
    /\ \E sent \in {"none"} \union ({run[r].job} \intersect {"claim", "save"}) :
          run' = [run EXCEPT ![r] = [NoTask EXCEPT !.pc = "ended", !.failed = TRUE, !.job = sent]]
    /\ UNCHANGED <<status, age, registry, releasing, starts, saved, faults>>

(* Mutation of the next: a job that succeeded leaves its flag behind.      *)
UnregisterFailed(r) ==
    /\ run[r].pc = "ended"
    /\ registry' = IF run[r].failed THEN NoRun ELSE registry
    /\ run' = [run EXCEPT ![r].pc = IF run[r].failed THEN "marking" ELSE "idle", ![r].failed = FALSE]
    /\ UNCHANGED <<status, age, releasing, starts, saved, faults>>

(* The trip's entry goes, whichever run's flag it is by now.               *)
Unregister(r) ==
    /\ run[r].pc = "ended"
    /\ registry' = NoRun
    /\ run' = [run EXCEPT ![r].pc = IF run[r].failed THEN "marking" ELSE "idle", ![r].failed = FALSE]
    /\ UNCHANGED <<status, age, releasing, starts, saved, faults>>

(* Mutation of the next: a failure is recorded over any row.               *)
FailedAlways == "failed"

(* mark_failed, the reaper and the start-up sweep fail a row in flight.    *)
Failed == IF InFlight THEN "failed" ELSE status

(* A statement that fails here is ignored: the row is left to the reaper.  *)
MarkFailed(r) ==
    /\ run[r].pc = "marking"
    /\ status' \in {Failed, status}
    /\ run' = [run EXCEPT ![r].pc = "idle"]
    /\ UNCHANGED <<age, registry, releasing, starts, saved, faults>>

(* cancel_analysis: the flag is set ...                                    *)
Cancel ==
    /\ registry # NoRun
    /\ run' = [run EXCEPT ![registry].cancelled = run[registry].pc = "supervised"]
    /\ UNCHANGED <<status, age, registry, releasing, starts, saved, faults>>

(* ... or there is none, and the row is released directly.                 *)
CancelUnowned ==
    /\ registry = NoRun
    /\ ~releasing
    /\ releasing' = TRUE
    /\ UNCHANGED <<status, age, registry, run, starts, saved, faults>>

Release ==
    /\ releasing
    /\ status' = Failed
    /\ releasing' = FALSE
    /\ UNCHANGED <<age, registry, run, starts, saved, faults>>

(* Mutations of the next: rows as old as the timeout are taken too; rows   *)
(* no task has claimed are not looked at.                                  *)
ReapableAtTimeout == InFlight /\ age >= Timeout

ReapableRunning == status = "running" /\ age > Timeout + ReapGrace

(* The rows reap_stale_jobs takes.                                         *)
Reapable == InFlight /\ age > Timeout + ReapGrace

Reap ==
    /\ Reapable
    /\ status' = Failed
    /\ UNCHANGED <<age, registry, run, releasing, starts, saved, faults>>

(* The process ends with its tasks and starts again; its first sweep may   *)
(* fail, which is logged.                                                  *)
Restart(swept) ==
    /\ faults < MaxFaults
    /\ faults' = faults + 1
    /\ status' = IF swept THEN Failed ELSE status
    /\ registry' = NoRun
    /\ run' = [r \in Run |-> NoTask]
    /\ releasing' = FALSE
    /\ UNCHANGED <<age, starts, saved>>

-----------------------------------------------------------------------------
Step(r) ==
    \/ Register(r) \/ ClaimRow(r) \/ SaveReport(r) \/ Joined(r)
    \/ Abort(r) \/ Unregister(r) \/ MarkFailed(r)

Next ==
    \/ Tick
    \/ \E r \in Run : \/ StartAnalysis(r) \/ DropRequest(r) \/ Step(r)
                      \/ \E job \in {"save", "err"} : Answer(r, job)
    \/ Cancel \/ CancelUnowned \/ Release
    \/ Reap
    \/ \E swept \in BOOLEAN : Restart(swept)

Spec == Init /\ [][Next]_vars

(* Time passes, requests and tasks go on (the model's answer alone may     *)
(* never come), and the reaper's loop comes round.                         *)
Fairness ==
    /\ WF_vars(Tick)
    /\ \A r \in Run : WF_vars(Step(r))
    /\ WF_vars(Release)
    /\ WF_vars(Reap)

FairSpec == Spec /\ Fairness

-----------------------------------------------------------------------------
TypeOK ==
    /\ status \in {"none", "pending", "running", "completed", "failed"}
    /\ age \in 0..Old
    /\ registry \in Run \union {NoRun}
    /\ run \in [Run -> RunState]
    /\ releasing \in BOOLEAN
    /\ starts \in 0..MaxStarts /\ saved \in 0..MaxStarts
    /\ faults \in 0..MaxFaults

(* mark_failed: a job that lost a race, with a cancel, its timeout or the  *)
(* reaper, never overwrites a report that did get saved: the trip stays    *)
(* completed until its owner starts another analysis.                      *)
ReportStands == starts > 0 /\ saved = starts => status = "completed"

(* A flag in the registry belongs to a run that still looks at it, or has  *)
(* ended and will take it away: no cancel is swallowed by a dead entry.    *)
FlagsAreLive == registry # NoRun => run[registry].pc \in {"supervised", "ended"}

(* spawn_ai_job_reaper: "any task that still owned them has already        *)
(* recorded its own outcome" by the time the reaper takes a row, however   *)
(* late its run was claimed and whichever others ran beside it.            *)
ReaperNeverRaces == Reapable => \A r \in Run : run[r].pc = "idle"

(* No trip stays in analysis for ever: hung, dropped, crashed, cancelled   *)
(* and half-registered runs leave rows that the timeout, the supervisor    *)
(* or the reaper fails.                                                    *)
EveryAnalysisSettles == InFlight ~> ~InFlight
=============================================================================
