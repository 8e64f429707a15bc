----------------------------- MODULE TripTraffic -----------------------------
(***************************************************************************)
(* The congestion estimate of one trip (traffic/job.rs) on the queue that  *)
(* runs it (TrackJobs): the statements of each run of its job, the owner's *)
(* request for it (trips/mod.rs, start_traffic_analyze), and the failure   *)
(* that record reports when it gives up.                                   *)
(*                                                                         *)
(* An estimate is known by the number of points it was made from.  Frames  *)
(* are replaced in one transaction, the summary and the trip's flag in     *)
(* another; a run that times out may leave the one under way to commit     *)
(* afterwards.                                                             *)
(***************************************************************************)
EXTENDS TrackJobs

CONSTANTS
    Traffic,    \* the trip's traffic job, the only one queued here
    Enough,     \* points a trip needs for an estimate
    MaxPoints   \* bound: points of the trip

ASSUME TrafficAssumption ==
    /\ Traffic \in Key /\ FollowUps[Traffic] = {}
    /\ {Enough, MaxPoints} \subseteq Nat \ {0}

VARIABLES
    points,     \* points of the trip
    summary,    \* trip_traffic_summaries: status, and points of the estimate
    frames,     \* points of the estimate whose frames are stored, or 0
    analyzed,   \* tracks.traffic_analyzed
    estimate,   \* where each pass over the traffic job is, and its points
    late,       \* a transaction of a run cut short that may yet commit, or none
    owner,      \* the owner's request
    overlapped, \* history: two runs were under way at once, or one committed late
    unsettled   \* history: a run or request ended after 'pending' and told nobody

trafficVars == <<points, summary, frames, analyzed, estimate, late, owner, overlapped, unsettled>>

allVars == <<row, gone, pass, inFlight, server, requests, rechecks, stops, trafficVars>>

-----------------------------------------------------------------------------
Points == 0..MaxPoints

Summary == [status : {"none", "pending", "ready", "skipped", "failed"}, of : Points]
NoSummary == [status |-> "none", of |-> 0]

Estimate == [at : {"read", "skip", "pend", "frames", "ready", "end", "mark"}, of : Points]
NoEstimate == [at |-> "end", of |-> 0]

InitTraffic ==
    /\ Init
    /\ points \in Points
    /\ summary = NoSummary
    /\ frames = 0
    /\ analyzed = FALSE
    /\ estimate = [p \in Pass |-> NoEstimate]
    /\ late = {}
    /\ owner = "idle"
    /\ overlapped = FALSE
    /\ unsettled = FALSE

(* upsert_summary: the flag goes with the status.                          *)
Upsert(status, of) ==
    /\ summary' = [status |-> status, of |-> of]
    /\ analyzed' = (status = "ready")

-----------------------------------------------------------------------------
(* The queue's own steps, but for those on a run.  finalize, or whatever   *)
(* else queues the job, is Enqueue.                                        *)
QueueStep ==
    /\ \/ Tick /\ late = {}
       \/ \E d \in 0..MaxDelay : Enqueue(Traffic, d)
       \/ \E p \in Pass : BeginClaim(p) \/ NothingDue(p) \/ Claim(p, Traffic)
       \/ Expire(Traffic)
       \/ BeginDrain \/ ListInFlight \/ Release(Traffic) \/ Restart
    /\ UNCHANGED trafficVars

Estimating(p) == pass[p].pc = "running"

(* The run starts.                                                         *)
RunJob(p) ==
    /\ Run(p)
    /\ estimate' = [estimate EXCEPT ![p] = [at |-> "read", of |-> 0]]
    /\ overlapped' = (overlapped \/ \E q \in Pass : Executing(q, Traffic) /\ q # p)
    /\ UNCHANGED <<points, summary, frames, analyzed, late, owner, unsettled>>

(* process_finished_track: the points are read; a trip that is gone is     *)
(* done with, one with too few, or too short a path, is skipped, ...       *)
(* (Enough points make a frame: 'no frames' does not happen.)              *)
ReadPoints(p) ==
    /\ Estimating(p)
    /\ estimate[p].at = "read"
    /\ estimate' = [estimate EXCEPT ![p] =
          [at |-> IF gone THEN "end" ELSE IF points < Enough THEN "skip" ELSE "pend",
           of |-> points]]
    /\ UNCHANGED <<vars, points, summary, frames, analyzed, late, owner, overlapped, unsettled>>

(* The queue has its outcome, or forgot it.                                *)
Settled == row[Traffic].status \notin {"queued", "running"}

(* Or is to have it from a run under way.                                  *)
Settling == Settled \/ \E p \in Pass : Executing(p, Traffic)

(* What the transaction at a stage of a run writes.                        *)
Skip(of) == Upsert("skipped", 0) /\ UNCHANGED frames
Pend(of) == Upsert("pending", 0) /\ UNCHANGED frames
Replace(of) == frames' = of /\ UNCHANGED <<summary, analyzed>>
Ready(of) == Upsert("ready", of) /\ UNCHANGED frames

(* Mutant: the frames are left to the run that finds none.                 *)
WriteKeepsFrames(e) ==
    \/ e.at = "skip" /\ Skip(e.of)
    \/ e.at = "pend" /\ Pend(e.of)
    \/ e.at = "frames" /\ Replace(IF frames = 0 THEN e.of ELSE frames)
    \/ e.at = "ready" /\ Ready(e.of)

Write(e) ==
    \/ e.at = "skip" /\ Skip(e.of)
    \/ e.at = "pend" /\ Pend(e.of)
    \/ e.at = "frames" /\ Replace(e.of)
    \/ e.at = "ready" /\ Ready(e.of)

After(at) == CASE at = "pend" -> "frames" [] at = "frames" -> "ready" [] OTHER -> "end"

(* ... and the others go from 'pending' over their frames to 'ready', each *)
(* transaction refused when the trip is gone.                              *)
RunWrites(p) ==
    /\ Estimating(p)
    /\ ~gone
    /\ Write(estimate[p])
    /\ estimate' = [estimate EXCEPT ![p].at = After(@)]
    /\ UNCHANGED <<vars, points, late, owner, overlapped, unsettled>>

(* The transaction the run is in the middle of may be on its way.          *)
LeftBehind(p) ==
    /\ Estimating(p)
    /\ estimate[p].at \notin {"read", "end"}
    /\ late = {}
    /\ late' = {estimate[p]}

(* The run ends: at its end, or with an error or the timeout, which may    *)
(* leave its transaction behind.                                           *)
FinishJob(p, outcome) ==
    /\ outcome \in {"done", "failed"}
    /\ Finish(p, outcome)
    /\ outcome = "done" => estimate[p].at = "end"
    /\ \/ UNCHANGED late
       \/ outcome = "failed" /\ stops < MaxStops /\ LeftBehind(p)
    /\ estimate' = [estimate EXCEPT ![p].at = "end"]
    /\ UNCHANGED <<points, summary, frames, analyzed, owner, overlapped, unsettled>>

LateCommit(e) ==
    /\ e \in late
    /\ late' = late \ {e}
    /\ \/ UNCHANGED <<summary, frames, analyzed, overlapped, unsettled>>
       \/ /\ ~gone
          /\ Write(e)
          /\ overlapped' = (overlapped \/ e.at \in {"frames", "ready"})
          /\ unsettled' = (unsettled \/ (e.at = "pend" /\ Settling))
    /\ UNCHANGED <<vars, points, estimate, owner>>

(* Mutant: mark_failed is forgotten.                                       *)
GivesUpNever(p) == FALSE

(* record gives up on the job, if its row is still the run's.              *)
GivesUp(p) ==
    /\ pass[p].outcome = "failed" /\ pass[p].attempts >= MaxAttempts
    /\ row[Traffic].status = "running"

(* record; a failure that it leaves to another run's outcome is nobody's   *)
(* to tell.                                                                *)
RecordJob(p, d) ==
    /\ Record(p, d)
    /\ estimate' = [estimate EXCEPT ![p].at = IF GivesUp(p) THEN "mark" ELSE @]
    /\ unsettled' = (\/ unsettled
                     \/ pass[p].outcome = "failed" /\ Settled)
    /\ UNCHANGED <<points, summary, frames, analyzed, late, owner, overlapped>>

RecordJobFails(p) ==
    /\ RecordFails(p)
    /\ unsettled' = (\/ unsettled
                     \/ /\ pass[p].outcome = "failed"
                        /\ Settled \/ \E q \in Pass : q # p /\ Executing(q, Traffic))
    /\ UNCHANGED <<points, summary, frames, analyzed, estimate, late, owner, overlapped>>

(* mark_failed, in a statement of its own.                                 *)
MarkFailed(p) ==
    /\ pass[p].pc = "recorded" /\ estimate[p].at = "mark"
    /\ IF gone THEN UNCHANGED <<summary, analyzed>> ELSE Upsert("failed", 0)
    /\ estimate' = [estimate EXCEPT ![p].at = "end"]
    /\ UNCHANGED <<vars, points, frames, late, owner, overlapped, unsettled>>

(* The statement fails: that is only logged.                               *)
MarkFails(p) ==
    /\ pass[p].pc = "recorded" /\ estimate[p].at = "mark"
    /\ stops < MaxStops
    /\ stops' = stops + 1
    /\ estimate' = [estimate EXCEPT ![p].at = "end"]
    /\ unsettled' = TRUE
    /\ UNCHANGED <<row, gone, pass, inFlight, server, requests, rechecks,
                   points, summary, frames, analyzed, late, owner, overlapped>>

LeaveJob(p) ==
    /\ estimate[p].at # "mark"
    /\ Leave(p)
    /\ UNCHANGED trafficVars

-----------------------------------------------------------------------------
(* start_traffic_analyze: an estimate that is ready is enough, ...         *)
AskTraffic ==
    /\ Alive /\ owner = "idle" /\ ~gone
    /\ requests[Traffic] < MaxRequests
    /\ ~(analyzed \/ summary.status = "ready")
    /\ owner' = IF summary.status = "pending" THEN "check" ELSE "upsert"
    /\ UNCHANGED <<vars, points, summary, frames, analyzed, estimate, late, overlapped, unsettled>>

InFlightJob ==
    \/ row[Traffic].status = "queued"
    \/ row[Traffic].status = "running" /\ row[Traffic].lock > 0

(* ... and one that is pending is, while a live job backs it.              *)
CheckInFlight ==
    /\ owner = "check"
    /\ owner' = IF InFlightJob THEN "idle" ELSE "upsert"
    /\ UNCHANGED <<vars, points, summary, frames, analyzed, estimate, late, overlapped, unsettled>>

OwnerPends ==
    /\ owner = "upsert"
    /\ IF gone THEN owner' = "idle" /\ UNCHANGED summary
       ELSE owner' = "flag" /\ summary' = [summary EXCEPT !.status = "pending"]
    /\ UNCHANGED <<vars, points, frames, analyzed, estimate, late, overlapped, unsettled>>

(* Mutant: the flag is left to the run.                                    *)
OwnerFlagsNot ==
    /\ owner = "flag"
    /\ owner' = "enqueue"
    /\ UNCHANGED <<vars, points, summary, frames, analyzed, estimate, late, overlapped, unsettled>>

OwnerFlags ==
    /\ owner = "flag"
    /\ owner' = "enqueue"
    /\ analyzed' = FALSE
    /\ UNCHANGED <<vars, points, summary, frames, estimate, late, overlapped, unsettled>>

OwnerEnqueues ==
    /\ owner = "enqueue"
    /\ owner' = "idle"
    /\ Queue(Traffic, 0)
    /\ UNCHANGED <<gone, pass, inFlight, server, rechecks, stops,
                   points, summary, frames, analyzed, estimate, late, overlapped, unsettled>>

(* A statement fails, or the owner closes the page.                        *)
OwnerFails ==
    /\ owner # "idle"
    /\ stops < MaxStops
    /\ stops' = stops + 1
    /\ owner' = "idle"
    /\ unsettled' = (unsettled \/ owner \in {"flag", "enqueue"})
    /\ UNCHANGED <<row, gone, pass, inFlight, server, requests, rechecks,
                   points, summary, frames, analyzed, estimate, late, overlapped>>

-----------------------------------------------------------------------------
(* Late samples, and retention.                                            *)
PointsChange ==
    /\ ~gone
    /\ points' \in {points + 1, 0} \cap Points
    /\ points' # points
    /\ UNCHANGED <<vars, summary, frames, analyzed, estimate, late, owner, overlapped, unsettled>>

TripGoes ==
    /\ DeleteTrip
    /\ summary' = NoSummary /\ frames' = 0 /\ analyzed' = FALSE
    /\ UNCHANGED <<points, estimate, late, owner, overlapped, unsettled>>

(* The process ends; what it had sent may yet commit.                      *)
ProcessEnds ==
    /\ Exit \/ Crash
    /\ estimate' = [p \in Pass |-> NoEstimate]
    /\ UNCHANGED late \/ \E p \in Pass : LeftBehind(p)
    /\ owner' = "idle"
    /\ unsettled' = (\/ unsettled
                     \/ owner \in {"flag", "enqueue"}
                     \/ \E p \in Pass : \/ estimate[p].at = "mark"
                                        \/ Executing(p, Traffic) /\ Settled)
    /\ UNCHANGED <<points, summary, frames, analyzed, overlapped>>

TrafficWork(p) ==
    \/ RunJob(p) \/ ReadPoints(p) \/ RunWrites(p)
    \/ \E outcome \in Outcome : FinishJob(p, outcome)
    \/ \E d \in 1..MaxDelay : RecordJob(p, d)
    \/ MarkFailed(p) \/ LeaveJob(p)

NextTraffic ==
    \/ QueueStep
    \/ \E p \in Pass : TrafficWork(p) \/ RecordJobFails(p) \/ MarkFails(p)
    \/ \E e \in late : LateCommit(e)
    \/ AskTraffic \/ CheckInFlight \/ OwnerPends \/ OwnerFlags \/ OwnerEnqueues \/ OwnerFails
    \/ PointsChange \/ TripGoes \/ ProcessEnds

SpecTraffic == InitTraffic /\ [][NextTraffic]_allVars

-----------------------------------------------------------------------------
TrafficTypeOK ==
    /\ TypeOK
    /\ points \in Points
    /\ summary \in Summary
    /\ frames \in Points
    /\ analyzed \in BOOLEAN
    /\ estimate \in [Pass -> Estimate]
    /\ late \subseteq Estimate
    /\ owner \in {"idle", "check", "upsert", "flag", "enqueue"}
    /\ overlapped \in BOOLEAN
    /\ unsettled \in BOOLEAN

(* A job that is owed, or a run or request about to go on to its end.      *)
MoreToCome ==
    \/ row[Traffic].status \in {"queued", "running"}
    \/ \E p \in Pass : Executing(p, Traffic) \/ estimate[p].at = "mark"
    \/ owner \in {"flag", "enqueue"}

(* "a failed traffic run left its summary stuck at 'pending'. Here every   *)
(* job is a row" (jobs/mod.rs): a pending summary has a job that is owed,  *)
(* or a run or request about to go on, unless a failure or a crash took    *)
(* away the statement that would have told, or the row of a failed run had *)
(* the outcome of an overlapping one.                                      *)
PendingIsBacked ==
    summary.status = "pending" => MoreToCome \/ unsettled

(* A summary that is ready is that of the frames there are, however often  *)
(* runs fail, time out or are done again, unless two of them overlapped or *)
(* one committed late.                                                     *)
ReadyFitsFrames ==
    ~overlapped /\ summary.status = "ready" => summary.of = frames

(* "committing them separately lets a reader ... observe a ready summary   *)
(* on a track still flagged unanalyzed" (traffic/job.rs): flag and summary *)
(* agree, but where a request's own statements met a run that became ready *)
(* meanwhile, and then the job it queues is still to come.                 *)
FlagTellsTheSummary ==
    /\ analyzed /\ summary.status # "ready" => owner = "flag" \/ unsettled
    /\ ~analyzed /\ summary.status = "ready" => MoreToCome \/ unsettled
=============================================================================
