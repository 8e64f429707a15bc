------------------------------ MODULE TrackJobs ------------------------------
(***************************************************************************)
(* The durable per-trip jobs (table track_jobs, jobs/mod.rs) of one trip:  *)
(* handlers queue them, the worker's passes and the kicked ones claim,     *)
(* run and record them, shutdown drains them, a crash leaves them behind.  *)
(*                                                                         *)
(* Time: a row's run_after and locked_until, a run's JOB_TIMEOUT and       *)
(* drain's grace count down with Tick.  A statement is short beside a tick *)
(* (minutes): those that follow a claim or a run, and a claim sent before  *)
(* a shutdown, are answered before the next one.                           *)
(***************************************************************************)
EXTENDS Naturals, FiniteSets

CONSTANTS
    Key,            \* the job kinds of the trip
    FollowUps,      \* [Key -> SUBSET Key]: what a run of it enqueues (finalize)
    Pass,           \* claimed jobs the server can run at a time
    NoKey,          \* "no job", for an idle pass
    MaxAttempts,    \* MAX_ATTEMPTS
    JobTimeout,     \* JOB_TIMEOUT, in ticks
    LockTime,       \* LOCK_SECS, in ticks
    Grace,          \* how long drain waits for running jobs, in ticks
    MaxDelay,       \* bound: the longest run_after, in ticks
    MaxRequests,    \* bound: enqueues of one job
    MaxRechecks,    \* bound: "still empty, look again" outcomes
    MaxStops        \* bound: crashes, shutdowns and failed writes of an outcome

ASSUME JobsAssumption ==
    /\ FollowUps \in [Key -> SUBSET Key]
    /\ NoKey \notin Key
    /\ {MaxAttempts, JobTimeout, LockTime, Grace, MaxDelay, MaxRequests, MaxRechecks, MaxStops} \subseteq Nat
    /\ JobTimeout < LockTime
    /\ MaxDelay > 0
    /\ Grace > 0

VARIABLES
    row,        \* the track_jobs row of each job
    gone,       \* the trip was deleted, and its rows with it
    pass,       \* the passes of this process over one claimed job each
    inFlight,   \* IN_FLIGHT
    server,     \* phase of the process, drain's list, ticks of grace left
    requests,   \* history: enqueues of each job that reached a row
    rechecks,   \* history: rechecks so far
    stops       \* history: crashes, shutdowns and failed writes so far

vars == <<row, gone, pass, inFlight, server, requests, rechecks, stops>>

-----------------------------------------------------------------------------
Status == {"none", "queued", "running", "done", "failed"}

JobRow == [status : Status, attempts : Nat, delay : 0..MaxDelay, lock : 0..LockTime]

NoRow == [status |-> "none", attempts |-> 0, delay |-> 0, lock |-> 0]

(* `left` counts down to the run's timeout, `todo` are the follow-ups the  *)
(* run has yet to enqueue.                                                 *)
PassPC == {"idle", "checked", "claimed", "running", "recording", "recorded"}

Outcome == {"done", "recheck", "failed"}

PassState == [pc : PassPC, key : Key \union {NoKey}, attempts : Nat, left : 0..JobTimeout,
              todo : SUBSET Key, outcome : Outcome]

IdlePass == [pc |-> "idle", key |-> NoKey, attempts |-> 0, left |-> 0, todo |-> {},
             outcome |-> "done"]

Phase == {"up", "draining", "releasing", "stopped", "crashed"}

Up == [phase |-> "up", grace |-> 0, left |-> {}]

Alive == server.phase \in {"up", "draining", "releasing"}

(* A run of k is under way: claimed, and its outcome not yet recorded.     *)
Executing(p, k) == pass[p].key = k /\ pass[p].pc \in {"claimed", "running", "recording"}

(* Mutation of the next: rows of a dead process are not reclaimed.         *)
DueQueuedOnly(k) == row[k].status = "queued" /\ row[k].delay = 0

(* What a pass may claim: queued rows whose time has come and rows of a    *)
(* process that died, once their lock has expired.                         *)
Due(k) == \/ row[k].status = "queued" /\ row[k].delay = 0
          \/ row[k].status = "running" /\ row[k].lock = 0

-----------------------------------------------------------------------------
Init ==
    /\ row = [k \in Key |-> NoRow]
    /\ gone = FALSE
    /\ pass = [p \in Pass |-> IdlePass]
    /\ inFlight = {}
    /\ server = Up
    /\ requests = [k \in Key |-> 0]
    /\ rechecks = 0
    /\ stops = 0

Minus1(n) == IF n > 0 THEN n - 1 ELSE 0

Tick ==
    /\ \A p \in Pass : /\ pass[p].pc \notin {"claimed", "recording", "recorded"}
                       /\ pass[p].pc = "checked" => server.phase = "up"
                       /\ pass[p].pc = "running" => pass[p].left > 0
    /\ server.phase # "releasing"
    /\ row' = [k \in Key |-> [row[k] EXCEPT !.delay = Minus1(@), !.lock = Minus1(@)]]
    /\ pass' = [p \in Pass |-> [pass[p] EXCEPT !.left = Minus1(@)]]
    /\ server' = [server EXCEPT !.grace = Minus1(@)]
    /\ UNCHANGED <<gone, inFlight, requests, rechecks, stops>>

(* enqueue: a row that exists is queued afresh, even while it runs.  The   *)
(* rows of a deleted trip cannot come back.                                *)
Queue(k, d) ==
    /\ requests[k] < MaxRequests
    /\ IF gone THEN UNCHANGED <<row, requests>>
       ELSE /\ row' = [row EXCEPT ![k] = [status |-> "queued", attempts |-> 0, delay |-> d, lock |-> 0]]
            /\ requests' = [requests EXCEPT ![k] = @ + 1]

(* A handler asks for the job, for at once or for after late samples have  *)
(* settled.                                                                *)
Enqueue(k, d) ==
    /\ Alive
    /\ ~gone
    /\ Queue(k, d)
    /\ UNCHANGED <<gone, pass, inFlight, server, rechecks, stops>>

(* Mutation of the next: only the process's end stops claims.              *)
BeginClaimWhileDraining(p) ==
    /\ Alive
    /\ pass[p].pc = "idle"
    /\ pass' = [pass EXCEPT ![p].pc = "checked"]
    /\ UNCHANGED <<row, gone, inFlight, server, requests, rechecks, stops>>

(* A pass begins (polled or kicked) by looking at SHUTTING_DOWN ...        *)
BeginClaim(p) ==
    /\ server.phase = "up"
    /\ pass[p].pc = "idle"
    /\ pass' = [pass EXCEPT ![p].pc = "checked"]
    /\ UNCHANGED <<row, gone, inFlight, server, requests, rechecks, stops>>

(* Mutation of the next: a reclaimed row keeps its expired lock.           *)
ClaimKeepsLock(p, k) ==
    /\ pass[p].pc = "checked"
    /\ Due(k)
    /\ row' = [row EXCEPT ![k].status = "running", ![k].attempts = @ + 1,
                          ![k].lock = IF row[k].status = "queued" THEN LockTime ELSE @]
    /\ pass' = [pass EXCEPT ![p] = [IdlePass EXCEPT !.pc = "claimed", !.key = k,
                                       !.attempts = row[k].attempts + 1]]
    /\ UNCHANGED <<gone, inFlight, server, requests, rechecks, stops>>

(* ... and claims a due job with one statement.                            *)
Claim(p, k) ==
    /\ pass[p].pc = "checked"
    /\ Due(k)
    /\ row' = [row EXCEPT ![k].status = "running", ![k].attempts = @ + 1, ![k].lock = LockTime]
    /\ pass' = [pass EXCEPT ![p] = [IdlePass EXCEPT !.pc = "claimed", !.key = k,
                                       !.attempts = row[k].attempts + 1]]
    /\ UNCHANGED <<gone, inFlight, server, requests, rechecks, stops>>

NothingDue(p) ==
    /\ pass[p].pc = "checked"
    /\ \A k \in Key : ~Due(k)
    /\ pass' = [pass EXCEPT ![p] = IdlePass]
    /\ UNCHANGED <<row, gone, inFlight, server, requests, rechecks, stops>>

(* The reply of the claim reaches the process: the job is in flight.       *)
Run(p) ==
    /\ pass[p].pc = "claimed"
    /\ inFlight' = inFlight \union {pass[p].key}
    /\ pass' = [pass EXCEPT ![p].pc = "running", ![p].left = JobTimeout, ![p].todo = FollowUps[pass[p].key]]
    /\ UNCHANGED <<row, gone, server, requests, rechecks, stops>>

(* finalize enqueues the analysis of a trip that has points, job by job.   *)
FollowUp(p, k) ==
    /\ pass[p].pc = "running"
    /\ k \in pass[p].todo
    /\ Queue(k, 0)
    /\ pass' = [pass EXCEPT ![p].todo = @ \ {k}]
    /\ UNCHANGED <<gone, inFlight, server, rechecks, stops>>

(* The run ends: done (early if its trip has gone), done for now (finalize *)
(* of a trip that is still empty), or failed, the timeout included.        *)
Finish(p, outcome) ==
    /\ pass[p].pc = "running"
    /\ outcome = "done" => pass[p].todo = {} \/ gone
    /\ outcome = "recheck" => pass[p].todo = FollowUps[pass[p].key] /\ rechecks < MaxRechecks
    /\ rechecks' = IF outcome = "recheck" THEN rechecks + 1 ELSE rechecks
    /\ pass' = [pass EXCEPT ![p].pc = "recording", ![p].outcome = outcome]
    /\ UNCHANGED <<row, gone, inFlight, server, requests, stops>>

(* The row after an outcome: every write is guarded on 'running'.          *)
Recorded(k, task, d) ==
    IF row[k].status # "running" THEN row[k]
    ELSE CASE task.outcome = "done" -> [row[k] EXCEPT !.status = "done", !.lock = 0]
           [] task.outcome = "recheck" -> [status |-> "queued", attempts |-> 0, delay |-> d, lock |-> 0]
           [] task.outcome = "failed" ->
                [row[k] EXCEPT !.status = IF task.attempts >= MaxAttempts THEN "failed" ELSE "queued",
                               !.delay = d, !.lock = 0]

(* record, with the backoff or the recheck's delay d.                      *)
Record(p, d) ==
    LET k == pass[p].key
    IN  /\ pass[p].pc = "recording"
        /\ row' = [row EXCEPT ![k] = Recorded(k, pass[p], d)]
        /\ pass' = [pass EXCEPT ![p].pc = "recorded"]
        /\ UNCHANGED <<gone, inFlight, server, requests, rechecks, stops>>

(* record fails: the row stays as it is, until its lock expires.           *)
RecordFails(p) ==
    /\ pass[p].pc = "recording"
    /\ stops < MaxStops
    /\ stops' = stops + 1
    /\ pass' = [pass EXCEPT ![p].pc = "recorded"]
    /\ UNCHANGED <<row, gone, inFlight, server, requests, rechecks>>

(* The pass takes its job's key off IN_FLIGHT, whoever else runs that job. *)
Leave(p) ==
    /\ pass[p].pc = "recorded"
    /\ inFlight' = inFlight \ {pass[p].key}
    /\ pass' = [pass EXCEPT ![p] = IdlePass]
    /\ UNCHANGED <<row, gone, server, requests, rechecks, stops>>

-----------------------------------------------------------------------------
(* The trip is deleted, or purged by its finalize, and its rows with it.   *)
DeleteTrip ==
    /\ ~gone
    /\ gone' = TRUE
    /\ row' = [k \in Key |-> NoRow]
    /\ UNCHANGED <<pass, inFlight, server, requests, rechecks, stops>>

(* Maintenance drops rows that have been done for long.                    *)
Expire(k) ==
    /\ row[k].status = "done"
    /\ row' = [row EXCEPT ![k] = NoRow]
    /\ UNCHANGED <<gone, pass, inFlight, server, requests, rechecks, stops>>

(* drain: no more claims, and up to `Grace` for running jobs to finish.    *)
BeginDrain ==
    /\ server.phase = "up"
    /\ stops < MaxStops
    /\ server' = [phase |-> "draining", grace |-> Grace, left |-> {}]
    /\ stops' = stops + 1
    /\ UNCHANGED <<row, gone, pass, inFlight, requests, rechecks>>

ListInFlight ==
    /\ server.phase = "draining"
    /\ inFlight = {} \/ server.grace = 0
    /\ server' = [phase |-> "releasing", grace |-> 0, left |-> inFlight]
    /\ UNCHANGED <<row, gone, pass, inFlight, requests, rechecks, stops>>

(* Mutation of the next: whatever was in flight is queued.                 *)
ReleaseUnguarded(k) ==
    /\ server.phase = "releasing"
    /\ k \in server.left
    /\ row' = IF row[k].status = "none" THEN row
              ELSE [row EXCEPT ![k] = [status |-> "queued", attempts |-> Minus1(@.attempts),
                                       delay |-> 0, lock |-> 0]]
    /\ server' = [server EXCEPT !.left = @ \ {k}]
    /\ UNCHANGED <<gone, pass, inFlight, requests, rechecks, stops>>

(* One job handed back, guarded on 'running' too; its attempt is refunded. *)
Release(k) ==
    /\ server.phase = "releasing"
    /\ k \in server.left
    /\ row' = IF row[k].status # "running" THEN row
              ELSE [row EXCEPT ![k] = [status |-> "queued", attempts |-> Minus1(@.attempts),
                                       delay |-> 0, lock |-> 0]]
    /\ server' = [server EXCEPT !.left = @ \ {k}]
    /\ UNCHANGED <<gone, pass, inFlight, requests, rechecks, stops>>

(* The process ends and its passes with it, in order or not.               *)
End(phase) ==
    /\ pass' = [p \in Pass |-> IdlePass]
    /\ inFlight' = {}
    /\ server' = [phase |-> phase, grace |-> 0, left |-> {}]
    /\ UNCHANGED <<row, gone, requests, rechecks>>

Exit ==
    /\ server.phase = "releasing"
    /\ server.left = {}
    /\ End("stopped")
    /\ UNCHANGED stops

Crash ==
    /\ Alive
    /\ stops < MaxStops
    /\ stops' = stops + 1
    /\ End("crashed")

Restart ==
    /\ ~Alive
    /\ server' = Up
    /\ UNCHANGED <<row, gone, pass, inFlight, requests, rechecks, stops>>

-----------------------------------------------------------------------------
Work(p) ==
    \/ NothingDue(p)
    \/ Run(p)
    \/ \E k \in Key : FollowUp(p, k)
    \/ \E outcome \in Outcome : Finish(p, outcome)
    \/ \E d \in 1..MaxDelay : Record(p, d)
    \/ Leave(p)

Shutdown == ListInFlight \/ (\E k \in Key : Release(k)) \/ Exit \/ Restart

Next ==
    \/ Tick
    \/ \E k \in Key, d \in 0..MaxDelay : Enqueue(k, d)
    \/ \E p \in Pass : BeginClaim(p)
    \/ \E p \in Pass, k \in Key : Claim(p, k)
    \/ \E p \in Pass : Work(p) \/ RecordFails(p)
    \/ DeleteTrip
    \/ \E k \in Key : Expire(k)
    \/ BeginDrain
    \/ Shutdown
    \/ Crash

Spec == Init /\ [][Next]_vars

(* Time passes, the worker polls on its interval, started passes go on     *)
(* (a run ends by its timeout at the latest), claims are ordered by        *)
(* run_after, so no due job is passed over for ever, and a stopped server  *)
(* is started again.                                                       *)
Fairness ==
    /\ WF_vars(Tick)
    /\ WF_vars(\E p \in Pass : BeginClaim(p))
    /\ \A k \in Key : SF_vars(\E p \in Pass : Claim(p, k))
    /\ \A p \in Pass : WF_vars(Work(p))
    /\ WF_vars(Shutdown)

FairSpec == Spec /\ Fairness

-----------------------------------------------------------------------------
TypeOK ==
    /\ row \in [Key -> JobRow]
    /\ gone \in BOOLEAN
    /\ pass \in [Pass -> PassState]
    /\ \A p \in Pass : pass[p].pc \notin {"idle", "checked"} => pass[p].key \in Key
    /\ inFlight \in SUBSET Key
    /\ server \in [phase : Phase, grace : 0..Grace, left : SUBSET Key]
    /\ requests \in [Key -> 0..MaxRequests]
    /\ rechecks \in 0..MaxRechecks
    /\ stops \in 0..MaxStops

(* A claim lock outlives the run that took it: no expired row still has a  *)
(* run under way, so a job that timed out is never reclaimed while it      *)
(* executes, however requests, releases and restarts interleave with it.   *)
NeverReclaimedWhileExecuting ==
    \A k \in Key : row[k].status = "running" /\ row[k].lock = 0 => \A p \in Pass : ~Executing(p, k)

(* No more runs of one job at a time than requests were made for it: a     *)
(* retry, a reclaim or a hand-back never doubles a run.                    *)
OneRunPerRequest ==
    \A k \in Key : Cardinality({p \in Pass : Executing(p, k)}) <= requests[k]

(* A request made while the job runs is not overwritten by the outcome of  *)
(* that run: a queued row changes only by a claim, by another request, by  *)
(* time or with its trip.                                                  *)
QueuedRowsWaitForClaim ==
    [][\A k \in Key : row[k].status = "queued" /\ row'[k].status # "queued" =>
          gone' \/ \E p \in Pass : pass'[p].pc = "claimed" /\ pass'[p].key = k]_vars

(* Every job that is asked for comes to an end, across crashes, shutdowns, *)
(* timeouts and failures, unless the trip goes first.                      *)
EveryJobSettles ==
    \A k \in Key : row[k].status \in {"queued", "running"} ~> row[k].status \in {"none", "done", "failed"}

(* The queue keeps its promise: see DurableJobs.  A row queued, claimed,   *)
(* retried, reclaimed or handed back is one job owed all along; a job that *)
(* settled never comes back of itself, of a shutdown that lists it too.    *)
Promised(status) == IF status = "none" THEN "absent"
                    ELSE IF status \in {"queued", "running"} THEN "owed" ELSE status

Promise == INSTANCE DurableJobs WITH
    state <- [k \in Key |-> Promised(row[k].status)], asked <- requests, open <- ~gone

KeepsPromise == Promise!Spec
=============================================================================
