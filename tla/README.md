# Specifications of the car tracking platform

TLA+ modules for this repository: the server (`src/crates/server`), the assistant's
client of its model provider (`src/crates/ai`) and the pages of the web client that
have several requests under way (`src/crates/web`). What is hard to get right in all
three is how requests, background tasks, retries, timeouts, shutdowns and crashes
interleave over a few PostgreSQL rows or a few signals. TLC checks the modules on
small instances; TLAPS proves the main results for every value of the constants.

Run from this directory: `tlc -config X.cfg M`, with the module and the
configuration of the table below, and `tlapm M.tla` for the modules whose name
ends in `Proofs`. `PROJECT.json` lists components, runs, hazards, theorems and,
definition by definition, the source lines each one stands for; its `mutants`
name, for every checked property, a plausible bug the property catches.

## The system

One Rust binary (Axum, sqlx, PostgreSQL with PostGIS) serves the phone's
ingest API, the web client and an MCP endpoint. State lives in rows; the process
keeps only registries of running tasks. Handlers are futures: a client that goes
away may drop one between two statements. Nothing is wrapped in one big
transaction: most operations are a few statements, each atomic alone.

| Component | State | Operations | Talks to | Hard behaviour | Correct when |
|---|---|---|---|---|---|
| phone ingest (`ingest/mod.rs`) | `tracks`, `track_points`, `track_aliases` | `/start`, `/stop`, `/sample(s)` | statistics, jobs, rules and zones, fault codes, live hub | retries, late drains of an offline phone, samples that race `/stop` and merges | accepted samples stay in a trip; ids resolve; changes of a finished trip are finalized |
| trip lifecycle (`trips/mod.rs`) | `tracks.finished`, `finished_at` | finish, delete, purge, two sweeps, list | jobs, statistics | the sweeper closes trips the phone may still feed | every abandoned trip closes, empty ones go |
| trip editor (`trips/edit.rs`) | points and aliases | merge, split | statistics, jobs | checks made before the transaction that acts on them; locks | no sample lost, ids follow merges |
| statistics cache (`trips/stats.rs`, `maintenance.rs`) | `track_stats`, `stats_dirty_at`, `points_pruned_at` | recompute, mark stale, sweep, prune | every reader of trips | a recompute runs on a snapshot while points land | a fresh row covers its trip's points |
| job queue (`jobs/mod.rs`) | `track_jobs`, `IN_FLIGHT` | enqueue, claim, run, record, drain | traffic, corridors, purge | overlapping runs, timeouts, locks, shutdown, crash | requests are never lost, runs never doubled, everything settles |
| traffic guessing (`traffic/`, `trips/mod.rs`) | summary, frames, `traffic_analyzed` | job, owner's request, failure report | job queue, Overpass | runs that overlap or commit late; a request in three statements | nobody waits for nothing; what is ready is one estimate |
| route corridors (`route_opt/`) | corridors, assignments, advisory lock per car | match, prune, recompute | job queue, purges, pages | check-then-insert under a lock that may go before the INSERT | one corridor per route; legs are assigned |
| AI analysis (`analysis/`) | `analysis_status`, cancel-flag registry | start, claim, save, cancel, time out, reap | `crates/ai` | five writers of one status, tasks that outlive their row | reports stand, no trip is in analysis for ever |
| chat (`chat/`) | messages, hub of generations | start turn, stream, cancel, delete, reap | `crates/ai`, web client | cancel before the task is registered, joining a stream | transcript grows by whole turns; readers are told what is stored |
| model calls (`crates/ai`) | one turn's messages, one stream's accumulator | rounds, tools, retries, eviction | OpenRouter | a stream cut anywhere, broken after something was shown, a budget | shown once, all of it, requests fit |
| rules, zones (`alerts.rs`, `geofences.rs`) | zone's last side, events | evaluate stored points | ingest, notifications | batches evaluated concurrently, tasks that die | alerts are earned, events are crossings |
| vehicle health (`health.rs`) | `car_dtcs` | report, clear, dismiss | ingest, notifications | reports recorded in any order | newest report decides; the owner hears |
| shares, invites, devices, live feed (`shares/`, `devices/`, `live.rs`, `account.rs`) | roles, tokens, open feeds | share, invite, leave, create and revoke tokens, subscribe | every check of access | token created as its maker's access ends; access read at intervals | no working token without access but by named races; feeds follow access |
| web client (`crates/web`) | signals of a page | load, poll, click, answer | the API | answers that outlive what they were sent for | a page shows one trip, a list what was asked for, spinners end |
| sessions, MCP, cars, garage, analytics, digests, audit, fuel tickets, plumbing | rows of one statement each, or none | CRUD, reads | — | little | — |

## Modules

| Module | Models | Composition |
|---|---|---|
| `TrackStats` | statistics cache with every caller of it | — |
| `TripLife` | trips of one car: ingest, finish, sweep, finalize, merge, split, delete, prune | abstracts `TrackJobs` to "finalize queued or running", leaves `TrackStats` out |
| `TrackJobs` | the job queue for one trip | implements `DurableJobs` |
| `DurableJobs` | what the queue promises: a job asked for is owed until it is done, given up on, or gone with its trip | abstract |
| `TripTraffic` | the traffic estimate and the owner's request | extends `TrackJobs`: the queue's own actions, with what a run does to the estimate |
| `Corridors` | corridors of one car, runs under the lock and the writers without it | abstracts the queue to "a job is owed" |
| `TripAnalysis` | the analysis of one trip | — |
| `ChatTurn` | a conversation: turns, generations, flusher, hub, pages | implements `Transcript` |
| `Transcript` | the messages replayed to the provider | abstract |
| `ModelCalls` | the calls a turn makes of the model | what `ChatTurn` calls a round is a call of its own here |
| `CarAccess` | roles, invitations, tokens, feeds | — |
| `FaultCodes`, `PointWatch` | what an upload starts in the background | put together by `FreshPoints` |
| `TripPage`, `TripList` | the page of one trip, the list of trips | put together with `ModelCalls` by `Clients` |
| `Clients` | the three clients of a server that may answer late or not at all | extends `TripPage`, instantiates the other two |
| `Lists` | what the code filters a list by | used by `ChatTurn`, `TripList`, `ModelCalls` |
| `MC*` | values of constants and symmetry for TLC | extend or instantiate what they check |
| `*Proofs` | theorems and their proofs | extend their modules and `TLAPS`; `ListsProofs` is the lemmas about `Lists` |

`MCFreshPoints` (over `FreshPoints`) and `Clients` look at several modules that share no row and no
signal: an initial choice says which one takes steps, the others stay at rest. That
is one run for a question the modules have in common (background tasks in any order;
a server that answers late or not at all), and nothing is assumed of one by another.

**How state and actions correspond to the code.** Rows and signals are variables, named
after their columns; a task (request handler, sweeper, pass of the worker,
supervised job, spawned future) is a record with a program counter, and each statement
or transaction whose order matters is one action. A handler's early return or a
validation that happens before the transaction is an action of its own, because
other tasks run between the two. What a variable marked *history* holds is not in
the program: it remembers what was accepted, asked or shown, for the properties.

* `TrackStats`: `recompute` is `BeginRecompute` (the snapshot and `NOW()`),
  `Upsert` (the commit), `Recheck` (statement 2); `mark_stale` is `MarkDirty`,
  `MarkStale`. `InsertPoints`/`ReadFinished` are ingest; `FinishTrack`, `Sweep`,
  `Retain`/`Prune`, `CheckSplit`/`Split`, `CheckMerge`/`Merge`, `PurgeTrack`,
  `UpdateCar`/`MarkStaleForCar` the callers. `Fail` is a task that dies, or whose
  statement fails with the error swallowed. A row records which points and which
  car parameters it was computed from instead of the figures.
* `TripLife`: `/start` is `TrackStart`; a sample is resolved and checked
  (`ResolveTrack`), inserted, and followed up (`AfterPointsLanded`) in separate
  steps; the editor's checks, the move of the points, the deletion and the commit
  of a merge are separate as well. `Abort` is a statement that fails (its error returned
  or, in `after_points_landed`, swallowed), a handler dropped with its client, or the
  victim of a cycle of locks: the task ends where it is. Locks are those of a merge, from
  the move of the points to its commit, on the two trips as a whole. `unqueued` holds the
  trips whose last change nobody queued finalize for because its task ended so.
  Instants are small numbers; a sample is its tracking id and instant.
* `TrackJobs`: one row per kind of job; `Claim` is the `SKIP LOCKED` update, `Run`
  to `Leave` the life of a claimed job, `BeginDrain`, `ListInFlight`, `Release`,
  `Exit` the shutdown. Delays and locks count down with `Tick`. What a run
  computes is left out except its outcome and the jobs it enqueues.
* `TripTraffic`: `ReadPoints`, `RunWrites` (pending, or skip, or frames, or summary),
  `FinishJob` are a run; `LeftBehind`/`LateCommit` a transaction that outlives the run
  that sent it; `AskTraffic` to `OwnerEnqueues` the statements of the owner's request;
  `RecordJob`/`MarkFailed` what `record` does after the last attempt. An estimate is
  the number of points it was made from.
* `Corridors`: a run takes the car's lock (`StartJob`), clears the trip's assignments
  (`Clear`), and for each leg matches (`Find`), creates (`Create`) and assigns (`Assign`);
  `SyncCount`/`SyncDrop` recount the corridors touched, `OpenCorridor`, `OpenSummary` and
  `Prune` drop empty ones without the lock, `Recompute…` is the owner's. A leg is its
  route (a class of matching legs). `stray` and `lost` are history: corridors and trips
  a named race reached.
* `TripAnalysis`: `StartAnalysis`/`Register` are the handler, `ClaimRow`,
  `Answer`, `SaveReport` the job, `Joined`, `Abort`, `Unregister`, `MarkFailed` the
  supervisor, `Cancel`/`CancelUnowned`/`Release` the owner's cancel, `Reap` and
  `Restart` the backstops. A statement an aborted job had already sent may still
  be carried out: its `job` is kept after `Abort`.
* `ChatTurn`: `StartTurn`/`Register`/`DropPost` are the handler, `Emit`, `ToolRound`,
  `FinishRead`/`FinishCommit`, `SendDone`, `JobEnds`, `RecordFailure`, `Unregister` the
  generation and its supervisor, `UpdatePartial` the flusher, `Subscribe`, `Snapshot`,
  `Receive` the stream's handler, `Apply`, `Disconnect`, `Reconnect` the page. Text is a
  sequence of numbered fragments of length 1, so offsets are numbers of fragments; the
  channel drops what a slow reader is more than its capacity behind.
* `ModelCalls`: `Respond` chooses what the model will send, `Chunk` delivers any number
  of parts of frames, `BodyEnds`/`StreamEnds` end the stream, `TryAgain`/`GiveUp` are
  `with_retries`, `RunTools` is the rest of a round up to `fit_turn_budget`. A frame has
  three parts, so that a chunk can end inside a frame or just before its newline.
* `CarAccess`: every operation of shares, invites and devices that is two statements is
  two actions with a task in between; a feed re-reads access at `RefreshDue`, and drops
  what it may not show.
* `FaultCodes`: `Upload` spawns the task, `Upsert` and `Notify` are per code, `Clear` is
  the final UPDATE. `PointWatch`: `OnPoints` spawns the task, `EvaluateRules`/`Alert`
  are the rules, `ReadZone`, `EvaluateZone`, `InsertEvent`, `NotifyCrossing` the zones.
* `TripPage`: one action per resumption of a spawned future: `LoadedTrip`,
  `LoadedParts`, `LoadedAnalysis` are the load, `PollWakes`, `Polled`, `PolledTrip` its
  poll, a `Click…` sends a request and an `…Answered` takes the answer. Effects run to
  the end with the change that triggers them, as the runtime's do before any other
  future: `LoadTrip` is the effect on the URL, `FormFor` the one on the trip. A
  signal is known by the trip it was filled for.
* `TripList`: `RunFetch` sends, `ReadPage` is the server's read, `PageArrives`,
  `PageFails`, `PageDropped` the answer. `Pages` is `list_trips`' WHERE, ORDER BY and
  LIMIT: trips that start at the same instant come in any order.

## What is checked

| Run | Module, configuration | Shows |
|---|---|---|
| `stats_reshape` | `MCTrackStats`, `StatsReshape` | no interleaving of two tasks over two trips leaves a fresh row that misses points (`FreshRowIsExact`) |
| `stats_heal` | `MCTrackStats`, `StatsHeal` | with tasks dying anywhere, retention never prunes without a row (`PrunedHasRow`) and every row becomes fresh again (`EventuallyFresh`) |
| `life_merges` | `MCTripLife`, `LifeMerges` | overlapping merges, splits, deletions, samples: only the named races lose samples (`OnlyRacesLoseSamples`), ids resolve (`KeysResolve`), and changes are finalized (`ChangesAreFinalized`) unless the task that was to see to it failed; any task may, at any step, and the process any number of times |
| `life_settles` | `MCTripLife`, `LifeSettles` | silent trips close, and empty ones finalize is queued for go (`TripsComeToAnEnd`), once failures and crashes have come to an end |
| `jobs_race` | `MCTrackJobs`, `JobsRace` | locks outlive runs (`NeverReclaimedWhileExecuting`), no run is doubled (`OneRunPerRequest`), `DurableJobs` is implemented (`KeepsPromise`), every job settles through failures, timeouts, crashes and shutdowns (`EveryJobSettles`) |
| `traffic_runs` | `MCTripTraffic`, `TrafficRuns` | who waits has something to wait for (`PendingIsBacked`), what is ready fits its frames (`ReadyFitsFrames`), the trip's flag tells it (`FlagTellsTheSummary`) |
| `analysis_races` | `MCTripAnalysis`, `AnalysisRaces` | reports stand, flags are live, the reaper never races a supervisor, every analysis settles |
| `chat_turns` | `MCChatTurn`, `ChatTurns` | readers are told what the row says (`EventsTellTheRow`) and see all of it once (`FollowersSeeItAll`), `Transcript` is implemented (`KeepsTranscript`), turns and readers come to an end |
| `car_access` | `MCCarAccess` | only named races leave a working token (`OnlyRacesLeaveTokens`); open feeds follow access (`FeedsFollowAccess`) |
| `fresh_points` | `MCFreshPoints`, `FreshPoints` | `NewestReportDecides`, `OwnerHearsOfFaults`; `EventsAreCrossings`, `AlertsAreEarned` |
| `corridors` | `MCCorridors`, `Corridors` | `NoTwins`, `RoutesFollowTrips` |
| `clients` | `MCClients`, `Clients` | the page: `OnePageOneTrip`, `TagsAreTyped`, `UnderWayIsWatched`; the list: `ListHasNoHoles`, `ListIsAskedFor`; the model's calls: `ShownOnce`, `ReceivedIsSent`, `RequestsFit` |

Several properties name exceptions (`raced`, `unqueued`, `lapsed`, `late`, `stray`, `lost`,
`unsettled`, `crossed`, `unwatched`, `stale`, `overlapped`): history variables set by
the very step of the code that makes the promise fail, and by nothing else. What they
stand for is listed under *Disagreements found*; that a mutant of the code breaks each
property shows that the exceptions do not swallow it. The type
invariants of the eight modules with proofs are theorems; in the others `TypeOK` documents
the variables.

**Bounds.** Every bound is a constant or a guard commented "bound".

* `TrackStats`: two tasks are the least that race over a row, two trips what a
  merge or split needs, two ticks enough for a mark before, at and after a
  recompute's `NOW()`; one point suffices where the question is crash and repair.
  `MaxClock` ends the points, never the repairs.
* `TripLife`: three trips and two tasks let two merges overlap and a merge of a
  merged trip follow; each tracking id sends one sample, in `life_merges` all but the
  first, which a merge only ever keeps, and two ticks put a trip's end before, at and
  after it. Failures and crashes are not bounded. Windows (`Grace`, `MergeGap`,
  `StaleAfter`, `Retention`) are none, one or a few instants, so that both sides of each
  are reached. `EmptyMax` and `MinPart` are the code's 1 and 2 scaled
  to so few samples. The phone may stop for good, so these runs allow the system to
  stop.
* `TrackJobs`: two kinds (finalize queues the other), two passes, and two crashes,
  shutdowns or failed writes overlap a run that timed out, a retry and a reclaim.
  `JobTimeout = 1 < LockTime = 2` is the order the code's constants have; one of three
  attempts is left out.
* `TripTraffic`: two requests, two passes, one late transaction, trips of none to two
  points: the least with a run on fewer points than the next. `JobTimeout = 0`,
  `LockTime = 1` and a single attempt make giving up and reclaiming short.
* `Corridors`: two trips of one leg, two routes, two runs or requests at a time, two
  ids: a third corridor would be a third creation, and twins need two. One task fails
  or is dropped.
* `TripAnalysis`: three starts and two tasks let a run meet what the run before it
  left behind, twice; `Timeout = 2` and `ReapGrace = 1` keep the order of 15 and 5
  minutes with room for a claim that comes late.
* `ChatTurn`: two turns of a conversation, the first with a tool call; a channel of
  capacity 1, so that a reader lags at once; one cancel or deletion and one fault.
* `CarAccess`: one user the car may be shared with, whose every role, invitation,
  token and feed meets two concurrent requests on two device ids; users do not meet
  except through the owner, and the proof is for any number. One dropped request or
  failed refresh.
* `FaultCodes`: two codes, reports at three times uploaded in any order, and again,
  three uploads in all, two tasks: enough for a report older than the clearing one to
  come last. `PointWatch`: trips of four points: every one of readings up to twice the
  threshold, ways in and out of the zone that end outside, and some of both; `MIN_CONSECUTIVE` is 2 instead of
  3, so that a run, a broken run and two runs fit a batch.
* `TripPage`: two trips, three visits (there, away and back), two clicks, one failed
  request; a trip under way and one being analysed. 60 polls of the estimate are 2.
  `TripList`: three trips, two of which may start at the same instant, pages of one
  trip (50 in the code), three requests, one deletion or merge, one failure.
  `ModelCalls`: three rounds (12 in the code), so that results of an early round are
  evicted in a later one; two tool slots, answers of three frames in chunks of one to
  four parts, two attempts; lengths are units, and a budget of 7 is reached in the
  second round.

**Fairness.** Time passes (`Tick`). A task that began goes on: its statements
return, tokio schedules it, and a timeout bounds each job (`JOB_TIMEOUT`,
`ANALYSIS_JOB_TIMEOUT`). The loops come round whatever they met: sweeper and
worker run on intervals, each with strong fairness because requests may disable a
pass in between for a while, and the queue orders claims by `run_after`, so no due
job is passed over for ever. A stopped server is started again. Nothing is assumed
of phones, users or the model provider: an analysis or an answer that never comes
settles by its timeout. Tasks die, and the server stops, finitely often
(`<>[][Next]_vars` in `TrackStats`, `<>[][Proceeds]_vars` in `TripLife`, bounds
elsewhere; a failure that cannot be recorded, in `TripAnalysis` and `ChatTurn`, is not bounded,
for the reaper makes up for it). The reaper's passes are
assumed to succeed in the end, and so are a feed's refreshes, which run on an interval.
A page that follows an answer goes on reading and reconnecting. The page and list
of `clients` state no liveness: that what is under way has somebody who will look at
it (`UnderWayIsWatched`) is a safety property, and stronger than that it ends.

## What is proved

* `TrackStatsProofs`. `FaultyTypeCorrect`: types, crashes included.
  `FreshRowsAreExact`: for any trips, samples and tasks, without crashes, a fresh
  row covers its trip's points. The property is not inductive: a recompute about to
  commit an old snapshot satisfies it and breaks it in its next step. `Inv`
  adds what saves the code: for a snapshot that misses points a task is about to set
  the dirty mark, or has set it at or after the snapshot's time (`SnapshotsFlagged`);
  for a fresh row that misses points a task is about to flag it, or its recompute
  has yet to look at such a mark (`RowsFlagged`); no snapshot or row is ahead of the
  clock, only finished trips have rows, and unpruned trips keep their points.
  `PrunedTripsHaveRows`: with tasks dying anywhere, retention deletes the points of no
  trip without a stored row, by `RowsBehind`: a task that is about to prune has such a
  row in front of it too, and rows go with their trips only.
* `TrackJobsProofs`. `TypeCorrect`; `LockOutlivesRun`: no expired lock has a run
  under way, by `LocksLast` (the lock of a running row exceeds what is left of
  each run of its job), from `JobTimeout < LockTime` alone; `QueuedRowsWait`: a row
  leaves 'queued' only by a claim, a request or with its trip; `RunsAreAskedFor`: no job
  has more runs under way than requests, by `RunsCounted`, which pairs each run with a
  request and keeps one to spare for a queued row's next run. A row requeued by its own
  run's outcome gives that run's request back; one reclaimed has nobody running, by
  `LocksLast`; one handed back by a shutdown may be queued with its run under way, but
  then the loops are gone and nobody claims (`QuietEnd`). `QueueKeepsPromise`: the
  queue implements `DurableJobs`, each step mapped to one step of the promise or a
  stutter.
  Then of `TripTraffic`, which runs on that queue (`OnTheQueue`): `TrafficTypeCorrect`;
  `PendingHasSomebody` and `FlagAndSummaryAgree`, by `Owed`: an unresolved summary is a
  debt of a queued or abandoned job, of a run with something left to write or report, or
  of a request, and each step of those hands it on, pays it, or is one of the steps that
  tell nobody (`unsettled`); `ReadyIsOfTheFrames`, by `AloneFits`: a run alone replaces
  the frames only of a summary that is not ready.
* `AssistantProofs`, of what the model is asked for. `TripAnalysis`, as `MCTripAnalysis`
  instantiates it: `AnalysisTypeCorrect`; `SavedReportStands`; `RegisteredFlagsAreLive`;
  `ReaperWaits`, by `TimeLeft` (age of the row and time left of any run never
  exceed the timeout together), from `ReapGrace > 0`.
  `ChatTurn`: `EventsTell`, by where a turn's job stands when its row may be
  complete, and that no event that tells an end is out before the job is closing
  (`RowsTold`); `FollowersSeeAll`, by what a page has read of a channel it follows
  (`Following`): fragments only grow along a channel, up to what the job has
  (`DeltasGrow`), none that the page is yet to take is at or before what it shows, and
  no 'done' is behind it. What the others do in a step is, to a page, one relation on
  its turn (`Onward`), so that a page's steps and theirs are looked at apart.
  `TranscriptIsKept`: `ChatTurn` implements `Transcript`. By `LogInv`, the question and
  the answer of the turn that generates or is being finished stand last, so that moving
  the answer behind the rows of its tools (`Finished`) only adds to what is replayed
  (`MovedBack`); `StartTurn` maps to `Ask`, `FinishCommit` to `Complete`, `DeleteRows` to
  `Delete`, and every other step leaves the complete rows alone (`Still`).
  `ChatTypeCorrect`, from both invariants.
* `TripLifeProofs`. `TypeCorrect`, with what a task holds at each step (`Held`), and
  that an end computed as the last of a trip's points is an instant (`LastIsInstant`: the
  library has no theorem about `Max`). `KeysAlwaysResolve`, by an invariant that does
  not choose a trip (`AllLead`). `EveryChangeIsFinalized`, with failures and crashes
  anywhere: a task that ends before its enqueue leaves its trips in `unqueued`
  (`FailingSettles`), an enqueue takes them out (`EnqueueSettles`), and so does the trip's
  end (`DeletingSettles`); nothing else leaves a change behind. `OnlyNamedLosses`, crashes
  included: a trip about to be deleted gains nothing but what races (`DoomedShrink`), so
  a merge has moved all there is that did not race, and a purge meets no more such
  points than finalize counted (`Deletions`).
* `ClientsProofs`. Of the page, `TypeCorrect`; `PageShowsOneTrip`, by which answers the page still
  takes for its trip (`Asked`); `OnlyTypedTags`, by what fills the form and what a save
  under way carries (`Forms`); `NoSpinnerIsLeft`, by the request or poll each flag
  belongs to (`Flags`, `Polling`).
  Of the list, `ListInvHolds`, for any trips, filters and page size: the list is in order
  and has no trip twice (`InOrder`) and holds every trip due above its last one
  (`Filled`); an answer on its way is a page of what was there when it was read
  (`PagesAnswered`), and the next page of this list goes on where the list ends, with
  nothing due before it missing (`GoesOn`). Then `NoHolesInTheList`, `ListedAsAskedFor`.
  Of the calls of the model, `ModelInvHolds`, for any stream cut anywhere, any number of
  attempts, rounds and tools: what has been pushed is what arrived, line by line
  (`StreamInv`; a chunk's lines are pushed one after the other, `PushLineHolds`), and what
  eviction leaves after each message keeps the replies of every call and the order in
  which results go; then `NothingIsShownTwice`, `AllIsReceived`, `RequestsFitTheBudget`.
* `ListsProofs`: what `Only` leaves of a list (`OnlyChosen`, by the places it keeps) and
  how it grows (`OnlyAppend`, `OnlyConcat`). `Only` is a recursive function, and not `SelectSeq`, which
  the provers cannot expand; induction over the places of a list is carried out by the
  least one missing (`Least`, `UpTo`, `Recursion`).
* `CarProofs`, of what a car keeps beside its trips. `FaultCodes`: `TypeCorrect`;
  `NewestDecides`: for any number of tasks, reports and repetitions, by an invariant on
  each row against the newest complete report (`RowInv`); `OwnerHears`, which is
  inductive over types. `PointWatch`, as `FreshPoints` instantiates it:
  `PointTypeCorrect`; `EveryAlertIsEarned`, by the loop invariant of `check_rule`
  (`Scanned`: the readings in a row up to here, the worst of them, and no run before
  them, or the run found); `EveryEventIsACrossing`, by `WatchInv`. While one task runs at
  a time (`Alone`), the zone's row is the side of the last fix evaluated, events are of
  crossings among the points evaluated (`Recorded`), the one about to be inserted is of a
  crossing not told yet (`TaskFits`), no point is evaluated twice (`HeldFits`, for a
  batch has only points that were not stored), and each event and notification missing
  has a failure of its own (`Counted`). `CarAccess`, as `MCCarAccess`
  instantiates it (and assumes its `AccessAssumption`): `AccessTypeCorrect`; `TokensEndWithTheRole`: for
  any users, devices and requests. The strengthening says who may still insert or leave a
  token: a request that has checked its maker's access, and a removal between its two
  statements.
* `CorridorsProofs`. `TypeCorrect` with what a run and its lock determine of each other;
  `OneCorridorPerRoute`: no twins for any trips, runs and requests, because of a
  run about to create a corridor no other of the route is there, or is stray
  (`Missing`), and only the holder of the lock creates (`Locked`).
  `LegsHaveTheirRoutes` (`RoutesFollowTrips`): a run has set the legs before its own
  (`RunFollows`), what it found is still of the leg's route or gone (`FoundFits`, since an
  id is never given twice, `UsedOnly`), and whoever else takes an assignment away makes
  its trip one of `lost` (`Bystander`).

The assumptions are those the modules name (`StatsAssumption`, `JobsAssumption`,
`AnalysisAssumption`, `AccessAssumption`, `FaultAssumption`, `CorridorAssumption`,
`LifeAssumption`, `PageAssumption`, `TrafficAssumption`, `ChatAssumption`, and
`ListAssumption`, `ModelAssumption`, `WatchAssumption`): sizes, distinct
names, a traffic job without follow-ups, and the order of the code's time constants.

Only model-checked: liveness (fairness and `ENABLED` are out of the prover's
reach). No module declares a `RECURSIVE` operator.

## Disagreements found

Where a comment, or the purpose of the code, and what it does part ways. The models
reach each of these; the properties name them as exceptions, so they hold of
everything else. Paths without a crate are under `src/crates/server/src`.

Statistics and trips:

* A task that dies between the insert of late points and `mark_stale`
  (`ingest/mod.rs:517`) leaves a row that looks fresh and misses them; the phone's
  retry is a duplicate and marks nothing. Staleness is "a performance property, never a
  correctness one, which is why every writer below can be best-effort" (`trips/stats.rs:9`)
  holds of writers that mark twice, not of one that never comes.
* `mark_stale_for_car` leaves no dirty time (`trips/stats.rs:327`): a recompute that
  read the old parameters overwrites the mark with a row that looks fresh.
* A late sample on a pruned trip marks its only row stale, and nothing recomputes a
  pruned trip, so its statistics are unusable from then on (`maintenance.rs:98`,
  `trips/stats.rs:312`).
* The sweep takes the newest trips first, up to a limit (`trips/mod.rs:202`): as many
  newest trips whose recompute keeps failing starve every older one.
* A late sample that lands on an absorbed trip between the UPDATE that moves its
  points and its DELETE is deleted with it (`trips/edit.rs:271`, `:290`).
* `finalize` takes a pruned trip a sample came late for as empty, and purges it
  (`jobs/mod.rs:311`; "purge it if it stayed empty past the grace window", `:294`).
* `finish_track` enqueues finalize in a statement of its own after its UPDATE has
  committed (`trips/mod.rs:137`). If that fails, the handler is dropped or the process
  dies, nothing finalizes the trip: `/stop` answers "already finished" from then on, and no
  loop looks for such trips. The editor's `after_reshape` is alike. `after_points_landed`
  swallows a failed re-read or enqueue as "only ever a missed optimisation"
  (`ingest/mod.rs:500`), which is so of the statistics, but the finalize that "keeps a
  trip that filled up from being purged as empty, and re-runs traffic + route_opt on the
  complete trip" (`:519`) is lost as well (`unqueued`).
* `/start` with the tracking id of an absorbed trip creates a trip that hides the
  alias: later samples of that id go to the new trip (`ingest/mod.rs:449`).
* `update_trip` writes its three parts in statements of their own: one that fails
  leaves the ones before it.

Jobs and what they compute:

* Of two overlapping runs the older one may record 'done' for the newer one's claim
  (`jobs/mod.rs:370`; "so the fresh request is not lost", `:94`).
* `MAX_ATTEMPTS` (`jobs/mod.rs:30`) is compared where a failure is recorded: a job that
  kills its process is reclaimed for ever.
* `drain` misses a claim that has committed and is not in `IN_FLIGHT` yet; the row
  waits for its lock to expire (`jobs/mod.rs:219`).
* Traffic: the owner's request writes 'pending', the flag and the job apart
  (`trips/mod.rs:922`, `:938`). Dying between the first two with the flag set already, it
  leaves 'pending' for good and later requests are answered "ready" (`:898`). A run that
  fails while an overlapping one is done leaves 'pending' with a job 'done', and a
  crash between `record` and `mark_failed` leaves it with a job 'failed' (the owner may
  ask again). A late sample on a pruned trip runs traffic again: 'skipped' overwrites
  'ready' while the frames remain. Overlapping runs may leave the summary of one with
  the frames of the other.
* Corridors: a dropped run's INSERT may commit after its lock is gone
  (`route_opt/job.rs:516`): twins. A round trip without a via point matches no corridor
  and creates one each time (`:535`, `:561`). A recount that found no trip deletes the
  corridor with the assignment written since (`:50`), and nothing retries.
  `recompute_car` clears every trip, processes 80, and is not retried.

Analysis and chat:

* A run that ends removes the cancel flag of the run started since
  (`analysis/mod.rs:229`, compare `analysis/jobs.rs:88`). `mark_failed`, the claim and the
  save ask only for the row's status (`:268`): those of a run that has lost its row act
  on the row of the next run.
* `openrouter.rs:915` drops a fragment of white space alone: "\n\n" sent by itself is
  missing from what is shown and from what "the fully accumulated turn" (`:290`)
  returns. A body that ends cleanly without `[DONE]` counts as a whole answer, or as
  whole calls. Keepalives without end are bounded by the job's timeout only. The stub
  of an evicted result may be longer than the result. When the rounds run out, the final
  message repeats narration the earlier messages hold already.
* Subscribing before reading the partial answer is to keep "whatever arrived in between"
  from being lost (`chat/mod.rs:232`). `FollowersSeeItAll` says that no text is repeated or out of
  order, and that all of it is there at 'done'; a page that lagged may show a hole until
  then, and one told of a failure may keep it.

Access, notices, rules:

* A token created as its maker's access ends, an editor who accepts an invitation as
  viewer, and an account that is deleted (its tokens become the owner's), leave working
  tokens (`devices/mod.rs:91`). Of the three the first needs a race.
* The refetch of a live card may overwrite a newer push.
* A DTC report older than the one that cleared a code makes it active again
  (`health.rs:198`); a batch sent again after its notification was read notifies again;
  reports of rejected samples are recorded as well.
* Crossings are doubled, missed or out of order when uploads of one car overlap
  (`geofences.rs:126`). A phone that sends one sample at a time never triggers a rule,
  which needs three hits in one upload (`alerts.rs`). Periodic rules notify members who
  have left. Reminders and digests are made again once read within the hour
  (`digest.rs:30`). A push subscription that failed is never dropped: the DELETE of the
  CTE meets a row the same statement updated (`notifications.rs`).

Web client (`src/crates/web/src/pages/trips.rs`):

* The answers to finish, and those for the viewer's role and the score, are not guarded:
  finished on another trip's page, a trip replaces the one on screen. `finishing`,
  `deleting`, `splitting` and `split_result` do not start over, though "every per-trip
  signal starts over here" (`:1183`). The answer to a save writes its tags into the form of
  whatever trip is on screen (`:1775`), and the next save stores them.
* The first poll, after three seconds, stops for good if the load has not come to the
  analysis (`:1262`): a running analysis is then never asked for again. A failed check
  ends a run's own polls. A failed request for an estimate leaves the optimistic
  'pending' and no button, and its poll gives up after 60 tries with 'pending' shown.
* Deleting every listed trip hides "Load more". The cursor skips trips that started
  at the same instant as the last one listed. A failed first page leaves the list of the
  filter before it, which "Load more" extends; a deletion then clears the error. A page
  read before a deletion, answered after it, lists the trip again.

## Not modelled, and why

* Geometry and arithmetic over floats (statistics' figures, traffic scores, corridor
  matching, driving score, economy, speed events, charts, map): out of TLC's reach.
  Their inputs and the order their results are stored in are what the models keep.
* Pure I/O and libraries: OCR, e-mail, web push, Google, Overpass, ORS, rate limits,
  encryption; the browser's rendering and the texts of the interface. What the provider
  sends is any sequence of frames; its JSON is not modelled.
* Reads that change nothing, and rows edited by single statements (garage, cars,
  preferences, sessions, MCP tokens, rules, zones). `api.rs` is one function per request,
  the remaining pages load once and draw.
* The agent behind an analysis, its prompts and tools (`crates/ai/src/agent.rs`,
  `tools.rs`): `TripAnalysis` knows it by how it ends.
* Repair and trimming of the replayed history of a chat, listing and retention of
  conversations.
* Periodic rules, reminders, digests and the delivery of notifications: hourly tasks of a
  single statement per notice, described above.
* A merge of more than two trips in one request; the batch order of the sweeper; deletion
  of a trip during its analysis; corridor variants, insights and stored counts, which
  nothing reads. Searches, selection and views of the list of trips.
* Database isolation is taken as PostgreSQL's READ COMMITTED with row locks; a
  statement is atomic, and one cut off by a dropped future may still commit. `TripLife`
  takes the locks of a trip's points in one step (`MoveMerged`), where the UPDATE and the
  DELETE (`trips/edit.rs:257`) lock row by row: the cycles of locks that this allows end in
  PostgreSQL failing a task, which `Abort` covers, but that every request gets through
  in the end is not checked. The wait of a corridor run for the car's lock is part of its
  start (`StartJob`).
* Steps that change nothing the properties see: `recompute`'s second statement on a pruned
  trip, which can only make its row stale (`TrackStats`); giving up on a purge after
  `MAX_ATTEMPTS` (`TripLife`; it is in `TrackJobs`); an estimate of the page that ends as
  'skipped', which is as 'failed', and `traffic_analyzed` (`TripPage`).

## What is left

1. An abstract store of samples that `TripLife` implements: every accepted sample is in
   exactly one trip until a named loss.
2. Digests and reminders against reads of notifications; the replayed history's trimming
   with `ModelCalls`' budget.
3. Pure algorithms as functions checked against a reference: down-sampling, merged
   notes, due status, speed events.
