------------------------------ MODULE TripPage ------------------------------
(***************************************************************************)
(* The page of one trip in the browser (web, pages/trips.rs).  The router  *)
(* keeps the page when only the trip in the URL changes, so what one trip  *)
(* started may still be under way when another is on screen: its load, the *)
(* polls of its analysis and traffic estimate, and the answers to finish,  *)
(* delete, split and save.                                                 *)
(*                                                                         *)
(* Signals are variables.  Effects run once the signals they read have     *)
(* changed, before anything else does.  A request is answered with what    *)
(* the server has at that moment, or with an error.  A signal is known by  *)
(* the trip it was filled for.  The owner looks at trips of his own: his   *)
(* role comes with the trip, and lets him edit.                            *)
(***************************************************************************)
EXTENDS Naturals, FiniteSets

CONSTANTS
    Trip,
    NoTrip,
    Stored,     \* bound: what the server may have of a trip at first
    Tries,      \* polls of a traffic estimate, 60 in the code
    MaxVisits,  \* bound: runs of the effect that loads the trip
    MaxClicks,  \* bound: what the owner asks for, besides going from trip to trip
    MaxFaults   \* bound: requests that fail

Analysis == {"none", "busy", "over"}
Traffic == {"none", "pending", "ready", "failed"}

ASSUME PageAssumption ==
    /\ NoTrip \notin Trip
    /\ Stored \subseteq [finished : BOOLEAN, analysis : Analysis, traffic : Traffic]
    /\ Tries \in Nat \ {0}
    /\ {MaxVisits, MaxClicks, MaxFaults} \subseteq Nat

VARIABLES
    url,        \* the trip in the URL; NoTrip once the page is left
    visit,      \* runs of the effect that loads the trip
    trip,       \* signal `trip'
    drawn,      \* the trips whose points, map and frames are on screen
    analysis,   \* signal `analysis'
    form,       \* TripMetaEditor: the trip it was loaded for, and whose text is in it
    busy,       \* the signals that say that something is under way
    task,       \* tasks spawned that still have something to do
    server,     \* the server's rows
    clicks,     \* clicks so far
    faults,     \* requests that failed so far
    crossed,    \* history: unguarded answers that met another trip than theirs
    unwatched   \* history: on this visit a poll of the analysis was not kept up

vars == <<url, visit, trip, drawn, analysis, form, busy, task, server,
          clicks, faults, crossed, unwatched>>
page == <<url, visit, drawn, crossed, unwatched>>
owner == <<url, visit, clicks>>

-----------------------------------------------------------------------------
Nothing == [of |-> NoTrip, finished |-> FALSE, traffic |-> "none"]
NoReport == [of |-> NoTrip, status |-> "none"]

(* A task: `text' is whose text a save sends, `left' the polls to go.      *)
New(kind, t) == [kind |-> kind, of |-> t, visit |-> visit, text |-> t, left |-> Tries,
                 at |-> CASE kind = "load" -> "trip" [] kind = "poll" -> "sleep"
                          [] kind \in {"traffic", "run"} -> "start" [] OTHER -> "answer"]

Doing(kind) == {k \in task : k.kind = kind}

(* The answers of get_trip and of the analysis' status.                    *)
Fetched(t) == [of |-> t, finished |-> server[t].finished, traffic |-> server[t].traffic]
Report(t) == [of |-> t, status |-> server[t].analysis]

(* Mutant: the form is loaded once.                                        *)
FormForFirst(t) == IF form.of # NoTrip THEN form ELSE [of |-> t.of, text |-> server[t.of].tags]

(* The effect of TripMetaEditor as `trip' becomes t: the form is loaded    *)
(* once per trip, and again after the page has been without one.           *)
FormFor(t) == IF t.of = trip.of THEN form ELSE [of |-> t.of, text |-> server[t.of].tags]

SetTrip(t) == trip' = t /\ form' = FormFor(t)
KeepTrip == UNCHANGED <<trip, form>>

(* Mutant: the spinner of the traffic estimate is left as it is.           *)
StartsOverSpinning == {"analysis"}

(* The flags that start over with each visit.                              *)
StartsOver == {"analysis", "traffic"}

(* Mutant: what the last visit spawned goes on.                            *)
OutlivingAll(T) == T

(* The effect's cleanup clears `alive': the load and the poll of the visit *)
(* before return as soon as they resume.                                   *)
Outliving(T) == {k \in T : k.kind \notin {"load", "poll"}}

(* The effect that loads the trip in the URL, t: "every per-trip signal    *)
(* starts over here".  T and B are the tasks and flags so far.             *)
LoadTrip(t, T, B) ==
    /\ visit' = visit + 1
    /\ trip' = Nothing /\ drawn' = {} /\ analysis' = NoReport
    /\ busy' = (B \ StartsOver) \cup {"loading"}
    /\ task' = Outliving(T) \cup {[New(kind, t) EXCEPT !.visit = visit + 1]
                                     : kind \in {"load", "poll"}}
    /\ crossed' = crossed \cap {"save"}
    /\ unwatched' = FALSE
    /\ UNCHANGED form

Init ==
    /\ url \in Trip
    /\ visit = 1
    /\ trip = Nothing /\ drawn = {} /\ analysis = NoReport
    /\ form = [of |-> NoTrip, text |-> url]
    /\ busy = {"loading"}
    /\ task = {New("load", url), New("poll", url)}
    /\ server \in {[t \in Trip |-> [finished |-> s[t].finished, analysis |-> s[t].analysis,
                                    traffic |-> s[t].traffic, tags |-> t]] : s \in [Trip -> Stored]}
    /\ clicks = 0 /\ faults = 0
    /\ crossed = {} /\ unwatched = FALSE

(* The owner follows a link to another trip, or goes back to one, ...      *)
Visit(t) ==
    /\ url \in Trip \ {t}
    /\ visit + Cardinality(Doing("split")) < MaxVisits
    /\ url' = t
    /\ LoadTrip(t, task, busy)
    /\ UNCHANGED <<server, clicks, faults>>

(* ... or leaves the page, and nothing under way on it matters any more.   *)
LeavePage ==
    /\ url' = NoTrip
    /\ trip' = Nothing /\ drawn' = {} /\ analysis' = NoReport
    /\ form' = [of |-> NoTrip, text |-> NoTrip]
    /\ busy' = {} /\ task' = {}
    /\ crossed' = crossed \cap {"save"} /\ unwatched' = FALSE

-----------------------------------------------------------------------------
(* A task's next step: it ends, or goes on at another place.               *)
Ends(k) == task' = task \ {k}
Goes(k, at) == task' = (task \ {k}) \cup {[k EXCEPT !.at = at]}

Fault == faults < MaxFaults /\ faults' = faults + 1
NoFault == UNCHANGED faults

(* The load, guarded by `alive': the trip, ...                             *)
LoadedTrip(k) ==
    /\ k.kind = "load" /\ k.at = "trip"
    /\ \/ NoFault /\ SetTrip(Fetched(k.of))
       \/ Fault /\ KeepTrip
    /\ Goes(k, "parts")
    /\ UNCHANGED <<page, analysis, busy, server, clicks>>

(* ... its points, map and frames, in one block, ...                       *)
LoadedParts(k) ==
    /\ k.kind = "load" /\ k.at = "parts"
    /\ \/ NoFault /\ drawn' = {k.of}
       \/ Fault /\ drawn' = {}
    /\ Goes(k, "analysis")
    /\ KeepTrip /\ UNCHANGED <<owner, analysis, busy, server, crossed, unwatched>>

(* ... and its analysis.                                                   *)
LoadedAnalysis(k) ==
    /\ k.kind = "load" /\ k.at = "analysis"
    /\ \/ NoFault /\ analysis' = Report(k.of)
       \/ Fault /\ UNCHANGED analysis
    /\ busy' = busy \ {"loading"}
    /\ Ends(k)
    /\ KeepTrip /\ UNCHANGED <<page, server, clicks>>

(* The poll spawned with the load wakes every three seconds, whether the   *)
(* load has come to the analysis or not, and ends unless it is under way,  *)
PollWakes(k) ==
    /\ k.kind = "poll" /\ k.at = "sleep"
    /\ IF analysis.status = "busy" THEN Goes(k, "fetch") ELSE Ends(k)
    /\ unwatched' = (unwatched \/ "loading" \in busy)
    /\ KeepTrip /\ UNCHANGED <<owner, drawn, analysis, busy, server, faults, crossed>>

(* ... shows what it is told until that is the end, whatever fails, ...    *)
Polled(k) ==
    /\ k.kind = "poll" /\ k.at = "fetch"
    /\ \/ /\ NoFault
          /\ analysis' = Report(k.of)
          /\ Goes(k, IF server[k.of].analysis = "busy" THEN "sleep" ELSE "trip")
       \/ Fault /\ Goes(k, "sleep") /\ UNCHANGED analysis
    /\ KeepTrip /\ UNCHANGED <<page, busy, server, clicks>>

(* ... and then the trip as it is by then.                                 *)
PolledTrip(k) ==
    /\ k.kind = "poll" /\ k.at = "trip"
    /\ \/ NoFault /\ SetTrip(Fetched(k.of))
       \/ Fault /\ KeepTrip
    /\ Ends(k)
    /\ UNCHANGED <<page, analysis, busy, server, clicks>>

-----------------------------------------------------------------------------
(* What the owner asks for: the kind of task, of a trip, with a flag.      *)
Click(kind, t, flag) ==
    /\ url # NoTrip
    /\ clicks < MaxClicks /\ clicks' = clicks + 1
    /\ flag \notin busy /\ busy' = busy \cup {flag}
    /\ task' = task \cup {[New(kind, t) EXCEPT !.text = form.text]}
    /\ UNCHANGED <<page, analysis, server, faults>>

(* Finish an open trip, delete a trip; split a finished one at a point     *)
(* pinned on its charts; save what is in the form.                         *)
ClickFinish ==
    /\ trip.of # NoTrip /\ ~trip.finished /\ "deleting" \notin busy
    /\ Click("finish", trip.of, "finishing") /\ KeepTrip

ClickDelete ==
    /\ trip.of # NoTrip /\ "finishing" \notin busy
    /\ Click("delete", trip.of, "deleting") /\ KeepTrip

ClickSplit ==
    /\ trip.of # NoTrip /\ trip.finished /\ drawn # {}
    /\ visit < MaxVisits
    /\ Click("split", trip.of, "splitting") /\ KeepTrip

ClickSave ==
    /\ trip.of # NoTrip
    /\ Click("save", trip.of, "saving") /\ KeepTrip

(* Analyze traffic: shown as pending at once.                              *)
ClickTraffic ==
    /\ trip.of # NoTrip /\ trip.finished /\ trip.traffic \in {"none", "failed"}
    /\ Click("traffic", trip.of, "traffic")
    /\ SetTrip([trip EXCEPT !.traffic = "pending"])

(* Analyze route: of the trip in the URL.                                  *)
ClickAnalyze ==
    /\ analysis.of # NoTrip /\ analysis.status # "busy"
    /\ Click("run", url, "analysis") /\ KeepTrip

(* Cancel the analysis of the trip in the URL.                             *)
ClickCancel ==
    /\ analysis.of # NoTrip /\ (analysis.status = "busy" \/ "analysis" \in busy)
    /\ Click("cancel", url, "cancelling") /\ KeepTrip

(* An answer, or an error, that ends a task and its flag.                  *)
Answered(k, flag) == Ends(k) /\ busy' = busy \ {flag}

(* The trip finished is shown whatever is on screen; a request that fails  *)
(* may have been carried out, here and in the answers below.               *)
FinishAnswered(k) ==
    /\ k.kind = "finish" /\ Answered(k, "finishing")
    /\ \/ /\ NoFault
          /\ server' = [server EXCEPT ![k.of].finished = TRUE]
          /\ SetTrip([Fetched(k.of) EXCEPT !.finished = TRUE])
          /\ crossed' = IF k.of = url THEN crossed ELSE crossed \cup {"finish"}
       \/ /\ Fault /\ KeepTrip /\ UNCHANGED crossed
          /\ server' \in {server, [server EXCEPT ![k.of].finished = TRUE]}
    /\ UNCHANGED <<owner, drawn, analysis, unwatched>>

(* The trip deleted: back to the list from whatever is on screen.          *)
DeleteAnswered(k) ==
    /\ k.kind = "delete"
    /\ \/ NoFault /\ LeavePage
       \/ Fault /\ Answered(k, "deleting") /\ KeepTrip /\ UNCHANGED <<url, drawn, analysis, crossed, unwatched>>
    /\ UNCHANGED <<visit, server, clicks>>

(* The trip split: the one in the URL by now is loaded again.              *)
SplitAnswered(k) ==
    /\ k.kind = "split"
    /\ \/ NoFault /\ LoadTrip(url, task \ {k}, busy \ {"splitting"})
       \/ /\ Fault /\ Answered(k, "splitting")
          /\ KeepTrip /\ UNCHANGED <<visit, drawn, analysis, crossed, unwatched>>
    /\ UNCHANGED <<url, server, clicks>>

(* The form saved: the answer's tags go back into the form as it is by     *)
(* now.                                                                    *)
SaveAnswered(k) ==
    /\ k.kind = "save" /\ Answered(k, "saving")
    /\ \/ /\ NoFault
          /\ server' = [server EXCEPT ![k.of].tags = k.text]
          /\ form' = [form EXCEPT !.text = k.text]
          /\ crossed' = IF form.of = k.of THEN crossed ELSE crossed \cup {"save"}
       \/ /\ Fault
          /\ UNCHANGED <<form, crossed>>
          /\ server' \in {server, [server EXCEPT ![k.of].tags = k.text]}
    /\ UNCHANGED <<owner, trip, drawn, analysis, unwatched>>

-----------------------------------------------------------------------------
(* still_current: the trip of the estimate is the one on screen.           *)
Current(k) == trip.of = k.of

(* The request for an estimate failed.                                     *)
Refused(k) == IF Current(k) THEN busy \ {"traffic"} ELSE busy

(* The server's rows when an estimate is asked for.                        *)
Pending(t) ==
    IF server[t].traffic = "ready" THEN server ELSE [server EXCEPT ![t].traffic = "pending"]

(* The estimate was asked for, or is there already, ...                    *)
TrafficAccepted(k) ==
    /\ k.kind = "traffic" /\ k.at = "start"
    /\ \/ /\ NoFault
          /\ server' = Pending(k.of)
          /\ IF Current(k)
             THEN Goes(k, IF server[k.of].traffic = "ready" THEN "again" ELSE "poll")
             ELSE Ends(k)
          /\ UNCHANGED busy
       \/ Fault /\ Ends(k) /\ busy' = Refused(k) /\ server' \in {server, Pending(k.of)}
    /\ KeepTrip /\ UNCHANGED <<page, analysis, clicks>>

(* ... and the trip is asked for with it;                                  *)
TrafficAgain(k) ==
    /\ k.kind = "traffic" /\ k.at = "again"
    /\ \/ NoFault /\ IF Current(k) THEN SetTrip(Fetched(k.of)) ELSE KeepTrip
       \/ Fault /\ KeepTrip
    /\ Goes(k, "frames again")
    /\ UNCHANGED <<page, analysis, busy, server, clicks>>

Over(k) == server[k.of].traffic = "failed" \/ k.left = 1

(* or it is asked for every half second until it has ended, an answer is   *)
(* an error, or the last try is over.                                      *)
TrafficPolled(k) ==
    /\ k.kind = "traffic" /\ k.at = "poll"
    /\ \/ ~Current(k) /\ NoFault /\ Ends(k) /\ KeepTrip /\ UNCHANGED busy
       \/ /\ Current(k) /\ NoFault /\ SetTrip(Fetched(k.of))
          /\ CASE server[k.of].traffic = "ready" -> Goes(k, "frames") /\ UNCHANGED busy
               [] server[k.of].traffic # "ready" /\ Over(k) -> Answered(k, "traffic")
               [] OTHER -> /\ task' = (task \ {k}) \cup {[k EXCEPT !.left = @ - 1]}
                           /\ UNCHANGED busy
       \/ Current(k) /\ Fault /\ Answered(k, "traffic") /\ KeepTrip
    /\ UNCHANGED <<page, analysis, server, clicks>>

(* The frames of an estimate that is ready.                                *)
TrafficFrames(k) ==
    /\ k.kind = "traffic" /\ k.at \in {"frames", "frames again"}
    /\ Ends(k)
    /\ \/ /\ NoFault
          /\ drawn' = IF Current(k) THEN drawn \cup {k.of} ELSE drawn
          /\ busy' = IF Current(k) THEN busy \ {"traffic"} ELSE busy
       \/ /\ Fault /\ UNCHANGED drawn
          /\ busy' = IF Current(k) \/ k.at = "frames" THEN busy \ {"traffic"} ELSE busy
    /\ KeepTrip /\ UNCHANGED <<owner, analysis, server, crossed, unwatched>>

(* alive_job: the trip of the run is the one in the URL.                   *)
AliveJob(k) == url = k.of

(* The analysis was started, or refused because one is under way, ...      *)
RunStarted(k) ==
    /\ k.kind = "run" /\ k.at = "start"
    /\ \/ /\ NoFault /\ server[k.of].analysis # "busy"
          /\ server' = [server EXCEPT ![k.of].analysis = "busy"]
          /\ Goes(k, "check") /\ UNCHANGED busy
       \/ /\ IF server[k.of].analysis = "busy" THEN NoFault ELSE Fault
          /\ IF AliveJob(k) THEN Answered(k, "analysis") ELSE Ends(k) /\ UNCHANGED busy
          /\ server' \in {server, [server EXCEPT ![k.of].analysis = "busy"]}
    /\ KeepTrip /\ UNCHANGED <<page, analysis, clicks>>

(* ... and is asked for until it has ended, or the answer is an error.     *)
RunChecked(k) ==
    /\ k.kind = "run" /\ k.at = "check"
    /\ \/ ~AliveJob(k) /\ NoFault /\ Ends(k) /\ UNCHANGED <<analysis, busy, unwatched>>
       \/ /\ AliveJob(k) /\ NoFault
          /\ analysis' = Report(k.of)
          /\ IF server[k.of].analysis = "busy" THEN UNCHANGED <<task, busy>>
             ELSE Answered(k, "analysis")
          /\ UNCHANGED unwatched
       \/ /\ AliveJob(k) /\ Fault
          /\ Answered(k, "analysis") /\ unwatched' = TRUE
          /\ UNCHANGED analysis
    /\ KeepTrip /\ UNCHANGED <<owner, drawn, server, crossed>>

(* The server's rows when an analysis is cancelled.                        *)
Cancelled(t) ==
    IF server[t].analysis = "busy" THEN [server EXCEPT ![t].analysis = "over"] ELSE server

(* The analysis was cancelled, or the answer is an error.                  *)
CancelAnswered(k) ==
    /\ k.kind = "cancel" /\ Answered(k, "cancelling")
    /\ \/ /\ NoFault
          /\ server' = Cancelled(k.of)
       \/ Fault /\ server' \in {server, Cancelled(k.of)}
    /\ KeepTrip /\ UNCHANGED <<page, analysis, clicks>>

(* The server's jobs end.                                                  *)
JobEnds(t) ==
    /\ \/ server[t].analysis = "busy" /\ server' = [server EXCEPT ![t].analysis = "over"]
       \/ /\ server[t].traffic = "pending"
          /\ \E status \in {"ready", "failed"} : server' = [server EXCEPT ![t].traffic = status]
    /\ KeepTrip /\ UNCHANGED <<page, analysis, busy, task, clicks, faults>>

TaskStep(k) ==
    \/ LoadedTrip(k) \/ LoadedParts(k) \/ LoadedAnalysis(k)
    \/ PollWakes(k) \/ Polled(k) \/ PolledTrip(k)
    \/ FinishAnswered(k) \/ DeleteAnswered(k) \/ SplitAnswered(k) \/ SaveAnswered(k)
    \/ TrafficAccepted(k) \/ TrafficAgain(k) \/ TrafficPolled(k) \/ TrafficFrames(k)
    \/ RunStarted(k) \/ RunChecked(k) \/ CancelAnswered(k)

Next ==
    \/ \E k \in task : TaskStep(k)
    \/ ClickFinish \/ ClickDelete \/ ClickSplit \/ ClickSave \/ ClickTraffic
    \/ ClickAnalyze \/ ClickCancel
    \/ \E t \in Trip : Visit(t) \/ JobEnds(t)

Spec == Init /\ [][Next]_vars

-----------------------------------------------------------------------------
MaybeTrip == Trip \cup {NoTrip}

Kind == {"load", "poll", "finish", "delete", "split", "save", "traffic", "run", "cancel"}
Place == {"trip", "parts", "analysis", "sleep", "fetch", "start", "answer", "again",
          "frames again", "poll", "frames", "check"}
Flag == {"loading", "finishing", "deleting", "splitting", "saving", "traffic", "analysis",
         "cancelling"}

TaskState == [kind : Kind, of : Trip, visit : Nat, text : MaybeTrip, left : 1..Tries, at : Place]

TypeOK ==
    /\ url \in MaybeTrip /\ visit \in Nat
    /\ trip \in [of : MaybeTrip, finished : BOOLEAN, traffic : Traffic]
    /\ drawn \subseteq Trip
    /\ analysis \in [of : MaybeTrip, status : Analysis]
    /\ form \in [of : MaybeTrip, text : MaybeTrip]
    /\ busy \subseteq Flag
    /\ task \subseteq TaskState
    /\ server \in [Trip -> [finished : BOOLEAN, analysis : Analysis, traffic : Traffic,
                           tags : MaybeTrip]]
    /\ clicks \in 0..MaxClicks /\ faults \in 0..MaxFaults
    /\ crossed \subseteq {"finish", "save"} /\ unwatched \in BOOLEAN

-----------------------------------------------------------------------------
(* "Otherwise the previous trip's map, charts, traffic colours and AI      *)
(* report stay on screen" (pages/trips.rs): what the page shows is of the  *)
(* trip in the URL, in whatever order trips are gone to and answers come,  *)
(* but for the trip a finish of another visit puts on screen.              *)
OnePageOneTrip ==
    /\ analysis.of \in {NoTrip, url}
    /\ {trip.of} \cup drawn \subseteq {NoTrip, url} \/ "finish" \in crossed

(* What a trip's tags are, somebody typed for that trip, unless the answer *)
(* to a save of another trip had filled the form.                          *)
TagsAreTyped == "save" \notin crossed => \A t \in Trip : server[t].tags = t

Under(kind) == {k.of : k \in Doing(kind)}

(* Whatever the page shows as under way, a task of its own will look at    *)
(* again: no spinner is left on by going from trip to trip, and no         *)
(* analysis is shown as under way for good, unless the first poll woke     *)
(* before the load had ended or the answer to a run's check was an error.  *)
UnderWayIsWatched ==
    /\ "loading" \in busy => url \in Under("load")
    /\ "analysis" \in busy => url \in Under("run")
    /\ "traffic" \in busy => trip.of \in Under("traffic") \/ "finish" \in crossed
    /\ "finishing" \in busy => Under("finish") # {}
    /\ "deleting" \in busy => Under("delete") # {}
    /\ "splitting" \in busy => Under("split") # {}
    /\ "saving" \in busy => Under("save") # {}
    /\ "cancelling" \in busy => Under("cancel") # {}
    /\ analysis.status = "busy" => url \in Under("poll") \cup Under("run") \/ unwatched
=============================================================================
