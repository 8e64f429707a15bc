---------------------------- MODULE ClientsProofs ---------------------------
(***************************************************************************)
(* Proofs about Clients: the page of a trip, the list of trips, and a chat *)
(* turn's calls of the model, each for any values of its constants.        *)
(***************************************************************************)
EXTENDS Clients, ListsProofs, FiniteSetTheorems


(* A load and a poll are of the trip in the URL, and a page that was left  *)
(* has nothing under way.                                                  *)
Asked ==
    /\ url = NoTrip => task = {}
    /\ \A k \in task : k.kind \in {"load", "poll"} => k.of = url

(* A task that begins.                                                     *)
LEMMA Begun ==
    ASSUME TypeOK, NEW kind \in Kind, NEW t \in Trip
    PROVE  /\ New(kind, t) \in TaskState
           /\ New(kind, t).kind = kind /\ New(kind, t).of = t /\ New(kind, t).text = t
           /\ kind = "load" => New(kind, t).at = "trip"
           /\ kind = "poll" => New(kind, t).at = "sleep"
<1> DEFINE at == CASE kind = "load" -> "trip" [] kind = "poll" -> "sleep"
                   [] kind \in {"traffic", "run"} -> "start" [] OTHER -> "answer"
<1>1. at \in Place /\ (kind = "load" => at = "trip") /\ (kind = "poll" => at = "sleep")
  BY DEF Place
<1>2. visit \in Nat /\ t \in MaybeTrip /\ Tries \in 1..Tries
  BY PageAssumption DEF TypeOK, MaybeTrip
<1>3. New(kind, t) = [kind |-> kind, of |-> t, visit |-> visit, text |-> t, left |-> Tries, at |-> at]
  BY DEF New
<1> QED BY <1>1, <1>2, <1>3 DEF TaskState

(* What the server answers.                                                *)
LEMMA Answers ==
    ASSUME TypeOK, NEW t \in Trip
    PROVE  /\ Fetched(t) \in [of : Trip, finished : BOOLEAN, traffic : Traffic]
           /\ Fetched(t).of = t
           /\ Report(t) \in [of : Trip, status : Analysis]
           /\ Report(t).of = t
           /\ server[t].tags \in MaybeTrip
BY DEF TypeOK, Fetched, Report

(* A trip put on screen, and the form that goes with it.                   *)
LEMMA Shown ==
    ASSUME TypeOK, NEW t \in [of : Trip, finished : BOOLEAN, traffic : Traffic], SetTrip(t)
    PROVE  /\ trip' \in [of : MaybeTrip, finished : BOOLEAN, traffic : Traffic]
           /\ form' \in [of : MaybeTrip, text : MaybeTrip]
           /\ trip'.of = t.of
BY DEF TypeOK, SetTrip, FormFor, MaybeTrip

(* A task that goes on, ends, or is asked for.                             *)
LEMMA Going ==
    ASSUME TypeOK, NEW k \in task, NEW at \in Place, Goes(k, at)
    PROVE  task' \subseteq TaskState
BY DEF TypeOK, Goes, TaskState

LEMMA Ending ==
    ASSUME TypeOK, NEW k \in task, Ends(k)
    PROVE  task' \subseteq TaskState
BY DEF TypeOK, Ends

LEMMA Faults ==
    ASSUME TypeOK, Fault \/ NoFault
    PROVE  faults' \in 0..MaxFaults
BY PageAssumption DEF TypeOK, Fault, NoFault

LEMMA Clicked ==
    ASSUME TypeOK, NEW kind \in Kind, NEW t \in Trip, NEW flag \in Flag, Click(kind, t, flag)
    PROVE  /\ task' \subseteq TaskState /\ busy' \subseteq Flag
           /\ clicks' \in 0..MaxClicks
<1>1. [New(kind, t) EXCEPT !.text = form.text] \in TaskState
  BY Begun DEF TypeOK, TaskState
<1> QED BY <1>1, PageAssumption DEF Click, TypeOK

LEMMA Loaded ==
    ASSUME TypeOK, NEW t \in Trip, NEW T \in SUBSET TaskState, NEW B \in SUBSET Flag,
           LoadTrip(t, T, B)
    PROVE  /\ visit' \in Nat /\ task' \subseteq TaskState /\ busy' \subseteq Flag
           /\ trip' \in [of : MaybeTrip, finished : BOOLEAN, traffic : Traffic]
           /\ analysis' \in [of : MaybeTrip, status : Analysis]
           /\ drawn' = {} /\ form' = form
           /\ crossed' \subseteq {"finish", "save"} /\ unwatched' = FALSE
           /\ \A j \in task' : j \in Outliving(T) \/ (j.kind \in {"load", "poll"} /\ j.of = t)
           /\ Outliving(T) \subseteq task'
           /\ \E j \in task' : j.kind = "load" /\ j.of = t
           /\ \E j \in task' : j.kind = "poll" /\ j.of = t /\ j.at = "sleep"
           /\ \A i, j \in task' : i.kind = "load" /\ j.kind = "load" => i = j
<1> DEFINE first(kind) == [New(kind, t) EXCEPT !.visit = visit + 1]
<1>0. /\ first("load").kind = "load" /\ first("load").of = t
      /\ first("poll").kind = "poll" /\ first("poll").of = t /\ first("poll").at = "sleep"
  BY Begun DEF TaskState, Kind
<1>1. \A kind \in {"load", "poll"} : [New(kind, t) EXCEPT !.visit = visit + 1] \in TaskState
  BY Begun DEF TypeOK, TaskState, Kind
<1>2. task' \subseteq TaskState
  BY <1>1 DEF LoadTrip, Outliving
<1>3. task' = Outliving(T) \cup {first("load"), first("poll")}
  BY DEF LoadTrip
<1>4. \A j \in Outliving(T) : j.kind \notin {"load", "poll"}
  BY DEF Outliving
<1> HIDE DEF first
<1>5. /\ \A j \in task' : j \in Outliving(T) \/ (j.kind \in {"load", "poll"} /\ j.of = t)
      /\ Outliving(T) \subseteq task'
      /\ \E j \in task' : j.kind = "load" /\ j.of = t
      /\ \E j \in task' : j.kind = "poll" /\ j.of = t /\ j.at = "sleep"
      /\ \A i, j \in task' : i.kind = "load" /\ j.kind = "load" => i = j
  <2>1. \A j \in task' : j \in Outliving(T) \/ j = first("load") \/ j = first("poll")
    BY <1>3
  <2>2. first("load") \in task' /\ first("poll") \in task' /\ Outliving(T) \subseteq task'
    BY <1>3
  <2>3. \A j \in task' : j.kind = "load" => j = first("load")
    BY <1>0, <1>4, <2>1
  <2>4. \A j \in task' : j \in Outliving(T) \/ (j.kind \in {"load", "poll"} /\ j.of = t)
    BY <1>0, <2>1
  <2>5. \A i, j \in task' : i.kind = "load" /\ j.kind = "load" => i = j
    BY <2>3
  <2> QED BY <1>0, <2>2, <2>4, <2>5
<1>6. /\ visit' \in Nat /\ busy' \subseteq Flag
      /\ trip' \in [of : MaybeTrip, finished : BOOLEAN, traffic : Traffic]
      /\ analysis' \in [of : MaybeTrip, status : Analysis]
      /\ drawn' = {} /\ form' = form
      /\ crossed' \subseteq {"finish", "save"} /\ unwatched' = FALSE
  <2>1. visit' \in Nat /\ busy' \subseteq Flag
    BY DEF LoadTrip, TypeOK, Flag
  <2>2. trip' \in [of : MaybeTrip, finished : BOOLEAN, traffic : Traffic]
    BY DEF LoadTrip, Nothing, MaybeTrip, Traffic
  <2>3. analysis' \in [of : MaybeTrip, status : Analysis]
    BY DEF LoadTrip, NoReport, MaybeTrip, Analysis
  <2> QED BY <2>1, <2>2, <2>3 DEF LoadTrip, TypeOK
<1> QED BY <1>2, <1>5, <1>6

LEMMA InitTypeOK == Init => TypeOK
<1> SUFFICES ASSUME Init PROVE TypeOK
  OBVIOUS
<1> USE PageAssumption DEF Init
<1>1. url \in MaybeTrip /\ visit \in Nat /\ drawn \subseteq Trip
  BY DEF MaybeTrip
<1>2. trip \in [of : MaybeTrip, finished : BOOLEAN, traffic : Traffic]
  BY DEF Nothing, MaybeTrip, Traffic
<1>3. analysis \in [of : MaybeTrip, status : Analysis] /\ form \in [of : MaybeTrip, text : MaybeTrip]
  BY DEF NoReport, MaybeTrip, Analysis
<1>4. New("load", url) \in TaskState /\ New("poll", url) \in TaskState
  BY DEF New, TaskState, Kind, Place, MaybeTrip
<1>5. server \in [Trip -> [finished : BOOLEAN, analysis : Analysis, traffic : Traffic, tags : MaybeTrip]]
  <2>1. PICK s \in [Trip -> Stored] :
           server = [t \in Trip |-> [finished |-> s[t].finished, analysis |-> s[t].analysis,
                                     traffic |-> s[t].traffic, tags |-> t]]
    OBVIOUS
  <2>2. \A t \in Trip : s[t] \in [finished : BOOLEAN, analysis : Analysis, traffic : Traffic]
    OBVIOUS
  <2> QED BY <2>1, <2>2 DEF MaybeTrip
<1>6. busy \subseteq Flag /\ task \subseteq TaskState
  BY <1>4 DEF Flag
<1>7. clicks \in 0..MaxClicks /\ faults \in 0..MaxFaults
  OBVIOUS
<1>8. crossed \subseteq {"finish", "save"} /\ unwatched \in BOOLEAN
  OBVIOUS
<1> QED BY <1>1, <1>2, <1>3, <1>5, <1>6, <1>7, <1>8 DEF TypeOK

(* Every task's step, in the order of TaskStep.                            *)
LEMMA TaskTypeOK == ASSUME TypeOK, Asked, NEW k \in task, TaskStep(k) PROVE TypeOK'
<1> DEFINE Row == [finished : BOOLEAN, analysis : Analysis, traffic : Traffic, tags : MaybeTrip]
<1>0. k \in TaskState /\ k.of \in Trip /\ k.text \in MaybeTrip /\ k.left \in 1..Tries
  BY DEF TypeOK, TaskState
<1>1. Fetched(k.of) \in [of : Trip, finished : BOOLEAN, traffic : Traffic]
  BY <1>0, Answers
<1>2. Report(k.of) \in [of : MaybeTrip, status : Analysis]
  BY <1>0, Answers DEF MaybeTrip
<1>3. CASE LoadedTrip(k)
  <2>1. task' \subseteq TaskState
    BY <1>3, Going DEF LoadedTrip, Place
  <2> QED BY <1>1, <1>3, <2>1, Shown, Faults DEF LoadedTrip, KeepTrip, page, TypeOK
<1>4. CASE LoadedParts(k)
  <2>1. task' \subseteq TaskState
    BY <1>4, Going DEF LoadedParts, Place
  <2> QED BY <1>0, <1>4, <2>1, Faults DEF LoadedParts, KeepTrip, owner, TypeOK
<1>5. CASE LoadedAnalysis(k)
  <2>1. task' \subseteq TaskState
    BY <1>5, Ending DEF LoadedAnalysis
  <2> QED BY <1>2, <1>5, <2>1, Faults DEF LoadedAnalysis, KeepTrip, page, TypeOK
<1>6. CASE PollWakes(k)
  <2>1. task' \subseteq TaskState
    BY <1>6, Ending, Going DEF PollWakes, Place
  <2> QED BY <1>6, <2>1 DEF PollWakes, KeepTrip, owner, TypeOK
<1>7. CASE Polled(k)
  <2>1. task' \subseteq TaskState
    BY <1>7, Going DEF Polled, Place
  <2> QED BY <1>2, <1>7, <2>1, Faults DEF Polled, KeepTrip, page, TypeOK
<1>8. CASE PolledTrip(k)
  <2>1. task' \subseteq TaskState
    BY <1>8, Ending DEF PolledTrip
  <2> QED BY <1>1, <1>8, <2>1, Shown, Faults DEF PolledTrip, KeepTrip, page, TypeOK
<1>9. CASE FinishAnswered(k)
  <2>1. task' \subseteq TaskState
    BY <1>9, Ending DEF FinishAnswered, Answered
  <2>2. server' \in [Trip -> Row]
    <3>1. [server EXCEPT ![k.of].finished = TRUE] \in [Trip -> Row]
      BY <1>0 DEF TypeOK
    <3> QED BY <1>9, <3>1 DEF FinishAnswered, TypeOK
  <2>3. [Fetched(k.of) EXCEPT !.finished = TRUE] \in [of : Trip, finished : BOOLEAN, traffic : Traffic]
    BY <1>1
  <2>4. /\ trip' \in [of : MaybeTrip, finished : BOOLEAN, traffic : Traffic]
        /\ form' \in [of : MaybeTrip, text : MaybeTrip]
    BY <1>9, <2>3, Shown DEF FinishAnswered, KeepTrip, TypeOK
  <2>5. faults' \in 0..MaxFaults
    BY <1>9, Faults DEF FinishAnswered
  <2> QED BY <1>9, <2>1, <2>2, <2>4, <2>5 DEF FinishAnswered, Answered, owner, TypeOK
<1>10. CASE DeleteAnswered(k)
  <2>1. CASE LeavePage
    BY <1>10, <2>1, Faults DEF DeleteAnswered, LeavePage, TypeOK, MaybeTrip, Nothing, NoReport, Traffic, Analysis
  <2>2. CASE ~LeavePage
    <3>1. task' \subseteq TaskState
      BY <1>10, <2>2, Ending DEF DeleteAnswered, Answered
    <3> QED BY <1>10, <2>2, <3>1, Faults DEF DeleteAnswered, Answered, KeepTrip, TypeOK
  <2> QED BY <2>1, <2>2
<1>11. CASE SplitAnswered(k)
  <2>1. CASE NoFault /\ LoadTrip(url, task \ {k}, busy \ {"splitting"})
    <3>0. task \ {k} \in SUBSET TaskState /\ busy \ {"splitting"} \in SUBSET Flag
      BY DEF TypeOK
    <3>1. url \in Trip
      BY DEF Asked, MaybeTrip, TypeOK
    <3> QED BY <1>11, <2>1, <3>0, <3>1, Loaded, Faults DEF SplitAnswered, TypeOK
  <2>2. CASE Fault /\ Answered(k, "splitting") /\ KeepTrip /\ UNCHANGED <<visit, drawn, analysis, crossed, unwatched>>
    <3>1. task' \subseteq TaskState
      BY <2>2, Ending DEF Answered
    <3> QED BY <1>11, <2>2, <3>1, Faults DEF SplitAnswered, Answered, KeepTrip, TypeOK
  <2> QED BY <1>11, <2>1, <2>2 DEF SplitAnswered
<1>12. CASE SaveAnswered(k)
  <2>1. task' \subseteq TaskState
    BY <1>12, Ending DEF SaveAnswered, Answered
  <2>2. server' \in [Trip -> Row]
    BY <1>0, <1>12 DEF SaveAnswered, TypeOK
  <2>3. form' \in [of : MaybeTrip, text : MaybeTrip]
    BY <1>0, <1>12 DEF SaveAnswered, TypeOK
  <2> QED BY <1>12, <2>1, <2>2, <2>3, Faults DEF SaveAnswered, Answered, owner, TypeOK
<1>13. CASE TrafficAccepted(k)
  <2>1. task' \subseteq TaskState
    BY <1>13, Ending, Going DEF TrafficAccepted, Place
  <2>2. server' \in [Trip -> Row]
    BY <1>0, <1>13 DEF TrafficAccepted, Pending, TypeOK, Traffic
  <2> QED BY <1>13, <2>1, <2>2, Faults DEF TrafficAccepted, KeepTrip, Refused, page, TypeOK
<1>14. CASE TrafficAgain(k)
  <2>1. task' \subseteq TaskState
    BY <1>14, Going DEF TrafficAgain, Place
  <2> QED BY <1>1, <1>14, <2>1, Shown, Faults DEF TrafficAgain, KeepTrip, page, TypeOK
<1>15. CASE TrafficPolled(k)
  <2>1. k.left # 1 => [k EXCEPT !.left = @ - 1] \in TaskState
    BY <1>0, PageAssumption DEF TaskState
  <2>2. task' \subseteq TaskState /\ busy' \subseteq Flag
    <3>1. CASE Ends(k) /\ UNCHANGED busy
      BY <3>1, Ending DEF TypeOK
    <3>2. CASE Goes(k, "frames") /\ UNCHANGED busy
      BY <3>2, Going DEF TypeOK, Place
    <3>3. CASE Answered(k, "traffic")
      BY <3>3, Ending DEF TypeOK, Answered
    <3>4. CASE ~Over(k) /\ task' = (task \ {k}) \cup {[k EXCEPT !.left = @ - 1]} /\ UNCHANGED busy
      BY <2>1, <3>4 DEF TypeOK, Over
    <3> QED BY <1>15, <3>1, <3>2, <3>3, <3>4 DEF TrafficPolled
  <2>3. faults' \in 0..MaxFaults
    BY <1>15, Faults DEF TrafficPolled
  <2>4. /\ trip' \in [of : MaybeTrip, finished : BOOLEAN, traffic : Traffic]
        /\ form' \in [of : MaybeTrip, text : MaybeTrip]
    BY <1>1, <1>15, Shown DEF TrafficPolled, KeepTrip, TypeOK
  <2> QED BY <1>15, <2>2, <2>3, <2>4 DEF TrafficPolled, page, TypeOK
<1>16. CASE TrafficFrames(k)
  <2>1. task' \subseteq TaskState
    BY <1>16, Ending DEF TrafficFrames
  <2> QED BY <1>0, <1>16, <2>1, Faults DEF TrafficFrames, KeepTrip, owner, TypeOK
<1>17. CASE RunStarted(k)
  <2>1. task' \subseteq TaskState
    BY <1>17, Ending, Going DEF RunStarted, Answered, Place
  <2>2. server' \in [Trip -> Row]
    BY <1>0, <1>17 DEF RunStarted, TypeOK, Analysis
  <2> QED BY <1>17, <2>1, <2>2, Faults DEF RunStarted, Answered, KeepTrip, page, TypeOK
<1>18. CASE RunChecked(k)
  <2>1. task' \subseteq TaskState
    BY <1>18, Ending DEF RunChecked, Answered, TypeOK
  <2> QED BY <1>2, <1>18, <2>1, Faults DEF RunChecked, Answered, KeepTrip, owner, TypeOK
<1>19. CASE CancelAnswered(k)
  <2>1. task' \subseteq TaskState
    BY <1>19, Ending DEF CancelAnswered, Answered
  <2>2. server' \in [Trip -> Row]
    BY <1>0, <1>19 DEF CancelAnswered, Cancelled, TypeOK, Analysis
  <2> QED BY <1>19, <2>1, <2>2, Faults DEF CancelAnswered, Answered, KeepTrip, page, TypeOK
<1> QED BY <1>3, <1>4, <1>5, <1>6, <1>7, <1>8, <1>9, <1>10, <1>11, <1>12, <1>13, <1>14, <1>15,
        <1>16, <1>17, <1>18, <1>19 DEF TaskStep

(* Every click, a trip gone to, and a job of the server that ends.         *)
LEMMA NextTypeOK == ASSUME TypeOK, Asked, Next PROVE TypeOK'
<1>0. trip.of \in MaybeTrip /\ url \in MaybeTrip
  BY DEF TypeOK
<1>1. ASSUME NEW k \in task, TaskStep(k) PROVE TypeOK'
  BY <1>1, TaskTypeOK
<1>2. ASSUME NEW t \in Trip, Visit(t) PROVE TypeOK'
  <2>1. task \in SUBSET TaskState /\ busy \in SUBSET Flag /\ LoadTrip(t, task, busy)
    BY <1>2 DEF TypeOK, Visit
  <2>2. /\ visit' \in Nat /\ task' \subseteq TaskState /\ busy' \subseteq Flag
        /\ trip' \in [of : MaybeTrip, finished : BOOLEAN, traffic : Traffic]
        /\ analysis' \in [of : MaybeTrip, status : Analysis]
        /\ drawn' = {} /\ form' = form
        /\ crossed' \subseteq {"finish", "save"} /\ unwatched' = FALSE
    BY <2>1, Loaded
  <2> QED BY <1>2, <2>2 DEF Visit, TypeOK, MaybeTrip
<1>3. ASSUME NEW t \in Trip, JobEnds(t) PROVE TypeOK'
  <2>1. server' \in [Trip -> [finished : BOOLEAN, analysis : Analysis, traffic : Traffic, tags : MaybeTrip]]
    BY <1>3 DEF JobEnds, TypeOK, Analysis, Traffic
  <2> QED BY <1>3, <2>1 DEF JobEnds, KeepTrip, page, TypeOK
<1>4. CASE ClickFinish
  <2>1. Click("finish", trip.of, "finishing") /\ trip.of \in Trip
    BY <1>0, <1>4 DEF ClickFinish, Click, MaybeTrip
  <2>2. task' \subseteq TaskState /\ busy' \subseteq Flag /\ clicks' \in 0..MaxClicks
    BY <2>1, Clicked DEF Kind, Flag
  <2> QED BY <1>4, <2>1, <2>2 DEF ClickFinish, Click, KeepTrip, page, TypeOK
<1>5. CASE ClickDelete
  <2>1. Click("delete", trip.of, "deleting") /\ trip.of \in Trip
    BY <1>0, <1>5 DEF ClickDelete, Click, MaybeTrip
  <2>2. task' \subseteq TaskState /\ busy' \subseteq Flag /\ clicks' \in 0..MaxClicks
    BY <2>1, Clicked DEF Kind, Flag
  <2> QED BY <1>5, <2>1, <2>2 DEF ClickDelete, Click, KeepTrip, page, TypeOK
<1>6. CASE ClickSplit
  <2>1. Click("split", trip.of, "splitting") /\ trip.of \in Trip
    BY <1>0, <1>6 DEF ClickSplit, Click, MaybeTrip
  <2>2. task' \subseteq TaskState /\ busy' \subseteq Flag /\ clicks' \in 0..MaxClicks
    BY <2>1, Clicked DEF Kind, Flag
  <2> QED BY <1>6, <2>1, <2>2 DEF ClickSplit, Click, KeepTrip, page, TypeOK
<1>7. CASE ClickSave
  <2>1. Click("save", trip.of, "saving") /\ trip.of \in Trip
    BY <1>0, <1>7 DEF ClickSave, Click, MaybeTrip
  <2>2. task' \subseteq TaskState /\ busy' \subseteq Flag /\ clicks' \in 0..MaxClicks
    BY <2>1, Clicked DEF Kind, Flag
  <2> QED BY <1>7, <2>1, <2>2 DEF ClickSave, Click, KeepTrip, page, TypeOK
<1>8. CASE ClickAnalyze
  <2>1. Click("run", url, "analysis") /\ url \in Trip
    BY <1>0, <1>8 DEF ClickAnalyze, Click, MaybeTrip
  <2>2. task' \subseteq TaskState /\ busy' \subseteq Flag /\ clicks' \in 0..MaxClicks
    BY <2>1, Clicked DEF Kind, Flag
  <2> QED BY <1>8, <2>1, <2>2 DEF ClickAnalyze, Click, KeepTrip, page, TypeOK
<1>9. CASE ClickCancel
  <2>1. Click("cancel", url, "cancelling") /\ url \in Trip
    BY <1>0, <1>9 DEF ClickCancel, Click, MaybeTrip
  <2>2. task' \subseteq TaskState /\ busy' \subseteq Flag /\ clicks' \in 0..MaxClicks
    BY <2>1, Clicked DEF Kind, Flag
  <2> QED BY <1>9, <2>1, <2>2 DEF ClickCancel, Click, KeepTrip, page, TypeOK
<1>10. CASE ClickTraffic
  <2>1. Click("traffic", trip.of, "traffic") /\ trip.of \in Trip
    BY <1>0, <1>10 DEF ClickTraffic, MaybeTrip
  <2>2. task' \subseteq TaskState /\ busy' \subseteq Flag /\ clicks' \in 0..MaxClicks
    BY <2>1, Clicked DEF Kind, Flag
  <2>3. [trip EXCEPT !.traffic = "pending"] \in [of : Trip, finished : BOOLEAN, traffic : Traffic]
    BY <2>1 DEF TypeOK, Traffic
  <2>4. /\ trip' \in [of : MaybeTrip, finished : BOOLEAN, traffic : Traffic]
        /\ form' \in [of : MaybeTrip, text : MaybeTrip]
    BY <1>10, <2>3, Shown DEF ClickTraffic
  <2> QED BY <2>1, <2>2, <2>4 DEF Click, page, TypeOK
<1> QED BY <1>1, <1>2, <1>3, <1>4, <1>5, <1>6, <1>7, <1>8, <1>9, <1>10 DEF Next

-----------------------------------------------------------------------------
(* A step of a task leaves the page, starts a visit over, or leaves every  *)
(* task what it was for.                                                   *)
Same(i, j) == i.kind = j.kind /\ i.of = j.of /\ i.text = j.text

LEMMA Continuing ==
    ASSUME TypeOK, NEW k \in task, TaskStep(k)
    PROVE  \/ k.kind = "delete" /\ LeavePage
           \/ k.kind = "split" /\ url' = url /\ LoadTrip(url, task \ {k}, busy \ {"splitting"})
           \/ url' = url /\ \A j \in task' : \E i \in task : Same(i, j)
<1>0. k \in TaskState
  BY DEF TypeOK
<1>1. CASE task' = task
  <2>1. url' = url
    BY <1>1 DEF TaskStep, LoadedTrip, LoadedParts, LoadedAnalysis, PollWakes, Polled, PolledTrip,
        FinishAnswered, DeleteAnswered, SplitAnswered, SaveAnswered, TrafficAccepted, TrafficAgain,
        TrafficPolled, TrafficFrames, RunStarted, RunChecked, CancelAnswered, page, owner, LeavePage
  <2> QED BY <1>1, <2>1 DEF Same
<1>2. ASSUME NEW at, Goes(k, at) PROVE \A j \in task' : \E i \in task : Same(i, j)
  BY <1>0, <1>2 DEF Goes, Same, TaskState
<1>3. ASSUME Ends(k) PROVE \A j \in task' : \E i \in task : Same(i, j)
  BY <1>3 DEF Ends, Same
<1>4. ASSUME task' = (task \ {k}) \cup {[k EXCEPT !.left = @ - 1]}
      PROVE  \A j \in task' : \E i \in task : Same(i, j)
  BY <1>0, <1>4 DEF Same, TaskState
<1>5. CASE LoadedTrip(k) \/ LoadedParts(k) \/ LoadedAnalysis(k)
  BY <1>2, <1>3, <1>5 DEF LoadedTrip, LoadedParts, LoadedAnalysis, page, owner
<1>6. CASE PollWakes(k) \/ Polled(k) \/ PolledTrip(k)
  BY <1>2, <1>3, <1>6 DEF PollWakes, Polled, PolledTrip, page, owner
<1>7. CASE FinishAnswered(k) \/ SaveAnswered(k) \/ CancelAnswered(k)
  BY <1>3, <1>7 DEF FinishAnswered, SaveAnswered, CancelAnswered, Answered, page, owner
<1>8. CASE DeleteAnswered(k) \/ SplitAnswered(k)
  BY <1>3, <1>8 DEF DeleteAnswered, SplitAnswered, Answered
<1>9. CASE TrafficAccepted(k) \/ TrafficAgain(k) \/ TrafficFrames(k)
  BY <1>2, <1>3, <1>9 DEF TrafficAccepted, TrafficAgain, TrafficFrames, page, owner
<1>10. CASE TrafficPolled(k)
  BY <1>2, <1>3, <1>4, <1>10 DEF TrafficPolled, Answered, page
<1>11. CASE RunStarted(k) \/ RunChecked(k)
  BY <1>1, <1>2, <1>3, <1>11 DEF RunStarted, RunChecked, Answered, page, owner
<1> QED BY <1>5, <1>6, <1>7, <1>8, <1>9, <1>10, <1>11 DEF TaskStep

(* A click adds a task, of the trip it was on and with the form's text.    *)
Clicks == ClickFinish \/ ClickDelete \/ ClickSplit \/ ClickSave \/ ClickTraffic
          \/ ClickAnalyze \/ ClickCancel

TakesDown(kind, t, flag) ==
    /\ flag = "finishing" => kind = "finish"
    /\ flag = "deleting" => kind = "delete"
    /\ flag = "splitting" => kind = "split"
    /\ flag = "saving" => kind = "save"
    /\ flag = "traffic" => kind = "traffic" /\ t = trip.of
    /\ flag = "analysis" => kind = "run" /\ t = url
    /\ flag = "cancelling" => kind = "cancel"

LEMMA Asking ==
    ASSUME TypeOK, Clicks
    PROVE  \E kind \in Kind \ {"load", "poll"}, t \in Trip, flag \in Flag \ {"loading"} :
             /\ Click(kind, t, flag)
             /\ kind = "save" => t = trip.of
             /\ TakesDown(kind, t, flag)
<1>1. trip.of \in MaybeTrip /\ url \in MaybeTrip
  BY DEF TypeOK
<1> QED BY <1>1 DEF Clicks, ClickFinish, ClickDelete, ClickSplit, ClickSave, ClickTraffic,
        ClickAnalyze, ClickCancel, Click, MaybeTrip, Kind, Flag, TakesDown

LEMMA Asks ==
    ASSUME TypeOK, NEW kind \in Kind, NEW t \in Trip, NEW flag, Click(kind, t, flag)
    PROVE  \E j \in TaskState : /\ task' = task \cup {j}
                                /\ j.kind = kind /\ j.of = t /\ j.text = form.text
<1>1. [New(kind, t) EXCEPT !.text = form.text] \in TaskState
  BY Begun DEF TypeOK, TaskState
<1> QED BY <1>1, Begun DEF Click, TaskState

LEMMA InitAsked == Init => Asked
BY PageAssumption DEF Init, Asked, New

(* A split opens the trip again: what outlives the visit stays.            *)
LEMMA LoadLeaves ==
    ASSUME TypeOK, NEW t \in Trip, NEW T \in SUBSET TaskState, NEW B \in SUBSET Flag,
           LoadTrip(t, T, B)
    PROVE  \A j \in task' : j \in Outliving(T) \/ (j.kind \in {"load", "poll"} /\ j.of = t)
BY Loaded

LEMMA SplitLoads ==
    ASSUME TypeOK, NEW k \in task, url \in Trip, LoadTrip(url, task \ {k}, busy \ {"splitting"})
    PROVE  \A j \in task' : j \in Outliving(task \ {k}) \/ (j.kind \in {"load", "poll"} /\ j.of = url)
<1> PICK t \in Trip : t = url
  OBVIOUS
<1> PICK T \in SUBSET TaskState : T = task \ {k}
  BY DEF TypeOK
<1> PICK B \in SUBSET Flag : B = busy \ {"splitting"}
  BY DEF TypeOK
<1>1. LoadTrip(t, T, B)
  OBVIOUS
<1>2. \A j \in task' : j \in Outliving(T) \/ (j.kind \in {"load", "poll"} /\ j.of = t)
  BY <1>1, LoadLeaves
<1> QED BY <1>2

LEMMA NextAsked == ASSUME TypeOK, Asked, Next PROVE Asked'
<1>1. ASSUME NEW k \in task, TaskStep(k) PROVE Asked'
  <2>1. CASE LeavePage
    BY <2>1 DEF LeavePage, Asked
  <2>2. CASE url' = url /\ LoadTrip(url, task \ {k}, busy \ {"splitting"})
    <3>1. url \in Trip
      BY DEF Asked, TypeOK, MaybeTrip
    <3>2. \A j \in task' : j \in Outliving(task \ {k}) \/ (j.kind \in {"load", "poll"} /\ j.of = url)
      BY <2>2, <3>1, SplitLoads
    <3> QED BY <2>2, <3>1, <3>2, PageAssumption DEF Asked, Outliving
  <2>3. CASE url' = url /\ \A j \in task' : \E i \in task : Same(i, j)
    BY <2>3 DEF Asked, Same
  <2> QED BY <1>1, <2>1, <2>2, <2>3, Continuing
<1>2. ASSUME NEW t \in Trip, Visit(t) PROVE Asked'
  <2>1. task \in SUBSET TaskState /\ busy \in SUBSET Flag /\ LoadTrip(t, task, busy)
    BY <1>2 DEF TypeOK, Visit
  <2>2. \A j \in task' : j \in Outliving(task) \/ (j.kind \in {"load", "poll"} /\ j.of = t)
    BY <2>1, Loaded
  <2> QED BY <1>2, <2>2, PageAssumption DEF Visit, Asked, Outliving
<1>3. ASSUME NEW t \in Trip, JobEnds(t) PROVE Asked'
  BY <1>3 DEF JobEnds, page, Asked
<1>4. CASE Clicks
  <2>1. PICK kind \in Kind \ {"load", "poll"}, t \in Trip, flag \in Flag : Click(kind, t, flag)
    BY <1>4, Asking
  <2>2. PICK j \in TaskState : task' = task \cup {j} /\ j.kind = kind
    BY <2>1, Asks
  <2> QED BY <2>1, <2>2 DEF Click, page, Asked
<1> QED BY <1>1, <1>2, <1>3, <1>4 DEF Next, Clicks

LEMMA Typed == Spec => [](TypeOK /\ Asked)
<1>1. Init => TypeOK /\ Asked
  BY InitTypeOK, InitAsked
<1>2. TypeOK /\ Asked /\ [Next]_vars => (TypeOK /\ Asked)'
  <2> SUFFICES ASSUME TypeOK, Asked, [Next]_vars PROVE (TypeOK /\ Asked)'
    OBVIOUS
  <2>1. CASE Next
    BY <2>1, NextTypeOK, NextAsked
  <2>2. CASE UNCHANGED vars
    BY <2>2 DEF vars, TypeOK, Asked
  <2> QED BY <2>1, <2>2
<1> QED BY <1>1, <1>2, PTL DEF Spec

(* The page's state is of the types TripPage states.                       *)
THEOREM TypeCorrect == Spec => []TypeOK
BY Typed, PTL

-----------------------------------------------------------------------------
LEMMA NextOneTrip == ASSUME TypeOK, Asked, OnePageOneTrip, Next PROVE OnePageOneTrip'
<1> USE DEF OnePageOneTrip
<1>1. ASSUME NEW k \in task, TaskStep(k) PROVE OnePageOneTrip'
  <2>0. /\ k \in TaskState /\ k.of \in Trip /\ (k.kind \in {"load", "poll"} => k.of = url)
        /\ Report(k.of).of = k.of
        /\ Fetched(k.of) \in [of : Trip, finished : BOOLEAN, traffic : Traffic] /\ Fetched(k.of).of = k.of
    BY Answers DEF TypeOK, TaskState, Asked
  <2>1. CASE LoadedTrip(k) \/ PolledTrip(k)
    BY <2>0, <2>1, Shown DEF LoadedTrip, PolledTrip, KeepTrip, page
  <2>2. CASE LoadedParts(k)
    BY <2>0, <2>2 DEF LoadedParts, KeepTrip, owner
  <2>3. CASE LoadedAnalysis(k) \/ Polled(k)
    BY <2>0, <2>3 DEF LoadedAnalysis, Polled, KeepTrip, page
  <2>4. CASE PollWakes(k) \/ CancelAnswered(k) \/ RunStarted(k) \/ TrafficAccepted(k)
    BY <2>4 DEF PollWakes, CancelAnswered, RunStarted, TrafficAccepted, KeepTrip, page, owner
  <2>5. CASE FinishAnswered(k)
    <3>1. [Fetched(k.of) EXCEPT !.finished = TRUE] \in [of : Trip, finished : BOOLEAN, traffic : Traffic]
          /\ [Fetched(k.of) EXCEPT !.finished = TRUE].of = k.of
      BY <2>0
    <3> QED BY <2>0, <2>5, <3>1, Shown DEF FinishAnswered, KeepTrip, owner
  <2>6. CASE DeleteAnswered(k)
    BY <2>6 DEF DeleteAnswered, LeavePage, KeepTrip, Nothing, NoReport
  <2>7. CASE SplitAnswered(k)
    BY <2>7 DEF SplitAnswered, LoadTrip, KeepTrip, Nothing, NoReport
  <2>8. CASE SaveAnswered(k)
    BY <2>8 DEF SaveAnswered, owner
  <2>9. CASE TrafficAgain(k) \/ TrafficPolled(k)
    BY <2>0, <2>9, Shown DEF TrafficAgain, TrafficPolled, Current, KeepTrip, page
  <2>10. CASE TrafficFrames(k)
    BY <2>0, <2>10 DEF TrafficFrames, Current, KeepTrip, owner
  <2>11. CASE RunChecked(k)
    BY <2>0, <2>11 DEF RunChecked, AliveJob, KeepTrip, owner
  <2> QED BY <1>1, <2>1, <2>2, <2>3, <2>4, <2>5, <2>6, <2>7, <2>8, <2>9, <2>10, <2>11 DEF TaskStep
<1>2. ASSUME NEW t \in Trip, Visit(t) PROVE OnePageOneTrip'
  BY <1>2 DEF Visit, LoadTrip, Nothing, NoReport
<1>3. ASSUME NEW t \in Trip, JobEnds(t) PROVE OnePageOneTrip'
  BY <1>3 DEF JobEnds, KeepTrip, page
<1>4. CASE Clicks
  <2>1. UNCHANGED <<url, drawn, analysis, crossed>>
    BY <1>4 DEF Clicks, ClickFinish, ClickDelete, ClickSplit, ClickSave, ClickTraffic, ClickAnalyze,
        ClickCancel, Click, page
  <2>2. trip'.of = trip.of
    <3>1. [trip EXCEPT !.traffic = "pending"].of = trip.of
      BY DEF TypeOK
    <3> QED BY <1>4, <3>1 DEF Clicks, ClickFinish, ClickDelete, ClickSplit, ClickSave, ClickTraffic,
          ClickAnalyze, ClickCancel, KeepTrip, SetTrip
  <2> QED BY <2>1, <2>2
<1> QED BY <1>1, <1>2, <1>3, <1>4 DEF Next, Clicks

(* The page shows nothing of another trip than the one in its URL, but for *)
(* the trip a finish of another visit puts on screen.                      *)
THEOREM PageShowsOneTrip == Spec => []OnePageOneTrip
<1>1. Init => OnePageOneTrip
  BY DEF Init, OnePageOneTrip, Nothing, NoReport
<1>2. TypeOK /\ Asked /\ OnePageOneTrip /\ [Next]_vars => OnePageOneTrip'
  <2> SUFFICES ASSUME TypeOK, Asked, OnePageOneTrip, [Next]_vars PROVE OnePageOneTrip'
    OBVIOUS
  <2> QED BY NextOneTrip DEF vars, OnePageOneTrip
<1> QED BY <1>1, <1>2, Typed, PTL DEF Spec

-----------------------------------------------------------------------------
(* Unless the answer to a save of another trip had filled the form, what   *)
(* is in it, and what every save under way sends, is of its own trip.      *)
Forms ==
    /\ trip.of # NoTrip => form.of = trip.of
    /\ "save" \notin crossed =>
         /\ url # NoTrip /\ form.of # NoTrip => form.text = form.of
         /\ \A k \in task : k.kind = "save" => k.text = k.of
         /\ \A t \in Trip : server[t].tags = t

LEMMA FormsShown ==
    ASSUME TypeOK, Forms, NEW t \in [of : Trip, finished : BOOLEAN, traffic : Traffic], SetTrip(t)
    PROVE  /\ trip'.of # NoTrip => form'.of = trip'.of
           /\ "save" \notin crossed /\ url # NoTrip /\ form'.of # NoTrip => form'.text = form'.of
BY PageAssumption DEF TypeOK, Forms, SetTrip, FormFor

LEMMA NextForms == ASSUME TypeOK, Asked, Forms, Next PROVE Forms'
<1>1. ASSUME NEW k \in task, TaskStep(k) PROVE Forms'
  <2>0. /\ k \in TaskState /\ k.of \in Trip /\ k.text \in MaybeTrip /\ url # NoTrip
        /\ Fetched(k.of) \in [of : Trip, finished : BOOLEAN, traffic : Traffic] /\ Fetched(k.of).of = k.of
    BY Answers DEF TypeOK, TaskState, Asked
  <2>1. CASE url' = url /\ \A j \in task' : \E i \in task : Same(i, j)
    <3>1. "save" \notin crossed => \A j \in task' : j.kind = "save" => j.text = j.of
      BY <2>1 DEF Forms, Same
    <3>2. CASE SaveAnswered(k)
      <4>1. CASE NoFault /\ server' = [server EXCEPT ![k.of].tags = k.text]
                 /\ form' = [form EXCEPT !.text = k.text]
                 /\ crossed' = IF form.of = k.of THEN crossed ELSE crossed \cup {"save"}
        <5>1. form'.of = form.of /\ form'.text = k.text /\ crossed \subseteq crossed'
              /\ ("save" \notin crossed' => form.of = k.of)
          BY <4>1 DEF TypeOK
        <5>2. "save" \notin crossed => k.text = k.of
          BY <3>2 DEF Forms, SaveAnswered
        <5>3. "save" \notin crossed => \A t \in Trip : server'[t].tags = t
          BY <2>0, <4>1, <5>2 DEF Forms, TypeOK
        <5> QED BY <2>1, <3>1, <3>2, <5>1, <5>2, <5>3 DEF Forms, SaveAnswered
      <4>2. CASE /\ UNCHANGED <<form, crossed>>
                 /\ server' \in {server, [server EXCEPT ![k.of].tags = k.text]}
        <5>2. "save" \notin crossed => k.text = k.of
          BY <3>2 DEF Forms, SaveAnswered
        <5>3. "save" \notin crossed => \A t \in Trip : server'[t].tags = t
          BY <2>0, <4>2, <5>2 DEF Forms, TypeOK
        <5> QED BY <2>1, <3>1, <3>2, <4>2, <5>3 DEF Forms, SaveAnswered
      <4> QED BY <3>2, <4>1, <4>2 DEF SaveAnswered
    <3>3. CASE ~SaveAnswered(k)
      <4>1. /\ trip'.of # NoTrip => form'.of = trip'.of
            /\ "save" \notin crossed /\ url # NoTrip /\ form'.of # NoTrip => form'.text = form'.of
        <5>1. CASE KeepTrip
          BY <5>1 DEF KeepTrip, Forms
        <5>2. CASE SetTrip(Fetched(k.of))
          BY <2>0, <5>2, FormsShown
        <5>3. CASE SetTrip([Fetched(k.of) EXCEPT !.finished = TRUE])
          <6>1. [Fetched(k.of) EXCEPT !.finished = TRUE] \in [of : Trip, finished : BOOLEAN, traffic : Traffic]
            BY <2>0
          <6> QED BY <5>3, <6>1, FormsShown
        <5>4. CASE trip' = Nothing /\ form' = form
          BY <5>4 DEF Nothing, Forms
        <5>5. CASE LeavePage
          BY <5>5 DEF LeavePage, Nothing
        <5> QED BY <1>1, <3>3, <5>1, <5>2, <5>3, <5>4, <5>5 DEF TaskStep, LoadedTrip, LoadedParts,
              LoadedAnalysis, PollWakes, Polled, PolledTrip, FinishAnswered, DeleteAnswered,
              SplitAnswered, LoadTrip, TrafficAccepted, TrafficAgain, TrafficPolled, TrafficFrames,
              RunStarted, RunChecked, CancelAnswered
      <4>2. "save" \in crossed => "save" \in crossed'
        BY <1>1, <3>3 DEF TaskStep, LoadedTrip, LoadedParts, LoadedAnalysis, PollWakes, Polled,
            PolledTrip, FinishAnswered, DeleteAnswered, LeavePage, SplitAnswered, LoadTrip,
            TrafficAccepted, TrafficAgain, TrafficPolled, TrafficFrames, RunStarted, RunChecked,
            CancelAnswered, page, owner
      <4>3. \A t \in Trip : server'[t].tags = server[t].tags
        <5>1. \/ UNCHANGED server
              \/ server' = [server EXCEPT ![k.of].finished = TRUE]
              \/ server' = [server EXCEPT ![k.of].traffic = "pending"]
              \/ server' = [server EXCEPT ![k.of].analysis = "busy"]
              \/ server' = [server EXCEPT ![k.of].analysis = "over"]
          BY <1>1, <3>3 DEF TaskStep, LoadedTrip, LoadedParts, LoadedAnalysis, PollWakes,
              Polled, PolledTrip, FinishAnswered, DeleteAnswered, SplitAnswered, TrafficAccepted,
              TrafficAgain, TrafficPolled, TrafficFrames, RunStarted, RunChecked, CancelAnswered,
              Pending, Cancelled
        <5> QED BY <5>1 DEF TypeOK
      <4> QED BY <2>0, <2>1, <3>1, <4>1, <4>2, <4>3 DEF Forms
    <3> QED BY <3>2, <3>3
  <2>2. CASE k.kind = "delete" /\ LeavePage
    <3>1. UNCHANGED server /\ crossed' = crossed \cap {"save"}
      BY <1>1, <2>2 DEF TaskStep, LoadedTrip, LoadedParts, LoadedAnalysis, PollWakes, Polled,
          PolledTrip, FinishAnswered, DeleteAnswered, SplitAnswered, SaveAnswered, TrafficAccepted,
          TrafficAgain, TrafficPolled, TrafficFrames, RunStarted, RunChecked, CancelAnswered, LeavePage
    <3> QED BY <2>2, <3>1 DEF LeavePage, Nothing, Forms
  <2>3. CASE k.kind = "split" /\ url' = url /\ LoadTrip(url, task \ {k}, busy \ {"splitting"})
    <3>1. UNCHANGED server
      BY <1>1, <2>3 DEF TaskStep, LoadedTrip, LoadedParts, LoadedAnalysis, PollWakes, Polled,
          PolledTrip, FinishAnswered, DeleteAnswered, SplitAnswered, SaveAnswered, TrafficAccepted,
          TrafficAgain, TrafficPolled, TrafficFrames, RunStarted, RunChecked, CancelAnswered
    <3>2. url \in Trip
      BY <2>0 DEF TypeOK, MaybeTrip
    <3>3. \A j \in task' : j.kind = "save" => j \in task
      <4>1. \A j \in task' : j \in Outliving(task \ {k}) \/ (j.kind \in {"load", "poll"} /\ j.of = url)
        BY <2>3, <3>2, SplitLoads
      <4> QED BY <4>1 DEF Outliving
    <3> QED BY <2>3, <3>1, <3>3 DEF LoadTrip, Nothing, Forms
  <2> QED BY <1>1, <2>1, <2>2, <2>3, Continuing
<1>2. ASSUME NEW t \in Trip, Visit(t) PROVE Forms'
  <2>1. task \in SUBSET TaskState /\ busy \in SUBSET Flag /\ LoadTrip(t, task, busy) /\ url # NoTrip
    BY <1>2, PageAssumption DEF TypeOK, Visit
  <2>2. \A j \in task' : j.kind = "save" => j \in task
    BY <2>1, Loaded DEF Outliving
  <2> QED BY <1>2, <2>1, <2>2 DEF Visit, LoadTrip, Nothing, Forms
<1>3. ASSUME NEW t \in Trip, JobEnds(t) PROVE Forms'
  <2>1. \A u \in Trip : server'[u].tags = server[u].tags
    BY <1>3 DEF JobEnds, TypeOK
  <2> QED BY <1>3, <2>1 DEF JobEnds, KeepTrip, page, Forms
<1>4. CASE Clicks
  <2>1. PICK kind \in Kind \ {"load", "poll"}, t \in Trip, flag \in Flag \ {"loading"} :
           Click(kind, t, flag) /\ (kind = "save" => t = trip.of)
    BY <1>4, Asking
  <2>2. PICK j \in TaskState : task' = task \cup {j} /\ j.kind = kind /\ j.of = t /\ j.text = form.text
    BY <2>1, Asks
  <2>3. url # NoTrip /\ t # NoTrip
    BY <2>1, PageAssumption DEF Click
  <2>4. trip'.of = trip.of /\ form' = form
    <3>1. [trip EXCEPT !.traffic = "pending"].of = trip.of
      BY DEF TypeOK
    <3> QED BY <1>4, <3>1 DEF Clicks, ClickFinish, ClickDelete, ClickSplit, ClickSave, ClickTraffic,
          ClickAnalyze, ClickCancel, KeepTrip, SetTrip, FormFor
  <2> QED BY <2>1, <2>2, <2>3, <2>4 DEF Click, page, Forms
<1> QED BY <1>1, <1>2, <1>3, <1>4 DEF Next, Clicks

(* No tag is on the server that was not typed for the trip it is of, unless *)
(* the answer to a save of another trip had filled the form.                *)
THEOREM OnlyTypedTags == Spec => []TagsAreTyped
<1>1. Init => Forms
  <2> SUFFICES ASSUME Init PROVE Forms
    OBVIOUS
  <2>1. \A t \in Trip : server[t].tags = t
    BY DEF Init
  <2>2. \A k \in task : k.kind # "save"
    BY DEF Init, New
  <2> QED BY <2>1, <2>2 DEF Init, Forms, Nothing
<1>2. TypeOK /\ Asked /\ Forms /\ [Next]_vars => Forms'
  <2> SUFFICES ASSUME TypeOK, Asked, Forms, [Next]_vars PROVE Forms'
    OBVIOUS
  <2> QED BY NextForms DEF vars, Forms
<1>3. Forms => TagsAreTyped
  BY DEF Forms, TagsAreTyped
<1> QED BY <1>1, <1>2, <1>3, Typed, PTL DEF Spec

-----------------------------------------------------------------------------
(* Every flag has a task that will take it down: ...                       *)
Flags ==
    /\ "loading" \in busy => \E k \in task : k.kind = "load"
    /\ "analysis" \in busy => \E k \in task : k.kind = "run" /\ k.of = url
    /\ "traffic" \in busy =>
         "finish" \in crossed \/ \E k \in task : k.kind = "traffic" /\ k.of = trip.of
    /\ "finishing" \in busy => \E k \in task : k.kind = "finish"
    /\ "deleting" \in busy => \E k \in task : k.kind = "delete"
    /\ "splitting" \in busy => \E k \in task : k.kind = "split"
    /\ "saving" \in busy => \E k \in task : k.kind = "save"
    /\ "cancelling" \in busy => \E k \in task : k.kind = "cancel"

(* ... and an analysis shown as under way has a poll, or a run's check, to *)
(* come.  It is what the load shows that the first poll waits for: as long *)
(* as the load is under way that poll has not looked, or looked too early. *)
Polling ==
    /\ \A i, j \in task : i.kind = "load" /\ j.kind = "load" => i = j
    /\ (\E k \in task : k.kind = "load") =>
         /\ "loading" \in busy
         /\ unwatched \/ \E k \in task : k.kind = "poll" /\ k.at = "sleep"
    /\ analysis.status = "busy" =>
         \/ unwatched
         \/ \E k \in task : k.kind = "poll" /\ k.at \in {"sleep", "fetch"}
         \/ \E k \in task : k.kind = "run" /\ k.at = "check" /\ k.of = url

LEMMA Watching == ASSUME Asked, Flags, Polling PROVE UnderWayIsWatched
<1>1. \A k \in task : k.of \in Under(k.kind)
  BY DEF Under, Doing
<1> QED BY <1>1 DEF Asked, Flags, Polling, UnderWayIsWatched

LEMMA Went ==
    ASSUME TypeOK, NEW k \in task, NEW at, Goes(k, at)
    PROVE  /\ \A i \in task : i = k \/ i \in task'
           /\ \E j \in task' : j.kind = k.kind /\ j.of = k.of /\ j.at = at
           /\ \A j \in task' : j \in task \ {k} \/ j = [k EXCEPT !.at = at]
           /\ [k EXCEPT !.at = at].kind = k.kind
           /\ \A j \in task' : j \in task \/ j.kind = k.kind
<1> DEFINE j == [k EXCEPT !.at = at]
<1>1. k \in TaskState
  BY DEF TypeOK
<1>2. j.kind = k.kind /\ j.of = k.of /\ j.at = at
  BY <1>1 DEF TaskState
<1>3. task' = (task \ {k}) \cup {j}
  BY DEF Goes
<1>4. j \in task' /\ (\A i \in task : i = k \/ i \in task') /\ \A i \in task' : i \in task \ {k} \/ i = j
  BY <1>3
<1> QED BY <1>2, <1>4

LEMMA WentSame ==
    ASSUME TypeOK, NEW k \in task, NEW at, Goes(k, at)
    PROVE  \A i \in task : \E j \in task' : j.kind = i.kind /\ j.of = i.of
BY Went

(* The spinner of a traffic estimate is of the trip on screen.             *)
Still == "traffic" \in busy /\ "finish" \notin crossed' => trip'.of = trip.of

LEMMA StillOne ==
    ASSUME TypeOK, OnePageOneTrip, Flags, trip'.of = url \/ "finish" \in crossed', crossed \subseteq crossed'
    PROVE  Still
<1>1. \A k \in task : k.of \in Trip
  BY DEF TypeOK, TaskState
<1> QED BY <1>1, PageAssumption DEF OnePageOneTrip, Flags, Still

LEMMA Passing ==
    ASSUME Flags, url' = url, Still, crossed \subseteq crossed', busy' \subseteq busy,
           \A i \in task : \E j \in task' : j.kind = i.kind /\ j.of = i.of
    PROVE  Flags'
BY DEF Flags, Still

(* A task that ends takes down its flag, or leaves it to another task.     *)
LEMMA PassingBut ==
    ASSUME Flags, NEW k \in task, Ends(k), url' = url, Still, crossed \subseteq crossed',
           busy' \subseteq busy,
           k.kind = "load" => "loading" \notin busy',
           k.kind = "run" => k.of # url \/ "analysis" \notin busy',
           k.kind = "traffic" => k.of # trip.of \/ "traffic" \notin busy',
           k.kind = "finish" => "finishing" \notin busy',
           k.kind = "delete" => "deleting" \notin busy',
           k.kind = "split" => "splitting" \notin busy',
           k.kind = "save" => "saving" \notin busy',
           k.kind = "cancel" => "cancelling" \notin busy'
    PROVE  Flags'
BY DEF Flags, Ends, Still

LEMMA LoadingAgain ==
    ASSUME TypeOK, Polling, NEW t \in Trip, NEW T \in SUBSET task, NEW B \in SUBSET busy,
           LoadTrip(t, T, B), url' = t,
           \A k \in task \ T : k.kind = "split" /\ "splitting" \notin B
    PROVE  (Flags => Flags') /\ Polling'
<1>1. T \in SUBSET TaskState /\ B \in SUBSET Flag
  BY DEF TypeOK
<1>2. /\ Outliving(T) \subseteq task'
      /\ \E j \in task' : j.kind = "load" /\ j.of = t
      /\ \E j \in task' : j.kind = "poll" /\ j.of = t /\ j.at = "sleep"
      /\ \A i, j \in task' : i.kind = "load" /\ j.kind = "load" => i = j
  <2>1. LoadTrip(t, T, B)
    BY <1>1
  <2>2. Outliving(T) \subseteq task'
    BY <1>1, <2>1, Loaded
  <2>3. \E j \in task' : j.kind = "load" /\ j.of = t
    BY <1>1, <2>1, Loaded
  <2>4. \E j \in task' : j.kind = "poll" /\ j.of = t /\ j.at = "sleep"
    BY <1>1, <2>1, Loaded
  <2>5. \A i, j \in task' : i.kind = "load" /\ j.kind = "load" => i = j
    BY <1>1, <2>1, Loaded
  <2> QED BY <2>2, <2>3, <2>4, <2>5
<1>3. \A i \in task : i \notin T \/ i.kind \in {"load", "poll"} \/ i \in task'
  BY <1>1, <1>2 DEF Outliving
<1>4. /\ busy' \subseteq (B \ {"analysis", "traffic"}) \cup {"loading"} /\ "loading" \in busy'
      /\ analysis' = NoReport
  BY DEF LoadTrip, StartsOver
<1>5. Flags => Flags'
  BY <1>2, <1>3, <1>4 DEF Flags
<1>6. Polling'
  BY <1>2, <1>4 DEF Polling, NoReport
<1> QED BY <1>5, <1>6

LEMMA PollingBut ==
    ASSUME Polling, NEW k \in task, k.kind \notin {"load", "poll", "run"},
           \A i \in task : i = k \/ i \in task', \A j \in task' : j \in task \/ j.kind = k.kind,
           UNCHANGED <<url, analysis, unwatched>>, "loading" \in busy => "loading" \in busy'
    PROVE  Polling'
BY DEF Polling

LEMMA TaskFlags ==
    ASSUME TypeOK, Asked, OnePageOneTrip, Flags, Polling, NEW k \in task, TaskStep(k)
    PROVE  Flags'
<1>0. /\ k \in TaskState /\ k.of \in Trip /\ url # NoTrip /\ (k.kind \in {"load", "poll"} => k.of = url)
      /\ Fetched(k.of) \in [of : Trip, finished : BOOLEAN, traffic : Traffic] /\ Fetched(k.of).of = k.of
  BY Answers DEF TypeOK, TaskState, Asked
<1>1. CASE LoadedTrip(k)
  <2>1. Still
    BY <1>0, <1>1, Shown, StillOne DEF LoadedTrip, KeepTrip, page, Still
  <2> QED BY <1>1, <2>1, WentSame, Passing DEF LoadedTrip, page
<1>2. CASE PolledTrip(k)
  <2>1. Still
    BY <1>0, <1>2, Shown, StillOne DEF PolledTrip, KeepTrip, page, Still
  <2> QED BY <1>2, <2>1, PassingBut DEF PolledTrip, page
<1>3. CASE LoadedParts(k)
  BY <1>3, WentSame, Passing DEF LoadedParts, KeepTrip, owner, Still
<1>4. CASE LoadedAnalysis(k)
  BY <1>4, PassingBut DEF LoadedAnalysis, KeepTrip, page, Still
<1>5. CASE PollWakes(k)
  <2>1. UNCHANGED <<url, trip, crossed, busy>> /\ k.kind = "poll" /\ Still
    BY <1>5 DEF PollWakes, KeepTrip, owner, Still
  <2>2. CASE Goes(k, "fetch")
    BY <2>1, <2>2, WentSame, Passing
  <2>3. CASE Ends(k)
    BY <2>1, <2>3, PassingBut
  <2> QED BY <1>5, <2>2, <2>3 DEF PollWakes
<1>6. CASE Polled(k)
  <2>1. UNCHANGED <<url, trip, crossed, busy>> /\ Still
    BY <1>6 DEF Polled, KeepTrip, page, Still
  <2>2. \E at : Goes(k, at)
    BY <1>6 DEF Polled
  <2> QED BY <2>1, <2>2, WentSame, Passing
<1>7. CASE FinishAnswered(k)
  <2>1. [Fetched(k.of) EXCEPT !.finished = TRUE] \in [of : Trip, finished : BOOLEAN, traffic : Traffic]
        /\ [Fetched(k.of) EXCEPT !.finished = TRUE].of = k.of
    BY <1>0
  <2>2. crossed \subseteq crossed' /\ url' = url
    BY <1>7 DEF FinishAnswered, owner
  <2>3. Still
    BY <1>0, <1>7, <2>1, <2>2, Shown, StillOne DEF FinishAnswered, KeepTrip, Still
  <2> QED BY <1>7, <2>2, <2>3, PassingBut DEF FinishAnswered, Answered
<1>8. CASE DeleteAnswered(k)
  <2>1. CASE LeavePage
    BY <2>1 DEF LeavePage, Flags
  <2>2. CASE ~LeavePage
    BY <1>8, <2>2, PassingBut DEF DeleteAnswered, Answered, KeepTrip, Still
  <2> QED BY <2>1, <2>2
<1>9. CASE SplitAnswered(k) /\ ~LoadTrip(url, task \ {k}, busy \ {"splitting"})
  BY <1>9, PassingBut DEF SplitAnswered, Answered, KeepTrip, Still
<1>10. CASE SplitAnswered(k) /\ LoadTrip(url, task \ {k}, busy \ {"splitting"})
  <2>1. url \in Trip /\ url' = url /\ k.kind = "split"
    BY <1>0, <1>10 DEF TypeOK, MaybeTrip, SplitAnswered
  <2>2. PICK T \in SUBSET task, B \in SUBSET busy :
           LoadTrip(url, T, B) /\ T = task \ {k} /\ "splitting" \notin B
    BY <1>10
  <2> QED BY <2>1, <2>2, LoadingAgain
<1>11. CASE SaveAnswered(k)
  BY <1>11, PassingBut DEF SaveAnswered, Answered, owner, Still
<1>12. CASE CancelAnswered(k)
  BY <1>12, PassingBut DEF CancelAnswered, Answered, KeepTrip, page, Still
<1>13. CASE TrafficAccepted(k)
  <2>1. UNCHANGED <<url, trip, crossed>> /\ Still /\ k.kind = "traffic"
    BY <1>13 DEF TrafficAccepted, KeepTrip, page, Still
  <2>2. CASE \E at : Goes(k, at) /\ UNCHANGED busy
    BY <2>1, <2>2, WentSame, Passing
  <2>3. CASE Ends(k) /\ (~Current(k) \/ "traffic" \notin busy') /\ busy' \subseteq busy
    BY <2>1, <2>3, PassingBut DEF Current
  <2> QED BY <1>13, <2>2, <2>3 DEF TrafficAccepted, Refused
<1>14. CASE TrafficAgain(k)
  <2>1. Still
    BY <1>0, <1>14, Shown DEF TrafficAgain, KeepTrip, Current, Still
  <2> QED BY <1>14, <2>1, WentSame, Passing DEF TrafficAgain, page
<1>15. CASE TrafficPolled(k)
  <2>1. UNCHANGED <<url, crossed>> /\ Still /\ k.kind = "traffic"
    BY <1>0, <1>15, Shown DEF TrafficPolled, KeepTrip, Current, page, Still
  <2>2. CASE Goes(k, "frames") /\ UNCHANGED busy
    BY <2>1, <2>2, WentSame, Passing
  <2>3. CASE Ends(k) /\ (~Current(k) \/ "traffic" \notin busy') /\ busy' \subseteq busy
    BY <2>1, <2>3, PassingBut DEF Current
  <2>4. CASE task' = (task \ {k}) \cup {[k EXCEPT !.left = @ - 1]} /\ UNCHANGED busy
    <3>1. [k EXCEPT !.left = @ - 1].kind = k.kind /\ [k EXCEPT !.left = @ - 1].of = k.of
      BY <1>0 DEF TaskState
    <3>2. \A i \in task : \E j \in task' : j.kind = i.kind /\ j.of = i.of
      BY <2>4, <3>1
    <3> QED BY <2>1, <2>4, <3>2, Passing
  <2> QED BY <1>15, <2>2, <2>3, <2>4 DEF TrafficPolled, Answered
<1>16. CASE TrafficFrames(k)
  BY <1>16, PassingBut DEF TrafficFrames, Current, KeepTrip, owner, Still
<1>17. CASE RunStarted(k)
  <2>1. UNCHANGED <<url, trip, crossed>> /\ Still /\ k.kind = "run"
    BY <1>17 DEF RunStarted, KeepTrip, page, Still
  <2>2. CASE Goes(k, "check") /\ UNCHANGED busy
    BY <2>1, <2>2, WentSame, Passing
  <2>3. CASE Ends(k) /\ (k.of # url \/ "analysis" \notin busy') /\ busy' \subseteq busy
    BY <2>1, <2>3, PassingBut
  <2> QED BY <1>17, <2>2, <2>3 DEF RunStarted, Answered, AliveJob
<1>18. CASE RunChecked(k)
  <2>1. UNCHANGED <<url, trip, crossed>> /\ Still /\ k.kind = "run"
    BY <1>18 DEF RunChecked, KeepTrip, owner, Still
  <2>2. CASE UNCHANGED <<task, busy>>
    BY <2>1, <2>2, Passing
  <2>3. CASE Ends(k) /\ (k.of # url \/ "analysis" \notin busy') /\ busy' \subseteq busy
    BY <2>1, <2>3, PassingBut
  <2> QED BY <1>18, <2>2, <2>3 DEF RunChecked, Answered, AliveJob
<1> QED BY <1>1, <1>2, <1>3, <1>4, <1>5, <1>6, <1>7, <1>8, <1>9, <1>10, <1>11, <1>12, <1>13, <1>14,
        <1>15, <1>16, <1>17, <1>18 DEF TaskStep

LEMMA TaskPolling ==
    ASSUME TypeOK, Asked, Polling, NEW k \in task, TaskStep(k)
    PROVE  Polling'
<1>0. k \in TaskState /\ url # NoTrip
  BY DEF TypeOK, Asked
<1>1. CASE LoadedTrip(k) \/ LoadedParts(k)
  <2>1. PICK at : Goes(k, at) /\ k.kind = "load" /\ UNCHANGED <<url, analysis, busy, unwatched>>
    BY <1>1 DEF LoadedTrip, LoadedParts, page, owner
  <2> QED BY <2>1, Went DEF Polling
<1>2. CASE LoadedAnalysis(k)
  <2>1. k.kind = "load" /\ Ends(k) /\ UNCHANGED <<url, unwatched>>
    BY <1>2 DEF LoadedAnalysis, page
  <2>2. \A j \in task' : j \in task /\ j.kind # "load"
    BY <2>1 DEF Ends, Polling
  <2>3. unwatched \/ \E j \in task' : j.kind = "poll" /\ j.at = "sleep"
    BY <2>1 DEF Ends, Polling
  <2> QED BY <2>1, <2>2, <2>3 DEF Polling
<1>3. CASE PollWakes(k)
  <2>1. k.kind = "poll" /\ UNCHANGED <<url, analysis, busy>>
    BY <1>3 DEF PollWakes, owner
  <2>2. CASE Goes(k, "fetch")
    <3>1. /\ \A i \in task : i = k \/ i \in task'
          /\ \E j \in task' : j.kind = k.kind /\ j.at = "fetch"
          /\ \A j \in task' : j \in task \/ j.kind = k.kind
      BY <2>2, Went
    <3> QED BY <1>3, <2>1, <3>1 DEF Polling, PollWakes
  <2>3. CASE Ends(k) /\ analysis.status # "busy"
    BY <1>3, <2>1, <2>3 DEF Polling, PollWakes, Ends
  <2> QED BY <1>3, <2>2, <2>3 DEF PollWakes
<1>4. CASE Polled(k)
  <2>1. k.kind = "poll" /\ k.at = "fetch" /\ UNCHANGED <<url, busy, unwatched>>
    BY <1>4 DEF Polled, page
  <2>2. PICK at \in {"sleep", "trip"} : Goes(k, at) /\ (at = "sleep" \/ analysis'.status # "busy")
    BY <1>4 DEF Polled, Report
  <2>3. /\ \A i \in task : i = k \/ i \in task'
        /\ \E j \in task' : j.kind = k.kind /\ j.at = at
        /\ \A j \in task' : j \in task \/ j.kind = k.kind
    BY <2>2, Went
  <2> QED BY <2>1, <2>2, <2>3 DEF Polling
<1>5. CASE PolledTrip(k)
  <2>1. k.kind = "poll" /\ k.at = "trip" /\ Ends(k) /\ UNCHANGED <<url, analysis, busy, unwatched>>
    BY <1>5 DEF PolledTrip, page
  <2> QED BY <2>1 DEF Polling, Ends
<1>6. CASE FinishAnswered(k) \/ SaveAnswered(k) \/ CancelAnswered(k) \/ TrafficFrames(k)
  <2>1. k.kind \notin {"load", "poll", "run"} /\ Ends(k) /\ UNCHANGED <<url, analysis, unwatched>>
        /\ ("loading" \in busy => "loading" \in busy')
    BY <1>6 DEF FinishAnswered, SaveAnswered, CancelAnswered, TrafficFrames, Answered, owner, page
  <2> QED BY <2>1, PollingBut DEF Ends
<1>7. CASE DeleteAnswered(k)
  <2>1. CASE LeavePage
    BY <2>1 DEF LeavePage, Polling, NoReport
  <2>2. CASE ~LeavePage
    BY <1>7, <2>2, PollingBut DEF DeleteAnswered, Answered, Ends
  <2> QED BY <2>1, <2>2
<1>8. CASE SplitAnswered(k) /\ ~LoadTrip(url, task \ {k}, busy \ {"splitting"})
  BY <1>8, PollingBut DEF SplitAnswered, Answered, Ends
<1>9. CASE SplitAnswered(k) /\ LoadTrip(url, task \ {k}, busy \ {"splitting"})
  <2>1. url \in Trip /\ url' = url /\ k.kind = "split"
    BY <1>0, <1>9 DEF TypeOK, MaybeTrip, SplitAnswered
  <2>2. PICK T \in SUBSET task, B \in SUBSET busy :
           LoadTrip(url, T, B) /\ T = task \ {k} /\ "splitting" \notin B
    BY <1>9
  <2> QED BY <2>1, <2>2, LoadingAgain
<1>10. CASE TrafficAccepted(k) \/ TrafficAgain(k) \/ TrafficPolled(k)
  <2>1. k.kind = "traffic" /\ UNCHANGED <<url, analysis, unwatched>>
        /\ ("loading" \in busy => "loading" \in busy')
    BY <1>10 DEF TrafficAccepted, TrafficAgain, TrafficPolled, Refused, Answered, page
  <2>2. CASE \E at : Goes(k, at)
    BY <2>1, <2>2, Went, PollingBut
  <2>3. CASE Ends(k)
    BY <2>1, <2>3, PollingBut DEF Ends
  <2>4. CASE task' = (task \ {k}) \cup {[k EXCEPT !.left = @ - 1]}
    <3>1. [k EXCEPT !.left = @ - 1].kind = k.kind
      BY <1>0 DEF TaskState
    <3> QED BY <2>1, <2>4, <3>1, PollingBut
  <2> QED BY <1>10, <2>2, <2>3, <2>4 DEF TrafficAccepted, TrafficAgain, TrafficPolled, Answered
<1>11. CASE RunStarted(k)
  <2>1. /\ k.kind = "run" /\ k.at = "start" /\ UNCHANGED <<url, analysis, unwatched>>
        /\ "loading" \in busy => "loading" \in busy'
        /\ Goes(k, "check") \/ Ends(k)
    BY <1>11 DEF RunStarted, Answered, page
  <2>2. \A i \in task : i = k \/ i \in task'
    BY <2>1, Went DEF Ends
  <2>3. \A j \in task' : j \in task \/ j.kind = "run"
    BY <2>1, Went DEF Ends
  <2> QED BY <2>1, <2>2, <2>3 DEF Polling
<1>12. CASE RunChecked(k)
  <2>1. /\ k.kind = "run" /\ k.at = "check" /\ url' = url
        /\ "loading" \in busy => "loading" \in busy'
    BY <1>12 DEF RunChecked, Answered, owner
  <2>2. CASE ~AliveJob(k) /\ Ends(k) /\ UNCHANGED <<analysis, busy, unwatched>>
    BY <2>1, <2>2 DEF Polling, Ends, AliveJob
  <2>3. CASE AliveJob(k) /\ UNCHANGED <<task, unwatched>>
    BY <2>1, <2>3 DEF Polling, AliveJob
  <2>4. CASE Ends(k) /\ analysis'.status # "busy" /\ UNCHANGED unwatched
    BY <2>1, <2>4 DEF Polling, Ends
  <2>5. CASE Ends(k) /\ unwatched'
    BY <2>1, <2>5 DEF Polling, Ends
  <2> QED BY <1>12, <2>2, <2>3, <2>4, <2>5 DEF RunChecked, Answered, Report
<1> QED BY <1>1, <1>2, <1>3, <1>4, <1>5, <1>6, <1>7, <1>8, <1>9, <1>10, <1>11, <1>12 DEF TaskStep

LEMMA NextWatched ==
    ASSUME TypeOK, Asked, OnePageOneTrip, Flags, Polling, Next
    PROVE  Flags' /\ Polling'
<1>1. ASSUME NEW k \in task, TaskStep(k) PROVE Flags' /\ Polling'
  BY <1>1, TaskFlags, TaskPolling
<1>2. ASSUME NEW t \in Trip, Visit(t) PROVE Flags' /\ Polling'
  <2>1. LoadTrip(t, task, busy) /\ url' = t
    BY <1>2 DEF Visit
  <2> QED BY <2>1, LoadingAgain
<1>3. ASSUME NEW t \in Trip, JobEnds(t) PROVE Flags' /\ Polling'
  BY <1>3 DEF JobEnds, KeepTrip, page, Flags, Polling
<1>4. CASE Clicks
  <2>1. PICK kind \in Kind \ {"load", "poll"}, t \in Trip, flag \in Flag \ {"loading"} :
           Click(kind, t, flag) /\ TakesDown(kind, t, flag)
    BY <1>4, Asking
  <2>2. PICK j \in TaskState : task' = task \cup {j} /\ j.kind = kind /\ j.of = t
    BY <2>1, Asks
  <2>3. UNCHANGED <<url, analysis, crossed, unwatched>> /\ busy' = busy \cup {flag}
    BY <2>1 DEF Click, page
  <2>4. trip'.of = trip.of
    <3>1. [trip EXCEPT !.traffic = "pending"].of = trip.of
      BY DEF TypeOK
    <3> QED BY <1>4, <3>1 DEF Clicks, ClickFinish, ClickDelete, ClickSplit, ClickSave, ClickTraffic,
          ClickAnalyze, ClickCancel, KeepTrip, SetTrip
  <2>5. \A i \in task : i \in task'
    BY <2>2
  <2>6. Flags'
    BY <2>1, <2>2, <2>3, <2>4, <2>5 DEF Flags, TakesDown
  <2>7. Polling'
    BY <2>1, <2>2, <2>3, <2>5 DEF Polling
  <2> QED BY <2>6, <2>7
<1> QED BY <1>1, <1>2, <1>3, <1>4 DEF Next, Clicks

(* Whatever the page shows as under way, a task of its own will look at    *)
(* again, unless the first poll woke before the load had ended or the      *)
(* answer to a run's check was an error.                                   *)
THEOREM NoSpinnerIsLeft == Spec => []UnderWayIsWatched
<1>1. Init => Flags /\ Polling
  <2> SUFFICES ASSUME Init PROVE Flags /\ Polling
    OBVIOUS
  <2>1. /\ New("load", url).kind = "load"
        /\ New("poll", url).kind = "poll" /\ New("poll", url).at = "sleep"
    BY DEF New
  <2>2. busy = {"loading"} /\ task = {New("load", url), New("poll", url)} /\ analysis.status = "none"
    BY DEF Init, NoReport
  <2> QED BY <2>1, <2>2 DEF Flags, Polling
<1>2. TypeOK /\ Asked /\ OnePageOneTrip /\ Flags /\ Polling /\ [Next]_vars => Flags' /\ Polling'
  <2> SUFFICES ASSUME TypeOK, Asked, OnePageOneTrip, Flags, Polling, [Next]_vars
               PROVE  Flags' /\ Polling'
    OBVIOUS
  <2>1. CASE Next
    BY <2>1, NextWatched
  <2>2. CASE UNCHANGED vars
    BY <2>2 DEF vars, Flags, Polling
  <2> QED BY <2>1, <2>2
<1>3. Asked /\ Flags /\ Polling => UnderWayIsWatched
  BY Watching
<1> QED BY <1>1, <1>2, <1>3, Typed, PageShowsOneTrip, PTL DEF Spec

-----------------------------------------------------------------------------
(* The list of trips.                                                      *)
LEMMA ListBounds ==
    /\ NoTrip \notin ListTrip
    /\ Begins \subseteq [ListTrip -> Nat] /\ Filter \subseteq SUBSET ListTrip
    /\ {PageSize, MaxFetches, MaxDeletes, MaxListFaults} \subseteq Nat
BY ListFits DEF List!ListAssumption

LEMMA ListOnlyChosen ==
    ASSUME NEW S, NEW s \in Seq(S), NEW T
    PROVE  /\ List!Only(s, T) \in Seq(S)
           /\ \E h : Chosen(h, s, Len(s), T, List!Only(s, T))
<1>1. List!Only(s, T) = Only(s, T)
  BY DEF List!Only, Only
<1>2. /\ Only(s, T) \in Seq(S)
      /\ \E h : Chosen(h, s, Len(s), T, Only(s, T))
  BY OnlyChosen
<1> QED BY <1>1, <1>2

(* A request for a page, what it asks for, and its answer.                 *)
Request == [gen : Nat, append : BOOLEAN, filter : SUBSET ListTrip, before : ListTrip \cup {NoTrip},
            at : {"server", "answer"}, page : Seq(ListTrip), there : SUBSET ListTrip]

ListTypes ==
    /\ begin \in [ListTrip -> Nat]
    /\ there \subseteq ListTrip /\ later \in ListTrip \cup {NoTrip}
    /\ filter \subseteq ListTrip
    /\ list \in Seq(ListTrip)
    /\ gen \in Nat
    /\ hasMore \in BOOLEAN
    /\ deleting \in ListTrip \cup {NoTrip}
    /\ fetch \subseteq Request
    /\ listed \in [filter : SUBSET ListTrip, there : SUBSET ListTrip, skipped : SUBSET ListTrip,
                   stale : BOOLEAN]

(* The newest first.                                                       *)
Sorted(s) == \A i, j \in 1..Len(s) : i < j => begin[s[i]] >= begin[s[j]]

Wanted(k) == {t \in k.there \cap k.filter : k.before = NoTrip \/ begin[t] < begin[k.before]}

(* A page as the server answered it.                                       *)
PageFits(k) ==
    /\ List!IsInjective(k.page) /\ Sorted(k.page)
    /\ List!Range(k.page) \subseteq Wanted(k)
    /\ Len(k.page) >= PageSize \/ Wanted(k) \subseteq List!Range(k.page)
    /\ \A i \in 1..Len(k.page) : \A t \in Wanted(k) \ List!Range(k.page) : begin[t] <= begin[k.page[i]]

(* The trips the list is to hold.                                          *)
Due == (there \cap listed.there \cap listed.filter) \ listed.skipped

InOrder == List!IsInjective(list) /\ Sorted(list)

Numbered ==
    /\ \A k \in fetch : k.gen <= gen /\ (k.append <=> k.before # NoTrip)
    /\ \A k, l \in fetch : k.gen = l.gen => k = l
    /\ \A k \in fetch : List!Current(k) => loading # {} /\ k.filter = filter

PagesAnswered == \A k \in fetch : k.at = "answer" => PageFits(k)

ToCome ==
    later # NoTrip => later \notin there \cup listed.there /\ \A k \in fetch : later \notin k.there

(* What the next page is appended to.                                      *)
GoesOn ==
    \A k \in fetch : List!Current(k) /\ k.append =>
        /\ \A u \in List!Range(list) : begin[u] >= begin[k.before]
        /\ k.at = "answer" => there \cap listed.there \subseteq k.there
        /\ ~listed.stale => \A t \in Due : begin[t] > begin[k.before] => t \in List!Range(list)

FiltersAgree ==
    ~listed.stale =>
        /\ List!Range(list) \subseteq listed.filter
        /\ (\A k \in fetch : List!Current(k) => k.append) => listed.filter = filter

Filled ==
    ~listed.stale =>
        \A t \in Due :
            ~hasMore \/ (\E u \in List!Range(list) : begin[u] < begin[t]) => t \in List!Range(list)

ListInv ==
    /\ ListTypes /\ InOrder /\ Numbered /\ PagesAnswered /\ ToCome /\ GoesOn /\ FiltersAgree /\ Filled

-----------------------------------------------------------------------------
LEMMA InitListInv == List!Init => ListInv
<1> SUFFICES ASSUME List!Init PROVE ListInv
  OBVIOUS
<1> DEFINE k == [gen |-> 1, append |-> FALSE, filter |-> filter, before |-> NoTrip,
                 at |-> "server", page |-> <<>>, there |-> {}]
<1>1. begin \in [ListTrip -> Nat] /\ filter \subseteq ListTrip
  BY ListBounds DEF List!Init
<1>2. k \in Request /\ fetch = {k} /\ ~k.append /\ k.gen = 1 /\ k.at = "server" /\ k.filter = filter
      /\ k.before = NoTrip /\ k.there = {}
  BY <1>1 DEF List!Init, Request
<1>3. /\ listed = [filter |-> filter, there |-> {}, skipped |-> {}, stale |-> FALSE]
      /\ list = <<>> /\ List!Range(list) = {} /\ gen = 1 /\ loading # {} /\ later \in ListTrip \cup {NoTrip}
      /\ there = ListTrip \ {later} /\ hasMore = FALSE /\ deleting = NoTrip
  BY DEF List!Init, List!Range
<1> HIDE DEF k
<1>4. ListTypes
  <2>1. listed \in [filter : SUBSET ListTrip, there : SUBSET ListTrip, skipped : SUBSET ListTrip,
                     stale : BOOLEAN]
    BY <1>1, <1>3
  <2>2. list \in Seq(ListTrip) /\ fetch \subseteq Request
    BY <1>2, <1>3
  <2> QED BY <1>1, <1>3, <2>1, <2>2 DEF ListTypes
<1>5. InOrder
  BY <1>3 DEF InOrder, List!IsInjective, Sorted
<1>6. Numbered
  BY <1>2, <1>3 DEF Numbered
<1>7. PagesAnswered /\ GoesOn
  BY <1>2 DEF PagesAnswered, GoesOn
<1>8. ToCome
  BY <1>2, <1>3 DEF ToCome
<1>9. FiltersAgree
  BY <1>2, <1>3 DEF FiltersAgree
<1>10. Filled
  BY <1>3 DEF Filled, Due
<1> QED BY <1>4, <1>5, <1>6, <1>7, <1>8, <1>9, <1>10 DEF ListInv

(* A page that was read.                                                   *)
LEMMA PagesFit ==
    ASSUME ListTypes, NEW k \in Request, NEW p \in List!Pages(k), NEW l \in Request,
           l.page = p, l.there = there, l.filter = k.filter, l.before = k.before
    PROVE  PageFits(l)
<1> DEFINE asked == Wanted(l)
<1>1. asked = {t \in there \cap k.filter : k.before = NoTrip \/ begin[t] < begin[k.before]}
  BY DEF Wanted
<1> HIDE DEF asked
<1>2. /\ p \in List!SeqOf(asked, PageSize) /\ List!IsInjective(p)
      /\ Len(p) = PageSize \/ List!Range(p) = asked
      /\ \A i \in 1..Len(p) : \A t \in asked \ List!Range(SubSeq(p, 1, i)) : begin[t] <= begin[p[i]]
  BY <1>1 DEF List!Pages
<1>3. p \in Seq(asked) /\ PageSize \in Nat /\ asked \subseteq ListTrip
  <2>1. PageSize \in Nat
    BY ListBounds
  <2>2. PICK m \in 0..PageSize : p \in [1..m -> asked]
    BY <1>2 DEF List!SeqOf
  <2>3. asked \subseteq ListTrip
    BY <1>1 DEF ListTypes
  <2> QED BY <2>1, <2>2, <2>3
<1>4. \A i \in 1..Len(p) : SubSeq(p, 1, i) \in Seq(asked) /\ Len(SubSeq(p, 1, i)) = i
                           /\ \A j \in 1..i : SubSeq(p, 1, i)[j] = p[j]
  BY <1>3
<1>5. Sorted(p)
  <2> SUFFICES ASSUME NEW i \in 1..Len(p), NEW j \in 1..Len(p), i < j
               PROVE  begin[p[i]] >= begin[p[j]]
    BY DEF Sorted
  <2>1. p[j] \notin List!Range(SubSeq(p, 1, i))
    BY <1>2, <1>3, <1>4 DEF List!Range, List!IsInjective
  <2>2. p[j] \in asked /\ p[i] \in asked
    BY <1>3
  <2> QED BY <1>2, <1>3, <2>1, <2>2 DEF ListTypes
<1>6. ASSUME NEW i \in 1..Len(p), NEW t \in asked \ List!Range(p) PROVE begin[t] <= begin[p[i]]
  <2>1. t \notin List!Range(SubSeq(p, 1, i))
    BY <1>3, <1>4, <1>6 DEF List!Range
  <2> QED BY <1>2, <1>6, <2>1
<1>7. List!Range(p) \subseteq asked
  BY <1>3 DEF List!Range
<1>8. Len(p) >= PageSize \/ asked \subseteq List!Range(p)
  BY <1>2, <1>3
<1> QED BY <1>2, <1>5, <1>6, <1>7, <1>8 DEF PageFits, asked

-----------------------------------------------------------------------------
(* Members and repetitions of a list, by its places.                       *)
LEMMA Places ==
    ASSUME NEW s \in Seq(ListTrip)
    PROVE  /\ \A x : x \in List!Range(s) <=> \E i \in 1..Len(s) : s[i] = x
           /\ List!IsInjective(s) <=> \A i, j \in 1..Len(s) : i < j => s[i] # s[j]
<1>1. DOMAIN s = 1..Len(s) /\ Len(s) \in Nat
  OBVIOUS
<1>2. \A x : x \in List!Range(s) <=> \E i \in 1..Len(s) : s[i] = x
  BY <1>1 DEF List!Range
<1>3. List!IsInjective(s) => \A i, j \in 1..Len(s) : i < j => s[i] # s[j]
  BY <1>1 DEF List!IsInjective
<1>4. ASSUME \A i, j \in 1..Len(s) : i < j => s[i] # s[j] PROVE List!IsInjective(s)
  <2> SUFFICES ASSUME NEW i \in 1..Len(s), NEW j \in 1..Len(s), s[i] = s[j] PROVE i = j
    BY <1>1 DEF List!IsInjective
  <2>1. ~(i < j) /\ ~(j < i)
    BY <1>4
  <2> QED BY <1>1, <2>1
<1> QED BY <1>2, <1>3, <1>4

(* What is kept of a sorted list without repetitions is one.               *)
LEMMA KeptSorted ==
    ASSUME begin \in [ListTrip -> Nat], NEW s \in Seq(ListTrip), List!IsInjective(s), Sorted(s), NEW T
    PROVE  /\ List!Only(s, T) \in Seq(ListTrip)
           /\ List!IsInjective(List!Only(s, T)) /\ Sorted(List!Only(s, T))
           /\ List!Range(List!Only(s, T)) = List!Range(s) \cap T
<1>1. PICK q \in Seq(ListTrip) : q = List!Only(s, T)
  BY ListOnlyChosen
<1>2. PICK h : Chosen(h, s, Len(s), T, q)
  BY <1>1, ListOnlyChosen
<1>3. /\ h \in [1..Len(q) -> 1..Len(s)]
      /\ \A i \in 1..Len(q) : q[i] = s[h[i]] /\ q[i] \in T
      /\ \A i, j \in 1..Len(q) : i < j => h[i] < h[j]
      /\ \A k \in 1..Len(s) : s[k] \in T => \E i \in 1..Len(q) : h[i] = k
  BY <1>2 DEF Chosen
<1>4. List!IsInjective(q) /\ Sorted(q)
  <2>1. ASSUME NEW i \in 1..Len(q), NEW j \in 1..Len(q), i < j
        PROVE  q[i] # q[j] /\ begin[q[i]] >= begin[q[j]]
    <3>1. /\ h[i] \in 1..Len(s) /\ h[j] \in 1..Len(s) /\ h[i] < h[j]
          /\ q[i] = s[h[i]] /\ q[j] = s[h[j]]
      BY <1>3, <2>1
    <3>2. s[h[i]] # s[h[j]]
      <4>1. \A a, b \in 1..Len(s) : a < b => s[a] # s[b]
        BY Places
      <4> QED BY <3>1, <4>1
    <3>3. begin[s[h[i]]] >= begin[s[h[j]]]
      BY <3>1 DEF Sorted
    <3> QED BY <3>1, <3>2, <3>3
  <2> QED BY <2>1, Places DEF Sorted
<1>6. List!Range(q) = List!Range(s) \cap T
  <2>1. ASSUME NEW x \in List!Range(q) PROVE x \in List!Range(s) \cap T
    <3>1. PICK i \in 1..Len(q) : q[i] = x
      BY <2>1, Places
    <3>2. h[i] \in 1..Len(s) /\ s[h[i]] = x /\ x \in T
      BY <1>3, <3>1
    <3> QED BY <3>2, Places
  <2>2. ASSUME NEW x \in List!Range(s) \cap T PROVE x \in List!Range(q)
    <3>1. PICK k \in 1..Len(s) : s[k] = x
      BY <2>2, Places
    <3>2. PICK i \in 1..Len(q) : h[i] = k
      BY <1>3, <2>2, <3>1
    <3>3. q[i] = x
      BY <1>3, <3>1, <3>2
    <3> QED BY <3>3, Places
  <2> QED BY <2>1, <2>2
<1> QED BY <1>1, <1>4, <1>6

(* An older page after a sorted list.                                      *)
LEMMA OlderAppended ==
    ASSUME begin \in [ListTrip -> Nat],
           NEW s \in Seq(ListTrip), List!IsInjective(s), Sorted(s),
           NEW p \in Seq(ListTrip), List!IsInjective(p), Sorted(p),
           \A i \in 1..Len(s) : \A j \in 1..Len(p) : begin[s[i]] > begin[p[j]]
    PROVE  /\ s \o p \in Seq(ListTrip) /\ List!IsInjective(s \o p) /\ Sorted(s \o p)
           /\ List!Range(s \o p) = List!Range(s) \cup List!Range(p)
<1> DEFINE r == s \o p
<1>1. /\ r \in Seq(ListTrip) /\ Len(r) = Len(s) + Len(p)
      /\ \A i \in 1..Len(s) : r[i] = s[i]
      /\ \A i \in 1..Len(p) : r[Len(s) + i] = p[i]
      /\ Len(s) \in Nat /\ Len(p) \in Nat
  OBVIOUS
<1> HIDE DEF r
<1>2. \A i \in 1..Len(r) : \/ i \in 1..Len(s) /\ r[i] = s[i]
                           \/ i - Len(s) \in 1..Len(p) /\ r[i] = p[i - Len(s)]
  <2> TAKE i \in 1..Len(r)
  <2>1. CASE i <= Len(s)
    <3>1. i \in 1..Len(s)
      BY <1>1, <2>1
    <3> QED BY <1>1, <3>1
  <2>2. CASE ~(i <= Len(s))
    <3>1. i - Len(s) \in 1..Len(p) /\ Len(s) + (i - Len(s)) = i
      BY <1>1, <2>2
    <3> QED BY <1>1, <3>1
  <2> QED BY <2>1, <2>2
<1>3. ASSUME NEW i \in 1..Len(r), NEW j \in 1..Len(r), i < j
      PROVE  begin[r[i]] >= begin[r[j]] /\ r[i] # r[j]
  <2>1. CASE i \in 1..Len(s) /\ j \in 1..Len(s)
    <3>1. r[i] = s[i] /\ r[j] = s[j]
      BY <1>1, <2>1
    <3>2. s[i] # s[j]
      BY <1>3, <2>1, Places
    <3>3. begin[s[i]] >= begin[s[j]]
      BY <1>3, <2>1 DEF Sorted
    <3> QED BY <3>1, <3>2, <3>3
  <2>2. CASE i \in 1..Len(s) /\ j \notin 1..Len(s)
    <3>1. r[i] = s[i] /\ j - Len(s) \in 1..Len(p) /\ r[j] = p[j - Len(s)]
      BY <1>1, <1>2, <2>2
    <3>2. begin[r[i]] > begin[r[j]]
      BY <2>2, <3>1
    <3>3. begin[r[i]] \in Nat /\ begin[r[j]] \in Nat
      BY <1>1
    <3> QED BY <3>2, <3>3
  <2>3. CASE i \notin 1..Len(s)
    <3>1. i - Len(s) \in 1..Len(p) /\ r[i] = p[i - Len(s)]
      BY <1>2, <2>3
    <3>2. j - Len(s) \in 1..Len(p) /\ r[j] = p[j - Len(s)]
      <4>1. j \notin 1..Len(s)
        BY <1>1, <1>3, <2>3
      <4> QED BY <1>2, <4>1
    <3>3. i - Len(s) < j - Len(s)
      BY <1>1, <1>3
    <3>4. p[i - Len(s)] # p[j - Len(s)]
      <4>1. \A a, b \in 1..Len(p) : a < b => p[a] # p[b]
        BY Places
      <4> QED BY <3>1, <3>2, <3>3, <4>1
    <3>5. begin[p[i - Len(s)]] >= begin[p[j - Len(s)]]
      BY <3>1, <3>2, <3>3 DEF Sorted
    <3> QED BY <3>1, <3>2, <3>4, <3>5
  <2> QED BY <2>1, <2>2, <2>3
<1>4. Sorted(r) /\ List!IsInjective(r)
  <2>1. Sorted(r)
    BY <1>3 DEF Sorted
  <2>2. \A i, j \in 1..Len(r) : i < j => r[i] # r[j]
    BY <1>3
  <2> QED BY <1>1, <2>1, <2>2, Places
<1>5. ASSUME NEW x \in List!Range(r) PROVE x \in List!Range(s) \cup List!Range(p)
  <2>1. PICK i \in 1..Len(r) : r[i] = x
    BY <1>1, <1>5, Places
  <2> QED BY <1>2, <2>1, Places
<1>6. ASSUME NEW x \in List!Range(s) PROVE x \in List!Range(r)
  <2>1. PICK i \in 1..Len(s) : s[i] = x
    BY <1>6, Places
  <2>2. i \in 1..Len(r) /\ r[i] = x
    BY <1>1, <2>1
  <2> QED BY <1>1, <2>2, Places
<1>7. ASSUME NEW x \in List!Range(p) PROVE x \in List!Range(r)
  <2>1. PICK i \in 1..Len(p) : p[i] = x
    BY <1>7, Places
  <2>2. Len(s) + i \in 1..Len(r) /\ r[Len(s) + i] = x
    BY <1>1, <2>1
  <2> QED BY <1>1, <2>2, Places
<1> QED BY <1>1, <1>4, <1>5, <1>6, <1>7 DEF r

-----------------------------------------------------------------------------
(* A step that leaves the list and the last request as they are.           *)
LEMMA Elsewhere ==
    ASSUME ListInv, ListTypes',
           UNCHANGED <<begin, filter, list, gen, loading, hasMore, later, listed>>,
           there' \subseteq there, fetch' \subseteq fetch
    PROVE  ListInv' \/ \E k \in fetch : List!Current(k) /\ k \notin fetch'
<1> SUFFICES ASSUME \A k \in fetch : List!Current(k) => k \in fetch'
             PROVE  ListInv'
  OBVIOUS
<1> USE DEF ListInv
<1>1. \A s : Sorted(s)' <=> Sorted(s)
  BY DEF Sorted
<1>2. \A k : (List!Current(k)' <=> List!Current(k)) /\ Wanted(k)' = Wanted(k) /\ (PageFits(k)' <=> PageFits(k))
  BY DEF List!Current, Wanted, PageFits, Sorted
<1>3. Due' \subseteq Due
  BY DEF Due
<1>4. InOrder'
  BY DEF InOrder, Sorted
<1>5. Numbered'
  BY <1>2 DEF Numbered
<1>6. PagesAnswered'
  BY <1>2 DEF PagesAnswered
<1>7. ToCome'
  BY DEF ToCome
<1>8. GoesOn'
  BY <1>2, <1>3 DEF GoesOn
<1>9. FiltersAgree'
  BY <1>2 DEF FiltersAgree
<1>10. Filled'
  BY <1>3 DEF Filled
<1> QED BY <1>4, <1>5, <1>6, <1>7, <1>8, <1>9, <1>10

(* A first page is asked for.                                              *)
LEMMA FirstAsked ==
    ASSUME ListInv, ListTypes', NEW f \in SUBSET ListTrip, List!RunFetch(f, FALSE, NoTrip), filter' = f,
           UNCHANGED <<begin, list, hasMore, later, listed>>, there' \subseteq there
    PROVE  ListInv'
<1> USE DEF ListInv
<1>0. PICK k : k = [gen |-> gen + 1, append |-> FALSE, filter |-> f, before |-> NoTrip,
                    at |-> "server", page |-> <<>>, there |-> {}]
  OBVIOUS
<1>1. /\ fetch' = fetch \cup {k} /\ gen' = gen + 1 /\ loading' # {} /\ gen \in Nat
      /\ ~k.append /\ k.gen = gen + 1 /\ k.before = NoTrip /\ k.filter = f /\ k.there = {}
      /\ k.at = "server"
  BY <1>0 DEF List!RunFetch, ListTypes
<1>2. \A l \in fetch : l.gen \in Nat /\ l.gen <= gen /\ ~List!Current(l)'
  BY <1>1 DEF ListTypes, Request, Numbered, List!Current
<1>3. List!Current(k)' /\ \A l \in fetch' : List!Current(l)' => l = k
  <2>1. List!Current(k)'
    BY <1>1 DEF List!Current
  <2>2. \A l \in fetch' : List!Current(l)' => l = k
    BY <1>1, <1>2
  <2> QED BY <2>1, <2>2
<1>4. \A l : PageFits(l)' <=> PageFits(l)
  BY DEF PageFits, Sorted, Wanted
<1>5. Due' \subseteq Due
  BY DEF Due
<1>6. InOrder'
  BY DEF InOrder, Sorted
<1>7. Numbered'
  <2>1. \A l, m \in fetch' : l.gen = m.gen => l = m
    BY <1>1, <1>2 DEF Numbered
  <2>2. \A l \in fetch' : l.gen <= gen' /\ (l.append <=> l.before # NoTrip)
    BY <1>1, <1>2 DEF Numbered
  <2> QED BY <1>1, <1>3, <2>1, <2>2 DEF Numbered
<1>8. PagesAnswered'
  BY <1>1, <1>4 DEF PagesAnswered
<1>9. ToCome'
  BY <1>1 DEF ToCome
<1>10. GoesOn'
  BY <1>1, <1>3 DEF GoesOn
<1>11. FiltersAgree'
  <2>1. k \in fetch' /\ List!Current(k)' /\ ~k.append
    BY <1>1, <1>3
  <2> QED BY <2>1 DEF FiltersAgree
<1>12. Filled'
  BY <1>5 DEF Filled
<1> QED BY <1>6, <1>7, <1>8, <1>9, <1>10, <1>11, <1>12

(* The next page is.                                                       *)
LEMMA NextLoadMore == ASSUME ListInv, ListTypes', List!LoadMore PROVE ListInv'
<1> USE DEF ListInv
<1>0. PICK k : k = [gen |-> gen + 1, append |-> TRUE, filter |-> filter, before |-> List!Last(list),
                    at |-> "server", page |-> <<>>, there |-> {}]
  OBVIOUS
<1>1. /\ fetch' = fetch \cup {k} /\ gen' = gen + 1 /\ loading' # {} /\ gen \in Nat
      /\ UNCHANGED <<begin, there, later, filter, list, hasMore, listed>>
      /\ k.append /\ k.gen = gen + 1 /\ k.before = List!Last(list) /\ k.filter = filter
      /\ k.there = {} /\ k.at = "server"
  BY <1>0 DEF List!LoadMore, List!RunFetch, ListTypes, List!rows
<1>13. /\ list \in Seq(ListTrip) /\ Len(list) \in 1..Len(list) /\ hasMore /\ loading = {}
      /\ List!Last(list) = list[Len(list)] /\ List!Last(list) \in ListTrip /\ List!Last(list) \in List!Range(list)
  <2>1. list \in Seq(ListTrip) /\ list # <<>> /\ hasMore /\ loading = {}
    BY DEF List!LoadMore, ListTypes
  <2>2. Len(list) \in 1..Len(list)
    BY <2>1
  <2> QED BY <2>1, <2>2, Places DEF List!Last
<1>2. \A l \in fetch : l.gen \in Nat /\ l.gen <= gen /\ ~List!Current(l)' /\ ~List!Current(l)
  BY <1>13, <1>1 DEF ListTypes, Request, Numbered, List!Current
<1>3. List!Current(k)' /\ \A l \in fetch' : List!Current(l)' => l = k
  <2>1. List!Current(k)'
    BY <1>1 DEF List!Current
  <2>2. \A l \in fetch' : List!Current(l)' => l = k
    BY <1>1, <1>2
  <2> QED BY <2>1, <2>2
<1>4. \A l : PageFits(l)' <=> PageFits(l)
  BY <1>1 DEF PageFits, Sorted, Wanted
<1>5. Due' = Due
  BY <1>1 DEF Due
<1>6. InOrder'
  BY <1>1 DEF InOrder, Sorted
<1>7. Numbered'
  <2>1. \A l, m \in fetch' : l.gen = m.gen => l = m
    BY <1>1, <1>2 DEF Numbered
  <2>2. k.before # NoTrip
    BY <1>13, <1>1, ListBounds
  <2>3. \A l \in fetch' : l.gen <= gen' /\ (l.append <=> l.before # NoTrip)
    BY <1>1, <1>2, <2>2 DEF Numbered
  <2> QED BY <1>1, <1>3, <2>1, <2>3 DEF Numbered
<1>8. PagesAnswered'
  BY <1>1, <1>4 DEF PagesAnswered
<1>9. ToCome'
  BY <1>1 DEF ToCome
<1>10. GoesOn'
  <2>1. ASSUME NEW u \in List!Range(list) PROVE begin[u] >= begin[List!Last(list)]
    <3>1. PICK i \in 1..Len(list) : list[i] = u
      BY <1>13, <2>1, Places
    <3>2. CASE i = Len(list)
      BY <1>13, <3>1, <3>2 DEF ListTypes
    <3>3. CASE i # Len(list)
      BY <1>13, <3>1, <3>3 DEF InOrder, Sorted
    <3> QED BY <3>2, <3>3
  <2>2. ~listed.stale => \A t \in Due : begin[t] > begin[List!Last(list)] => t \in List!Range(list)
    <3> SUFFICES ASSUME ~listed.stale, NEW t \in Due, begin[t] > begin[List!Last(list)]
                 PROVE  t \in List!Range(list)
      OBVIOUS
    <3>1. begin[t] \in Nat /\ begin[List!Last(list)] \in Nat
      BY <1>13 DEF Due, ListTypes
    <3>2. begin[List!Last(list)] < begin[t]
      BY <3>1
    <3> QED BY <1>13, <3>2 DEF Filled
  <2> QED BY <1>1, <1>3, <1>5, <2>1, <2>2 DEF GoesOn
<1>11. FiltersAgree'
  BY <1>1, <1>2 DEF FiltersAgree
<1>12. Filled'
  BY <1>1, <1>5 DEF Filled
<1> QED BY <1>6, <1>7, <1>8, <1>9, <1>10, <1>11, <1>12

-----------------------------------------------------------------------------
(* The server reads a page.                                                *)
LEMMA NextReadPage == ASSUME ListInv, ListTypes', NEW k \in fetch, List!ReadPage(k) PROVE ListInv'
<1> USE DEF ListInv
<1>1. PICK p \in List!Pages(k) :
         fetch' = (fetch \ {k}) \cup {[k EXCEPT !.at = "answer", !.page = p, !.there = there]}
  BY DEF List!ReadPage
<1>2. PICK a : a = [k EXCEPT !.at = "answer", !.page = p, !.there = there]
  OBVIOUS
<1>3. /\ k \in Request /\ fetch' = (fetch \ {k}) \cup {a} /\ a \in Request
      /\ a.gen = k.gen /\ a.append = k.append /\ a.filter = k.filter /\ a.before = k.before
      /\ a.at = "answer" /\ a.page = p /\ a.there = there
  <2>1. k \in Request
    BY DEF ListTypes
  <2>2. fetch' = (fetch \ {k}) \cup {a}
    BY <1>1, <1>2
  <2>3. a \in Request
    BY <2>2 DEF ListTypes
  <2> QED BY <1>2, <2>1, <2>2, <2>3 DEF Request
<1>4. UNCHANGED <<begin, there, later, filter, list, gen, loading, hasMore, listed>>
  BY DEF List!ReadPage, List!rows, List!edits
<1>5. PageFits(a)
  BY <1>3, PagesFit
<1>6. \A l : (PageFits(l)' <=> PageFits(l)) /\ (List!Current(l)' <=> List!Current(l))
  BY <1>4 DEF PageFits, Sorted, Wanted, List!Current
<1>7. Due' = Due
  BY <1>4 DEF Due
<1>8. \A l \in fetch : l.gen = k.gen => l = k
  BY DEF Numbered
<1>9. (List!Current(a) <=> List!Current(k)) /\ (a.append <=> k.append)
  BY <1>3 DEF List!Current
<1>10. InOrder'
  BY <1>4 DEF InOrder, Sorted
<1>11. Numbered'
  <2>1. \A l, m \in fetch' : l.gen = m.gen => l = m
    BY <1>3, <1>8 DEF Numbered
  <2>2. \A l \in fetch' : l.gen <= gen /\ (l.append <=> l.before # NoTrip)
    BY <1>3 DEF Numbered
  <2>3. \A l \in fetch' : List!Current(l) => loading # {} /\ l.filter = filter
    BY <1>3, <1>9 DEF Numbered
  <2> QED BY <1>4, <1>6, <2>1, <2>2, <2>3 DEF Numbered
<1>12. PagesAnswered'
  BY <1>3, <1>5, <1>6 DEF PagesAnswered
<1>13. ToCome'
  BY <1>3, <1>4 DEF ToCome
<1>14. GoesOn'
  BY <1>3, <1>4, <1>6, <1>7, <1>9 DEF GoesOn
<1>15. FiltersAgree'
  BY <1>3, <1>4, <1>6, <1>9 DEF FiltersAgree
<1>16. Filled'
  BY <1>4, <1>7 DEF Filled
<1> QED BY <1>10, <1>11, <1>12, <1>13, <1>14, <1>15, <1>16

(* A page is all that is missing: a trip it was to hold is on it, if the   *)
(* page is the last or has an older one.                                   *)
LEMMA PageFills ==
    ASSUME begin \in [ListTrip -> Nat], NEW k \in Request, PageFits(k),
           NEW t \in Wanted(k), t \in ListTrip,
           ~List!MoreToCome(k.page) \/ \E u \in List!Range(k.page) : begin[u] < begin[t]
    PROVE  t \in List!Range(k.page)
<1>1. k.page \in Seq(ListTrip)
  BY DEF Request
<1>2. CASE ~List!MoreToCome(k.page)
  BY <1>2 DEF List!MoreToCome, PageFits
<1>3. CASE \E u \in List!Range(k.page) : begin[u] < begin[t]
  <2>1. PICK u \in List!Range(k.page) : begin[u] < begin[t]
    BY <1>3
  <2>2. PICK i \in 1..Len(k.page) : k.page[i] = u
    BY <1>1, <2>1, Places
  <2>3. begin[u] \in Nat /\ begin[t] \in Nat
    BY <1>1, <2>2
  <2>4. ~(begin[t] <= begin[u])
    BY <2>1, <2>3
  <2> QED BY <2>2, <2>4 DEF PageFits
<1> QED BY <1>2, <1>3

(* A first page arrives.                                                   *)
LEMMA FirstArrives ==
    ASSUME ListInv, ListTypes', NEW k \in fetch, List!PageArrives(k), ~k.append PROVE ListInv'
<1> USE DEF ListInv
<1>1. /\ k \in Request /\ k.at = "answer" /\ List!Current(k) /\ PageFits(k)
      /\ list' = k.page /\ hasMore' = List!MoreToCome(k.page) /\ fetch' = fetch \ {k}
      /\ listed' = [filter |-> k.filter, there |-> k.there, skipped |-> {}, stale |-> FALSE]
      /\ UNCHANGED <<begin, there, later, filter, gen>>
      /\ k.before = NoTrip /\ k.filter = filter
  BY DEF List!PageArrives, PagesAnswered, ListTypes, List!rows, Numbered
<1>2. \A l \in fetch' : l \in fetch /\ ~List!Current(l) /\ ~List!Current(l)'
  BY <1>1 DEF Numbered, List!Current
<1>3. \A l : (PageFits(l)' <=> PageFits(l))
  BY <1>1 DEF PageFits, Sorted, Wanted
<1>4. InOrder'
  BY <1>1 DEF InOrder, PageFits, Sorted
<1>5. Numbered'
  BY <1>1, <1>2 DEF Numbered
<1>6. PagesAnswered'
  BY <1>1, <1>3 DEF PagesAnswered
<1>7. ToCome'
  BY <1>1 DEF ToCome
<1>8. GoesOn'
  BY <1>2 DEF GoesOn
<1>9. FiltersAgree'
  <2>1. List!Range(k.page) \subseteq k.filter
    BY <1>1 DEF PageFits, Wanted
  <2> QED BY <1>1, <2>1 DEF FiltersAgree
<1>10. Filled'
  <2>1. \A t \in Due' : t \in Wanted(k) /\ t \in ListTrip
    BY <1>1 DEF Due, Wanted, ListTypes
  <2>2. ASSUME NEW t \in Due', ~hasMore' \/ \E u \in List!Range(list') : begin'[u] < begin'[t]
        PROVE  t \in List!Range(list')
    <3>1. ~List!MoreToCome(k.page) \/ \E u \in List!Range(k.page) : begin[u] < begin[t]
      BY <1>1, <2>2
    <3> QED BY <1>1, <2>1, <3>1, PageFills DEF ListTypes
  <2> QED BY <2>2 DEF Filled
<1> QED BY <1>4, <1>5, <1>6, <1>7, <1>8, <1>9, <1>10

(* The next one arrives.                                                   *)
LEMMA NextArrives ==
    ASSUME ListInv, ListTypes', NEW k \in fetch, List!PageArrives(k), k.append PROVE ListInv'
<1> USE DEF ListInv
<1>1. /\ k \in Request /\ k.at = "answer" /\ List!Current(k) /\ PageFits(k)
      /\ hasMore' = List!MoreToCome(k.page) /\ fetch' = fetch \ {k}
      /\ list' = list \o List!Only(k.page, ListTrip \ List!Range(list))
      /\ listed' = [listed EXCEPT !.skipped = @ \cup {t \in ListTrip : begin[t] = begin[k.before]}]
      /\ UNCHANGED <<begin, there, later, filter, gen>>
      /\ k.before # NoTrip /\ k.before \in ListTrip /\ k.filter = filter
  <2>1. k \in Request
    BY DEF ListTypes
  <2>2. k.before # NoTrip /\ k.before \in ListTrip
    BY <2>1 DEF Numbered, Request
  <2> QED BY <2>1, <2>2 DEF List!PageArrives, PagesAnswered, List!rows, Numbered
<1>2. \A l \in fetch' : l \in fetch /\ ~List!Current(l) /\ ~List!Current(l)'
  BY <1>1 DEF Numbered, List!Current
<1>3. \A l : (PageFits(l)' <=> PageFits(l))
  BY <1>1 DEF PageFits, Sorted, Wanted
<1>4. /\ listed'.filter = listed.filter /\ listed'.there = listed.there
      /\ listed'.stale = listed.stale
      /\ \A t \in ListTrip : t \notin listed'.skipped => t \notin listed.skipped
                                                     /\ begin[t] # begin[k.before]
  BY <1>1 DEF ListTypes
<1>5. begin \in [ListTrip -> Nat] /\ list \in Seq(ListTrip) /\ k.page \in Seq(ListTrip)
  BY <1>1 DEF ListTypes, Request
<1>6. \A u \in List!Range(list) : begin[u] >= begin[k.before]
  BY <1>1 DEF GoesOn
<1>7. PICK q \in Seq(ListTrip) : q = List!Only(k.page, ListTrip \ List!Range(list))
  BY <1>1, <1>5, KeptSorted DEF PageFits
<1>8. List!IsInjective(q) /\ Sorted(q) /\ List!Range(q) = List!Range(k.page) \cap (ListTrip \ List!Range(list))
  BY <1>1, <1>5, <1>7, KeptSorted DEF PageFits
<1>20. List!Range(k.page) \subseteq ListTrip /\ List!Range(list) \subseteq ListTrip
  <2>1. Wanted(k) \subseteq ListTrip
    BY <1>1 DEF Wanted, Request
  <2>2. List!Range(k.page) \subseteq Wanted(k)
    BY <1>1 DEF PageFits
  <2>3. List!Range(list) \subseteq ListTrip
    BY <1>5 DEF List!Range
  <2> QED BY <2>1, <2>2, <2>3
<1>9. ASSUME NEW u \in List!Range(list), NEW t \in List!Range(k.page) PROVE begin[u] > begin[t]
  <2>1. begin[t] < begin[k.before] /\ t \in ListTrip /\ u \in ListTrip
    BY <1>1, <1>9, <1>20 DEF PageFits, Wanted
  <2>2. begin[u] \in Nat /\ begin[t] \in Nat /\ begin[k.before] \in Nat
    BY <1>1, <1>5, <2>1
  <2> QED BY <1>6, <2>1, <2>2
<1>10. List!Range(q) = List!Range(k.page)
  <2>1. ASSUME NEW t \in List!Range(k.page) PROVE t \in ListTrip /\ t \notin List!Range(list)
    <3>1. t \in ListTrip
      BY <1>20, <2>1
    <3>2. ~(begin[t] > begin[t])
      BY <1>5, <3>1
    <3> QED BY <1>9, <2>1, <3>1, <3>2
  <2> QED BY <1>8, <2>1
<1>11. \A i \in 1..Len(list), j \in 1..Len(q) : begin[list[i]] > begin[q[j]]
  BY <1>5, <1>7, <1>9, <1>10, Places
<1>12. /\ List!IsInjective(list') /\ Sorted(list') /\ List!Range(list') = List!Range(list) \cup List!Range(k.page)
  BY <1>1, <1>5, <1>7, <1>8, <1>10, <1>11, OlderAppended DEF InOrder
<1>13. InOrder'
  BY <1>1, <1>12 DEF InOrder, Sorted
<1>14. Numbered'
  BY <1>1, <1>2 DEF Numbered
<1>15. PagesAnswered'
  BY <1>1, <1>3 DEF PagesAnswered
<1>16. ToCome'
  BY <1>1, <1>4 DEF ToCome
<1>17. GoesOn'
  BY <1>2 DEF GoesOn
<1>18. FiltersAgree'
  <2>1. ~listed.stale => listed.filter = filter
    BY <1>1 DEF FiltersAgree, Numbered, List!Current
  <2>2. List!Range(k.page) \subseteq filter
    BY <1>1 DEF PageFits, Wanted
  <2> QED BY <1>1, <1>4, <1>12, <2>1, <2>2 DEF FiltersAgree
<1>19. Filled'
  <2> SUFFICES ASSUME ~listed.stale, NEW t \in Due',
                      ~List!MoreToCome(k.page) \/ \E u \in List!Range(list') : begin[u] < begin[t]
               PROVE  t \in List!Range(list) \cup List!Range(k.page)
    BY <1>1, <1>4, <1>12 DEF Filled
  <2>1. /\ t \in Due /\ t \in ListTrip /\ t \in there \cap listed.there /\ t \in listed.filter
        /\ begin[t] # begin[k.before]
    BY <1>1, <1>4 DEF Due, ListTypes
  <2>2. begin[t] \in Nat /\ begin[k.before] \in Nat
    BY <1>1, <1>5, <2>1
  <2>3. CASE begin[t] > begin[k.before]
    BY <1>1, <2>1, <2>3 DEF GoesOn
  <2>4. CASE begin[t] < begin[k.before]
    <3>1. listed.filter = filter
      BY <1>1 DEF FiltersAgree, Numbered, List!Current
    <3>2. t \in Wanted(k)
      BY <1>1, <2>1, <2>4, <3>1 DEF GoesOn, Wanted
    <3>3. ASSUME NEW u \in List!Range(list), begin[u] < begin[t] PROVE FALSE
      <4>1. u \in ListTrip /\ begin[u] \in Nat
        BY <1>5, <3>3, Places
      <4> QED BY <1>6, <2>2, <2>4, <3>3, <4>1
    <3>4. ~List!MoreToCome(k.page) \/ \E u \in List!Range(k.page) : begin[u] < begin[t]
      BY <1>12, <3>3
    <3> QED BY <1>1, <1>5, <2>1, <3>2, <3>4, PageFills
  <2> QED BY <2>1, <2>2, <2>3, <2>4
<1> QED BY <1>13, <1>14, <1>15, <1>16, <1>17, <1>18, <1>19

(* A request fails.                                                        *)
LEMMA NextPageFails ==
    ASSUME ListInv, ListTypes', NEW k \in fetch, List!PageFails(k) PROVE ListInv'
<1> USE DEF ListInv
<1>1. UNCHANGED <<begin, there, later, filter, list, gen, hasMore>> /\ fetch' = fetch \ {k}
  BY DEF List!PageFails, List!rows, List!edits
<1>2. CASE ~List!Current(k)
  <2>1. listed' = listed /\ loading' = loading
    BY <1>2 DEF List!PageFails, ListTypes
  <2>2. k \notin fetch' /\ \A l \in fetch : List!Current(l) => l \in fetch'
    BY <1>1, <1>2
  <2> QED BY <1>1, <2>1, <2>2, Elsewhere
<1>3. CASE List!Current(k)
  <2>1. \A l \in fetch' : l \in fetch /\ ~List!Current(l) /\ ~List!Current(l)'
    BY <1>1, <1>3 DEF Numbered, List!Current
  <2>2. /\ listed'.filter = listed.filter /\ listed'.there = listed.there
        /\ listed'.skipped = listed.skipped
        /\ ~listed'.stale => ~listed.stale /\ k.append
    BY <1>3 DEF List!PageFails, ListTypes
  <2>3. \A l : (PageFits(l)' <=> PageFits(l))
    BY <1>1 DEF PageFits, Sorted, Wanted
  <2>4. InOrder'
    BY <1>1 DEF InOrder, Sorted
  <2>5. Numbered'
    BY <1>1, <2>1 DEF Numbered
  <2>6. PagesAnswered'
    BY <1>1, <2>3 DEF PagesAnswered
  <2>7. ToCome'
    BY <1>1, <2>2 DEF ToCome
  <2>8. GoesOn'
    BY <2>1 DEF GoesOn
  <2>9. FiltersAgree'
    <3>1. ~listed'.stale => listed.filter = filter
      BY <1>3, <2>2 DEF FiltersAgree, Numbered, List!Current
    <3> QED BY <1>1, <2>2, <3>1 DEF FiltersAgree
  <2>10. Filled'
    BY <1>1, <2>2 DEF Filled, Due
  <2> QED BY <2>4, <2>5, <2>6, <2>7, <2>8, <2>9, <2>10
<1> QED BY <1>2, <1>3

(* A trip is gone, from the server and from the list.                      *)
LEMMA NextDeleteAnswered == ASSUME ListInv, ListTypes', List!DeleteAnswered PROVE ListInv'
<1> USE DEF ListInv
<1>1. UNCHANGED <<begin, later, filter, gen, loading, hasMore, fetch, listed>>
  BY DEF List!DeleteAnswered
<1>2. CASE list' = list /\ there' = there
  BY <1>1, <1>2, Elsewhere
<1>3. CASE list' # list \/ there' # there
  <2>1. PICK d : d = deleting
    OBVIOUS
  <2>2. list' = List!Only(list, ListTrip \ {d}) /\ there' = there \ {d}
    BY <1>3, <2>1 DEF List!DeleteAnswered
  <2>3. begin \in [ListTrip -> Nat] /\ list \in Seq(ListTrip)
    BY DEF ListTypes
  <2>4. List!IsInjective(list') /\ Sorted(list') /\ List!Range(list') = List!Range(list) \cap (ListTrip \ {d})
    BY <2>2, <2>3, KeptSorted DEF InOrder
  <2>5. \A l : (PageFits(l)' <=> PageFits(l)) /\ (List!Current(l)' <=> List!Current(l))
    BY <1>1 DEF PageFits, Sorted, Wanted, List!Current
  <2>6. \A t \in Due' : t \in Due /\ t # d /\ t \in ListTrip
    BY <1>1, <2>2 DEF Due, ListTypes
  <2>7. InOrder'
    BY <1>1, <2>4 DEF InOrder, Sorted
  <2>8. Numbered'
    BY <1>1, <2>5 DEF Numbered
  <2>9. PagesAnswered'
    BY <1>1, <2>5 DEF PagesAnswered
  <2>10. ToCome'
    BY <1>1, <2>2 DEF ToCome
  <2>11. GoesOn'
    BY <1>1, <2>2, <2>4, <2>5, <2>6 DEF GoesOn
  <2>12. FiltersAgree'
    BY <1>1, <2>4, <2>5 DEF FiltersAgree
  <2>13. Filled'
    BY <1>1, <2>4, <2>6 DEF Filled
  <2> QED BY <2>7, <2>8, <2>9, <2>10, <2>11, <2>12, <2>13
<1> QED BY <1>2, <1>3

(* One comes that the list was not to hold.                                *)
LEMMA NextTripComes == ASSUME ListInv, ListTypes', List!TripComes PROVE ListInv'
<1> USE DEF ListInv
<1>1. UNCHANGED <<begin, filter, list, gen, loading, hasMore, fetch, listed>>
  BY DEF List!TripComes, List!signals
<1>2. /\ there' = there \cup {later} /\ later' = NoTrip
      /\ later \notin listed.there
  BY DEF List!TripComes, ToCome
<1>3. there' \cap listed.there = there \cap listed.there
  BY <1>2
<1>4. Due' = Due
  BY <1>1, <1>3 DEF Due
<1>5. \A l : (PageFits(l)' <=> PageFits(l)) /\ (List!Current(l)' <=> List!Current(l))
  BY <1>1 DEF PageFits, Sorted, Wanted, List!Current
<1>6. InOrder'
  BY <1>1 DEF InOrder, Sorted
<1>7. Numbered'
  BY <1>1, <1>5 DEF Numbered
<1>8. PagesAnswered'
  BY <1>1, <1>5 DEF PagesAnswered
<1>9. ToCome'
  BY <1>2 DEF ToCome
<1>10. GoesOn'
  BY <1>1, <1>3, <1>4, <1>5 DEF GoesOn
<1>11. FiltersAgree'
  BY <1>1, <1>5 DEF FiltersAgree
<1>12. Filled'
  BY <1>1, <1>4 DEF Filled
<1> QED BY <1>6, <1>7, <1>8, <1>9, <1>10, <1>11, <1>12

-----------------------------------------------------------------------------
LEMMA FetchTypes ==
    ASSUME ListTypes, NEW f \in SUBSET ListTrip, NEW append \in BOOLEAN,
           NEW before \in ListTrip \cup {NoTrip}, List!RunFetch(f, append, before)
    PROVE  gen' \in Nat /\ fetch' \subseteq Request
<1>1. PICK k : k = [gen |-> gen + 1, append |-> append, filter |-> f, before |-> before,
                    at |-> "server", page |-> <<>>, there |-> {}]
  OBVIOUS
<1>2. k \in Request
  BY <1>1 DEF Request, ListTypes
<1>3. gen' = gen + 1 /\ fetch' = fetch \cup {k}
  BY <1>1 DEF List!RunFetch
<1> QED BY <1>2, <1>3 DEF ListTypes

LEMMA NextListTypes == ASSUME ListInv, List!Next PROVE ListTypes'
<1> USE DEF ListInv
<1>1. ASSUME NEW k \in fetch, List!ReadPage(k) PROVE ListTypes'
  <2>1. PICK p \in List!Pages(k) :
           fetch' = (fetch \ {k}) \cup {[k EXCEPT !.at = "answer", !.page = p, !.there = there]}
    BY <1>1 DEF List!ReadPage
  <2>2. p \in Seq(ListTrip)
    <3>1. PICK m \in 0..PageSize :
             p \in [1..m -> {t \in there \cap k.filter :
                                k.before = NoTrip \/ begin[t] < begin[k.before]}]
      BY <2>1 DEF List!Pages, List!SeqOf
    <3>2. m \in Nat
      BY ListBounds
    <3>3. p \in [1..m -> ListTrip]
      BY <3>1 DEF ListTypes
    <3> QED BY <3>2, <3>3
  <2>3. [k EXCEPT !.at = "answer", !.page = p, !.there = there] \in Request
    BY <2>2 DEF ListTypes, Request
  <2>4. fetch' \subseteq Request
    BY <2>1, <2>3 DEF ListTypes
  <2> QED BY <1>1, <2>4 DEF List!ReadPage, ListTypes, List!rows, List!edits
<1>2. ASSUME NEW k \in fetch, List!PageArrives(k) PROVE ListTypes'
  <2>1. k \in Request /\ k.page \in Seq(ListTrip)
    BY DEF ListTypes, Request
  <2>2. list' \in Seq(ListTrip)
    <3>1. CASE k.append
      <4>1. PICK q \in Seq(ListTrip) : q = List!Only(k.page, ListTrip \ List!Range(list))
        BY <2>1, ListOnlyChosen
      <4>2. list' = list \o q /\ list \in Seq(ListTrip)
        BY <1>2, <3>1, <4>1 DEF List!PageArrives, ListTypes
      <4> QED BY <4>2
    <3>2. CASE ~k.append
      BY <1>2, <2>1, <3>2 DEF List!PageArrives
    <3> QED BY <3>1, <3>2
  <2>3. listed' \in [filter : SUBSET ListTrip, there : SUBSET ListTrip, skipped : SUBSET ListTrip,
                     stale : BOOLEAN]
    <3>1. CASE k.append
      <4>1. listed' = [listed EXCEPT !.skipped = @ \cup {t \in ListTrip : begin[t] = begin[k.before]}]
        BY <1>2, <3>1 DEF List!PageArrives
      <4>2. listed \in [filter : SUBSET ListTrip, there : SUBSET ListTrip, skipped : SUBSET ListTrip,
                        stale : BOOLEAN]
        BY DEF ListTypes
      <4> QED BY <4>1, <4>2
    <3>2. CASE ~k.append
      <4>1. listed' = [filter |-> k.filter, there |-> k.there, skipped |-> {}, stale |-> FALSE]
        BY <1>2, <3>2 DEF List!PageArrives
      <4>2. k.filter \subseteq ListTrip /\ k.there \subseteq ListTrip
        BY <2>1 DEF Request
      <4> QED BY <4>1, <4>2
    <3> QED BY <3>1, <3>2
  <2>4. hasMore' \in BOOLEAN
    BY <1>2 DEF List!PageArrives, List!MoreToCome
  <2> QED BY <1>2, <2>2, <2>3, <2>4 DEF List!PageArrives, ListTypes, List!rows, List!edits
<1>3. ASSUME NEW k \in fetch, List!PageFails(k) PROVE ListTypes'
  <2>1. listed' \in [filter : SUBSET ListTrip, there : SUBSET ListTrip, skipped : SUBSET ListTrip,
                     stale : BOOLEAN]
    BY <1>3 DEF List!PageFails, ListTypes
  <2> QED BY <1>3, <2>1 DEF List!PageFails, ListTypes, List!rows, List!edits
<1>4. ASSUME NEW k \in fetch, List!PageDropped(k) PROVE ListTypes'
  BY <1>4 DEF List!PageDropped, ListTypes, List!rows, List!edits
<1>5. CASE List!ChooseFilter
  <2>1. filter' \in SUBSET ListTrip
    BY <1>5, ListBounds DEF List!ChooseFilter
  <2>2. gen' \in Nat /\ fetch' \subseteq Request
    BY <1>5, <2>1, FetchTypes DEF List!ChooseFilter
  <2> QED BY <1>5, <2>1, <2>2 DEF List!ChooseFilter, ListTypes, List!rows, List!edits
<1>6. CASE List!LoadMore
  <2>1. List!Last(list) \in ListTrip
    BY <1>6 DEF List!LoadMore, List!Last, ListTypes
  <2>2. gen' \in Nat /\ fetch' \subseteq Request
    BY <1>6, <2>1, FetchTypes DEF List!LoadMore, ListTypes
  <2> QED BY <1>6, <2>2 DEF List!LoadMore, ListTypes, List!rows, List!edits
<1>7. ASSUME NEW t \in ListTrip, List!ClickDelete(t) \/ List!TripGoes(t) PROVE ListTypes'
  BY <1>7 DEF List!ClickDelete, List!TripGoes, ListTypes, List!rows, List!edits, List!signals
<1>8. ASSUME NEW T, List!ClickMerge(T) PROVE ListTypes'
  BY <1>8 DEF List!ClickMerge, ListTypes, List!rows, List!signals
<1>9. CASE List!DeleteAnswered
  <2>1. list' \in Seq(ListTrip)
    BY <1>9, ListOnlyChosen DEF List!DeleteAnswered, ListTypes
  <2> QED BY <1>9, <2>1 DEF List!DeleteAnswered, ListTypes
<1>10. CASE List!MergeAnswered
  <2>1. gen' \in Nat /\ fetch' \subseteq Request
    BY <1>10, FetchTypes DEF List!MergeAnswered, ListTypes
  <2>2. there' \subseteq ListTrip
    BY <1>10 DEF List!MergeAnswered, ListTypes
  <2> QED BY <1>10, <2>1, <2>2 DEF List!MergeAnswered, ListTypes
<1>11. CASE List!TripComes
  BY <1>11 DEF List!TripComes, ListTypes, List!signals, List!edits
<1> QED BY <1>1, <1>2, <1>3, <1>4, <1>5, <1>6, <1>7, <1>8, <1>9, <1>10, <1>11 DEF List!Next

LEMMA NextListInv == ASSUME ListInv, List!Next PROVE ListInv'
<1>0. ListTypes'
  BY NextListTypes
<1>1. ASSUME NEW k \in fetch, List!ReadPage(k) PROVE ListInv'
  BY <1>0, <1>1, NextReadPage
<1>2. ASSUME NEW k \in fetch, List!PageArrives(k) PROVE ListInv'
  BY <1>0, <1>2, FirstArrives, NextArrives
<1>3. ASSUME NEW k \in fetch, List!PageFails(k) PROVE ListInv'
  BY <1>0, <1>3, NextPageFails
<1>4. ASSUME NEW k \in fetch, List!PageDropped(k) PROVE ListInv'
  <2>1. /\ UNCHANGED <<begin, filter, list, gen, loading, hasMore, later, listed, there>>
        /\ fetch' = fetch \ {k} /\ ~List!Current(k)
    BY <1>4 DEF List!PageDropped, List!rows, List!edits
  <2>2. ~\E l \in fetch : List!Current(l) /\ l \notin fetch'
    BY <2>1
  <2> QED BY <1>0, <2>1, <2>2, Elsewhere
<1>5. CASE List!ChooseFilter
  <2>1. filter' \in SUBSET ListTrip
    BY <1>5, ListBounds DEF List!ChooseFilter
  <2> QED BY <1>0, <1>5, <2>1, FirstAsked DEF List!ChooseFilter, List!rows, List!edits
<1>6. CASE List!LoadMore
  BY <1>0, <1>6, NextLoadMore
<1>7. ASSUME NEW t \in ListTrip, List!ClickDelete(t) \/ List!TripGoes(t) PROVE ListInv'
  BY <1>0, <1>7, Elsewhere DEF List!ClickDelete, List!TripGoes, List!rows, List!signals, List!edits
<1>8. ASSUME NEW T, List!ClickMerge(T) PROVE ListInv'
  BY <1>0, <1>8, Elsewhere DEF List!ClickMerge, List!rows, List!signals
<1>9. CASE List!DeleteAnswered
  BY <1>0, <1>9, NextDeleteAnswered
<1>10. CASE List!MergeAnswered
  <2>1. /\ UNCHANGED <<begin, later, list, hasMore, listed, filter>> /\ there' \subseteq there
        /\ filter \in SUBSET ListTrip
    BY <1>10 DEF List!MergeAnswered, ListInv, ListTypes
  <2>2. List!RunFetch(filter, FALSE, NoTrip) \/ UNCHANGED <<gen, loading, fetch>>
    BY <1>10 DEF List!MergeAnswered
  <2>3. CASE List!RunFetch(filter, FALSE, NoTrip)
    BY <1>0, <2>1, <2>3, FirstAsked
  <2>4. CASE UNCHANGED <<gen, loading, fetch>>
    BY <1>0, <2>1, <2>4, Elsewhere
  <2> QED BY <2>2, <2>3, <2>4
<1>11. CASE List!TripComes
  BY <1>0, <1>11, NextTripComes
<1> QED BY <1>1, <1>2, <1>3, <1>4, <1>5, <1>6, <1>7, <1>8, <1>9, <1>10, <1>11 DEF List!Next

(* The invariant holds of every list, whatever trips, filters and sizes.   *)
THEOREM ListInvHolds == List!Spec => []ListInv
<1>1. ListInv /\ [List!Next]_(List!vars) => ListInv'
  <2> SUFFICES ASSUME ListInv, UNCHANGED List!vars PROVE ListInv'
    BY NextListInv
  <2>1. ListTypes'
    BY DEF List!vars, ListInv, ListTypes
  <2> QED BY <2>1, Elsewhere DEF List!vars
<1> QED BY <1>1, InitListInv, PTL DEF List!Spec

(* The list has no holes and no trip twice, and is in order: every trip it *)
(* should show above the last one it shows is there, whatever came, went,  *)
(* was merged or was asked for at the same time, but for the two cases the *)
(* property names.                                                         *)
THEOREM NoHolesInTheList == List!Spec => []ListHasNoHoles
<1>1. ListInv => ListHasNoHoles
  BY DEF ListInv, ListTypes, InOrder, Sorted, Filled, Due, List!ListHasNoHoles, ListHasNoHoles
<1> QED BY <1>1, ListInvHolds, PTL

(* Once nothing is under way the list is within the filters chosen, unless *)
(* a failed first page left another one.                                   *)
THEOREM ListedAsAskedFor == List!Spec => []ListIsAskedFor
<1>1. ListInv => ListIsAskedFor
  BY DEF ListInv, FiltersAgree, Numbered, List!ListIsAskedFor, ListIsAskedFor
<1> QED BY <1>1, ListInvHolds, PTL

-----------------------------------------------------------------------------
(* The calls of the model.                                                 *)
LEMMA ModelBounds ==
    /\ {MaxRounds, Attempts, Budget, MaxFrames, MaxChunk} \subseteq Nat
    /\ IsFiniteSet(Slots)
<1>1. Model!IsFiniteSet(Slots) => IsFiniteSet(Slots)
  BY DEF Model!IsFiniteSet, IsFiniteSet
<1> QED BY <1>1, ModelFits DEF Model!ModelAssumption

LEMMA ModelFinite ==
    ASSUME NEW S
    PROVE  /\ Model!IsFiniteSet(S) = IsFiniteSet(S)
           /\ Model!Cardinality(S) = Cardinality(S)
<1>1. Model!IsFiniteSet(S) = IsFiniteSet(S)
  BY DEF Model!IsFiniteSet, IsFiniteSet
<1>2. Model!Cardinality(S) = Cardinality(S)
  BY DEF Model!Cardinality, Cardinality
<1> QED BY <1>1, <1>2

LEMMA ModelOnly == ASSUME NEW s, NEW T PROVE Model!Only(s, T) = Only(s, T)
BY DEF Model!Only, Only

LEMMA ModelOnlyEmpty == ASSUME NEW T PROVE Model!Only(<<>>, T) = <<>>
BY OnlyEmpty, ModelOnly

LEMMA ModelOnlyAppend ==
    ASSUME NEW S, NEW s \in Seq(S), NEW T, NEW x \in S
    PROVE  /\ x \in T => Model!Only(Append(s, x), T) = Append(Model!Only(s, T), x)
           /\ x \notin T => Model!Only(Append(s, x), T) = Model!Only(s, T)
<1>1. /\ x \in T => Only(Append(s, x), T) = Append(Only(s, T), x)
      /\ x \notin T => Only(Append(s, x), T) = Only(s, T)
  BY OnlyAppend
<1> QED BY <1>1, ModelOnly

Acc == [text : Seq(Nat), calls : [Slots -> Seq(Nat)], over : {"no", "done", "error"}]
Reply == [role : {"call", "tool"}, size : Nat, calls : Nat, stub : BOOLEAN]

ModelTypes ==
    /\ round \in Nat /\ got \in Nat
    /\ sent \in Seq(Model!Frame \cup Model!LastFrame)
    /\ acc \in Acc /\ streamed \in Seq(Nat)
    /\ {emitted, answerNow, cut} \subseteq BOOLEAN
    /\ messages \in Seq(Reply)

(* The accumulator holds the first n frames.                               *)
Holds(a, n) ==
    /\ a.text = Model!Only(Model!Between(1, n), Model!Texts)
    /\ \A s \in Slots : a.calls[s] = Model!Only(Model!Between(1, n), Model!CallsTo(s))
    /\ a.over # "no" => n = Len(sent)

(* Nothing comes after [DONE] or an error.                                 *)
LastEnds == \A i \in 1..Len(sent) : sent[i].kind \in {"done", "error"} => i = Len(sent)

StreamInv ==
    /\ stage = "request" => got = 0 /\ acc = Model!Empty /\ ~cut
    /\ stage = "stream" => ~cut
    /\ got <= 3 * Len(sent)
    /\ LastEnds
    /\ Holds(acc, Model!Arrived)
    /\ Model!ShownOnce
    /\ ~emitted => acc.text = <<>>

-----------------------------------------------------------------------------
LEMMA BetweenOne ==
    ASSUME NEW n \in Nat
    PROVE  /\ Model!Between(1, n) \in Seq(Nat) /\ Len(Model!Between(1, n)) = n
           /\ Model!Between(1, 0) = <<>> /\ Model!Between(1, n + 1) = Append(Model!Between(1, n), n + 1)
<1>1. Model!Between(1, n) = [k \in 1..n |-> k]
  BY DEF Model!Between
<1>2. Model!Between(1, n + 1) = [k \in 1..(n + 1) |-> k]
  BY DEF Model!Between
<1>3. Model!Between(1, 0) = <<>>
  BY DEF Model!Between
<1> QED BY <1>1, <1>2, <1>3

(* One index more.                                                         *)
LEMMA OneMore ==
    ASSUME NEW n \in Nat, NEW T
    PROVE  Model!Only(Model!Between(1, n + 1), T)
              = IF n + 1 \in T THEN Append(Model!Only(Model!Between(1, n), T), n + 1)
                               ELSE Model!Only(Model!Between(1, n), T)
<1>1. PICK s \in Seq(Nat) : s = Model!Between(1, n)
  BY BetweenOne
<1>2. PICK x \in Nat : x = n + 1
  OBVIOUS
<1>3. Model!Between(1, n + 1) = Append(s, x)
  BY <1>1, <1>2, BetweenOne
<1>4. /\ x \in T => Model!Only(Append(s, x), T) = Append(Model!Only(s, T), x)
      /\ x \notin T => Model!Only(Append(s, x), T) = Model!Only(s, T)
  BY ModelOnlyAppend
<1>5. Model!Only(Model!Between(1, n + 1), T) = IF x \in T THEN Append(Model!Only(s, T), x) ELSE Model!Only(s, T)
  BY <1>3, <1>4
<1> QED BY <1>1, <1>2, <1>5

LEMMA NoneYet == ASSUME NEW T PROVE Model!Only(Model!Between(1, 0), T) = <<>>
BY BetweenOne, ModelOnlyEmpty

(* The frames a chunk completes, pushed one after the other.               *)
LEMMA PushLineAcc ==
    ASSUME ModelTypes, NEW a \in Acc, NEW i \in 1..Len(sent)
    PROVE  Model!PushLine(a, i) \in Acc
<1>1. sent[i] \in Model!Frame \cup Model!LastFrame
  BY DEF ModelTypes
<1>2. CASE sent[i].kind \in {"name", "args"}
  <2>1. sent[i].slot \in Slots
    BY <1>1, <1>2 DEF Model!Frame, Model!LastFrame
  <2>2. Append(a.calls[sent[i].slot], i) \in Seq(Nat)
    BY <2>1 DEF Acc, ModelTypes
  <2> QED BY <1>2, <2>1, <2>2 DEF Model!PushLine, Acc
<1>3. CASE sent[i].kind \notin {"name", "args"}
  <2>1. sent[i].kind \in {"text", "noise", "done", "error"}
    BY <1>1, <1>3 DEF Model!Frame, Model!LastFrame
  <2>2. Append(a.text, i) \in Seq(Nat)
    BY DEF Acc, ModelTypes
  <2> QED BY <2>1, <2>2 DEF Model!PushLine, Acc
<1> QED BY <1>2, <1>3

LEMMA PushedSteps ==
    ASSUME ModelTypes, NEW lines \in Seq(1..Len(sent))
    PROVE  \E a \in [0..Len(lines) -> Acc] :
              /\ a[0] = acc /\ \A n \in 1..Len(lines) : a[n] = Model!PushLine(a[n - 1], lines[n])
              /\ Model!Pushed(lines) = a[Len(lines)]
<1> DEFINE a == CHOOSE g : g = [n \in 0..Len(lines) |->
                               IF n = 0 THEN acc ELSE Model!PushLine(g[n - 1], lines[n])]
<1>1. Model!Pushed(lines) = a[Len(lines)]
  BY DEF Model!Pushed
<1>2. PICK g \in [0..Len(lines) -> Acc] :
         g[0] = acc /\ \A n \in 1..Len(lines) : g[n] = Model!PushLine(g[n - 1], lines[n])
  <2> DEFINE step == [n \in 1..Len(lines) |-> [b \in Acc |-> Model!PushLine(b, lines[n])]]
  <2>1. \A n \in 1..Len(lines), b \in Acc : Model!PushLine(b, lines[n]) \in Acc
    BY PushLineAcc
  <2>2. step \in [1..Len(lines) -> [Acc -> Acc]]
    BY <2>1
  <2>3. \A n \in 1..Len(lines), b \in Acc : step[n][b] = Model!PushLine(b, lines[n])
    OBVIOUS
  <2> HIDE DEF step
  <2>4. Len(lines) \in Nat /\ acc \in Acc
    BY DEF ModelTypes
  <2>5. PICK g \in [0..Len(lines) -> Acc] : Recurs(g, Len(lines), acc, step)
    BY <2>2, <2>4, Recursion, Zenon
  <2>6. ASSUME NEW n \in 1..Len(lines) PROVE g[n] = Model!PushLine(g[n - 1], lines[n])
    <3>1. g[n - 1] \in Acc
      OBVIOUS
    <3> QED BY <2>3, <2>5, <3>1 DEF Recurs
  <2> QED BY <2>5, <2>6 DEF Recurs
<1>3. g = [n \in 0..Len(lines) |-> IF n = 0 THEN acc ELSE Model!PushLine(g[n - 1], lines[n])]
  <2>1. ASSUME NEW n \in 0..Len(lines)
        PROVE  g[n] = IF n = 0 THEN acc ELSE Model!PushLine(g[n - 1], lines[n])
    BY <1>2
  <2>2. g = [n \in 0..Len(lines) |-> g[n]]
    OBVIOUS
  <2> QED BY <2>1, <2>2
<1>4. a = [n \in 0..Len(lines) |-> IF n = 0 THEN acc ELSE Model!PushLine(a[n - 1], lines[n])]
  BY <1>3
<1> HIDE DEF a
<1>5. a[0] = acc /\ \A n \in 1..Len(lines) : a[n] = Model!PushLine(a[n - 1], lines[n])
  <2>1. \A n \in 0..Len(lines) : a[n] = IF n = 0 THEN acc ELSE Model!PushLine(a[n - 1], lines[n])
    BY <1>4
  <2> QED BY <2>1
<1>6. \A n \in 0..Len(lines) : a[n] = g[n]
  <2> DEFINE M == {n \in 0..Len(lines) : a[n] = g[n]}
  <2>1. 0 \in M
    BY <1>2, <1>5
  <2>2. ASSUME NEW n \in 0..Len(lines), n \in M, n + 1 \in 0..Len(lines) PROVE n + 1 \in M
    <3>1. n + 1 \in 1..Len(lines) /\ (n + 1) - 1 = n
      BY <2>2
    <3> QED BY <1>2, <1>5, <2>2, <3>1
  <2> HIDE DEF M
  <2>3. 0..Len(lines) \subseteq M
    <3>1. Len(lines) \in Nat
      OBVIOUS
    <3> QED BY <2>1, <2>2, <3>1, UpTo
  <2> QED BY <2>3 DEF M
<1>7. a \in [0..Len(lines) -> Acc]
  <2>1. a = [n \in 0..Len(lines) |-> a[n]]
    BY <1>4
  <2> QED BY <1>6, <2>1
<1> QED BY <1>1, <1>5, <1>7
(* One more frame is read.                                                 *)
Longer(p, q) == Len(p) <= Len(q) /\ \A k \in 1..Len(p) : q[k] = p[k]

LEMMA PushLineHolds ==
    ASSUME ModelTypes, LastEnds, NEW a \in Acc, NEW n \in Nat, n + 1 \in 1..Len(sent), Holds(a, n)
    PROVE  Holds(Model!PushLine(a, n + 1), n + 1) /\ Longer(a.text, Model!PushLine(a, n + 1).text)
<1> DEFINE f == sent[n + 1]
           b == Model!PushLine(a, n + 1)
<1>1. f \in Model!Frame \cup Model!LastFrame
  BY DEF ModelTypes
<1>2. a.over = "no" /\ n + 1 # n
  BY DEF Holds, ModelTypes
<1>3. /\ a.text = Model!Only(Model!Between(1, n), Model!Texts)
      /\ \A s \in Slots : a.calls[s] = Model!Only(Model!Between(1, n), Model!CallsTo(s))
  BY DEF Holds
<1>4. a.text \in Seq(Nat) /\ a.calls \in [Slots -> Seq(Nat)]
  BY DEF Acc
<1>5. Longer(a.text, a.text) /\ Longer(a.text, Append(a.text, n + 1))
  BY <1>4 DEF Longer
<1>6. /\ n + 1 \in Model!Texts <=> f.kind = "text"
      /\ \A s \in Slots : n + 1 \in Model!CallsTo(s) <=> f.kind \in {"name", "args"} /\ f.slot = s
  BY DEF Model!Texts, Model!CallsTo
<1>7. /\ Model!Only(Model!Between(1, n + 1), Model!Texts) = IF n + 1 \in Model!Texts THEN Append(a.text, n + 1) ELSE a.text
      /\ \A s \in Slots : Model!Only(Model!Between(1, n + 1), Model!CallsTo(s))
                             = IF n + 1 \in Model!CallsTo(s) THEN Append(a.calls[s], n + 1) ELSE a.calls[s]
  BY <1>3, OneMore, Zenon
<1>8. CASE f.kind = "text"
  <2>1. b.text = Append(a.text, n + 1) /\ b.calls = a.calls /\ b.over = "no"
    BY <1>2, <1>8 DEF Model!PushLine, Acc
  <2> HIDE DEF b, f
  <2>2. n + 1 \in Model!Texts /\ \A s \in Slots : n + 1 \notin Model!CallsTo(s)
    BY <1>6, <1>8
  <2>3. Holds(b, n + 1)
    BY <1>7, <2>1, <2>2 DEF Holds
  <2>4. Longer(a.text, b.text)
    BY <1>5, <2>1
  <2> QED BY <2>3, <2>4 DEF b
<1>9. CASE f.kind \in {"name", "args"}
  <2>1. f.slot \in Slots
    BY <1>1, <1>9 DEF Model!Frame, Model!LastFrame
  <2>2. /\ b.text = a.text /\ b.over = "no"
        /\ b.calls = [a.calls EXCEPT ![f.slot] = Append(a.calls[f.slot], n + 1)]
    BY <1>2, <1>9 DEF Model!PushLine, Acc
  <2>3. n + 1 \notin Model!Texts /\ \A s \in Slots : n + 1 \in Model!CallsTo(s) <=> f.slot = s
    BY <1>6, <1>9
  <2> HIDE DEF b, f
  <2>4. \A s \in Slots : b.calls[s] = IF f.slot = s THEN Append(a.calls[s], n + 1) ELSE a.calls[s]
    BY <1>4, <2>1, <2>2
  <2>5. Holds(b, n + 1)
    BY <1>7, <2>2, <2>3, <2>4 DEF Holds
  <2>6. Longer(a.text, b.text)
    BY <1>5, <2>2
  <2> QED BY <2>5, <2>6 DEF b
<1>10. CASE f.kind \in {"noise", "done", "error"}
  <2>1. /\ b.text = a.text /\ b.calls = a.calls
        /\ b.over # "no" => f.kind \in {"done", "error"}
    BY <1>2, <1>10 DEF Model!PushLine, Acc
  <2>2. n + 1 \notin Model!Texts /\ \A s \in Slots : n + 1 \notin Model!CallsTo(s)
    BY <1>6, <1>10
  <2>3. f.kind \in {"done", "error"} => n + 1 = Len(sent)
    BY DEF LastEnds
  <2> HIDE DEF b, f
  <2>4. Holds(b, n + 1)
    BY <1>7, <2>1, <2>2, <2>3 DEF Holds
  <2>5. Longer(a.text, b.text)
    BY <1>5, <2>1
  <2> QED BY <2>4, <2>5 DEF b
<1> QED BY <1>1, <1>8, <1>9, <1>10 DEF Model!Frame, Model!LastFrame

(* What is shown is what came before and what came now.                    *)
LEMMA ShownOn ==
    ASSUME NEW p \in Seq(Nat), NEW q \in Seq(Nat), Longer(p, q)
    PROVE  p \o SubSeq(q, Len(p) + 1, Len(q)) = q
<1> DEFINE r == p \o SubSeq(q, Len(p) + 1, Len(q))
<1>1. r \in Seq(Nat) /\ Len(r) = Len(q)
  BY DEF Longer
<1>2. ASSUME NEW k \in 1..Len(q) PROVE r[k] = q[k]
  BY DEF Longer
<1> HIDE DEF r
<1>3. q \in Seq(Nat)
  OBVIOUS
<1>4. r = q
  <2>1. Len(q) \in Nat /\ DOMAIN r = 1..Len(q) /\ DOMAIN q = 1..Len(q)
    BY <1>1, <1>3
  <2>2. r = [k \in 1..Len(q) |-> r[k]] /\ q = [k \in 1..Len(q) |-> q[k]]
    BY <1>1, <1>3, <2>1
  <2> QED BY <1>2, <2>2
<1> QED BY <1>4 DEF r

(* Frames m + 1 to w are read.                                             *)
LEMMA PushedHolds ==
    ASSUME ModelTypes, LastEnds, NEW m \in Nat, NEW w \in Nat, m <= w, w <= Len(sent),
           Holds(acc, m), NEW lines, lines = Model!Between(m + 1, w)
    PROVE  /\ Model!Pushed(lines) \in Acc /\ Holds(Model!Pushed(lines), w)
           /\ acc.text \o SubSeq(Model!Pushed(lines).text, Len(acc.text) + 1, Len(Model!Pushed(lines).text))
                = Model!Pushed(lines).text
<1>1. /\ lines \in Seq(1..Len(sent)) /\ Len(lines) = w - m /\ w - m \in Nat
      /\ \A k \in 1..(w - m) : lines[k] = m + k
  <2>1. lines = [k \in 1..(w - m) |-> m + k]
    BY DEF Model!Between
  <2>2. Len(sent) \in Nat /\ w - m \in Nat
    BY DEF ModelTypes
  <2>3. \A k \in 1..(w - m) : m + k \in 1..Len(sent)
    BY <2>2
  <2> QED BY <2>1, <2>2, <2>3
<1>2. PICK a \in [0..(w - m) -> Acc] :
         /\ a[0] = acc /\ \A n \in 1..(w - m) : a[n] = Model!PushLine(a[n - 1], lines[n])
         /\ Model!Pushed(lines) = a[w - m]
  BY <1>1, PushedSteps
<1> DEFINE M == {k \in 0..(w - m) : Holds(a[k], m + k) /\ Longer(acc.text, a[k].text)}
<1>3. 0 \in M
  <2>1. Longer(acc.text, acc.text)
    BY DEF Longer, ModelTypes, Acc
  <2>2. m + 0 = m /\ 0 \in 0..(w - m)
    BY <1>1
  <2> QED BY <1>2, <2>1, <2>2
<1>4. ASSUME NEW k \in 0..(w - m), k \in M, k + 1 \in 0..(w - m) PROVE k + 1 \in M
  <2>1. /\ k + 1 \in 1..(w - m) /\ (k + 1) - 1 = k /\ a[k] \in Acc /\ a[k + 1] \in Acc
        /\ lines[k + 1] = (m + k) + 1 /\ (m + k) + 1 \in 1..Len(sent) /\ m + k \in Nat
        /\ m + (k + 1) = (m + k) + 1
    BY <1>1, <1>4 DEF ModelTypes
  <2>2. a[k + 1] = Model!PushLine(a[k], (m + k) + 1)
    BY <1>2, <2>1
  <2>3. Holds(a[k], m + k) /\ Longer(acc.text, a[k].text)
    BY <1>4
  <2>4. Holds(a[k + 1], (m + k) + 1) /\ Longer(a[k].text, a[k + 1].text)
    BY <2>1, <2>2, <2>3, PushLineHolds
  <2>5. {acc.text, a[k].text, a[k + 1].text} \subseteq Seq(Nat)
    BY <2>1 DEF ModelTypes, Acc
  <2>6. Longer(acc.text, a[k + 1].text)
    <3> DEFINE p == acc.text
               q == a[k].text
               r == a[k + 1].text
    <3>1. Len(p) \in Nat /\ Len(q) \in Nat /\ Len(r) \in Nat
      <4>1. p \in Seq(Nat) /\ q \in Seq(Nat) /\ r \in Seq(Nat)
        BY <2>5
      <4> HIDE DEF p, q, r
      <4> QED BY <4>1
    <3> HIDE DEF p, q, r
    <3>2. Longer(p, q) /\ Longer(q, r)
      BY <2>3, <2>4 DEF p, q, r
    <3>3. Longer(p, r)
      BY <3>1, <3>2 DEF Longer
    <3> QED BY <3>3 DEF p, r
  <2> QED BY <1>4, <2>1, <2>4, <2>6
<1>5. w - m \in M
  <2> HIDE DEF M
  <2>1. 0..(w - m) \subseteq M
    BY <1>1, <1>3, <1>4, UpTo
  <2> QED BY <1>1, <2>1
<1>6. Holds(a[w - m], w) /\ Longer(acc.text, a[w - m].text) /\ a[w - m] \in Acc
  <2>1. m + (w - m) = w /\ w - m \in 0..(w - m)
    BY <1>1
  <2> QED BY <1>5, <2>1
<1>7. acc.text \in Seq(Nat) /\ a[w - m].text \in Seq(Nat)
  BY <1>6 DEF ModelTypes, Acc
<1> QED BY <1>2, <1>6, <1>7, ShownOn
LEMMA PushKeeps ==
    ASSUME ModelTypes, StreamInv, NEW w \in Nat, Model!Arrived <= w, w <= Len(sent),
           NEW lines, lines = Model!Between(Model!Arrived + 1, w), Model!Push(lines), UNCHANGED <<sent, content, said>>
    PROVE  /\ acc' \in Acc /\ streamed' \in Seq(Nat) /\ emitted' \in BOOLEAN
           /\ Holds(acc, w)' /\ Model!ShownOnce' /\ (emitted' \/ acc'.text = <<>>)
<1>1. Model!Arrived \in Nat /\ LastEnds /\ Holds(acc, Model!Arrived)
  BY DEF StreamInv, ModelTypes, Model!Arrived
<1>2. /\ Model!Pushed(lines) \in Acc /\ Holds(Model!Pushed(lines), w)
      /\ acc.text \o SubSeq(Model!Pushed(lines).text, Len(acc.text) + 1, Len(Model!Pushed(lines).text))
           = Model!Pushed(lines).text
  BY <1>1, PushedHolds
<1>3. acc' = Model!Pushed(lines) /\ streamed' = acc'.text
  BY <1>2 DEF Model!Push, StreamInv, Model!ShownOnce
<1>4. acc' \in Acc /\ acc'.text \in Seq(Nat)
  BY <1>2, <1>3 DEF Acc
<1>5. Holds(acc, w)'
  BY <1>2, <1>3 DEF Holds, Model!Texts, Model!CallsTo
<1>6. emitted' \in BOOLEAN /\ (emitted' \/ acc'.text = <<>>)
  BY <1>3 DEF Model!Push, StreamInv
<1>7. Model!ShownOnce'
  BY <1>3 DEF StreamInv, Model!ShownOnce
<1> QED BY <1>3, <1>4, <1>5, <1>6, <1>7

(* A call that has heard nothing yet.                                      *)
LEMMA NewCallHolds ==
    ASSUME Model!NewCall, streamed' = <<>>, (content = said)', NEW Frm
    PROVE  /\ sent' \in Seq(Frm) /\ got' = 0 /\ acc' \in Acc /\ streamed' \in Seq(Nat) /\ cut' = FALSE
           /\ StreamInv'
<1>1. sent' = <<>> /\ got' = 0 /\ acc' = Model!Empty /\ cut' = FALSE
  BY DEF Model!NewCall
<1>2. Model!Empty.text = <<>> /\ Model!Empty.over = "no" /\ \A s \in Slots : Model!Empty.calls[s] = <<>>
  BY DEF Model!Empty
<1>3. Model!Empty \in Acc
  BY DEF Model!Empty, Acc
<1>4. Model!Arrived' = 0 /\ Len(sent') = 0 /\ LastEnds'
  BY <1>1 DEF Model!Arrived, LastEnds
<1>5. Holds(acc, Model!Arrived)'
  BY <1>1, <1>2, <1>4, NoneYet DEF Holds
<1>6. Model!ShownOnce'
  BY <1>1, <1>2 DEF Model!ShownOnce
<1> QED BY <1>1, <1>2, <1>3, <1>4, <1>5, <1>6 DEF StreamInv

-----------------------------------------------------------------------------
LEMMA RespondKeeps == ASSUME ModelTypes, StreamInv, Model!Respond PROVE ModelTypes' /\ StreamInv'
<1>1. stage = "request" /\ stage' = "stream" /\ sent' \in Model!Answers
      /\ UNCHANGED <<round, content, said, messages, answerNow, got, acc, streamed, emitted, cut>>
  BY DEF Model!Respond, Model!call
<1>2. got = 0 /\ acc = Model!Empty /\ ~cut
  BY <1>1 DEF StreamInv
<1>3. sent' \in Seq(Model!Frame \cup Model!LastFrame) /\ LastEnds'
  <2> DEFINE short == UNION {[1..n -> Model!Frame] : n \in 0..(MaxFrames - 1)}
  <2>1. ASSUME NEW s \in short
        PROVE  s \in Seq(Model!Frame) /\ Len(s) \in Nat /\ \A i \in 1..Len(s) : s[i].kind \notin {"done", "error"}
    <3>1. PICK n \in 0..(MaxFrames - 1) : s \in [1..n -> Model!Frame]
      OBVIOUS
    <3>2. n \in Nat
      BY ModelBounds
    <3>3. s \in Seq(Model!Frame) /\ Len(s) = n
      BY <3>1, <3>2
    <3> QED BY <3>1, <3>2, <3>3 DEF Model!Frame
  <2>2. CASE sent' \in short
    BY <2>1, <2>2 DEF LastEnds
  <2>3. CASE \E s \in short, f \in Model!LastFrame : sent' = Append(s, f)
    <3>1. PICK s \in short, f \in Model!LastFrame : sent' = Append(s, f)
      BY <2>3
    <3> HIDE DEF short
    <3>2. s \in Seq(Model!Frame) /\ Len(s) \in Nat /\ \A i \in 1..Len(s) : s[i].kind \notin {"done", "error"}
      BY <2>1
    <3>3. sent' \in Seq(Model!Frame \cup Model!LastFrame)
      BY <3>1, <3>2
    <3>4. Len(sent') = Len(s) + 1 /\ \A i \in 1..Len(s) : sent'[i] = s[i]
      BY <3>1, <3>2
    <3> QED BY <3>2, <3>3, <3>4 DEF LastEnds
  <2> QED BY <1>1, <2>2, <2>3 DEF Model!Answers
<1>4. Model!Empty.text = <<>> /\ Model!Empty.over = "no" /\ \A s \in Slots : Model!Empty.calls[s] = <<>>
  BY DEF Model!Empty
<1>5. Model!Arrived' = 0 /\ got' = 0 /\ ~cut' /\ acc' = Model!Empty
  BY <1>1, <1>2 DEF Model!Arrived
<1>6. Holds(acc, Model!Arrived)'
  BY <1>4, <1>5, NoneYet DEF Holds
<1>7. Model!ShownOnce' /\ (emitted' \/ acc'.text = <<>>)
  BY <1>1 DEF StreamInv, Model!ShownOnce
<1>8. got' <= 3 * Len(sent')
  BY <1>3, <1>5
<1> QED BY <1>1, <1>3, <1>5, <1>6, <1>7, <1>8 DEF StreamInv, ModelTypes

LEMMA ChunkKeeps ==
    ASSUME ModelTypes, StreamInv, NEW n \in 1..MaxChunk, Model!Chunk(n) PROVE ModelTypes' /\ StreamInv'
<1>1. /\ stage = "stream" /\ stage' = stage /\ got + n <= 3 * Len(sent) /\ got' = got + n /\ Model!Push(Model!LinesOf(n))
      /\ UNCHANGED <<round, content, said, messages, answerNow, sent, cut>>
  BY DEF Model!Chunk, Model!call
<1>2. n \in Nat /\ got \in Nat /\ Len(sent) \in Nat
  BY ModelBounds DEF ModelTypes
<1>3. ~cut /\ Model!Arrived = got \div 3 /\ Model!Arrived' = (got + n) \div 3
  BY <1>1 DEF StreamInv, Model!Arrived
<1>4. PICK w \in Nat : w = (got + n) \div 3 /\ Model!Arrived <= w /\ w <= Len(sent)
  BY <1>1, <1>2, <1>3
<1>5. Model!LinesOf(n) = Model!Between(Model!Arrived + 1, w)
  BY <1>3, <1>4 DEF Model!LinesOf
<1>6. /\ acc' \in Acc /\ streamed' \in Seq(Nat) /\ emitted' \in BOOLEAN
      /\ Holds(acc, w)' /\ Model!ShownOnce' /\ (emitted' \/ acc'.text = <<>>)
  BY <1>1, <1>4, <1>5, PushKeeps
<1>7. Holds(acc, Model!Arrived)'
  BY <1>1, <1>3, <1>4, <1>6 DEF Holds
<1>8. LastEnds'
  BY <1>1 DEF StreamInv, LastEnds
<1>9. got' \in Nat /\ got' <= 3 * Len(sent')
  BY <1>1, <1>2
<1> QED BY <1>1, <1>3, <1>6, <1>7, <1>8, <1>9 DEF StreamInv, ModelTypes

LEMMA BodyEndsKeeps == ASSUME ModelTypes, StreamInv, Model!BodyEnds PROVE ModelTypes' /\ StreamInv'
<1>1. /\ stage = "stream" /\ stage' = "ended" /\ got + 3 > 3 * Len(sent) /\ cut' = TRUE
      /\ UNCHANGED <<round, content, said, messages, answerNow, sent, got>>
  BY DEF Model!BodyEnds, Model!call
<1>2. got \in Nat /\ Len(sent) \in Nat /\ got <= 3 * Len(sent)
  BY DEF ModelTypes, StreamInv
<1>3. Model!Arrived = got \div 3 /\ Model!Arrived' = (got + 1) \div 3
  BY <1>1 DEF StreamInv, Model!Arrived
<1>4. /\ acc' \in Acc /\ streamed' \in Seq(Nat) /\ emitted' \in BOOLEAN
      /\ Holds(acc, Model!Arrived)' /\ Model!ShownOnce' /\ (emitted' \/ acc'.text = <<>>)
  <2>1. CASE got = 3 * Len(sent) - 1
    <3> DEFINE w == Len(sent)
    <3>1. Model!Arrived' = w /\ Model!Arrived = w - 1 /\ w - 1 \in Nat
      BY <1>2, <1>3, <2>1
    <3>2. Model!Arrived <= w /\ w <= Len(sent) /\ w \in Nat
      BY <1>2, <3>1
    <3>3. <<w>> = Model!Between(Model!Arrived + 1, w)
      <4>1. Model!Between(w, w) = [k \in 1..1 |-> w]
        BY <3>2 DEF Model!Between
      <4> QED BY <3>1, <3>2, <4>1
    <3>4. Model!Push(<<w>>)
      BY <2>1 DEF Model!BodyEnds
    <3>5. /\ acc' \in Acc /\ streamed' \in Seq(Nat) /\ emitted' \in BOOLEAN
          /\ Holds(acc, w)' /\ Model!ShownOnce' /\ (emitted' \/ acc'.text = <<>>)
      BY <1>1, <3>2, <3>3, <3>4, PushKeeps
    <3>6. w' = w
      BY <1>1
    <3> QED BY <3>1, <3>5, <3>6 DEF Holds
  <2>2. CASE got # 3 * Len(sent) - 1
    <3>1. Model!Arrived' = Model!Arrived
      BY <1>2, <1>3, <2>2, <1>1
    <3>2. UNCHANGED <<acc, streamed, emitted>>
      BY <2>2 DEF Model!BodyEnds
    <3> QED BY <1>1, <3>1, <3>2 DEF ModelTypes, StreamInv, Holds, Model!ShownOnce, Model!Texts, Model!CallsTo
  <2> QED BY <2>1, <2>2
<1>5. LastEnds'
  BY <1>1 DEF StreamInv, LastEnds
<1>6. got' <= 3 * Len(sent')
  BY <1>1, <1>2
<1> QED BY <1>1, <1>4, <1>5, <1>6 DEF StreamInv, ModelTypes

(* What leaves the answer as it is.                                        *)
LEMMA StillHolds ==
    ASSUME ModelTypes, StreamInv, UNCHANGED <<sent, got, acc, streamed, emitted, cut>>,
           round' \in Nat, messages' \in Seq(Reply), answerNow' \in BOOLEAN,
           (content = said)', stage' \notin {"request", "stream"}
    PROVE  ModelTypes' /\ StreamInv'
<1>1. ModelTypes'
  BY DEF ModelTypes
<1>2. Holds(acc, Model!Arrived)' /\ LastEnds'
  BY DEF StreamInv, Holds, Model!Arrived, Model!Texts, Model!CallsTo, LastEnds
<1> QED BY <1>1, <1>2 DEF StreamInv, Model!ShownOnce

LEMMA TryOrGiveUp ==
    ASSUME ModelTypes, StreamInv, Model!TryAgain \/ Model!GiveUp, UNCHANGED <<Model!call, streamed, emitted>>
    PROVE  ModelTypes' /\ StreamInv'
<1>1. UNCHANGED <<round, content, said, messages, answerNow, streamed, emitted>>
  BY DEF Model!call
<1>2. (content = said)' /\ streamed = acc.text
  BY <1>1 DEF StreamInv, Model!ShownOnce
<1>3. CASE Model!TryAgain
  <2>1. ~emitted /\ Model!NewCall
    BY <1>3 DEF Model!TryAgain, Model!MayRetry
  <2>2. streamed' = <<>>
    BY <1>1, <1>2, <2>1 DEF StreamInv
  <2>3. /\ sent' \in Seq(Model!Frame \cup Model!LastFrame) /\ got' = 0 /\ acc' \in Acc /\ streamed' \in Seq(Nat)
        /\ cut' = FALSE /\ StreamInv'
    BY <1>2, <2>1, <2>2, NewCallHolds
  <2> QED BY <1>1, <2>3 DEF ModelTypes
<1>4. CASE Model!GiveUp
  <2>1. stage' = "failed" /\ UNCHANGED <<sent, got, acc, cut>>
    BY <1>4 DEF Model!GiveUp
  <2>2. round' \in Nat /\ messages' \in Seq(Reply) /\ answerNow' \in BOOLEAN
    BY <1>1 DEF ModelTypes
  <2> QED BY <1>1, <1>2, <2>1, <2>2, StillHolds
<1> QED BY <1>3, <1>4
-----------------------------------------------------------------------------
LEMMA SizesNat == ASSUME NEW ms \in Seq(Reply) PROVE Model!Sizes(ms) \in Nat
<1> DEFINE f == CHOOSE g : g = [n \in 0..Len(ms) |-> IF n = 0 THEN 0 ELSE g[n - 1] + ms[n].size]
<1>1. Model!Sizes(ms) = f[Len(ms)]
  BY DEF Model!Sizes
<1>2. Len(ms) \in Nat /\ \A n \in 1..Len(ms) : ms[n].size \in Nat
  <2>1. Len(ms) \in Nat /\ \A n \in 1..Len(ms) : ms[n] \in Reply
    OBVIOUS
  <2> QED BY <2>1 DEF Reply
<1>3. PICK g \in [0..Len(ms) -> Nat] :
         g[0] = 0 /\ \A n \in 1..Len(ms) : g[n] = g[n - 1] + ms[n].size
  <2> DEFINE step == [n \in 1..Len(ms) |-> [b \in Nat |-> b + ms[n].size]]
  <2>1. step \in [1..Len(ms) -> [Nat -> Nat]]
    BY <1>2
  <2>2. \A n \in 1..Len(ms), b \in Nat : step[n][b] = b + ms[n].size
    OBVIOUS
  <2> HIDE DEF step
  <2>3. 0 \in Nat
    OBVIOUS
  <2>4. PICK g \in [0..Len(ms) -> Nat] : Recurs(g, Len(ms), 0, step)
    BY <1>2, <2>1, <2>3, Recursion, Zenon
  <2>5. ASSUME NEW n \in 1..Len(ms) PROVE g[n] = g[n - 1] + ms[n].size
    <3>1. g[n - 1] \in Nat
      <4>1. n - 1 \in 0..Len(ms)
        BY <1>2
      <4> QED BY <4>1
    <3> QED BY <2>2, <2>4, <3>1 DEF Recurs
  <2> QED BY <2>4, <2>5 DEF Recurs
<1>4. g = [n \in 0..Len(ms) |-> IF n = 0 THEN 0 ELSE g[n - 1] + ms[n].size]
  <2>1. ASSUME NEW n \in 0..Len(ms) PROVE g[n] = IF n = 0 THEN 0 ELSE g[n - 1] + ms[n].size
    BY <1>2, <1>3
  <2>2. g = [n \in 0..Len(ms) |-> g[n]]
    OBVIOUS
  <2> QED BY <2>1, <2>2
<1>5. f = [n \in 0..Len(ms) |-> IF n = 0 THEN 0 ELSE f[n - 1] + ms[n].size]
  BY <1>4
<1> HIDE DEF f
<1>6. \A n \in 0..Len(ms) : f[n] = IF n = 0 THEN 0 ELSE f[n - 1] + ms[n].size
  BY <1>5
<1> DEFINE M == {n \in 0..Len(ms) : f[n] \in Nat}
<1>7. 0 \in M
  BY <1>2, <1>6
<1>8. ASSUME NEW n \in 0..Len(ms), n \in M, n + 1 \in 0..Len(ms) PROVE n + 1 \in M
  <2>1. n + 1 \in 1..Len(ms) /\ (n + 1) - 1 = n /\ n + 1 # 0 /\ f[n] \in Nat
    BY <1>8
  <2>2. f[n + 1] = f[n] + ms[n + 1].size
    BY <1>6, <2>1
  <2> QED BY <1>2, <2>1, <2>2
<1> HIDE DEF M
<1>9. 0..Len(ms) \subseteq M
  BY <1>2, <1>7, <1>8, UpTo
<1> QED BY <1>1, <1>2, <1>9 DEF M

(* The results that may go, and what is said of them.                      *)
MayGo(ms) == {i \in 1..Len(ms) : ms[i].role = "tool" /\ Len(Model!History) < i}
OldestFirst(ms) == \A i, j \in MayGo(ms) : i < j /\ ms[j].stub => ms[i].stub
AllGone(ms, n) == \A i \in MayGo(ms) : i <= n => ms[i].stub

(* What making way leaves of ms: its shape, what was replayed, and what is *)
(* after n.                                                                *)
Shaped(q, ms, n) ==
    /\ Len(q) = Len(ms)
    /\ \A i \in 1..Len(ms) :
          /\ q[i].role = ms[i].role /\ q[i].calls = ms[i].calls
          /\ i <= Len(Model!History) \/ n < i => q[i] = ms[i]

LEMMA MakeWayShape ==
    ASSUME NEW ms \in Seq(Reply), NEW q \in Seq(Reply), NEW i \in 1..Len(ms), Len(q) = Len(ms)
    PROVE  LET r == Model!MakeWay(q, i)
           IN  /\ r \in Seq(Reply) /\ Len(r) = Len(ms)
               /\ \A k \in 1..Len(ms) : k # i \/ k <= Len(Model!History) => r[k] = q[k]
               /\ r[i].role = q[i].role /\ r[i].calls = q[i].calls
               /\ i \in MayGo(q) /\ Model!Sizes(q) > Budget => r[i].stub
               /\ ~(i \in MayGo(q) /\ Model!Sizes(q) > Budget) => r = q
<1>1. q[i] \in Reply /\ i \in 1..Len(q) /\ Len(Model!History) = 2
  BY DEF Model!History
<1>2. CASE i \in MayGo(q) /\ Model!Sizes(q) > Budget
  <2> DEFINE c == [q[i] EXCEPT !.size = Model!Stub]
             b == [c EXCEPT !.stub = TRUE]
             r == Model!MakeWay(q, i)
  <2>1. b \in Reply /\ b.role = q[i].role /\ b.calls = q[i].calls /\ b.stub
    <3>1. c \in Reply /\ c.role = q[i].role /\ c.calls = q[i].calls
      BY <1>1 DEF Reply, Model!Stub
    <3> HIDE DEF c
    <3> QED BY <3>1 DEF Reply
  <2>2. r = [q EXCEPT ![i] = b]
    <3>1. r = [q EXCEPT ![i].size = Model!Stub, ![i].stub = TRUE]
      BY <1>1, <1>2 DEF Model!MakeWay, Model!Evictable, MayGo
    <3> HIDE DEF r
    <3>2. [q EXCEPT ![i].size = Model!Stub, ![i].stub = TRUE] = [q EXCEPT ![i] = b]
      BY <1>1
    <3> QED BY <3>1, <3>2
  <2> HIDE DEF b, r
  <2>3. r \in Seq(Reply) /\ Len(r) = Len(ms) /\ r[i] = b /\ \A k \in 1..Len(ms) : k # i => r[k] = q[k]
    BY <1>1, <2>1, <2>2
  <2>4. Len(Model!History) < i
    BY <1>2 DEF MayGo
  <2>5. \A k \in 1..Len(ms) : k # i \/ k <= Len(Model!History) => r[k] = q[k]
    BY <1>1, <2>3, <2>4
  <2> QED BY <1>2, <2>1, <2>3, <2>5 DEF r
<1>3. CASE ~(i \in MayGo(q) /\ Model!Sizes(q) > Budget)
  <2>1. Model!MakeWay(q, i) = q
    BY <1>1, <1>3 DEF Model!MakeWay, Model!Evictable, MayGo
  <2> QED BY <1>3, <2>1
<1> QED BY <1>2, <1>3

LEMMA FitSteps ==
    ASSUME NEW ms \in Seq(Reply)
    PROVE  \E m \in [0..Len(ms) -> {q \in Seq(Reply) : Len(q) = Len(ms)}] :
              /\ m[0] = ms /\ \A n \in 1..Len(ms) : m[n] = Model!MakeWay(m[n - 1], n)
              /\ Model!Fit(ms) = m[Len(ms)]
<1> DEFINE D == {q \in Seq(Reply) : Len(q) = Len(ms)}
           f == CHOOSE g : g = [n \in 0..Len(ms) |-> IF n = 0 THEN ms ELSE Model!MakeWay(g[n - 1], n)]
<1>1. Model!Fit(ms) = f[Len(ms)]
  BY DEF Model!Fit
<1>2. Len(ms) \in Nat /\ ms \in D
  OBVIOUS
<1>3. \A n \in 1..Len(ms), q \in D : Model!MakeWay(q, n) \in D
  BY MakeWayShape
<1> HIDE DEF D
<1>4. PICK g \in [0..Len(ms) -> D] :
         g[0] = ms /\ \A n \in 1..Len(ms) : g[n] = Model!MakeWay(g[n - 1], n)
  <2> DEFINE step == [n \in 1..Len(ms) |-> [q \in D |-> Model!MakeWay(q, n)]]
  <2>1. step \in [1..Len(ms) -> [D -> D]]
    BY <1>3
  <2>2. \A n \in 1..Len(ms), q \in D : step[n][q] = Model!MakeWay(q, n)
    OBVIOUS
  <2> HIDE DEF step
  <2>3. PICK g \in [0..Len(ms) -> D] : Recurs(g, Len(ms), ms, step)
    BY <1>2, <2>1, Recursion, Zenon
  <2>4. ASSUME NEW n \in 1..Len(ms) PROVE g[n] = Model!MakeWay(g[n - 1], n)
    <3>1. g[n - 1] \in D
      BY <1>2
    <3> QED BY <2>2, <2>3, <3>1 DEF Recurs
  <2> QED BY <2>3, <2>4 DEF Recurs
<1>5. g = [n \in 0..Len(ms) |-> IF n = 0 THEN ms ELSE Model!MakeWay(g[n - 1], n)]
  <2>1. ASSUME NEW n \in 0..Len(ms) PROVE g[n] = IF n = 0 THEN ms ELSE Model!MakeWay(g[n - 1], n)
    BY <1>2, <1>4
  <2>2. g = [n \in 0..Len(ms) |-> g[n]]
    OBVIOUS
  <2> QED BY <2>1, <2>2
<1>6. f = [n \in 0..Len(ms) |-> IF n = 0 THEN ms ELSE Model!MakeWay(f[n - 1], n)]
  BY <1>5
<1> HIDE DEF f
<1>7. \A n \in 0..Len(ms) : f[n] = IF n = 0 THEN ms ELSE Model!MakeWay(f[n - 1], n)
  BY <1>6
<1> DEFINE M == {n \in 0..Len(ms) : f[n] \in D}
<1>8. 0 \in M
  BY <1>2, <1>7
<1>9. ASSUME NEW n \in 0..Len(ms), n \in M, n + 1 \in 0..Len(ms) PROVE n + 1 \in M
  <2>1. n + 1 \in 1..Len(ms) /\ (n + 1) - 1 = n /\ n + 1 # 0 /\ f[n] \in D
    BY <1>9
  <2>2. f[n + 1] = Model!MakeWay(f[n], n + 1)
    BY <1>7, <2>1
  <2> QED BY <1>3, <2>1, <2>2
<1> HIDE DEF M
<1>10. 0..Len(ms) \subseteq M
  BY <1>2, <1>8, <1>9, UpTo
<1>11. f \in [0..Len(ms) -> D]
  <2>1. f = [n \in 0..Len(ms) |-> f[n]]
    BY <1>6
  <2>2. \A n \in 0..Len(ms) : f[n] \in D
    BY <1>10 DEF M
  <2> QED BY <2>1, <2>2
<1>12. f[0] = ms /\ \A n \in 1..Len(ms) : f[n] = Model!MakeWay(f[n - 1], n)
  BY <1>2, <1>7
<1> QED BY <1>1, <1>11, <1>12 DEF D

(* What is left fits, or nothing more of this turn could go; the oldest    *)
(* went first; the rest stands.                                            *)
LEMMA FitKeeps ==
    ASSUME NEW ms \in Seq(Reply), OldestFirst(ms)
    PROVE  /\ Model!Fit(ms) \in Seq(Reply) /\ Shaped(Model!Fit(ms), ms, Len(ms)) /\ OldestFirst(Model!Fit(ms))
           /\ AllGone(Model!Fit(ms), Len(ms)) \/ Model!Sizes(Model!Fit(ms)) <= Budget
<1>1. PICK m \in [0..Len(ms) -> {q \in Seq(Reply) : Len(q) = Len(ms)}] :
         /\ m[0] = ms /\ \A n \in 1..Len(ms) : m[n] = Model!MakeWay(m[n - 1], n)
         /\ Model!Fit(ms) = m[Len(ms)]
  BY FitSteps
<1> DEFINE M == {n \in 0..Len(ms) : /\ Shaped(m[n], ms, n)
                                    /\ \/ AllGone(m[n], n)
                                       \/ OldestFirst(m[n]) /\ Model!Sizes(m[n]) <= Budget}
<1>2. 0 \in M
  <2>1. Shaped(m[0], ms, 0) /\ AllGone(m[0], 0) /\ 0 \in 0..Len(ms)
    BY <1>1 DEF Shaped, AllGone, MayGo
  <2> QED BY <2>1
<1>3. ASSUME NEW n \in 0..Len(ms), Shaped(m[n], ms, n), AllGone(m[n], n)
      PROVE  OldestFirst(m[n])
  <2>1. m[n] \in Seq(Reply)
    OBVIOUS
  <2>2. ASSUME NEW i \in MayGo(m[n]), NEW j \in MayGo(m[n]), i < j, m[n][j].stub
        PROVE  m[n][i].stub
    <3>1. CASE i <= n
      BY <1>3, <3>1 DEF AllGone
    <3>2. CASE n < i
      <4>1. /\ i \in 1..Len(ms) /\ j \in 1..Len(ms) /\ n < j /\ Len(Model!History) < i /\ Len(Model!History) < j
            /\ m[n][i].role = "tool" /\ m[n][j].role = "tool"
        BY <1>3, <2>2, <3>2 DEF MayGo, Shaped
      <4>2. m[n][i] = ms[i] /\ m[n][j] = ms[j]
        BY <1>3, <3>2, <4>1 DEF Shaped
      <4>3. i \in MayGo(ms) /\ j \in MayGo(ms)
        BY <4>1, <4>2 DEF MayGo
      <4> QED BY <2>2, <4>2, <4>3 DEF OldestFirst
    <3>3. i \in Nat /\ n \in Nat
      BY <2>1 DEF MayGo
    <3> QED BY <3>1, <3>2, <3>3
  <2> QED BY <2>2 DEF OldestFirst
<1>4. ASSUME NEW n \in 0..Len(ms), n \in M, n + 1 \in 0..Len(ms) PROVE n + 1 \in M
  <2> DEFINE q == m[n]
             r == m[n + 1]
  <2>1. /\ n + 1 \in 1..Len(ms) /\ q \in Seq(Reply) /\ Len(q) = Len(ms)
        /\ r = Model!MakeWay(q, n + 1) /\ r \in Seq(Reply) /\ n \in Nat /\ Len(ms) \in Nat
    <3>1. n + 1 \in 1..Len(ms) /\ (n + 1) - 1 = n
      BY <1>4
    <3> QED BY <1>1, <3>1
  <2>2. Shaped(q, ms, n) /\ (AllGone(q, n) \/ (OldestFirst(q) /\ Model!Sizes(q) <= Budget))
    BY <1>4
  <2>3. AllGone(q, n) => OldestFirst(q)
    BY <1>3, <2>2
  <2> HIDE DEF q, r
  <2>4. /\ r \in Seq(Reply) /\ Len(r) = Len(ms)
        /\ \A k \in 1..Len(ms) : k # n + 1 \/ k <= Len(Model!History) => r[k] = q[k]
        /\ r[n + 1].role = q[n + 1].role /\ r[n + 1].calls = q[n + 1].calls
        /\ n + 1 \in MayGo(q) /\ Model!Sizes(q) > Budget => r[n + 1].stub
        /\ ~(n + 1 \in MayGo(q) /\ Model!Sizes(q) > Budget) => r = q
    BY <2>1, MakeWayShape
  <2>5. Shaped(r, ms, n + 1)
    <3>1. ASSUME NEW i \in 1..Len(ms)
          PROVE  /\ r[i].role = ms[i].role /\ r[i].calls = ms[i].calls
                 /\ i <= Len(Model!History) \/ n + 1 < i => r[i] = ms[i]
      <4>1. CASE i = n + 1
        BY <2>2, <2>4, <4>1 DEF Shaped
      <4>2. CASE i # n + 1
        <5>1. r[i] = q[i]
          BY <2>4, <4>2
        <5>2. n + 1 < i => n < i
          BY <2>1
        <5> QED BY <2>2, <5>1, <5>2 DEF Shaped
      <4> QED BY <4>1, <4>2
    <3> QED BY <2>4, <3>1 DEF Shaped
  <2>6. CASE AllGone(q, n) /\ Model!Sizes(q) > Budget
    <3>1. ASSUME NEW i \in MayGo(r), i <= n + 1 PROVE r[i].stub
      <4>1. i \in 1..Len(ms) /\ r[i].role = "tool" /\ Len(Model!History) < i
        BY <2>4 DEF MayGo
      <4>2. i \in MayGo(q)
        BY <2>1, <2>4, <4>1 DEF MayGo
      <4>3. CASE i = n + 1
        BY <2>4, <2>6, <4>2, <4>3
      <4>4. CASE i # n + 1
        <5>1. i <= n /\ r[i] = q[i]
          BY <2>1, <2>4, <3>1, <4>1, <4>4
        <5> QED BY <2>6, <4>2, <5>1 DEF AllGone
      <4> QED BY <4>3, <4>4
    <3>2. AllGone(r, n + 1)
      BY <3>1 DEF AllGone
    <3> QED BY <1>4, <2>5, <3>2 DEF r
  <2>7. CASE Model!Sizes(q) <= Budget
    <3>1. r = q
      <4>1. Model!Sizes(q) \in Nat
        BY <2>1, SizesNat
      <4>2. ~(Model!Sizes(q) > Budget)
        BY <2>7, <4>1, ModelBounds
      <4> QED BY <2>4, <4>2
    <3>2. OldestFirst(r) /\ Model!Sizes(r) <= Budget
      BY <2>2, <2>3, <2>7, <3>1
    <3> QED BY <1>4, <2>5, <3>2 DEF r
  <2>8. Model!Sizes(q) \in Nat /\ Budget \in Nat
    BY <2>1, SizesNat, ModelBounds
  <2> QED BY <2>2, <2>6, <2>7, <2>8
<1>5. 0..Len(ms) \subseteq M
  <2> HIDE DEF M
  <2>1. Len(ms) \in Nat
    OBVIOUS
  <2> QED BY <1>2, <1>4, <2>1, UpTo
<1>6. Len(ms) \in 0..Len(ms) /\ Len(ms) \in M
  BY <1>5
<1>7. Shaped(Model!Fit(ms), ms, Len(ms)) /\ Model!Fit(ms) \in Seq(Reply)
  BY <1>1, <1>6
<1>8. OldestFirst(Model!Fit(ms))
  BY <1>1, <1>3, <1>6
<1>9. AllGone(Model!Fit(ms), Len(ms)) \/ Model!Sizes(Model!Fit(ms)) <= Budget
  BY <1>1, <1>6
<1> QED BY <1>7, <1>8, <1>9
-----------------------------------------------------------------------------
(* Every call keeps a reply to each of its tools.                          *)
CallsAnswered(ms) ==
    \A i \in 1..Len(ms) : ms[i].role = "call" =>
          /\ i + ms[i].calls <= Len(ms)
          /\ \A k \in (i + 1)..(i + ms[i].calls) : ms[k].role = "tool"
          /\ i + ms[i].calls + 1 <= Len(ms) => ms[i + ms[i].calls + 1].role # "tool"

Replayed(ms) == Len(Model!History) <= Len(ms) /\ \A i \in 1..Len(Model!History) : ms[i] = Model!History[i]

LEMMA HistoryIs == Model!History \in Seq(Reply) /\ Len(Model!History) = 2
<1>1. Model!History[1] \in Reply /\ Model!History[2] \in Reply
  BY DEF Model!History, Reply
<1> QED BY <1>1 DEF Model!History

LEMMA Concat ==
    ASSUME NEW S, NEW p \in Seq(S), NEW q \in Seq(S)
    PROVE  /\ p \o q \in Seq(S) /\ Len(p \o q) = Len(p) + Len(q)
           /\ \A i \in 1..Len(p) : (p \o q)[i] = p[i]
           /\ \A i \in 1..Len(q) : (p \o q)[Len(p) + i] = q[i]
OBVIOUS

LEMMA Alone ==
    ASSUME NEW S, NEW c \in S PROVE <<c>> \in Seq(S) /\ Len(<<c>>) = 1 /\ <<c>>[1] = c
OBVIOUS

LEMMA Whole == ASSUME NEW S, NEW s \in Seq(S) PROVE SubSeq(s, 1, Len(s)) = s
OBVIOUS

LEMMA PrefixMeans ==
    ASSUME NEW ms \in Seq(Reply) PROVE Model!IsPrefix(Model!History, ms) <=> Replayed(ms)
<1> DEFINE h == Model!History
<1>1. h \in Seq(Reply) /\ Len(h) = 2
  BY HistoryIs
<1>2. Model!IsPrefix(h, ms) <=> Len(h) <= Len(ms) /\ SubSeq(h, 1, Len(h)) = SubSeq(ms, 1, Len(h))
  BY DEF Model!IsPrefix
<1>3. Replayed(ms) <=> Len(h) <= Len(ms) /\ \A i \in 1..Len(h) : ms[i] = h[i]
  BY DEF Replayed
<1> HIDE DEF h
<1>4. ASSUME Len(h) <= Len(ms)
      PROVE  SubSeq(h, 1, Len(h)) = SubSeq(ms, 1, Len(h)) <=> \A i \in 1..Len(h) : ms[i] = h[i]
  <2> DEFINE a == SubSeq(h, 1, Len(h))
             b == SubSeq(ms, 1, Len(h))
  <2>1. /\ a \in Seq(Reply) /\ b \in Seq(Reply) /\ Len(a) = Len(h) /\ Len(b) = Len(h)
        /\ \A i \in 1..Len(h) : a[i] = h[i] /\ b[i] = ms[i]
    <3>1. Len(h) \in Nat /\ Len(ms) \in Nat
      BY <1>1
    <3>2. \A i \in 1..Len(h) : i \in 1..Len(ms)
      BY <1>4, <3>1
    <3>3. a \in Seq(Reply) /\ Len(a) = Len(h) /\ \A i \in 1..Len(h) : a[i] = h[i]
      BY <1>1, Whole
    <3>4. b \in Seq(Reply)
      BY <1>4, <3>1, <3>2
    <3>5. Len(b) = Len(h)
      BY <1>4, <3>1
    <3>6. \A i \in 1..Len(h) : b[i] = ms[i]
      BY <1>4, <3>1, <3>2
    <3> QED BY <3>3, <3>4, <3>5, <3>6
  <2> HIDE DEF a, b
  <2>2. a = b <=> \A i \in 1..Len(h) : a[i] = b[i]
    BY <2>1
  <2>3. a = b <=> \A i \in 1..Len(h) : ms[i] = h[i]
    BY <2>1, <2>2
  <2> QED BY <2>3 DEF a, b
<1>5. Model!IsPrefix(h, ms) <=> Replayed(ms)
  BY <1>2, <1>3, <1>4
<1> QED BY <1>5 DEF h

LEMMA ShapeMeans ==
    ASSUME NEW ms \in Seq(Reply), NEW R, R = {i \in 1..Len(ms) : ms[i].role = "tool"}
    PROVE  /\ CallsAnswered(ms) <=>
                 \A i \in 1..Len(ms) : ms[i].role = "call" =>
                    /\ i + ms[i].calls <= Len(ms)
                    /\ (i + 1)..(i + ms[i].calls) \subseteq R
                    /\ i + ms[i].calls + 1 \notin R
           /\ OldestFirst(ms) <=>
                 \A i, j \in R : Len(Model!History) < i /\ i < j /\ ms[j].stub => ms[i].stub
<1>1. /\ Len(ms) \in Nat
      /\ \A i \in 1..Len(ms) : i \in Nat /\ ms[i] \in Reply /\ ms[i].calls \in Nat
  <2>1. \A i \in 1..Len(ms) : ms[i] \in Reply
    OBVIOUS
  <2> QED BY <2>1 DEF Reply
<1>2. R = {i \in 1..Len(ms) : ms[i].role = "tool"}
  OBVIOUS
<1>3. ASSUME NEW i \in 1..Len(ms), i + ms[i].calls <= Len(ms)
      PROVE  /\ (i + 1)..(i + ms[i].calls) \subseteq R
                   <=> \A k \in (i + 1)..(i + ms[i].calls) : ms[k].role = "tool"
             /\ i + ms[i].calls + 1 \notin R
                   <=> (i + ms[i].calls + 1 <= Len(ms) => ms[i + ms[i].calls + 1].role # "tool")
  <2>1. (i + 1)..(i + ms[i].calls) \subseteq 1..Len(ms)
    BY <1>1, <1>3
  <2>2. i + ms[i].calls + 1 \in 1..Len(ms) <=> i + ms[i].calls + 1 <= Len(ms)
    BY <1>1, <1>3
  <2> QED BY <1>2, <2>1, <2>2
<1>4. CallsAnswered(ms) <=>
         \A i \in 1..Len(ms) : ms[i].role = "call" =>
            /\ i + ms[i].calls <= Len(ms)
            /\ (i + 1)..(i + ms[i].calls) \subseteq R
            /\ i + ms[i].calls + 1 \notin R
  BY <1>3 DEF CallsAnswered
<1>5. OldestFirst(ms) <=>
         \A i, j \in R : Len(Model!History) < i /\ i < j /\ ms[j].stub => ms[i].stub
  <2>1. MayGo(ms) = {i \in R : Len(Model!History) < i}
    BY <1>2 DEF MayGo
  <2>2. \A i, j \in R : Len(Model!History) < i /\ i < j => Len(Model!History) < j
    BY <1>1, <1>2, HistoryIs
  <2> QED BY <2>1, <2>2 DEF OldestFirst
<1> QED BY <1>4, <1>5

LEMMA ResultsMean ==
    ASSUME NEW ms \in Seq(Reply), ms = messages
    PROVE  /\ CallsAnswered(ms) <=>
                 \A i \in 1..Len(messages) : messages[i].role = "call" =>
                    /\ i + messages[i].calls <= Len(messages)
                    /\ (i + 1)..(i + messages[i].calls) \subseteq Model!Results
                    /\ i + messages[i].calls + 1 \notin Model!Results
           /\ OldestFirst(ms) <=>
                 \A i, j \in Model!Results :
                    Len(Model!History) < i /\ i < j /\ messages[j].stub => messages[i].stub
BY ShapeMeans DEF Model!Results

LEMMA Reach ==
    ASSUME NEW L \in Nat, NEW i \in 1..L, NEW d \in Nat, i + d <= L
    PROVE  /\ \A k \in (i + 1)..(i + d) : k \in 1..L
           /\ i + d + 1 \in 1..(L + 1)
           /\ i + d + 1 <= L => i + d + 1 \in 1..L
OBVIOUS

(* A round's call and its results at the end.                              *)
LEMMA RoundAdds ==
    ASSUME NEW old \in Seq(Reply), Replayed(old), CallsAnswered(old), OldestFirst(old),
           NEW n \in Nat, NEW c \in Reply, c.role = "call", c.calls = n,
           NEW res \in Seq(Reply), Len(res) = n,
           \A k \in 1..n : res[k].role = "tool" /\ ~res[k].stub
    PROVE  LET ms == old \o <<c>> \o res
           IN  ms \in Seq(Reply) /\ Replayed(ms) /\ CallsAnswered(ms) /\ OldestFirst(ms)
<1>1. PICK L \in Nat : L = Len(old)
  OBVIOUS
<1>12. ASSUME NEW x \in Seq(Reply), NEW y \in Seq(Reply)
       PROVE  /\ x \o y \in Seq(Reply) /\ Len(x \o y) = Len(x) + Len(y)
              /\ \A i \in 1..Len(x) : (x \o y)[i] = x[i]
              /\ \A i \in 1..Len(y) : (x \o y)[Len(x) + i] = y[i]
  BY Concat
<1>2. PICK p : p = old \o <<c>>
  OBVIOUS
<1>9. PICK ms : ms = p \o res
  OBVIOUS
<1>10. p \in Seq(Reply) /\ Len(p) = L + 1 /\ p[L + 1] = c /\ \A i \in 1..L : p[i] = old[i]
  <2>1. <<c>> \in Seq(Reply) /\ Len(<<c>>) = 1 /\ <<c>>[1] = c
    BY Alone
  <2> DEFINE k == <<c>>
  <2> HIDE DEF k
  <2>2. k \in Seq(Reply) /\ Len(k) = 1 /\ k[1] = c /\ p = old \o k
    BY <1>2, <2>1 DEF k
  <2>3. /\ p \in Seq(Reply) /\ Len(p) = Len(old) + Len(k)
        /\ \A i \in 1..Len(old) : p[i] = old[i]
        /\ \A i \in 1..Len(k) : p[Len(old) + i] = k[i]
    BY <1>12, <2>2, Zenon
  <2> QED BY <1>1, <2>2, <2>3
<1>11. /\ ms \in Seq(Reply) /\ Len(ms) = Len(p) + Len(res)
       /\ \A i \in 1..Len(p) : ms[i] = p[i]
       /\ \A k \in 1..Len(res) : ms[Len(p) + k] = res[k]
  BY <1>9, <1>10, <1>12, Zenon
<1>3. /\ Len(ms) = L + 1 + n /\ \A i \in 1..L : ms[i] = old[i]
      /\ ms[L + 1] = c /\ \A k \in 1..n : ms[L + 1 + k] = res[k]
  <2>1. Len(ms) = L + 1 + n
    BY <1>10, <1>11
  <2>2. \A i \in 1..(L + 1) : ms[i] = p[i]
    BY <1>10, <1>11
  <2>3. \A k \in 1..n : ms[L + 1 + k] = res[k]
    BY <1>10, <1>11
  <2>4. \A i \in 1..L : i \in 1..(L + 1)
    OBVIOUS
  <2>5. L + 1 \in 1..(L + 1)
    OBVIOUS
  <2> QED BY <1>10, <2>1, <2>2, <2>3, <2>4, <2>5
<1>4. Len(Model!History) = 2 /\ 2 <= L
  BY <1>1, HistoryIs DEF Replayed
<1>5. Replayed(ms)
  <2>1. \A i \in 1..Len(Model!History) : i \in 1..L
    BY <1>4
  <2>2. Len(Model!History) <= Len(ms)
    BY <1>3, <1>4
  <2> QED BY <1>3, <2>1, <2>2 DEF Replayed
<1>6. \A i \in 1..(L + 1 + n) : i <= L \/ i = L + 1 \/ (i - L - 1 \in 1..n /\ ms[i] = res[i - L - 1])
  <2>1. ASSUME NEW i \in 1..(L + 1 + n), L + 1 < i
        PROVE  i - L - 1 \in 1..n /\ ms[i] = res[i - L - 1]
    <3>1. PICK k \in 1..n : i = L + 1 + k
      <4>1. i - L - 1 \in 1..n /\ i = L + 1 + (i - L - 1)
        BY <2>1
      <4> QED BY <4>1
    <3>2. i - L - 1 = k
      BY <3>1
    <3> QED BY <1>3, <3>1, <3>2
  <2> QED BY <2>1
<1>7. CallsAnswered(ms)
  <2>1. ASSUME NEW i \in 1..Len(ms), ms[i].role = "call"
        PROVE  /\ i + ms[i].calls <= Len(ms)
               /\ \A k \in (i + 1)..(i + ms[i].calls) : ms[k].role = "tool"
               /\ i + ms[i].calls + 1 <= Len(ms) => ms[i + ms[i].calls + 1].role # "tool"
    <3>1. CASE i <= L
      <4>1. i \in 1..L /\ ms[i] = old[i]
        BY <1>3, <3>1
      <4>2. old[i].calls \in Nat
        <5>1. old[i] \in Reply
          BY <1>1, <4>1
        <5> QED BY <5>1 DEF Reply
      <4>3. /\ i + old[i].calls <= L
            /\ \A k \in (i + 1)..(i + old[i].calls) : old[k].role = "tool"
            /\ i + old[i].calls + 1 <= L => old[i + old[i].calls + 1].role # "tool"
        BY <1>1, <2>1, <4>1 DEF CallsAnswered
      <4>8. PICK d \in Nat : d = old[i].calls
        BY <4>2
      <4>9. i + d <= L
        BY <4>3, <4>8
      <4>10. /\ \A k \in (i + 1)..(i + d) : k \in 1..L
             /\ i + d + 1 \in 1..(L + 1)
        BY <4>1, <4>9, Reach
      <4>4. \A k \in (i + 1)..(i + old[i].calls) : k \in 1..L
        BY <4>8, <4>10
      <4>5. i + old[i].calls + 1 \in 1..(L + 1)
        BY <4>8, <4>10
      <4>6. ms[i + old[i].calls + 1].role # "tool"
        <5>1. CASE i + old[i].calls + 1 <= L
          <6>1. i + old[i].calls + 1 \in 1..L
            BY <4>5, <5>1
          <6> QED BY <1>3, <4>3, <5>1, <6>1
        <5>2. CASE i + old[i].calls + 1 = L + 1
          BY <1>3, <5>2
        <5> QED BY <4>5, <5>1, <5>2
      <4>7. i + old[i].calls <= L + 1 + n
        BY <4>1, <4>2, <4>3
      <4> QED BY <1>3, <4>1, <4>3, <4>4, <4>6, <4>7
    <3>2. CASE i = L + 1
      <4>1. ms[i].calls = n /\ i + n = Len(ms) /\ ~(i + n + 1 <= Len(ms))
        BY <1>3, <3>2
      <4>2. ASSUME NEW k \in (i + 1)..(i + n) PROVE ms[k].role = "tool"
        <5>1. k \in 1..(L + 1 + n) /\ ~(k <= L) /\ k # L + 1
          BY <3>2
        <5> QED BY <1>6, <5>1
      <4>3. i + n <= Len(ms)
        BY <1>3, <3>2
      <4> QED BY <4>1, <4>2, <4>3
    <3>3. CASE i - L - 1 \in 1..n /\ ms[i] = res[i - L - 1]
      BY <2>1, <3>3
    <3> QED BY <1>3, <1>6, <3>1, <3>2, <3>3
  <2> QED BY <2>1 DEF CallsAnswered
<1>8. OldestFirst(ms)
  <2>1. ASSUME NEW i \in MayGo(ms), NEW j \in MayGo(ms), i < j, ms[j].stub PROVE ms[i].stub
    <3>1. /\ i \in 1..(L + 1 + n) /\ j \in 1..(L + 1 + n)
          /\ ms[i].role = "tool" /\ ms[j].role = "tool" /\ Len(Model!History) < i /\ Len(Model!History) < j
      BY <1>3 DEF MayGo
    <3>2. j <= L
      BY <1>3, <1>6, <2>1, <3>1
    <3>3. i \in 1..L /\ j \in 1..L
      BY <2>1, <3>1, <3>2
    <3>4. i \in MayGo(old) /\ j \in MayGo(old)
      BY <1>1, <1>3, <3>1, <3>3 DEF MayGo
    <3> QED BY <1>3, <2>1, <3>3, <3>4 DEF OldestFirst
  <2> QED BY <2>1 DEF OldestFirst
<1> QED BY <1>2, <1>9, <1>5, <1>7, <1>8

LEMMA ShapedKeeps ==
    ASSUME NEW ms \in Seq(Reply), NEW q \in Seq(Reply), Shaped(q, ms, Len(ms)),
           Replayed(ms), CallsAnswered(ms)
    PROVE  Replayed(q) /\ CallsAnswered(q)
<1>1. Replayed(q)
  <2>1. \A i \in 1..Len(Model!History) : i \in 1..Len(ms) /\ i <= Len(Model!History)
    BY HistoryIs DEF Replayed
  <2> QED BY <2>1 DEF Replayed, Shaped
<1>2. CallsAnswered(q)
  <2>1. ASSUME NEW i \in 1..Len(q), q[i].role = "call"
        PROVE  /\ i + q[i].calls <= Len(q)
               /\ \A k \in (i + 1)..(i + q[i].calls) : q[k].role = "tool"
               /\ i + q[i].calls + 1 <= Len(q) => q[i + q[i].calls + 1].role # "tool"
    <3>1. /\ i \in 1..Len(ms) /\ Len(q) = Len(ms) /\ ms[i].role = "call" /\ q[i].calls = ms[i].calls
          /\ \A k \in 1..Len(ms) : q[k].role = ms[k].role
      BY <2>1 DEF Shaped
    <3>2. ms[i].calls \in Nat /\ Len(ms) \in Nat
      <4>1. ms[i] \in Reply
        BY <3>1
      <4>2. ms[i].calls \in Nat
        BY <4>1 DEF Reply
      <4>3. Len(ms) \in Nat
        OBVIOUS
      <4> QED BY <4>2, <4>3
    <3>3. /\ i + ms[i].calls <= Len(ms)
          /\ \A k \in (i + 1)..(i + ms[i].calls) : ms[k].role = "tool"
          /\ i + ms[i].calls + 1 <= Len(ms) => ms[i + ms[i].calls + 1].role # "tool"
      BY <3>1 DEF CallsAnswered
    <3>6. PICK d \in Nat : d = ms[i].calls
      BY <3>2
    <3>7. PICK L \in Nat : L = Len(ms)
      BY <3>2
    <3>8. i \in 1..L /\ i + d <= L
      BY <3>1, <3>3, <3>6, <3>7
    <3>9. /\ \A k \in (i + 1)..(i + d) : k \in 1..L
          /\ i + d + 1 <= L => i + d + 1 \in 1..L
      BY <3>8, Reach
    <3>4. \A k \in (i + 1)..(i + ms[i].calls) : k \in 1..Len(ms)
      BY <3>6, <3>7, <3>9
    <3>5. i + ms[i].calls + 1 <= Len(ms) => i + ms[i].calls + 1 \in 1..Len(ms)
      BY <3>6, <3>7, <3>9
    <3> QED BY <3>1, <3>3, <3>4, <3>5
  <2> QED BY <2>1 DEF CallsAnswered
<1> QED BY <1>1, <1>2
-----------------------------------------------------------------------------
LEMMA RunToolsKeeps ==
    ASSUME ModelTypes, StreamInv, Model!RequestsFit, Model!RunTools
    PROVE  ModelTypes' /\ StreamInv' /\ Model!RequestsFit'
<1>1. PICK old \in Seq(Reply) : old = messages
  BY DEF ModelTypes
<1>2. Replayed(old) /\ CallsAnswered(old) /\ OldestFirst(old)
  <2>1. Replayed(old)
    BY <1>1, PrefixMeans DEF Model!RequestsFit
  <2>2. CallsAnswered(old) /\ OldestFirst(old)
    BY <1>1, ResultsMean DEF Model!RequestsFit
  <2> QED BY <2>1, <2>2
<1>3. PICK n : n = Model!Cardinality(Model!Called(acc))
  OBVIOUS
<1>4. n \in Nat
  <2>1. Model!Called(acc) \subseteq Slots
    BY DEF Model!Called
  <2>2. IsFiniteSet(Model!Called(acc))
    BY <2>1, ModelBounds, FS_Subset
  <2> QED BY <1>3, <2>2, FS_CardinalityType, ModelFinite
<1>5. PICK size \in [1..n -> {0, 2}] :
         LET ms == old
                   \o <<[role |-> "call", size |-> 1, calls |-> n, stub |-> FALSE]>>
                   \o [i \in 1..n |-> [role |-> "tool", size |-> size[i],
                                       calls |-> 0, stub |-> FALSE]]
         IN  /\ messages' = Model!Fit(ms)
             /\ answerNow' = (answerNow \/ Model!Sizes(Model!Fit(ms)) > Budget)
  BY <1>1, <1>3 DEF Model!RunTools
<1>6. PICK c : c = [role |-> "call", size |-> 1, calls |-> n, stub |-> FALSE]
  OBVIOUS
<1>7. PICK res : res = [i \in 1..n |-> [role |-> "tool", size |-> size[i], calls |-> 0, stub |-> FALSE]]
  OBVIOUS
<1>8. PICK ms : ms = old \o <<c>> \o res
  OBVIOUS
<1>9. messages' = Model!Fit(ms) /\ answerNow' = (answerNow \/ Model!Sizes(Model!Fit(ms)) > Budget)
  BY <1>5, <1>6, <1>7, <1>8
<1>10. c \in Reply /\ c.role = "call" /\ c.calls = n
  BY <1>4, <1>6 DEF Reply
<1>11. res \in Seq(Reply) /\ Len(res) = n /\ \A k \in 1..n : res[k].role = "tool" /\ ~res[k].stub
  <2>1. \A i \in 1..n : size[i] \in Nat
    OBVIOUS
  <2>2. \A i \in 1..n : [role |-> "tool", size |-> size[i], calls |-> 0, stub |-> FALSE] \in Reply
    BY <2>1 DEF Reply
  <2>3. res \in [1..n -> Reply]
    BY <1>7, <2>2
  <2>4. res \in Seq(Reply) /\ Len(res) = n
    BY <1>4, <2>3
  <2>5. \A k \in 1..n : res[k].role = "tool" /\ ~res[k].stub
    BY <1>7
  <2> QED BY <2>4, <2>5
<1>12. ms \in Seq(Reply) /\ Replayed(ms) /\ CallsAnswered(ms) /\ OldestFirst(ms)
  BY <1>2, <1>4, <1>8, <1>10, <1>11, RoundAdds
<1>13. PICK q \in Seq(Reply) : q = Model!Fit(ms)
  BY <1>12, FitKeeps
<1>14. Shaped(q, ms, Len(ms)) /\ OldestFirst(q)
  BY <1>12, <1>13, FitKeeps
<1>15. Replayed(q) /\ CallsAnswered(q)
  BY <1>12, <1>14, ShapedKeeps
<1>16. q = messages' /\ q \in Seq(Reply)
  BY <1>9, <1>13
<1>17. Model!IsPrefix(Model!History, q)
  BY <1>15, PrefixMeans
<1>18. /\ round' = round + 1 /\ stage' \in {"request", "ran out"} /\ Model!NewCall /\ streamed' = <<>>
       /\ emitted' = FALSE /\ content' = content + Len(streamed) /\ said' = said + Len(acc.text)
  BY DEF Model!RunTools
<1>19. Model!RequestsFit'
  <2>1. Model!ToolsOffered' => Model!Sizes(messages') <= Budget
    <3>1. Model!ToolsOffered' => ~(Model!Sizes(q) > Budget)
      BY <1>9, <1>13 DEF Model!ToolsOffered
    <3>2. Model!Sizes(q) \in Nat /\ Budget \in Nat
      BY SizesNat, ModelBounds
    <3> QED BY <1>16, <3>1, <3>2
  <2>2. Model!Results' = {i \in 1..Len(q) : q[i].role = "tool"}
    BY <1>16 DEF Model!Results
  <2>3. /\ \A i \in 1..Len(q) : q[i].role = "call" =>
              /\ i + q[i].calls <= Len(q)
              /\ (i + 1)..(i + q[i].calls) \subseteq Model!Results'
              /\ i + q[i].calls + 1 \notin Model!Results'
        /\ \A i, j \in Model!Results' : Len(Model!History) < i /\ i < j /\ q[j].stub => q[i].stub
    BY <1>14, <1>15, <2>2, ShapeMeans
  <2> QED BY <1>16, <1>17, <2>1, <2>3 DEF Model!RequestsFit
<1>20. /\ sent' \in Seq(Model!Frame \cup Model!LastFrame) /\ got' = 0 /\ acc' \in Acc /\ streamed' \in Seq(Nat)
       /\ cut' = FALSE /\ StreamInv'
  <2>1. (content = said)'
    BY <1>18 DEF StreamInv, Model!ShownOnce
  <2> QED BY <1>18, <2>1, NewCallHolds
<1>21. ModelTypes'
  <2>1. answerNow' \in BOOLEAN
    BY <1>9
  <2>2. round' \in Nat
    <3>1. round \in Nat
      BY DEF ModelTypes
    <3>2. round' = round + 1
      BY <1>18
    <3> QED BY <3>1, <3>2
  <2> QED BY <1>16, <1>18, <1>20, <2>1, <2>2 DEF ModelTypes
<1> QED BY <1>19, <1>20, <1>21

-----------------------------------------------------------------------------
ModelInv == ModelTypes /\ StreamInv /\ Model!RequestsFit

(* The invariant the proofs go by.                                         *)
THEOREM ModelInvHolds == Model!Spec => []ModelInv
<1>1. Model!Init => ModelInv
  <2> SUFFICES ASSUME Model!Init PROVE ModelInv
    OBVIOUS
  <2>1. /\ Model!Empty.text = <<>> /\ Model!Empty.over = "no" /\ \A s \in Slots : Model!Empty.calls[s] = <<>>
        /\ Model!Empty \in Acc
    BY DEF Model!Empty, Acc
  <2>2. /\ stage = "request" /\ round = 0 /\ sent = <<>> /\ got = 0 /\ acc = Model!Empty /\ streamed = <<>>
        /\ content = 0 /\ said = 0 /\ messages = Model!History /\ emitted = FALSE /\ answerNow = FALSE
        /\ cut = FALSE
    BY DEF Model!Init
  <2>3. ModelTypes
    <3>1. <<>> \in Seq(Model!Frame \cup Model!LastFrame) /\ <<>> \in Seq(Nat)
      OBVIOUS
    <3>2. messages \in Seq(Reply)
      BY <2>2, HistoryIs, Zenon
    <3>3. /\ round \in Nat /\ got \in Nat /\ sent \in Seq(Model!Frame \cup Model!LastFrame)
          /\ acc \in Acc /\ streamed \in Seq(Nat) /\ {emitted, answerNow, cut} \subseteq BOOLEAN
      BY <2>1, <2>2, <3>1
    <3> QED BY <3>2, <3>3 DEF ModelTypes
  <2>4. Model!Arrived = 0 /\ Len(sent) = 0 /\ LastEnds
    BY <2>2 DEF Model!Arrived, LastEnds
  <2>5. Holds(acc, Model!Arrived)
    BY <2>1, <2>2, <2>4, NoneYet DEF Holds
  <2>6. StreamInv
    BY <2>1, <2>2, <2>4, <2>5 DEF StreamInv, Model!ShownOnce
  <2>7. Model!RequestsFit
    <3>1. Replayed(Model!History) /\ CallsAnswered(Model!History) /\ OldestFirst(Model!History)
      <4>1. /\ Len(Model!History) = 2 /\ Model!History[1].role = "call" /\ Model!History[1].calls = 1
            /\ Model!History[2].role = "tool"
        BY DEF Model!History
      <4>2. Replayed(Model!History)
        BY <4>1 DEF Replayed
      <4>3. CallsAnswered(Model!History)
        BY <4>1 DEF CallsAnswered
      <4>4. OldestFirst(Model!History)
        BY <4>1 DEF OldestFirst, MayGo
      <4> QED BY <4>2, <4>3, <4>4
    <3>2. Model!IsPrefix(Model!History, Model!History)
      BY <3>1, HistoryIs, PrefixMeans
    <3> QED BY <2>2, <3>1, <3>2, HistoryIs, ResultsMean DEF Model!RequestsFit
  <2> QED BY <2>3, <2>6, <2>7 DEF ModelInv
<1>2. ModelInv /\ [Model!Next]_(Model!vars) => ModelInv'
  <2> SUFFICES ASSUME ModelTypes, StreamInv, Model!RequestsFit, [Model!Next]_(Model!vars) PROVE ModelInv'
    BY DEF ModelInv
  <2>1. CASE Model!RunTools
    BY <2>1, RunToolsKeeps DEF ModelInv
  <2>2. ASSUME UNCHANGED <<round, messages, answerNow>> PROVE Model!RequestsFit'
    BY <2>2 DEF Model!RequestsFit, Model!ToolsOffered, Model!Results
  <2>3. CASE Model!Respond
    BY <2>2, <2>3, RespondKeeps DEF ModelInv, Model!Respond, Model!call
  <2>4. CASE Model!RequestFails
    <3>1. UNCHANGED <<round, messages, answerNow>>
      BY <2>4 DEF Model!RequestFails, Model!call
    <3> QED BY <2>2, <2>4, <3>1, TryOrGiveUp DEF ModelInv, Model!RequestFails
  <2>5. CASE \E n \in 1..MaxChunk : Model!Chunk(n)
    BY <2>2, <2>5, ChunkKeeps DEF ModelInv, Model!Chunk, Model!call
  <2>6. CASE Model!BodyEnds
    BY <2>2, <2>6, BodyEndsKeeps DEF ModelInv, Model!BodyEnds, Model!call
  <2>7. CASE Model!StreamEnds
    <3>1. /\ UNCHANGED <<round, content, said, messages, answerNow, sent, got, acc, streamed, emitted, cut>>
          /\ stage' = "ended"
      BY <2>7 DEF Model!StreamEnds, Model!call
    <3>2. ModelTypes' /\ StreamInv'
      BY <3>1, StillHolds DEF ModelTypes, StreamInv, Model!ShownOnce
    <3> QED BY <2>2, <3>1, <3>2 DEF ModelInv
  <2>8. CASE Model!StreamBreaks
    <3>1. UNCHANGED <<round, messages, answerNow>>
      BY <2>8 DEF Model!StreamBreaks, Model!call
    <3> QED BY <2>2, <2>8, <3>1, TryOrGiveUp DEF ModelInv, Model!StreamBreaks
  <2>9. CASE Model!TurnFails
    <3>1. UNCHANGED <<round, messages, answerNow>>
      BY <2>9 DEF Model!TurnFails, Model!call
    <3> QED BY <2>2, <2>9, <3>1, TryOrGiveUp DEF ModelInv, Model!TurnFails
  <2>10. CASE Model!TurnAnswers
    <3>1. /\ UNCHANGED <<round, messages, answerNow, sent, got, acc, streamed, emitted, cut>>
          /\ content' = content + Len(streamed) /\ said' = said + Len(acc.text) /\ stage' = "answered"
      BY <2>10 DEF Model!TurnAnswers
    <3>2. (content = said)'
      BY <3>1 DEF StreamInv, Model!ShownOnce
    <3>3. ModelTypes' /\ StreamInv'
      BY <3>1, <3>2, StillHolds DEF ModelTypes
    <3> QED BY <2>2, <3>1, <3>3 DEF ModelInv
  <2>11. CASE UNCHANGED Model!vars
    <3>1. UNCHANGED <<stage, round, sent, got, acc, streamed, emitted, content, said, messages, answerNow, cut>>
      BY <2>11 DEF Model!vars
    <3>2. ModelTypes'
      BY <3>1 DEF ModelTypes
    <3>3. StreamInv'
      BY <3>1 DEF StreamInv, Model!ShownOnce, Holds, Model!Arrived, LastEnds, Model!Texts, Model!CallsTo
    <3> QED BY <2>2, <3>1, <3>2, <3>3 DEF ModelInv
  <2> QED
    BY <2>1, <2>3, <2>4, <2>5, <2>6, <2>7, <2>8, <2>9, <2>10, <2>11 DEF Model!Next
<1> QED BY <1>1, <1>2, PTL DEF Model!Spec

(* What the reader is shown is what the model said in the attempt that     *)
(* counts.                                                                 *)
THEOREM NothingIsShownTwice == Model!Spec => []ShownOnce
<1>1. ModelInv => ShownOnce
  BY DEF ShownOnce, ModelInv, StreamInv
<1> QED BY <1>1, ModelInvHolds, PTL

(* All that arrived is in the answer, however the stream was cut.          *)
THEOREM AllIsReceived == Model!Spec => []ReceivedIsSent
<1>1. ModelInv => ReceivedIsSent
  BY DEF ReceivedIsSent, ModelInv, StreamInv, Holds, Model!ReceivedIsSent, Model!Received
<1> QED BY <1>1, ModelInvHolds, PTL

(* A request that offers tools fits, and is one the provider takes.        *)
THEOREM RequestsFitTheBudget == Model!Spec => []RequestsFit
<1>1. ModelInv => RequestsFit
  BY DEF RequestsFit, ModelInv
<1> QED BY <1>1, ModelInvHolds, PTL
=============================================================================
