--------------------------- MODULE AssistantProofs --------------------------
(***************************************************************************)
(* Proofs about what the AI assistant writes.                              *)
(*                                                                         *)
(* ChatTurn, for any turns, pages, answers and channels: the events sent   *)
(* of a turn say what its row says, and a page shows no fragment twice or  *)
(* out of order and all of an answer it followed.  The first rests on      *)
(* where a turn's job stands when its row may become complete (RowsTold);  *)
(* the second on what a page that follows a channel has read of it:        *)
(* fragments only grow along the channel (DeltasGrow), and none that the   *)
(* page is yet to take is at or before what it shows; it has read no       *)
(* 'done', or it would have ended with it (Following).  It implements      *)
(* Transcript: the turn that generates, or is being finished, stands last  *)
(* in the log (LogInv), so its answer comes behind all that is replayed.   *)
(*                                                                         *)
(* TripAnalysis, for any number of runs and any timeout and grace: its     *)
(* types, that a saved report stands, that registered flags are live, and  *)
(* that the reaper takes no row a run still owns.  The last rests on       *)
(* TimeLeft: a run's row was made pending no earlier than the run began,   *)
(* so the row's age and what is left of any run never exceed the timeout   *)
(* together.  A tick moves one from the one to the other; a start and a    *)
(* claim take the age back to zero.                                        *)
(***************************************************************************)
EXTENDS ChatTurn, MCTripAnalysis, ListsProofs, TLAPS

Event == [kind : {"delta", "tool", "done", "failed"}, n : Nat, text : Seq(Nat)]

(* Types, as far as the proofs need them.                                  *)
Types ==
    /\ status \in [Turn -> {"none", "pending", "running"} \union Terminal]
    /\ content \in [Turn -> Seq(Nat)]
    /\ task \in [Turn -> TaskState]
    /\ hub \in SUBSET Turn
    /\ buffer \in [Turn -> Nat]
    /\ rounds \in [Turn -> Nat]
    /\ channel \in [Turn -> Seq(Event)]
    /\ cancel \in Turn \union {NoTurn}

Increasing(s) == \A i, j \in DOMAIN s : i < j => s[i] < s[j]

(* No fragment of a saved text is beyond the text's length.                *)
Within(s) == \A i \in DOMAIN s : s[i] <= Len(s)

TextsFit ==
    \A t \in Turn :
        /\ Increasing(content[t]) /\ Within(content[t])
        /\ \A i \in DOMAIN channel[t] : Increasing(channel[t][i].text)

InHub == {"run", "finish", "saved", "failing", "closing"}

HubFits == \A t \in Turn : t \in hub <=> task[t] \in InHub

(* Where the job of a turn stands, its row and its events.                 *)
Told(t) ==
    /\ status[t] = "none" => task[t] = "none"
    /\ status[t] = "complete" => task[t] \in {"saved", "failing", "closing", "over"}
    /\ task[t] = "saved" => status[t] = "complete" /\ content[t] = Answer(buffer[t])
    /\ \A i \in EventIn(t, "done") :
          /\ status[t] = "complete" /\ content[t] = channel[t][i].text
          /\ task[t] \in {"closing", "over"}
    /\ EventIn(t, "failed") # {} => status[t] = "failed" /\ task[t] \in {"closing", "over"}

RowsTold == Exists => \A t \in Turn : Told(t)

Grow(t) ==
    /\ \A i, j \in EventIn(t, "delta") : i < j => channel[t][i].n < channel[t][j].n
    /\ task[t] \in {"none", "posted"} => content[t] = << >> /\ channel[t] = << >> /\ buffer[t] = 0
    /\ task[t] = "run" => /\ Len(content[t]) <= buffer[t]
                          /\ \A i \in EventIn(t, "delta") : channel[t][i].n <= buffer[t]

DeltasGrow == \A t \in Turn : Grow(t)

-----------------------------------------------------------------------------
(* The texts there are.                                                    *)
LEMMA Texts1 ==
    ASSUME NEW n \in Nat
    PROVE  /\ Text(n) \in Seq(Nat) /\ Len(Text(n)) = n
           /\ Increasing(Text(n)) /\ Within(Text(n))
<1>1. Text(n) \in [1..n -> Nat]
  BY DEF Text
<1>2. Text(n) \in Seq(Nat) /\ DOMAIN Text(n) = 1..n /\ Len(Text(n)) = n
  BY <1>1
<1>3. \A i \in 1..n : Text(n)[i] = i
  BY DEF Text
<1> QED BY <1>2, <1>3 DEF Increasing, Within

LEMMA Answers ==
    ASSUME NEW n \in Nat
    PROVE  /\ Answer(n) \in Seq(Nat)
           /\ Increasing(Answer(n)) /\ Within(Answer(n))
<1>1. <<0>> \in Seq(Nat) /\ Increasing(<<0>>) /\ Within(<<0>>)
  BY DEF Increasing, Within
<1> QED BY <1>1, Texts1 DEF Answer

LEMMA NoText == << >> \in Seq(Nat) /\ Increasing(<< >>) /\ Within(<< >>) /\ Len(<< >>) = 0
BY DEF Increasing, Within

(* An event is sent: those before it keep their place.                     *)
LEMMA Sent ==
    ASSUME Types, NEW t \in Turn, NEW e \in Event, Send(t, e)
    PROVE  /\ channel' \in [Turn -> Seq(Event)]
           /\ \A u \in Turn : u # t => channel'[u] = channel[u]
           /\ Len(channel'[t]) = Len(channel[t]) + 1
           /\ DOMAIN channel[t] = 1..Len(channel[t])
           /\ DOMAIN channel'[t] = 1..(Len(channel[t]) + 1)
           /\ Len(channel[t]) \in Nat
           /\ \A i \in DOMAIN channel[t] : channel'[t][i] = channel[t][i]
           /\ channel'[t][Len(channel[t]) + 1] = e
<1>1. channel[t] \in Seq(Event)
  BY DEF Types
<1>2. channel' = [channel EXCEPT ![t] = Append(channel[t], e)]
  BY DEF Send
<1>3. Append(channel[t], e) \in Seq(Event)
  BY <1>1
<1>4. channel'[t] = Append(channel[t], e)
  BY <1>2 DEF Types
<1>5. channel' \in [Turn -> Seq(Event)]
  BY <1>2, <1>3 DEF Types
<1>6. \A u \in Turn : u # t => channel'[u] = channel[u]
  BY <1>2 DEF Types
<1> QED BY <1>1, <1>4, <1>5, <1>6

LEMMA Events ==
    ASSUME NEW n \in Nat, NEW text \in Seq(Nat)
    PROVE  Delta(n) \in Event /\ ToolEvent \in Event /\ Done(text) \in Event /\ Failed \in Event
BY NoText DEF Delta, ToolEvent, Done, Failed, Event

-----------------------------------------------------------------------------
(* The steps, by what they are about: the job, the row, the pages.         *)
Job(t) ==
    \/ StartTurn(t) \/ Register(t) \/ DropPost(t) \/ Emit(t) \/ ToolRound(t)
    \/ FinishRead(t) \/ FinishCommit(t) \/ SendDone(t) \/ JobEnds(t) \/ RecordFailure(t)
    \/ Unregister(t)

Row(t) == UpdatePartial(t) \/ Reap(t) \/ CancelMessage(t)

Page(r) == PageStep(r) \/ Disconnect(r) \/ \E t \in Turn : Subscribe(r, t)

LEMMA ChatSplit ==
    ASSUME Next
    PROVE  \/ \E t \in Turn : Job(t) \/ Row(t)
           \/ CancelFail \/ DeleteCancel \/ DeleteRows
           \/ \E r \in Reader : Page(r)
           \/ Crash \/ Restart
BY DEF Next, TurnStep, Job, Row, Page

LEMMA PagesOnly ==
    ASSUME NEW r \in Reader, Page(r)
    PROVE  UNCHANGED <<up, deletion, rows, job, cancel, stops>>
BY DEF Page, PageStep, Subscribe, Reconnect, Snapshot, Receive, Disconnect, bounds

(* fail_message, by whoever calls it.                                      *)
LEMMA FailRowEffect ==
    ASSUME Types, NEW t \in Turn, FailRow(t)
    PROVE  /\ status' \in [Turn -> {"none", "pending", "running"} \union Terminal]
           /\ \A u \in Turn : status'[u] = status[u] \/ (Generating(u) /\ status'[u] = "failed")
BY DEF Types, FailRow, Terminal, Generating

LEMMA TypesStep == ASSUME Types, [Next]_vars PROVE Types'
<1> USE DEF rows, job, bounds
<1>1. CASE UNCHANGED <<rows, job, cancel>>
  BY <1>1 DEF Types
<1>2. CASE UNCHANGED vars
  BY <1>1, <1>2 DEF vars
<1>3. ASSUME NEW r \in Reader, Page(r) PROVE Types'
  BY <1>1, <1>3, PagesOnly
<1>4. ASSUME NEW t \in Turn, Job(t) PROVE Types'
  <2> DEFINE T(s) == task' = [task EXCEPT ![t] = s]
  <2>1. ASSUME NEW s \in TaskState, T(s) PROVE task' \in [Turn -> TaskState]
    BY <2>1 DEF Types
  <2>2. {"posted", "run", "over", "finish", "saved", "failing", "closing"} \subseteq TaskState
    BY DEF TaskState
  <2>3. CASE StartTurn(t)
    <3>1. task' \in [Turn -> TaskState]
      BY <2>1, <2>2, <2>3 DEF StartTurn
    <3> QED BY <2>3, <3>1 DEF StartTurn, Types
  <2>4. CASE Register(t)
    <3>1. task' \in [Turn -> TaskState]
      BY <2>1, <2>2, <2>4 DEF Register
    <3> QED BY <2>4, <3>1 DEF Register, Types
  <2>5. CASE DropPost(t)
    <3>1. task' \in [Turn -> TaskState]
      BY <2>1, <2>2, <2>5 DEF DropPost
    <3> QED BY <2>5, <3>1 DEF DropPost, Types
  <2>6. CASE Emit(t)
    <3>1. buffer[t] + 1 \in Nat
      BY DEF Types
    <3>2. channel' \in [Turn -> Seq(Event)]
      BY <2>6, <3>1, NoText, Events, Sent DEF Emit
    <3> QED BY <2>6, <3>1, <3>2 DEF Emit, Types
  <2>7. CASE ToolRound(t)
    <3>2. channel' \in [Turn -> Seq(Event)]
      BY <2>7, NoText, Events, Sent DEF ToolRound
    <3>3. rounds[t] + 1 \in Nat
      BY DEF Types
    <3>4. rounds' \in [Turn -> Nat]
      BY <2>7, <3>3 DEF ToolRound, Types
    <3> QED BY <2>7, <3>2, <3>4 DEF ToolRound, Types
  <2>8. CASE FinishRead(t)
    <3>1. task' \in [Turn -> TaskState]
      BY <2>1, <2>2, <2>8 DEF FinishRead
    <3> QED BY <2>8, <3>1 DEF FinishRead, Types
  <2>9. CASE FinishCommit(t)
    <3>1. task' \in [Turn -> TaskState]
      BY <2>1, <2>2, <2>9 DEF FinishCommit
    <3>2. Answer(buffer[t]) \in Seq(Nat)
      BY Answers DEF Types
    <3>3. content' \in [Turn -> Seq(Nat)]
      BY <2>9, <3>2 DEF FinishCommit, Finished, Types
    <3> QED BY <2>9, <3>1, <3>3 DEF FinishCommit, Finished, Types, Terminal
  <2>10. CASE SendDone(t)
    <3>1. task' \in [Turn -> TaskState]
      BY <2>1, <2>2, <2>10 DEF SendDone
    <3>2. Answer(buffer[t]) \in Seq(Nat)
      BY Answers DEF Types
    <3>3. channel' \in [Turn -> Seq(Event)]
      BY <2>10, <3>2, Events, Sent DEF SendDone
    <3> QED BY <2>10, <3>1, <3>3 DEF SendDone, Types
  <2>11. CASE JobEnds(t)
    <3>1. task' \in [Turn -> TaskState]
      BY <2>1, <2>2, <2>11 DEF JobEnds
    <3> QED BY <2>11, <3>1 DEF JobEnds, Types
  <2>12. CASE RecordFailure(t)
    <3>1. task' \in [Turn -> TaskState]
      BY <2>1, <2>2, <2>12 DEF RecordFailure
    <3>2. channel' \in [Turn -> Seq(Event)]
      BY <2>12, NoText, Events, Sent DEF RecordFailure, Types
    <3> QED BY <2>12, <3>1, <3>2, FailRowEffect DEF RecordFailure, Types
  <2>13. CASE Unregister(t)
    <3>1. task' \in [Turn -> TaskState]
      BY <2>1, <2>2, <2>13 DEF Unregister
    <3> QED BY <2>13, <3>1 DEF Unregister, Types
  <2> QED BY <1>4, <2>3, <2>4, <2>5, <2>6, <2>7, <2>8, <2>9, <2>10, <2>11, <2>12, <2>13 DEF Job
<1>5. ASSUME NEW t \in Turn, Row(t) PROVE Types'
  <2>1. CASE UpdatePartial(t)
    <3>1. Text(buffer[t]) \in Seq(Nat)
      BY Texts1 DEF Types
    <3> QED BY <2>1, <3>1 DEF UpdatePartial, Types
  <2>2. CASE Reap(t)
    BY <2>2, FailRowEffect DEF Reap, Types
  <2>3. CASE CancelMessage(t)
    BY <2>3 DEF CancelMessage, Types
  <2> QED BY <1>5, <2>1, <2>2, <2>3 DEF Row
<1>6. CASE CancelFail
  <2>1. cancel \in Turn
    BY <1>6 DEF CancelFail, Types
  <2> QED BY <1>6, <2>1, FailRowEffect DEF CancelFail, Types
<1>7. CASE DeleteCancel \/ DeleteRows
  BY <1>7, NoText DEF DeleteCancel, DeleteRows, Types
<1>8. CASE Crash
  BY <1>8 DEF Crash, Types, TaskState
<1>9. CASE Restart
  BY <1>9 DEF Restart, Types, Terminal
<1> QED BY <1>2, <1>3, <1>4, <1>5, <1>6, <1>7, <1>8, <1>9, ChatSplit

-----------------------------------------------------------------------------
(* Who is registered.                                                      *)
LEMMA HubStep == ASSUME Types, HubFits, RowsTold, [Next]_vars PROVE HubFits'
<1> USE DEF rows, job, bounds, InHub
<1>1. CASE UNCHANGED <<hub, task>>
  BY <1>1 DEF HubFits
<1>2. CASE UNCHANGED vars
  BY <1>1, <1>2 DEF vars
<1>3. ASSUME NEW r \in Reader, Page(r) PROVE HubFits'
  BY <1>1, <1>3, PagesOnly
<1>4. ASSUME NEW t \in Turn, Job(t) PROVE HubFits'
  <2>1. CASE Emit(t) \/ ToolRound(t)
    BY <1>1, <2>1 DEF Emit, ToolRound
  <2>2. CASE StartTurn(t) \/ Register(t) \/ DropPost(t) \/ FinishRead(t) \/ FinishCommit(t)
             \/ SendDone(t) \/ JobEnds(t) \/ RecordFailure(t) \/ Unregister(t)
    <3>1. ASSUME NEW u \in Turn, u # t PROVE (u \in hub' <=> u \in hub) /\ task'[u] = task[u]
      BY <2>2, <3>1 DEF StartTurn, Register, DropPost, FinishRead, FinishCommit, SendDone,
                       JobEnds, RecordFailure, Unregister, Types
    <3>2. t \in hub' <=> task'[t] \in InHub
      BY <2>2 DEF StartTurn, Register, DropPost, FinishRead, FinishCommit, SendDone,
                       JobEnds, RecordFailure, Unregister, Types, HubFits,
                       RowsTold, Told
    <3> QED BY <3>1, <3>2 DEF HubFits
  <2> QED BY <1>4, <2>1, <2>2 DEF Job
<1>5. ASSUME NEW t \in Turn, Row(t) PROVE HubFits'
  BY <1>1, <1>5 DEF Row, UpdatePartial, Reap, CancelMessage
<1>6. CASE CancelFail \/ DeleteCancel \/ DeleteRows \/ Restart
  BY <1>1, <1>6 DEF CancelFail, DeleteCancel, DeleteRows, Restart
<1>7. CASE Crash
  BY <1>7 DEF Crash, HubFits
<1> QED BY <1>2, <1>3, <1>4, <1>5, <1>6, <1>7, ChatSplit

-----------------------------------------------------------------------------
(* What is stored and sent reads as texts do.                              *)
LEMMA TextsStep == ASSUME Types, TextsFit, [Next]_vars PROVE TextsFit'
<1> USE DEF rows, job, bounds
<1>1. CASE UNCHANGED <<content, channel>>
  BY <1>1 DEF TextsFit, Increasing, Within
<1>2. CASE UNCHANGED vars
  BY <1>1, <1>2 DEF vars
<1>3. ASSUME NEW r \in Reader, Page(r) PROVE TextsFit'
  BY <1>1, <1>3, PagesOnly
(* One event is sent, or one row's text written.                           *)
<1>4. ASSUME NEW t \in Turn, NEW e \in Event, Send(t, e), content' = content, Increasing(e.text)
      PROVE  TextsFit'
  <2> SUFFICES ASSUME NEW u \in Turn
               PROVE  /\ Increasing(content[u])' /\ Within(content[u])'
                      /\ \A i \in DOMAIN channel'[u] : Increasing(channel'[u][i].text)
    BY DEF TextsFit, Increasing
  <2>1. Increasing(content[u])' /\ Within(content[u])'
    BY <1>4 DEF TextsFit, Increasing, Within
  <2>2. CASE u # t
    <3>1. channel'[u] = channel[u]
      BY <1>4, <2>2, Sent
    <3> QED BY <2>1, <3>1 DEF TextsFit
  <2>3. CASE u = t
    <3>1. ASSUME NEW i \in DOMAIN channel'[t] PROVE Increasing(channel'[t][i].text)
      <4>1. CASE i \in DOMAIN channel[t]
        <5>1. channel'[t][i] = channel[t][i]
          BY <1>4, <4>1, Sent
        <5> QED BY <4>1, <5>1 DEF TextsFit
      <4>2. CASE i \notin DOMAIN channel[t]
        <5>1. i = Len(channel[t]) + 1
          BY <1>4, <3>1, <4>2, Sent
        <5>2. channel'[t][i] = e
          BY <1>4, <5>1, Sent
        <5> QED BY <1>4, <5>2
      <4> QED BY <4>1, <4>2
    <3> QED BY <2>1, <2>3, <3>1
  <2> QED BY <2>2, <2>3
<1>5. ASSUME NEW t \in Turn, NEW s \in Seq(Nat), Increasing(s), Within(s),
             content' = [content EXCEPT ![t] = s], channel' = channel
      PROVE  TextsFit'
  <2> SUFFICES ASSUME NEW u \in Turn
               PROVE  Increasing(content'[u]) /\ Within(content'[u])
    BY <1>5 DEF TextsFit, Increasing, Within
  <2>1. content'[u] = IF u = t THEN s ELSE content[u]
    BY <1>5 DEF Types
  <2> QED BY <1>5, <2>1 DEF TextsFit
<1>6. ASSUME NEW t \in Turn, Job(t) PROVE TextsFit'
  <2>0. buffer[t] \in Nat
    BY DEF Types
  <2>1. CASE StartTurn(t) \/ Register(t) \/ DropPost(t) \/ FinishRead(t) \/ JobEnds(t) \/ Unregister(t)
    BY <1>1, <2>1 DEF StartTurn, Register, DropPost, FinishRead, JobEnds, Unregister
  <2>2. CASE Emit(t)
    <3>1. buffer[t] + 1 \in Nat
      BY <2>0
    <3>2. Delta(buffer[t] + 1) \in Event
      BY <3>1, NoText, Events
    <3>3. Increasing(Delta(buffer[t] + 1).text)
      BY NoText DEF Delta
    <3> QED BY <1>4, <2>2, <3>2, <3>3 DEF Emit
  <2>3. CASE ToolRound(t)
    <3>1. ToolEvent \in Event /\ Increasing(ToolEvent.text)
      BY NoText, Events DEF ToolEvent
    <3> QED BY <1>4, <2>3, <3>1 DEF ToolRound
  <2>4. CASE FinishCommit(t)
    BY <1>5, <2>0, <2>4, Answers DEF FinishCommit, Finished
  <2>5. CASE SendDone(t)
    <3>1. Answer(buffer[t]) \in Seq(Nat) /\ Increasing(Answer(buffer[t]))
      BY <2>0, Answers
    <3>2. Done(Answer(buffer[t])) \in Event
      BY <3>1, Events
    <3>3. Increasing(Done(Answer(buffer[t])).text)
      BY <3>1 DEF Done
    <3> QED BY <1>4, <2>5, <3>2, <3>3 DEF SendDone
  <2>6. CASE RecordFailure(t)
    <3>1. Failed \in Event /\ Increasing(Failed.text)
      BY NoText, Events DEF Failed
    <3> QED BY <1>1, <1>4, <2>6, <3>1 DEF RecordFailure
  <2> QED BY <1>6, <2>1, <2>2, <2>3, <2>4, <2>5, <2>6 DEF Job
<1>7. ASSUME NEW t \in Turn, Row(t) PROVE TextsFit'
  <2>1. CASE UpdatePartial(t)
    <3>1. buffer[t] \in Nat
      BY DEF Types
    <3> QED BY <1>5, <2>1, <3>1, Texts1 DEF UpdatePartial
  <2>2. CASE Reap(t) \/ CancelMessage(t)
    BY <1>1, <2>2 DEF Reap, CancelMessage
  <2> QED BY <1>7, <2>1, <2>2 DEF Row
<1>8. CASE CancelFail \/ DeleteCancel \/ Crash \/ Restart
  BY <1>1, <1>8 DEF CancelFail, DeleteCancel, Crash, Restart
<1>9. CASE DeleteRows
  <2>1. \A t \in Turn : content'[t] = << >> /\ channel' = channel
    BY <1>9 DEF DeleteRows
  <2> QED BY <2>1, NoText DEF TextsFit
<1> QED BY <1>2, <1>3, <1>6, <1>7, <1>8, <1>9, ChatSplit

-----------------------------------------------------------------------------
(* What a step does to one turn, as those who follow it see it.            *)
Keeps(t) ==
    /\ Len(channel[t]) <= Len(channel[t])'
    /\ \A i \in DOMAIN channel[t] : channel'[t][i] = channel[t][i]

New(t) == {i \in DOMAIN channel'[t] : i > Len(channel[t])}

Onward(t) ==
    /\ Exists' => Exists /\ (status[t] # "none" => status'[t] # "none")
    /\ Exists' /\ status[t] = "complete" => status'[t] = "complete" /\ content'[t] = content[t]
    /\ task[t] \notin {"none", "posted"} => task'[t] \notin {"none", "posted"}
    /\ task'[t] = "run" => task[t] \in {"posted", "run"} /\ buffer[t] <= buffer'[t]
    /\ task[t] = "over" => task'[t] = "over" /\ New(t) = {}
    /\ Keeps(t)
    /\ \A i \in New(t) : channel'[t][i].kind = "delta" =>
          task[t] = "run" /\ channel'[t][i].n = buffer[t] + 1 /\ buffer'[t] = buffer[t] + 1

LEMMA QuietOnward ==
    ASSUME Types, NEW t \in Turn, channel'[t] = channel[t]
    PROVE  Keeps(t) /\ New(t) = {}
<1>1. channel[t] \in Seq(Event)
  BY DEF Types
<1>2. DOMAIN channel[t] = 1..Len(channel[t]) /\ Len(channel[t]) \in Nat
  BY <1>1
<1> QED BY <1>2 DEF Keeps, New

LEMMA SentOnward ==
    ASSUME Types, NEW t \in Turn, NEW e \in Event, Send(t, e)
    PROVE  /\ Keeps(t)
           /\ New(t) = {Len(channel[t]) + 1} /\ channel'[t][Len(channel[t]) + 1] = e
           /\ \A u \in Turn : u # t => Keeps(u) /\ New(u) = {}
<1>1. Keeps(t) /\ New(t) = {Len(channel[t]) + 1} /\ channel'[t][Len(channel[t]) + 1] = e
  BY Sent DEF Keeps, New
<1>2. ASSUME NEW u \in Turn, u # t PROVE Keeps(u) /\ New(u) = {}
  BY <1>2, Sent, QuietOnward
<1> QED BY <1>1, <1>2

LEMMA OnwardStep ==
    ASSUME Types, RowsTold, [Next]_vars
    PROVE  \A t \in Turn : Onward(t)
<1> USE DEF rows, job, bounds
<1> DEFINE Rest(t) ==
    /\ Exists' => Exists /\ (status[t] # "none" => status'[t] # "none")
    /\ Exists' /\ status[t] = "complete" => status'[t] = "complete" /\ content'[t] = content[t]
    /\ task[t] \notin {"none", "posted"} => task'[t] \notin {"none", "posted"}
    /\ task'[t] = "run" => task[t] \in {"posted", "run"} /\ buffer[t] <= buffer'[t]
    /\ task[t] = "over" => task'[t] = "over"
<1>1. ASSUME channel' = channel, \A t \in Turn : Rest(t) PROVE \A t \in Turn : Onward(t)
  BY <1>1, QuietOnward DEF Onward
<1>2. ASSUME NEW t \in Turn, NEW e \in Event, Send(t, e),
             task[t] # "over",
             e.kind = "delta" => task[t] = "run" /\ e.n = buffer[t] + 1 /\ buffer'[t] = buffer[t] + 1,
             \A u \in Turn : Rest(u)
      PROVE  \A u \in Turn : Onward(u)
  <2>1. Onward(t)
    BY <1>2, SentOnward DEF Onward
  <2>2. ASSUME NEW u \in Turn, u # t PROVE Onward(u)
    BY <1>2, <2>2, SentOnward DEF Onward
  <2> QED BY <2>1, <2>2
<1>3. CASE UNCHANGED <<deletion, rows, job>>
  <2>1. \A u \in Turn : Rest(u)
    BY <1>3 DEF Types, Exists
  <2> QED BY <1>1, <1>3, <2>1
<1>4. CASE UNCHANGED vars
  BY <1>3, <1>4 DEF vars
<1>5. ASSUME NEW r \in Reader, Page(r) PROVE \A t \in Turn : Onward(t)
  <2>1. UNCHANGED <<deletion, rows, job>>
    BY <1>5, PagesOnly
  <2> QED BY <1>3, <2>1
<1>6. ASSUME NEW t \in Turn, Job(t) PROVE \A u \in Turn : Onward(u)
  <2>0. buffer[t] \in Nat
    BY DEF Types
  <2>1. CASE StartTurn(t)
    <3>1. \A u \in Turn : Rest(u)
      BY <2>1 DEF StartTurn, Types, Exists, RowsTold, Told
    <3> QED BY <1>1, <2>1, <3>1 DEF StartTurn
  <2>2. CASE Register(t) \/ DropPost(t)
    <3>1. \A u \in Turn : Rest(u)
      BY <2>2 DEF Register, DropPost, Types, Exists
    <3> QED BY <1>1, <2>2, <3>1 DEF Register, DropPost
  <2>3. CASE Emit(t)
    <3>1. buffer[t] + 1 \in Nat
      BY <2>0
    <3>2. Delta(buffer[t] + 1) \in Event
      BY <3>1, NoText, Events
    <3>3. \A u \in Turn : Rest(u)
      BY <2>0, <2>3 DEF Emit, Types, Exists
    <3>4. buffer'[t] = buffer[t] + 1 /\ Delta(buffer[t] + 1).n = buffer[t] + 1
      BY <2>3 DEF Emit, Types, Delta
    <3> QED BY <1>2, <2>3, <3>2, <3>3, <3>4 DEF Emit
  <2>4. CASE ToolRound(t)
    <3>1. ToolEvent \in Event /\ ToolEvent.kind # "delta"
      BY NoText, Events DEF ToolEvent
    <3>2. \A u \in Turn : Rest(u)
      BY <2>4 DEF ToolRound, Types, Exists
    <3> QED BY <1>2, <2>4, <3>1, <3>2 DEF ToolRound
  <2>5. CASE FinishRead(t)
    <3>1. \A u \in Turn : Rest(u)
      BY <2>5 DEF FinishRead, Types, Exists
    <3> QED BY <1>1, <2>5, <3>1 DEF FinishRead
  <2>6. CASE FinishCommit(t)
    <3>1. Exists => status[t] # "complete"
      BY <2>6 DEF FinishCommit, RowsTold, Told
    <3>2. \A u \in Turn : Rest(u)
      BY <2>6, <3>1 DEF FinishCommit, Finished, Types, Exists
    <3> QED BY <1>1, <2>6, <3>2 DEF FinishCommit
  <2>7. CASE SendDone(t)
    <3>1. Answer(buffer[t]) \in Seq(Nat)
      BY <2>0, Answers
    <3>2. Done(Answer(buffer[t])) \in Event /\ Done(Answer(buffer[t])).kind # "delta"
      BY <3>1, Events DEF Done
    <3>3. \A u \in Turn : Rest(u)
      BY <2>7 DEF SendDone, Types, Exists
    <3> QED BY <1>2, <2>7, <3>2, <3>3 DEF SendDone
  <2>8. CASE JobEnds(t)
    <3>1. \A u \in Turn : Rest(u)
      BY <2>8 DEF JobEnds, Types, Exists
    <3> QED BY <1>1, <2>8, <3>1 DEF JobEnds
  <2>9. CASE RecordFailure(t)
    <3>1. Failed \in Event /\ Failed.kind # "delta"
      BY NoText, Events DEF Failed
    <3>2. \A u \in Turn : status'[u] = status[u] \/ (Generating(u) /\ status'[u] = "failed")
      BY <2>9, FailRowEffect DEF RecordFailure
    <3>3. \A u \in Turn : Rest(u)
      <4>1. ASSUME NEW u \in Turn
            PROVE  /\ status[u] # "none" => status'[u] # "none"
                   /\ status[u] = "complete" => status'[u] = "complete"
        BY <3>2, <4>1 DEF Generating, Active
      <4> QED BY <2>9, <4>1 DEF RecordFailure, Types, Exists
    <3> QED BY <1>1, <1>2, <2>9, <3>1, <3>3 DEF RecordFailure
  <2>10. CASE Unregister(t)
    <3>1. \A u \in Turn : Rest(u)
      BY <2>10 DEF Unregister, Types, Exists
    <3> QED BY <1>1, <2>10, <3>1 DEF Unregister
  <2> QED BY <1>6, <2>1, <2>2, <2>3, <2>4, <2>5, <2>6, <2>7, <2>8, <2>9, <2>10 DEF Job
<1>7. ASSUME \A u \in Turn : status'[u] = status[u] \/ (Generating(u) /\ status'[u] = "failed"),
             UNCHANGED <<content, task, channel, buffer, deletion>>
      PROVE  \A u \in Turn : Onward(u)
  <2>1. \A u \in Turn : Rest(u)
    <3>1. ASSUME NEW u \in Turn
          PROVE  /\ status[u] # "none" => status'[u] # "none"
                 /\ status[u] = "complete" => status'[u] = "complete"
      BY <1>7, <3>1 DEF Generating, Active
    <3> QED BY <1>7, <3>1 DEF Types, Exists
  <2> QED BY <1>1, <1>7, <2>1
<1>8. ASSUME NEW t \in Turn, Row(t) PROVE \A u \in Turn : Onward(u)
  <2>1. CASE UpdatePartial(t)
    <3>1. \A u \in Turn : Rest(u)
      BY <2>1 DEF UpdatePartial, Types, Exists, Generating, Active
    <3> QED BY <1>1, <2>1, <3>1 DEF UpdatePartial
  <2>2. CASE Reap(t)
    BY <1>7, <2>2, FailRowEffect DEF Reap
  <2>3. CASE CancelMessage(t)
    BY <1>7, <2>3 DEF CancelMessage
  <2> QED BY <1>8, <2>1, <2>2, <2>3 DEF Row
<1>9. CASE CancelFail
  <2>1. cancel \in Turn
    BY <1>9 DEF CancelFail, Types
  <2> QED BY <1>7, <1>9, <2>1, FailRowEffect DEF CancelFail
<1>10. CASE DeleteCancel \/ DeleteRows
  <2>1. \A u \in Turn : Rest(u)
    BY <1>10 DEF DeleteCancel, DeleteRows, Types, Exists
  <2> QED BY <1>1, <1>10, <2>1 DEF DeleteCancel, DeleteRows
<1>11. CASE Crash
  <2>1. \A u \in Turn : Rest(u)
    BY <1>11 DEF Crash, Types, Exists
  <2> QED BY <1>1, <1>11, <2>1 DEF Crash
<1>12. CASE Restart
  BY <1>7, <1>12 DEF Restart, Types
<1> QED BY <1>4, <1>5, <1>6, <1>8, <1>9, <1>10, <1>11, <1>12, ChatSplit

(* At most one event a step.                                               *)
LEMMA NewOne ==
    ASSUME Types, [Next]_vars, NEW t \in Turn
    PROVE  \A a, b \in New(t) : a = b
<1> USE DEF rows, job, bounds
<1>1. CASE channel'[t] = channel[t]
  BY <1>1, QuietOnward
<1>2. ASSUME NEW u \in Turn, NEW e \in Event, Send(u, e) PROVE \A a, b \in New(t) : a = b
  BY <1>2, SentOnward
<1>3. CASE UNCHANGED vars
  BY <1>1, <1>3 DEF vars
<1>4. ASSUME NEW r \in Reader, Page(r) PROVE channel'[t] = channel[t]
  BY <1>4, PagesOnly
<1>5. ASSUME NEW u \in Turn, Job(u) PROVE \A a, b \in New(t) : a = b
  <2>0. buffer[u] \in Nat /\ buffer[u] + 1 \in Nat
    BY DEF Types
  <2>1. CASE StartTurn(u) \/ Register(u) \/ DropPost(u) \/ FinishRead(u) \/ FinishCommit(u)
             \/ JobEnds(u) \/ Unregister(u)
    BY <1>1, <2>1 DEF StartTurn, Register, DropPost, FinishRead, FinishCommit, JobEnds, Unregister
  <2>2. CASE Emit(u)
    BY <1>2, <2>0, <2>2, NoText, Events DEF Emit
  <2>3. CASE ToolRound(u)
    BY <1>2, <2>3, NoText, Events DEF ToolRound
  <2>4. CASE SendDone(u)
    BY <1>2, <2>0, <2>4, Answers, Events DEF SendDone
  <2>5. CASE RecordFailure(u)
    BY <1>1, <1>2, <2>5, NoText, Events DEF RecordFailure
  <2> QED BY <1>5, <2>1, <2>2, <2>3, <2>4, <2>5 DEF Job
<1>6. ASSUME NEW u \in Turn, Row(u) PROVE channel'[t] = channel[t]
  BY <1>6 DEF Row, UpdatePartial, Reap, CancelMessage
<1>7. CASE CancelFail \/ DeleteCancel \/ DeleteRows \/ Crash \/ Restart
  BY <1>1, <1>7 DEF CancelFail, DeleteCancel, DeleteRows, Crash, Restart
<1> QED BY <1>1, <1>3, <1>4, <1>5, <1>6, <1>7, ChatSplit

(* Before a turn is registered, nothing is written or sent of it.          *)
LEMMA QuietBefore ==
    ASSUME Types, RowsTold, DeltasGrow, [Next]_vars, NEW t \in Turn, task'[t] \in {"none", "posted"}
    PROVE  content'[t] = << >> /\ channel'[t] = << >> /\ buffer'[t] = 0
<1> USE DEF rows, job, bounds
<1>1. task[t] \in {"none", "posted"}
  BY OnwardStep DEF Onward
<1>2. content[t] = << >> /\ channel[t] = << >> /\ buffer[t] = 0
  BY <1>1 DEF DeltasGrow, Grow
<1>3. CASE UNCHANGED <<content, channel, buffer>>
  BY <1>2, <1>3
<1>4. CASE UNCHANGED vars
  BY <1>3, <1>4 DEF vars
<1>5. ASSUME NEW r \in Reader, Page(r) PROVE UNCHANGED <<content, channel, buffer>>
  BY <1>5, PagesOnly
<1>6. ASSUME NEW u \in Turn, Job(u)
      PROVE  content'[t] = << >> /\ channel'[t] = << >> /\ buffer'[t] = 0
  <2>1. CASE StartTurn(u) \/ Register(u) \/ DropPost(u) \/ FinishRead(u) \/ JobEnds(u)
    BY <1>3, <2>1 DEF StartTurn, Register, DropPost, FinishRead, JobEnds
  <2>2. CASE Emit(u) \/ ToolRound(u) \/ FinishCommit(u) \/ SendDone(u) \/ RecordFailure(u)
             \/ Unregister(u)
    <3>1. u # t
      BY <1>1, <2>2 DEF Emit, ToolRound, FinishCommit, SendDone, RecordFailure, Unregister
    <3> QED BY <1>2, <2>2, <3>1 DEF Emit, ToolRound, FinishCommit, Finished, SendDone,
                 RecordFailure, Unregister, Send, Types
  <2> QED BY <1>6, <2>1, <2>2 DEF Job
<1>7. ASSUME NEW u \in Turn, Row(u)
      PROVE  content'[t] = << >> /\ channel'[t] = << >> /\ buffer'[t] = 0
  <2>1. CASE UpdatePartial(u)
    <3>1. u # t
      BY <1>2, <2>1, NoText DEF UpdatePartial
    <3> QED BY <1>2, <2>1, <3>1 DEF UpdatePartial, Types
  <2>2. CASE Reap(u) \/ CancelMessage(u)
    BY <1>3, <2>2 DEF Reap, CancelMessage
  <2> QED BY <1>7, <2>1, <2>2 DEF Row
<1>8. CASE CancelFail \/ DeleteCancel \/ Restart
  BY <1>3, <1>8 DEF CancelFail, DeleteCancel, Restart
<1>9. CASE DeleteRows \/ Crash
  BY <1>2, <1>9 DEF DeleteRows, Crash
<1> QED BY <1>3, <1>4, <1>5, <1>6, <1>7, <1>8, <1>9, ChatSplit

(* While a job generates, its row's text is of what it has.                *)
LEMMA SavedOfBuffer ==
    ASSUME Types, RowsTold, DeltasGrow, [Next]_vars, NEW t \in Turn, task'[t] = "run"
    PROVE  Len(content[t])' <= buffer'[t]
<1> USE DEF rows, job, bounds
<1>1. task[t] \in {"posted", "run"} /\ buffer[t] <= buffer'[t]
  BY OnwardStep DEF Onward
<1>2. buffer[t] \in Nat /\ buffer'[t] \in Nat /\ Len(content[t]) \in Nat
  BY TypesStep DEF Types
<1>3. Len(content[t]) <= buffer[t]
  BY <1>1, <1>2, NoText DEF DeltasGrow, Grow
<1>4. CASE content'[t] = content[t]
  BY <1>1, <1>2, <1>3, <1>4
<1>5. CASE UNCHANGED vars
  BY <1>4, <1>5 DEF vars
<1>6. ASSUME NEW r \in Reader, Page(r) PROVE content'[t] = content[t]
  BY <1>6, PagesOnly
<1>7. ASSUME NEW u \in Turn, Job(u) PROVE content'[t] = content[t]
  <2>1. CASE FinishCommit(u)
    <3>1. u # t
      BY <1>1, <2>1 DEF FinishCommit
    <3> QED BY <2>1, <3>1 DEF FinishCommit, Finished, Types
  <2>2. CASE StartTurn(u) \/ Register(u) \/ DropPost(u) \/ Emit(u) \/ ToolRound(u)
             \/ FinishRead(u) \/ SendDone(u) \/ JobEnds(u) \/ RecordFailure(u) \/ Unregister(u)
    BY <2>2 DEF StartTurn, Register, DropPost, Emit, ToolRound, FinishRead, SendDone, JobEnds,
                RecordFailure, Unregister
  <2> QED BY <1>7, <2>1, <2>2 DEF Job
<1>8. ASSUME NEW u \in Turn, Row(u) PROVE Len(content[t])' <= buffer'[t]
  <2>1. CASE UpdatePartial(u)
    <3>1. CASE u = t
      BY <1>2, <2>1, <3>1, Texts1 DEF UpdatePartial, Types
    <3>2. CASE u # t
      BY <1>4, <2>1, <3>2 DEF UpdatePartial, Types
    <3> QED BY <3>1, <3>2
  <2>2. CASE Reap(u) \/ CancelMessage(u)
    BY <1>4, <2>2 DEF Reap, CancelMessage
  <2> QED BY <1>8, <2>1, <2>2 DEF Row
<1>9. CASE CancelFail \/ DeleteCancel \/ Crash \/ Restart
  BY <1>4, <1>9 DEF CancelFail, DeleteCancel, Crash, Restart
<1>10. CASE DeleteRows
  BY <1>2, <1>10, NoText DEF DeleteRows
<1> QED BY <1>4, <1>5, <1>6, <1>7, <1>8, <1>9, <1>10, ChatSplit

-----------------------------------------------------------------------------
(* Fragments only grow along a channel, up to what the job has.            *)
LEMMA GrowStep == ASSUME Types, RowsTold, DeltasGrow, [Next]_vars PROVE DeltasGrow'
<1> USE DEF rows, job, bounds
<1> SUFFICES ASSUME NEW t \in Turn PROVE Grow(t)'
  BY DEF DeltasGrow
<1>1. Onward(t) /\ Grow(t)
  BY OnwardStep DEF DeltasGrow
<1>2. channel[t] \in Seq(Event) /\ channel'[t] \in Seq(Event)
      /\ buffer[t] \in Nat /\ buffer'[t] \in Nat
  BY TypesStep DEF Types
<1>3. /\ DOMAIN channel[t] = 1..Len(channel[t]) /\ DOMAIN channel'[t] = 1..Len(channel[t])'
      /\ Len(channel[t]) \in Nat /\ Len(channel[t])' \in Nat
      /\ \A i \in DOMAIN channel[t] : channel[t][i].n \in Nat
      /\ \A i \in DOMAIN channel'[t] : channel'[t][i].n \in Nat
  <2>1. ASSUME NEW s \in Seq(Event)
        PROVE  DOMAIN s = 1..Len(s) /\ Len(s) \in Nat /\ \A i \in DOMAIN s : s[i].n \in Nat
    <3>1. DOMAIN s = 1..Len(s) /\ Len(s) \in Nat /\ \A i \in DOMAIN s : s[i] \in Event
      OBVIOUS
    <3> QED BY <3>1 DEF Event
  <2> QED BY <1>2, <2>1
<1>4. ASSUME NEW i \in DOMAIN channel'[t], channel'[t][i].kind = "delta"
      PROVE  \/ i \in EventIn(t, "delta") /\ channel'[t][i] = channel[t][i]
             \/ i \in New(t) /\ task[t] = "run" /\ channel'[t][i].n = buffer[t] + 1
                /\ buffer'[t] = buffer[t] + 1
  <2>1. CASE i \in DOMAIN channel[t]
    BY <1>1, <1>4, <2>1 DEF Onward, Keeps, EventIn
  <2>2. CASE i \notin DOMAIN channel[t]
    <3>1. i \in New(t)
      BY <1>3, <2>2 DEF New
    <3> QED BY <1>1, <1>4, <3>1 DEF Onward
  <2> QED BY <2>1, <2>2
(* Two fragments: both were there, or the later is new and the last.       *)
<1>5. ASSUME NEW i \in EventIn(t, "delta")', NEW j \in EventIn(t, "delta")', i < j
      PROVE  channel'[t][i].n < channel'[t][j].n
  <2>0. /\ i \in DOMAIN channel'[t] /\ channel'[t][i].kind = "delta"
        /\ j \in DOMAIN channel'[t] /\ channel'[t][j].kind = "delta"
    BY DEF EventIn
  <2>1. CASE j \in EventIn(t, "delta") /\ channel'[t][j] = channel[t][j]
    <3>1. i \notin New(t)
      BY <1>3, <1>5, <2>0, <2>1 DEF New, EventIn
    <3>2. i \in EventIn(t, "delta") /\ channel'[t][i] = channel[t][i]
      BY <1>4, <2>0, <3>1
    <3> QED BY <1>1, <1>5, <2>1, <3>2 DEF Grow
  <2>2. CASE j \in New(t) /\ task[t] = "run" /\ channel'[t][j].n = buffer[t] + 1
    <3>1. CASE i \in EventIn(t, "delta") /\ channel'[t][i] = channel[t][i]
      <4>1. channel[t][i].n <= buffer[t]
        BY <1>1, <2>2, <3>1 DEF Grow
      <4>2. channel'[t][i].n \in Nat
        BY <1>3, <2>0
      <4> QED BY <1>2, <2>2, <3>1, <4>1, <4>2
    <3>2. CASE i \in New(t)
      <4>1. \A a, b \in New(t) : a = b
        BY TypesStep, NewOne
      <4> QED BY <1>3, <1>5, <2>0, <2>2, <3>2, <4>1 DEF New
    <3> QED BY <1>4, <2>0, <3>1, <3>2
  <2> QED BY <1>4, <2>0, <2>1, <2>2
<1>6. ASSUME task'[t] \in {"none", "posted"}
      PROVE  content'[t] = << >> /\ channel'[t] = << >> /\ buffer'[t] = 0
  BY <1>6, QuietBefore, <1>1 DEF Grow
<1>7. ASSUME task'[t] = "run"
      PROVE  /\ Len(content[t])' <= buffer'[t]
             /\ \A i \in EventIn(t, "delta")' : channel'[t][i].n <= buffer'[t]
  <2>1. buffer[t] <= buffer'[t] /\ task[t] \in {"posted", "run"}
    BY <1>1, <1>7 DEF Onward
  <2>2. ASSUME NEW i \in EventIn(t, "delta")' PROVE channel'[t][i].n <= buffer'[t]
    <3>0. i \in DOMAIN channel'[t] /\ channel'[t][i].kind = "delta" /\ channel'[t][i].n \in Nat
      BY <1>3 DEF EventIn
    <3>1. CASE i \in EventIn(t, "delta") /\ channel'[t][i] = channel[t][i]
      <4>1. task[t] # "posted"
        BY <1>1, <1>3, <3>1, NoText DEF Grow, EventIn
      <4>2. channel[t][i].n <= buffer[t]
        BY <1>1, <2>1, <3>1, <4>1 DEF Grow
      <4> QED BY <1>2, <2>1, <3>0, <3>1, <4>2
    <3> QED BY <1>2, <1>4, <3>0, <3>1
  <2>3. Len(content[t])' <= buffer'[t]
    BY <1>1, <1>7, SavedOfBuffer DEF Grow
  <2> QED BY <2>2, <2>3
<1> QED BY <1>5, <1>6, <1>7 DEF Grow

-----------------------------------------------------------------------------
(* Of a turn whose row, job and events a step leaves alone.                *)
LEMMA SameTold ==
    ASSUME NEW t \in Turn, Told(t), status'[t] = status[t], content'[t] = content[t],
           task'[t] = task[t], buffer'[t] = buffer[t], channel'[t] = channel[t]
    PROVE  Told(t)'
BY DEF Told, EventIn

(* Of a turn of which no 'done' and no 'error' is sent in the step.        *)
LEMMA QuietEvents ==
    ASSUME Types, NEW t \in Turn, channel'[t] = channel[t]
    PROVE  EventIn(t, "done")' = EventIn(t, "done") /\ EventIn(t, "failed")' = EventIn(t, "failed")
BY DEF EventIn

(* Of the turn an event is sent of.                                        *)
LEMMA SentEvents ==
    ASSUME Types, NEW t \in Turn, NEW e \in Event, Send(t, e), NEW kind
    PROVE  EventIn(t, kind)' = IF e.kind = kind THEN EventIn(t, kind) \union {Len(channel[t]) + 1}
                                                ELSE EventIn(t, kind)
<1>1. ASSUME NEW i
      PROVE  i \in EventIn(t, kind)' <=> i \in EventIn(t, kind) \/ (e.kind = kind /\ i = Len(channel[t]) + 1)
  <2>1. DOMAIN channel'[t] = DOMAIN channel[t] \union {Len(channel[t]) + 1}
    BY Sent
  <2>2. Len(channel[t]) + 1 \notin DOMAIN channel[t]
    BY Sent
  <2>3. \A j \in DOMAIN channel[t] : channel'[t][j] = channel[t][j]
    BY Sent
  <2>4. channel'[t][Len(channel[t]) + 1] = e
    BY Sent
  <2> QED BY <2>1, <2>2, <2>3, <2>4 DEF EventIn
<1> QED BY <1>1

LEMMA ToldStep == ASSUME Types, RowsTold, [Next]_vars PROVE RowsTold'
<1> USE DEF rows, job, bounds
<1> SUFFICES ASSUME Exists' PROVE \A t \in Turn : Told(t)'
  BY DEF RowsTold
<1>1. CASE Turn = {}
  BY <1>1
<1>2. ASSUME NEW t \in Turn PROVE Exists
  BY OnwardStep DEF Onward
<1> SUFFICES ASSUME Exists, \A t \in Turn : Told(t) PROVE \A t \in Turn : Told(t)'
  BY <1>1, <1>2 DEF RowsTold
<1>3. CASE UNCHANGED <<status, content, task, buffer, channel>>
  BY <1>3, SameTold
<1>4. CASE UNCHANGED vars
  BY <1>3, <1>4 DEF vars
<1>5. ASSUME NEW r \in Reader, Page(r) PROVE \A t \in Turn : Told(t)'
  BY <1>3, <1>5, PagesOnly
<1>6. ASSUME NEW t \in Turn, Job(t) PROVE \A u \in Turn : Told(u)'
  <2>1. ASSUME NEW u \in Turn, u # t
        PROVE  /\ status'[u] = status[u] /\ content'[u] = content[u] /\ task'[u] = task[u]
               /\ buffer'[u] = buffer[u] /\ channel'[u] = channel[u]
    BY <1>6, <2>1 DEF Job, StartTurn, Register, DropPost, Emit, ToolRound, FinishRead,
         FinishCommit, Finished, SendDone, JobEnds, RecordFailure, FailRow, Unregister, Send, Types
  <2> SUFFICES Told(t)'
    BY <2>1, SameTold
  <2>2. buffer[t] \in Nat /\ buffer[t] + 1 \in Nat
    BY DEF Types
  <2>3. CASE StartTurn(t) \/ Register(t) \/ DropPost(t) \/ FinishRead(t) \/ JobEnds(t)
    <3>1. EventIn(t, "done")' = EventIn(t, "done") /\ EventIn(t, "failed")' = EventIn(t, "failed")
          /\ channel'[t] = channel[t]
      BY <2>3, QuietEvents DEF StartTurn, Register, DropPost, FinishRead, JobEnds
    <3>2. CASE StartTurn(t)
      <4>1. EventIn(t, "done") = {} /\ EventIn(t, "failed") = {}
        BY <3>2 DEF StartTurn, Told
      <4> QED BY <3>1, <3>2, <4>1 DEF StartTurn, Told, Types
    <3>3. CASE Register(t)
      <4>1. EventIn(t, "done") = {} /\ EventIn(t, "failed") = {}
            /\ status[t] \notin {"none", "complete"}
        BY <3>3 DEF Register, Told
      <4>2. status' = status /\ task'[t] = "run"
        BY <3>3 DEF Register, Types
      <4> QED BY <3>1, <4>1, <4>2 DEF Told
    <3>4. CASE DropPost(t)
      BY <3>1, <3>4 DEF DropPost, Told, Types
    <3>5. CASE FinishRead(t)
      <4>1. EventIn(t, "done") = {} /\ EventIn(t, "failed") = {}
        BY <3>5 DEF FinishRead, Told
      <4>2. status' = status /\ task'[t] \in {"finish", "closing"}
            /\ (status[t] = "complete" => task'[t] = "closing")
        BY <3>5 DEF FinishRead, Types, Generating, Active
      <4>3. status[t] # "none"
        BY <3>5 DEF FinishRead, Told
      <4> QED BY <3>1, <4>1, <4>2, <4>3 DEF Told
    <3>6. CASE JobEnds(t)
      <4>1. EventIn(t, "done") = {} /\ EventIn(t, "failed") = {}
        BY <3>6 DEF JobEnds, Told
      <4>2. status' = status /\ task'[t] = "failing"
        BY <3>6 DEF JobEnds, Types
      <4>3. status[t] # "none"
        BY <3>6 DEF JobEnds, Told
      <4> QED BY <3>1, <4>1, <4>2, <4>3 DEF Told
    <3> QED BY <2>3, <3>2, <3>3, <3>4, <3>5, <3>6
  <2>4. CASE Unregister(t)
    <3>1. EventIn(t, "done")' = EventIn(t, "done") /\ EventIn(t, "failed")' = EventIn(t, "failed")
          /\ channel'[t] = channel[t]
      BY <2>4, QuietEvents DEF Unregister
    <3> QED BY <2>4, <3>1 DEF Unregister, Told, Types
  <2>5. CASE FinishCommit(t)
    <3>1. EventIn(t, "done")' = EventIn(t, "done") /\ EventIn(t, "failed")' = EventIn(t, "failed")
      BY <2>5, QuietEvents DEF FinishCommit
    <3>2. EventIn(t, "done") = {} /\ EventIn(t, "failed") = {}
      BY <2>5 DEF FinishCommit, Told
    <3>3. status'[t] = "complete" /\ task'[t] = "saved" /\ content'[t] = Answer(buffer[t])
          /\ buffer'[t] = buffer[t]
      BY <2>5 DEF FinishCommit, Finished, Types
    <3>4. Answer(buffer[t])' = Answer(buffer'[t])
      BY DEF Answer, Text
    <3> QED BY <3>1, <3>2, <3>3, <3>4 DEF Told
  <2>6. CASE Emit(t) \/ ToolRound(t)
    <3>1. task[t] = "run" /\ task'[t] = "run" /\ status'[t] = status[t]
      BY <2>6 DEF Emit, ToolRound
    <3>2. EventIn(t, "done") = {} /\ EventIn(t, "failed") = {}
      BY <3>1 DEF Told
    <3>3. EventIn(t, "done")' = {} /\ EventIn(t, "failed")' = {}
      <4>1. CASE Emit(t)
        <5>1. Delta(buffer[t] + 1) \in Event /\ Delta(buffer[t] + 1).kind = "delta"
          BY <2>2, NoText, Events DEF Delta
        <5> QED BY <3>2, <4>1, <5>1, SentEvents DEF Emit
      <4>2. CASE ToolRound(t)
        <5>1. ToolEvent \in Event /\ ToolEvent.kind = "tool"
          BY NoText, Events DEF ToolEvent
        <5> QED BY <3>2, <4>2, <5>1, SentEvents DEF ToolRound
      <4> QED BY <2>6, <4>1, <4>2
    <3> QED BY <3>1, <3>3 DEF Told
  <2>7. CASE SendDone(t)
    <3> DEFINE e == Done(Answer(buffer[t]))
               n == Len(channel[t]) + 1
    <3>1. Answer(buffer[t]) \in Seq(Nat)
      BY <2>2, Answers
    <3>2. e \in Event /\ e.kind = "done" /\ e.text = Answer(buffer[t])
      BY <3>1, Events DEF Done
    <3> HIDE DEF e
    <3>3. Send(t, e)
      BY <2>7 DEF SendDone, e
    <3>4. EventIn(t, "done") = {} /\ EventIn(t, "failed") = {}
      BY <2>7 DEF SendDone, Told
    <3>5. EventIn(t, "done")' = {n} /\ EventIn(t, "failed")' = {} /\ channel'[t][n] = e
      BY <3>2, <3>3, <3>4, SentEvents, Sent
    <3>6. status'[t] = "complete" /\ content'[t] = Answer(buffer[t]) /\ task'[t] = "closing"
      BY <2>7 DEF SendDone, Told, Types
    <3> HIDE DEF n
    <3> QED BY <3>2, <3>5, <3>6 DEF Told
  <2>8. CASE RecordFailure(t)
    <3>1. task'[t] = "closing" /\ task[t] = "failing" /\ content'[t] = content[t]
      BY <2>8 DEF RecordFailure, Types
    <3>2. EventIn(t, "done") = {} /\ EventIn(t, "failed") = {}
      BY <3>1 DEF Told
    <3>3. CASE FailRow(t) /\ Generating(t) /\ Send(t, Failed)
      <4>1. status'[t] = "failed"
        BY <3>3 DEF FailRow, Types
      <4>2. Failed \in Event /\ Failed.kind = "failed"
        BY NoText, Events DEF Failed
      <4>3. EventIn(t, "done")' = {}
        BY <3>2, <3>3, <4>2, SentEvents
      <4> QED BY <3>1, <4>1, <4>3 DEF Told
    <3>4. CASE ~ (FailRow(t) /\ Generating(t) /\ Send(t, Failed))
      <4>1. status'[t] = status[t] /\ channel' = channel
        BY <2>8, <3>4 DEF RecordFailure, FailRow
      <4>2. EventIn(t, "done")' = {} /\ EventIn(t, "failed")' = {}
        BY <3>2, <4>1, QuietEvents
      <4> QED BY <3>1, <4>1, <4>2 DEF Told
    <3> QED BY <3>3, <3>4
  <2> QED BY <1>6, <2>3, <2>4, <2>5, <2>6, <2>7, <2>8 DEF Job
(* A row that still generates: no event tells how it ended.                *)
<1>7. ASSUME NEW t \in Turn, Generating(t) \/ status'[t] = status[t],
             status'[t] \in {status[t], "running", "failed"},
             content'[t] = content[t] \/ Generating(t),
             UNCHANGED <<task, buffer, channel>>
      PROVE  Told(t)'
  <2>1. EventIn(t, "done")' = EventIn(t, "done") /\ EventIn(t, "failed")' = EventIn(t, "failed")
    BY <1>7, QuietEvents
  <2>2. CASE Generating(t)
    <3>1. EventIn(t, "done") = {} /\ EventIn(t, "failed") = {} /\ task[t] # "saved"
          /\ status[t] \notin {"none", "complete", "failed"}
      BY <2>2 DEF Told, Generating, Active
    <3> QED BY <1>7, <2>1, <3>1 DEF Told
  <2>3. CASE ~ Generating(t)
    BY <1>7, <2>3, SameTold
  <2> QED BY <2>2, <2>3
<1>8. ASSUME NEW t \in Turn, Row(t) PROVE \A u \in Turn : Told(u)'
  <2>1. CASE UpdatePartial(t)
    <3>1. ASSUME NEW u \in Turn PROVE Told(u)'
      <4>1. /\ Generating(u) \/ status'[u] = status[u]
            /\ status'[u] \in {status[u], "running", "failed"}
            /\ content'[u] = content[u] \/ Generating(u)
        BY <2>1 DEF UpdatePartial, Types
      <4> QED BY <1>7, <2>1, <4>1 DEF UpdatePartial
    <3> QED BY <3>1
  <2>2. CASE Reap(t) \/ CancelMessage(t)
    <3>1. \A u \in Turn : status'[u] = status[u] \/ (Generating(u) /\ status'[u] = "failed")
      BY <2>2, FailRowEffect DEF Reap, CancelMessage
    <3> QED BY <1>7, <2>2, <3>1 DEF Reap, CancelMessage
  <2> QED BY <1>8, <2>1, <2>2 DEF Row
<1>9. CASE CancelFail
  <2>1. cancel \in Turn
    BY <1>9 DEF CancelFail, Types
  <2>2. \A u \in Turn : status'[u] = status[u] \/ (Generating(u) /\ status'[u] = "failed")
    BY <1>9, <2>1, FailRowEffect DEF CancelFail
  <2> QED BY <1>7, <1>9, <2>2 DEF CancelFail
<1>10. CASE DeleteCancel \/ DeleteRows
  <2>1. ~ DeleteRows
    BY DEF DeleteRows, Exists
  <2> QED BY <1>3, <1>10, <2>1 DEF DeleteCancel
<1>11. CASE Crash
  <2>1. ASSUME NEW t \in Turn PROVE Told(t)'
    <3>1. EventIn(t, "done")' = EventIn(t, "done") /\ EventIn(t, "failed")' = EventIn(t, "failed")
          /\ status'[t] = status[t] /\ content'[t] = content[t] /\ channel'[t] = channel[t]
          /\ task'[t] = IF task[t] = "none" THEN "none" ELSE "over"
      BY <1>11, QuietEvents DEF Crash
    <3> QED BY <3>1 DEF Told
  <2> QED BY <2>1
<1>12. CASE Restart
  <2>1. ASSUME NEW t \in Turn PROVE Told(t)'
    <3>1. Generating(t) \/ status'[t] = status[t]
      BY <1>12 DEF Restart
    <3>2. status'[t] \in {status[t], "running", "failed"}
      BY <1>12 DEF Restart
    <3> QED BY <1>7, <1>12, <3>1, <3>2 DEF Restart
  <2> QED BY <2>1
<1> QED BY <1>4, <1>5, <1>6, <1>8, <1>9, <1>10, <1>11, <1>12, ChatSplit

-----------------------------------------------------------------------------
(* What a page has of the turn it follows.                                 *)
State ==
    [pc : {"idle", "read", "stream", "broken", "ended"}, turn : Nat, rx : BOOLEAN,
     pos : Nat, already : Nat, text : Seq(Nat),
     end : {"none", "done", "failed", "stale", "lost"}]

PageTypes == reader \in [Reader -> State]

(* A fragment it is yet to take is after all it shows; so is what the job  *)
(* is yet to send.                                                         *)
Streams(p) ==
    /\ p.rx
    /\ p.pos <= Len(channel[p.turn])
    /\ \A j \in EventIn(p.turn, "delta") :
          j > p.pos /\ channel[p.turn][j].n > p.already =>
             \A i \in DOMAIN p.text : p.text[i] < channel[p.turn][j].n
    /\ task[p.turn] = "run" => \A i \in DOMAIN p.text : p.text[i] <= buffer[p.turn]
    /\ Exists => \A j \in EventIn(p.turn, "done") : j > p.pos

(* It was told that the answer is done: by the row or a 'done', or because *)
(* the channel closed without one.                                         *)
ToldDone(p) ==
    \/ status[p.turn] = "complete" /\ p.text = content[p.turn]
    \/ task[p.turn] = "over" /\ EventIn(p.turn, "done") = {}

Follows(p) ==
    /\ Increasing(p.text)
    /\ p.pc = "idle" => ~ p.rx
    /\ p.pc # "ended" => p.end = "none"
    /\ p.turn \in Turn
    /\ p.pc # "idle" /\ Exists => status[p.turn] # "none"
    /\ p.rx => task[p.turn] \notin {"none", "posted"}
    /\ p.pc = "read" => p.pos <= Len(channel[p.turn])
    /\ p.pc = "stream" => Streams(p)
    /\ Exists /\ p.end = "done" /\ p.rx => ToldDone(p)

Following == \A r \in Reader : Follows(reader[r])

(* What the others do leaves a page that follows a turn where it was.      *)
LEMMA FollowsOn ==
    ASSUME Types, Types', DeltasGrow,
           NEW p, p.turn \in Nat, p.pos \in Nat, p.already \in Nat, p.text \in Seq(Nat),
           p.rx \in BOOLEAN,
           Follows(p), \A t \in Turn : Onward(t)
    PROVE  Follows(p)'
<1> DEFINE t == p.turn
<1>0. CASE p.pc = "idle"
  BY <1>0 DEF Follows
<1> SUFFICES ASSUME p.pc # "idle" PROVE Follows(p)'
  BY <1>0
<1>1. t \in Turn /\ Onward(t)
  BY DEF Follows
<1>2. channel[t] \in Seq(Event) /\ channel'[t] \in Seq(Event) /\ buffer[t] \in Nat /\ buffer'[t] \in Nat
  BY <1>1 DEF Types
<1>3. /\ DOMAIN channel[t] = 1..Len(channel[t]) /\ DOMAIN channel'[t] = 1..Len(channel'[t])
      /\ Len(channel[t]) \in Nat /\ Len(channel'[t]) \in Nat
  BY <1>2
<1>4. Len(channel[t]) <= Len(channel'[t])
      /\ \A i \in DOMAIN channel[t] : channel'[t][i] = channel[t][i]
  BY <1>1 DEF Onward, Keeps
<1>5. ASSUME NEW kind, NEW j \in EventIn(t, kind)', j \notin EventIn(t, kind)
      PROVE  j \in New(t) /\ j > Len(channel[t])
  <2>1. j \in DOMAIN channel'[t] /\ channel'[t][j].kind = kind
    BY DEF EventIn
  <2>2. j \notin DOMAIN channel[t]
    BY <1>4, <1>5, <2>1 DEF EventIn
  <2> QED BY <1>3, <2>1, <2>2 DEF New
<1>6. ASSUME NEW kind, NEW j \in EventIn(t, kind)
      PROVE  channel'[t][j] = channel[t][j]
  BY <1>4, <1>6 DEF EventIn
<1>7. ASSUME p.pc = "stream" PROVE Streams(p)'
  <2>1. Streams(p) /\ p.rx /\ task[t] \notin {"none", "posted"}
    BY <1>7 DEF Follows, Streams
  <2>2. p.pos <= Len(channel'[t])
    BY <1>3, <1>4, <2>1 DEF Streams
  <2>3. DOMAIN p.text = 1..Len(p.text) /\ \A i \in DOMAIN p.text : p.text[i] \in Nat
    OBVIOUS
  <2>4. ASSUME task[t] = "run", NEW i \in DOMAIN p.text PROVE p.text[i] <= buffer[t]
    BY <2>1, <2>4 DEF Streams
  <2>5. ASSUME NEW j \in EventIn(t, "delta")', j > p.pos, channel'[t][j].n > p.already,
               NEW i \in DOMAIN p.text
        PROVE  p.text[i] < channel'[t][j].n
    <3>1. CASE j \in EventIn(t, "delta")
      <4>1. channel'[t][j] = channel[t][j]
        BY <1>6, <3>1
      <4> QED BY <2>1, <2>5, <3>1, <4>1 DEF Streams
    <3>2. CASE j \notin EventIn(t, "delta")
      <4>1. j \in New(t)
        BY <1>5, <3>2
      <4>2. channel'[t][j].kind = "delta"
        BY DEF EventIn
      <4>3. task[t] = "run" /\ channel'[t][j].n = buffer[t] + 1
        BY <1>1, <4>1, <4>2 DEF Onward
      <4>4. p.text[i] <= buffer[t] /\ p.text[i] \in Nat
        BY <2>3, <2>4, <4>3
      <4> QED BY <1>2, <4>3, <4>4
    <3> QED BY <3>1, <3>2
  <2>6. ASSUME task'[t] = "run", NEW i \in DOMAIN p.text PROVE p.text[i] <= buffer'[t]
    <3>1. task[t] = "run" /\ buffer[t] <= buffer'[t]
      BY <1>1, <2>1, <2>6 DEF Onward
    <3>2. p.text[i] <= buffer[t] /\ p.text[i] \in Nat
      BY <2>3, <2>4, <3>1
    <3> QED BY <1>2, <3>1, <3>2
  <2>7. ASSUME Exists', NEW j \in EventIn(t, "done")' PROVE j > p.pos
    <3>1. CASE j \in EventIn(t, "done")
      <4>1. Exists
        BY <1>1, <2>7 DEF Onward
      <4> QED BY <2>1, <3>1, <4>1 DEF Streams
    <3>2. CASE j \notin EventIn(t, "done")
      <4>1. j > Len(channel[t]) /\ j \in Nat
        BY <1>3, <1>5, <3>2 DEF EventIn
      <4> QED BY <1>3, <2>1, <4>1 DEF Streams
    <3> QED BY <3>1, <3>2
  <2> QED BY <2>1, <2>2, <2>5, <2>6, <2>7 DEF Streams
<1>8. ASSUME Exists', p.end = "done", p.rx PROVE ToldDone(p)'
  <2>1. Exists
    BY <1>1, <1>8 DEF Onward
  <2>2. ToldDone(p)
    BY <1>8, <2>1 DEF Follows
  <2>3. CASE status[t] = "complete" /\ p.text = content[t]
    BY <1>1, <1>8, <2>3 DEF Onward, ToldDone
  <2>4. CASE task[t] = "over" /\ EventIn(t, "done") = {}
    <3>1. task'[t] = "over" /\ New(t) = {}
      BY <1>1, <2>4 DEF Onward
    <3>2. EventIn(t, "done")' = {}
      BY <1>5, <2>4, <3>1
    <3> QED BY <3>1, <3>2 DEF ToldDone
  <2> QED BY <2>2, <2>3, <2>4 DEF ToldDone
<1>9. Exists' => status'[t] # "none"
  BY <1>1 DEF Follows, Onward
<1>10. p.rx => task'[t] \notin {"none", "posted"}
  BY <1>1 DEF Follows, Onward
<1>11. p.pc = "read" => p.pos <= Len(channel'[t])
  BY <1>3, <1>4 DEF Follows
<1>12. Increasing(p.text)
  BY DEF Follows
<1>13. /\ p.pc # "ended" => p.end = "none"
       /\ p.turn \in Turn
  BY DEF Follows
<1> QED BY <1>7, <1>8, <1>9, <1>10, <1>11, <1>12, <1>13 DEF Follows

-----------------------------------------------------------------------------
(* The steps of a page, which change nothing else.                         *)
LEMMA OnePage ==
    ASSUME PageTypes, Following, NEW r \in Reader, NEW q \in State,
           reader' = [reader EXCEPT ![r] = q], Follows(q),
           UNCHANGED <<deletion, rows, job>>
    PROVE  PageTypes' /\ Following'
<1> USE DEF rows, job
<1>1. PageTypes'
  BY DEF PageTypes
<1>2. ASSUME NEW p, Follows(p) PROVE Follows(p)'
  <2>1. \A t, kind : EventIn(t, kind)' = EventIn(t, kind)
    BY DEF EventIn
  <2>2. Exists' = Exists
    BY DEF Exists
  <2> QED BY <1>2, <2>1, <2>2 DEF Follows, Streams, ToldDone
<1>3. ASSUME NEW u \in Reader PROVE Follows(reader[u])'
  <2>1. PICK p : p = reader'[u]
    OBVIOUS
  <2>2. Follows(p)
    BY <2>1 DEF PageTypes, Following
  <2> QED BY <1>2, <2>1, <2>2 DEF Follows, Streams, ToldDone
<1> QED BY <1>1, <1>3 DEF Following

LEMMA Ends ==
    ASSUME NEW p \in State, NEW end \in {"none", "done", "failed", "stale", "lost"},
           Increasing(p.text), p.turn \in Turn, Exists => status[p.turn] # "none",
           p.rx => task[p.turn] \notin {"none", "posted"},
           Exists /\ end = "done" /\ p.rx => ToldDone(p)
    PROVE  Ended(p, end) \in State /\ Follows(Ended(p, end))
<1>1. PICK q : q = Ended(p, end)
  OBVIOUS
<1>2. q \in State /\ q.pc = "ended" /\ q.end = end /\ q.text = p.text /\ q.turn = p.turn
      /\ q.rx = p.rx
  BY <1>1 DEF Ended, State
<1>3. ToldDone(p) => ToldDone(q)
  BY <1>2 DEF ToldDone
<1>4. Follows(q)
  BY <1>2, <1>3 DEF Follows
<1> QED BY <1>1, <1>2, <1>4

LEMMA SubscribedFollows ==
    ASSUME Types, HubFits, RowsTold, PageTypes, Following,
           NEW r \in Reader, NEW t \in Turn, Subscribed(r, t), Exists => status[t] # "none",
           UNCHANGED <<deletion, rows, job>>
    PROVE  PageTypes' /\ Following'
<1>1. PICK q : q = [reader[r] EXCEPT !.pc = "read", !.turn = t, !.end = "none",
                                     !.rx = t \in hub, !.pos = Len(channel[t])]
  OBVIOUS
<1>2. reader[r] \in State /\ Follows(reader[r])
  BY DEF PageTypes, Following
<1>3. Len(channel[t]) \in Nat /\ t \in Nat
  BY DEF Types, Turn
<1>4. PICK b \in BOOLEAN : b = (t \in hub)
  <2>1. CASE t \in hub
    <3>1. (t \in hub) = TRUE
      BY <2>1
    <3> QED BY <3>1
  <2>2. CASE t \notin hub
    <3>1. (t \in hub) = FALSE
      BY <2>2
    <3> QED BY <3>1
  <2> QED BY <2>1, <2>2
<1>5. q = [reader[r] EXCEPT !.pc = "read", !.turn = t, !.end = "none",
                            !.rx = b, !.pos = Len(channel[t])]
  BY <1>1, <1>4
<1>6. q \in State /\ q.pc = "read" /\ q.turn = t /\ q.end = "none" /\ q.rx = b
      /\ q.pos = Len(channel[t]) /\ q.text = reader[r].text
  BY <1>2, <1>3, <1>4, <1>5 DEF State
<1>7. reader' = [reader EXCEPT ![r] = q]
  BY <1>1 DEF Subscribed, PageTypes
<1>8. Follows(q)
  <2>1. Increasing(q.text)
    BY <1>2, <1>6 DEF Follows
  <2>2. q.rx => t \in hub
    BY <1>4, <1>6
  <2>3. q.rx => task[t] \notin {"none", "posted"}
    BY <2>2 DEF HubFits, InHub
  <2> QED BY <1>3, <1>6, <2>1, <2>3 DEF Follows
<1> QED BY <1>6, <1>7, <1>8, OnePage

LEMMA SnapshotFollows ==
    ASSUME Types, TextsFit, RowsTold, DeltasGrow, PageTypes, Following,
           NEW r \in Reader, Snapshot(r)
    PROVE  PageTypes' /\ Following'
<1>1. PICK p : p = reader[r]
  OBVIOUS
<1>2. p \in State /\ Follows(p) /\ p.pc = "read"
  BY <1>1 DEF Snapshot, PageTypes, Following
<1>3. PICK t : t = p.turn
  OBVIOUS
<1>4. t \in Turn /\ (Exists => status[t] # "none") /\ (p.rx => task[t] \notin {"none", "posted"})
      /\ p.pos <= Len(channel[t]) /\ Increasing(p.text)
  BY <1>2, <1>3 DEF Follows
<1>5. content[t] \in Seq(Nat) /\ Len(content[t]) \in Nat /\ Increasing(content[t])
      /\ Within(content[t]) /\ DOMAIN content[t] = 1..Len(content[t])
  BY <1>4 DEF Types, TextsFit
<1>6. PICK shown : shown = [p EXCEPT !.text = content[t], !.already = Len(content[t])]
  OBVIOUS
<1>7. shown \in State /\ shown.text = content[t] /\ shown.already = Len(content[t])
      /\ shown.turn = t /\ shown.rx = p.rx /\ shown.pos = p.pos
  BY <1>2, <1>3, <1>5, <1>6 DEF State
<1>8. PICK q : /\ reader' = [reader EXCEPT ![r] = q]
               /\ q = CASE ~ Exists -> Ended(p, "lost")
                        [] Exists /\ status[t] = "failed" -> Ended(shown, "failed")
                        [] Exists /\ status[t] = "complete" -> Ended(shown, "done")
                        [] Exists /\ Generating(t) /\ ~ p.rx -> Ended(shown, "done")
                        [] OTHER -> [shown EXCEPT !.pc = "stream"]
  BY <1>1, <1>3, <1>6 DEF Snapshot
<1> SUFFICES q \in State /\ Follows(q)
  BY <1>8, OnePage DEF Snapshot, rows, job
<1>9. Generating(t) => status[t] # "failed" /\ status[t] # "complete"
  BY DEF Generating, Active
<1>10. CASE ~ Exists
  <2>1. q = Ended(p, "lost")
    BY <1>8, <1>10
  <2> QED BY <1>2, <1>3, <1>4, <2>1, Ends
<1>11. CASE Exists /\ status[t] = "failed"
  <2>1. q = Ended(shown, "failed")
    BY <1>8, <1>9, <1>11
  <2> QED BY <1>4, <1>5, <1>7, <2>1, Ends
<1>12. CASE Exists /\ status[t] = "complete"
  <2>1. q = Ended(shown, "done")
    BY <1>8, <1>9, <1>12
  <2>2. ToldDone(shown)
    BY <1>7, <1>12 DEF ToldDone
  <2> QED BY <1>4, <1>5, <1>7, <2>1, <2>2, Ends
<1>13. CASE Exists /\ Generating(t) /\ ~ p.rx
  <2>1. q = Ended(shown, "done")
    BY <1>8, <1>9, <1>13
  <2> QED BY <1>4, <1>5, <1>7, <1>13, <2>1, Ends
<1>14. CASE Exists /\ status[t] \notin {"failed", "complete"} /\ ~ (Generating(t) /\ ~ p.rx)
  <2>1. q = [shown EXCEPT !.pc = "stream"]
    BY <1>8, <1>14
  <2>2. q \in State /\ q.pc = "stream" /\ q.text = content[t] /\ q.already = Len(content[t])
        /\ q.turn = t /\ q.rx = p.rx /\ q.pos = p.pos /\ q.end = p.end
    BY <1>2, <1>6, <1>7, <2>1 DEF State
  <2>3. q.rx
    <3>1. Generating(t)
      BY <1>4, <1>14 DEF Types, Generating, Active, Terminal
    <3> QED BY <1>14, <2>2, <3>1
  <2>4. EventIn(t, "done") = {}
    BY <1>4, <1>14 DEF RowsTold, Told
  <2>5. ASSUME NEW j \in EventIn(t, "delta"), channel[t][j].n > Len(content[t]),
               NEW i \in DOMAIN content[t]
        PROVE  content[t][i] < channel[t][j].n
    <3>1. channel[t] \in Seq(Event) /\ j \in DOMAIN channel[t]
      BY <1>4 DEF Types, EventIn
    <3>2. channel[t][j] \in Event
      BY <3>1
    <3>3. channel[t][j].n \in Nat
      BY <3>2 DEF Event
    <3>4. content[t][i] \in Nat /\ content[t][i] <= Len(content[t])
      BY <1>5 DEF Within
    <3> QED BY <1>5, <2>5, <3>3, <3>4
  <2>6. ASSUME task[t] = "run", NEW i \in DOMAIN content[t] PROVE content[t][i] <= buffer[t]
    <3>1. Len(content[t]) <= buffer[t] /\ buffer[t] \in Nat
      BY <1>4, <2>6 DEF DeltasGrow, Grow, Types
    <3>2. content[t][i] \in Nat /\ content[t][i] <= Len(content[t])
      BY <1>5 DEF Within
    <3> QED BY <1>5, <3>1, <3>2
  <2>7. Streams(q)
    BY <1>4, <2>2, <2>3, <2>4, <2>5, <2>6 DEF Streams
  <2>8. q.end = "none"
    BY <1>2, <2>2 DEF Follows
  <2> QED BY <1>4, <1>5, <2>2, <2>7, <2>8 DEF Follows
<1> QED BY <1>10, <1>11, <1>12, <1>13, <1>14

(* A page takes the next event of its channel.                             *)
LEMMA ApplyFollows ==
    ASSUME Types, TextsFit, RowsTold, DeltasGrow,
           NEW p \in State, Follows(p), p.pc = "stream",
           p.pos + 1 \in DOMAIN channel[p.turn],
           NEW next, next = [p EXCEPT !.pos = p.pos + 1],
           NEW q, q = Apply(next, channel[p.turn][p.pos + 1])
    PROVE  q \in State /\ Follows(q)
<1>1. PICK t : t = p.turn
  OBVIOUS
<1>2. PICK e : e = channel[t][p.pos + 1]
  OBVIOUS
<1>3. /\ t \in Turn /\ (Exists => status[t] # "none") /\ p.rx
      /\ task[t] \notin {"none", "posted"} /\ Increasing(p.text) /\ Streams(p) /\ p.end = "none"
  BY <1>1 DEF Follows, Streams
<1>4. channel[t] \in Seq(Event) /\ buffer[t] \in Nat
  BY <1>3 DEF Types
<1>5. e \in Event
  BY <1>1, <1>2, <1>4
<1>6. DOMAIN channel[t] = 1..Len(channel[t]) /\ Len(channel[t]) \in Nat
  BY <1>4
<1>7. /\ next \in State /\ next.text = p.text /\ next.already = p.already /\ next.turn = t
      /\ next.rx = p.rx /\ next.pos = p.pos + 1 /\ next.pc = p.pc /\ next.end = p.end
  <2>1. p.pos \in Nat /\ p.pos + 1 \in Nat
    BY DEF State
  <2> QED BY <1>1, <2>1 DEF State
<1>8. p.pos + 1 \in EventIn(t, e.kind) /\ p.pos + 1 <= Len(channel[t])
  BY <1>1, <1>2, <1>6 DEF EventIn
<1>9. e.kind # "done" => (Exists => \A j \in EventIn(t, "done") : j > p.pos + 1)
  <2> SUFFICES ASSUME e.kind # "done", Exists, NEW j \in EventIn(t, "done") PROVE j > p.pos + 1
    OBVIOUS
  <2>1. j > p.pos /\ j \in Nat
    BY <1>1, <1>3, <1>6 DEF Streams, EventIn
  <2>2. j # p.pos + 1
    BY <1>2 DEF EventIn
  <2> QED BY <2>1, <2>2 DEF State
(* It keeps what it shows.                                                 *)
<1>10. ASSUME q = next, e.kind # "done" PROVE q \in State /\ Follows(q)
  <2>1. Streams(next)
    <3>1. \A j \in EventIn(t, "delta") :
             j > p.pos + 1 /\ channel[t][j].n > p.already =>
                \A i \in DOMAIN p.text : p.text[i] < channel[t][j].n
      <4> SUFFICES ASSUME NEW j \in EventIn(t, "delta"), j > p.pos + 1, channel[t][j].n > p.already
                   PROVE  \A i \in DOMAIN p.text : p.text[i] < channel[t][j].n
        OBVIOUS
      <4>1. j > p.pos
        BY <1>6 DEF State, EventIn
      <4> QED BY <1>1, <1>3, <4>1 DEF Streams
    <3>2. next.pos <= Len(channel[t])
      BY <1>7, <1>8
    <3> QED BY <1>1, <1>3, <1>7, <1>9, <1>10, <3>1, <3>2 DEF Streams
  <2> QED BY <1>1, <1>3, <1>7, <1>10, <2>1 DEF Follows
<1>11. CASE e.kind = "delta"
  <2>1. CASE Covered(e.n, p.already) \/ Covered(e.n, Len(p.text))
    <3>1. q = next
      BY <1>1, <1>2, <1>7, <1>11, <2>1 DEF Apply
    <3> QED BY <1>10, <1>11, <3>1
  <2>2. CASE ~ Covered(e.n, p.already) /\ ~ Covered(e.n, Len(p.text))
    <3>1. q = [next EXCEPT !.text = Append(p.text, e.n)]
      BY <1>1, <1>2, <1>7, <1>11, <2>2 DEF Apply
    <3>2. e.n \in Nat /\ p.text \in Seq(Nat) /\ p.already \in Nat
      BY <1>5 DEF Event, State
    <3>3. e.n > p.already
      BY <2>2, <3>2 DEF Covered
    <3>4. PICK s : s = Append(p.text, e.n)
      OBVIOUS
    <3>5. /\ s \in Seq(Nat) /\ Len(s) = Len(p.text) + 1 /\ Len(p.text) \in Nat
          /\ DOMAIN s = 1..(Len(p.text) + 1) /\ DOMAIN p.text = 1..Len(p.text)
          /\ \A i \in DOMAIN p.text : s[i] = p.text[i]
          /\ s[Len(p.text) + 1] = e.n
      BY <3>2, <3>4
    <3>6. \A i \in DOMAIN p.text : p.text[i] < e.n
      <4>1. p.pos + 1 \in EventIn(t, "delta") /\ p.pos + 1 > p.pos
        BY <1>8, <1>11 DEF State
      <4> QED BY <1>1, <1>2, <1>3, <3>3, <4>1 DEF Streams
    <3>7. /\ q \in State /\ q.text = s /\ q.already = p.already /\ q.turn = t
          /\ q.rx = p.rx /\ q.pos = p.pos + 1 /\ q.pc = p.pc /\ q.end = p.end
      BY <1>7, <3>1, <3>4, <3>5 DEF State
    <3>8. Increasing(s)
      <4> SUFFICES ASSUME NEW i \in DOMAIN s, NEW j \in DOMAIN s, i < j PROVE s[i] < s[j]
        BY DEF Increasing
      <4>1. i \in DOMAIN p.text /\ (j \in DOMAIN p.text \/ j = Len(p.text) + 1)
        BY <3>5
      <4>2. CASE j \in DOMAIN p.text
        <5>1. p.text[i] < p.text[j]
          BY <1>3, <4>1, <4>2 DEF Increasing
        <5> QED BY <3>5, <4>1, <4>2, <5>1
      <4>3. CASE j = Len(p.text) + 1
        <5>1. p.text[i] < e.n
          BY <3>6, <4>1
        <5> QED BY <3>5, <4>1, <4>3, <5>1
      <4> QED BY <4>1, <4>2, <4>3
    <3>9. ASSUME NEW i \in DOMAIN s PROVE s[i] <= e.n /\ s[i] \in Nat
      <4>1. CASE i \in DOMAIN p.text
        <5>1. s[i] = p.text[i] /\ p.text[i] \in Nat /\ p.text[i] < e.n
          BY <3>2, <3>5, <3>6, <4>1
        <5> QED BY <3>2, <5>1
      <4>2. CASE i = Len(p.text) + 1
        BY <3>2, <3>5, <4>2
      <4> QED BY <3>5, <4>1, <4>2
    <3>10. ASSUME NEW j \in EventIn(t, "delta"), j > p.pos + 1, NEW i \in DOMAIN s
           PROVE  s[i] < channel[t][j].n
      <4>1. j \in DOMAIN channel[t] /\ p.pos + 1 \in EventIn(t, "delta")
        BY <1>8, <1>11 DEF EventIn
      <4>2. e.n < channel[t][j].n
        BY <1>2, <1>3, <3>10, <4>1 DEF DeltasGrow, Grow
      <4>3. channel[t][j] \in Event
        BY <1>4, <4>1
      <4>4. channel[t][j].n \in Nat
        BY <4>3 DEF Event
      <4> QED BY <3>2, <3>9, <4>2, <4>4
    <3>11. ASSUME task[t] = "run", NEW i \in DOMAIN s PROVE s[i] <= buffer[t]
      <4>1. e.n <= buffer[t]
        BY <1>2, <1>3, <1>8, <1>11, <3>11 DEF DeltasGrow, Grow
      <4> QED BY <1>4, <3>2, <3>9, <4>1
    <3>12. q.pos <= Len(channel[t])
      BY <1>8, <3>7
    <3>13. Streams(q)
      <4>1. channel[q.turn] = channel[t] /\ task[q.turn] = task[t] /\ buffer[q.turn] = buffer[t]
            /\ EventIn(q.turn, "done") = EventIn(t, "done")
            /\ EventIn(q.turn, "delta") = EventIn(t, "delta")
        BY <3>7
      <4>2. q.rx /\ q.pos = p.pos + 1 /\ q.already = p.already /\ q.text = s
            /\ q.pos <= Len(channel[t])
        BY <1>3, <3>7, <3>12
      <4>3. ASSUME NEW j \in EventIn(q.turn, "delta"), j > q.pos, NEW i \in DOMAIN q.text
            PROVE  q.text[i] < channel[q.turn][j].n
        <5>1. j \in EventIn(t, "delta") /\ j > p.pos + 1 /\ i \in DOMAIN s
          BY <4>1, <4>2, <4>3
        <5>2. s[i] < channel[t][j].n
          BY <3>10, <5>1
        <5> QED BY <4>1, <4>2, <5>2
      <4>4. task[q.turn] = "run" => \A i \in DOMAIN q.text : q.text[i] <= buffer[q.turn]
        BY <3>11, <4>1, <4>2
      <4>5. Exists => \A j \in EventIn(q.turn, "done") : j > q.pos
        BY <1>9, <1>11, <4>1, <4>2
      <4> QED BY <4>1, <4>2, <4>3, <4>4, <4>5 DEF Streams
    <3> QED BY <1>3, <3>7, <3>8, <3>13 DEF Follows
  <2> QED BY <2>1, <2>2
<1>12. CASE e.kind = "tool"
  <2>1. q = next
    BY <1>1, <1>2, <1>12 DEF Apply
  <2> QED BY <1>10, <1>12, <2>1
<1>13. CASE e.kind = "done"
  <2>1. PICK shown : shown = [next EXCEPT !.text = e.text]
    OBVIOUS
  <2>2. q = Ended(shown, "done")
    BY <1>1, <1>2, <1>13, <2>1 DEF Apply
  <2>3. Increasing(e.text)
    BY <1>2, <1>3, <1>6, <1>8 DEF TextsFit, EventIn
  <2>4. shown \in State /\ shown.text = e.text /\ shown.turn = t /\ shown.rx = p.rx
    BY <1>5, <1>7, <2>1 DEF State, Event
  <2>5. Exists => status[t] = "complete" /\ content[t] = e.text
    BY <1>2, <1>3, <1>8, <1>13 DEF RowsTold, Told
  <2>6. Exists => ToldDone(shown)
    BY <2>4, <2>5 DEF ToldDone
  <2> QED BY <1>3, <2>2, <2>3, <2>4, <2>6, Ends
<1>14. CASE e.kind = "failed"
  <2>1. q = Ended(next, "failed")
    BY <1>1, <1>2, <1>14 DEF Apply
  <2> QED BY <1>3, <1>7, <2>1, Ends
<1> QED BY <1>5, <1>11, <1>12, <1>13, <1>14 DEF Event

LEMMA ReceiveFollows ==
    ASSUME Types, HubFits, TextsFit, RowsTold, DeltasGrow, PageTypes, Following,
           NEW r \in Reader, Receive(r)
    PROVE  PageTypes' /\ Following'
<1>1. PICK p : p = reader[r]
  OBVIOUS
<1>2. p \in State /\ Follows(p) /\ p.pc = "stream"
  BY <1>1 DEF Receive, PageTypes, Following
<1>3. PICK t : t = p.turn
  OBVIOUS
<1>4. /\ t \in Turn /\ (Exists => status[t] # "none") /\ p.rx
      /\ task[t] \notin {"none", "posted"} /\ Increasing(p.text) /\ Streams(p)
  BY <1>2, <1>3 DEF Follows, Streams
<1>5. channel[t] \in Seq(Event) /\ DOMAIN channel[t] = 1..Len(channel[t])
      /\ Len(channel[t]) \in Nat /\ p.pos \in Nat
  BY <1>2, <1>4 DEF Types, State
<1>6. PICK q : /\ reader' = [reader EXCEPT ![r] = q]
               /\ \/ q = Ended(p, "stale")
                  \/ /\ Len(channel[t]) - p.pos \in 1..Capacity
                     /\ q = Apply([p EXCEPT !.pos = p.pos + 1], channel[t][p.pos + 1])
                  \/ /\ Len(channel[t]) - p.pos = 0 /\ t \notin hub
                     /\ q = Ended(p, "done")
  <2>1. PICK next : next = [p EXCEPT !.pos = p.pos + 1]
    OBVIOUS
  <2>2. next.pos = p.pos + 1
    BY <1>2, <2>1 DEF State
  <2> QED BY <1>1, <1>3, <2>1, <2>2 DEF Receive
<1> SUFFICES q \in State /\ Follows(q)
  BY <1>6, OnePage DEF Receive, rows, job
<1>7. CASE q = Ended(p, "stale")
  BY <1>2, <1>3, <1>4, <1>7, Ends
<1>8. CASE /\ Len(channel[t]) - p.pos \in 1..Capacity
           /\ q = Apply([p EXCEPT !.pos = p.pos + 1], channel[t][p.pos + 1])
  <2>1. Capacity \in Nat
    BY ChatAssumption
  <2>2. p.pos + 1 \in DOMAIN channel[t]
    BY <1>5, <1>8, <2>1
  <2> QED BY <1>2, <1>3, <1>8, <2>2, ApplyFollows
<1>9. CASE Len(channel[t]) - p.pos = 0 /\ t \notin hub /\ q = Ended(p, "done")
  <2>1. task[t] = "over"
    BY <1>4, <1>9 DEF HubFits, InHub, Types, TaskState
  <2>2. Exists => EventIn(t, "done") = {}
    <3> SUFFICES ASSUME Exists, NEW j \in EventIn(t, "done") PROVE FALSE
      OBVIOUS
    <3>1. j > p.pos /\ j \in 1..Len(channel[t])
      BY <1>3, <1>4, <1>5 DEF Streams, EventIn
    <3> QED BY <1>5, <1>9, <3>1
  <2>3. Exists => ToldDone(p)
    BY <1>3, <2>1, <2>2 DEF ToldDone
  <2> QED BY <1>2, <1>3, <1>4, <1>9, <2>3, Ends
<1> QED BY <1>6, <1>7, <1>8, <1>9

(* The connection breaks.                                                  *)
LEMMA Broken ==
    ASSUME NEW p \in State, Follows(p), p.pc \in {"read", "stream"}, NEW q, q = [p EXCEPT !.pc = "broken"]
    PROVE  q \in State /\ Follows(q)
<1>1. /\ q \in State /\ q.pc = "broken" /\ q.turn = p.turn /\ q.rx = p.rx /\ q.text = p.text
      /\ q.end = p.end
  BY DEF State
<1>2. q.end = "none"
  BY <1>1 DEF Follows
<1> QED BY <1>1, <1>2 DEF Follows

LEMMA PageFollows ==
    ASSUME Types, HubFits, TextsFit, RowsTold, DeltasGrow, PageTypes, Following,
           NEW r \in Reader, Page(r)
    PROVE  PageTypes' /\ Following'
<1> USE DEF rows, job
<1>1. reader[r] \in State /\ Follows(reader[r])
  BY DEF PageTypes, Following
<1>2. ASSUME NEW t \in Turn, Subscribe(r, t) PROVE PageTypes' /\ Following'
  BY <1>2, SubscribedFollows DEF Subscribe
<1>3. CASE Reconnect(r)
  <2>1. reader[r].turn \in Turn /\ (Exists => status[reader[r].turn] # "none")
    BY <1>1, <1>3 DEF Follows, Reconnect
  <2> QED BY <1>3, <2>1, SubscribedFollows DEF Reconnect
<1>4. CASE Snapshot(r)
  BY <1>4, SnapshotFollows
<1>5. CASE Receive(r)
  BY <1>5, ReceiveFollows
<1>6. CASE Disconnect(r)
  <2>1. PICK q : q = [reader[r] EXCEPT !.pc = "broken"]
    OBVIOUS
  <2>2. reader' = [reader EXCEPT ![r] = q]
    BY <1>6, <2>1 DEF Disconnect, PageTypes
  <2>3. q \in State /\ Follows(q)
    BY <1>1, <1>6, <2>1, Broken DEF Disconnect
  <2> QED BY <1>6, <2>2, <2>3, OnePage DEF Disconnect
<1> QED BY <1>2, <1>3, <1>4, <1>5, <1>6 DEF Page, PageStep

(* Every step keeps every page's reading.                                  *)
LEMMA FollowingStep ==
    ASSUME Types, HubFits, TextsFit, RowsTold, DeltasGrow, PageTypes, Following, [Next]_vars
    PROVE  PageTypes' /\ Following'
<1>1. CASE \E r \in Reader : Page(r)
  BY <1>1, PageFollows
<1>2. Types' /\ \A t \in Turn : Onward(t)
  BY TypesStep, OnwardStep
(* Whatever the others do, to a page that stays or whose connection breaks.*)
<1>3. ASSUME NEW r \in Reader, NEW p \in State, Follows(p),
             reader'[r] = p \/ (reader'[r] = [p EXCEPT !.pc = "broken"] /\ p.pc \in {"read", "stream"})
      PROVE  Follows(reader[r])'
  <2>1. PICK q : q = reader'[r]
    OBVIOUS
  <2>2. /\ p.turn \in Nat /\ p.pos \in Nat /\ p.already \in Nat /\ p.text \in Seq(Nat)
        /\ p.rx \in BOOLEAN
    BY DEF State
  <2>3. Follows(p)'
    BY <1>2, <1>3, <2>2, FollowsOn
  <2>4. CASE reader'[r] = p
    <3>1. q = p /\ (p.pc = "stream" => p.rx)
      BY <1>3, <2>1, <2>4 DEF Follows, Streams
    <3> QED BY <1>3, <2>1, <2>3, <3>1 DEF Follows, Streams, ToldDone
  <2>5. CASE reader'[r] = [p EXCEPT !.pc = "broken"] /\ p.pc \in {"read", "stream"}
    <3>1. q.pc = "broken" /\ q.turn = p.turn /\ q.rx = p.rx /\ q.text = p.text /\ q.end = p.end
      BY <2>1, <2>5 DEF State
    <3>2. q.end = "none" /\ p.turn \in Turn
      BY <1>3, <2>5, <3>1 DEF Follows
    <3> QED BY <2>1, <2>3, <2>5, <3>1, <3>2 DEF Follows
  <2> QED BY <1>3, <2>4, <2>5
<1>4. CASE reader' = reader
  BY <1>3, <1>4 DEF PageTypes, Following
<1>5. CASE Crash
  <2>1. ASSUME NEW r \in Reader
        PROVE  reader'[r] \in State /\ Follows(reader[r])'
    <3>1. PICK p : p = reader[r]
      OBVIOUS
    <3>2. p \in State /\ Follows(p)
      BY <3>1 DEF PageTypes, Following
    <3>3. reader'[r] = p \/ (reader'[r] = [p EXCEPT !.pc = "broken"] /\ p.pc \in {"read", "stream"})
      BY <1>5, <3>1 DEF Crash
    <3>4. reader'[r] \in State
      BY <3>2, <3>3 DEF State
    <3> QED BY <1>3, <3>2, <3>3, <3>4
  <2>2. reader' = [r \in Reader |-> reader'[r]]
    BY <1>5 DEF Crash
  <2> QED BY <2>1, <2>2 DEF PageTypes, Following
<1>6. ASSUME NEW t \in Turn, Job(t) \/ Row(t) PROVE reader' = reader
  BY <1>6 DEF Job, Row, StartTurn, Register, DropPost, Emit, ToolRound, FinishRead, FinishCommit,
       SendDone, JobEnds, RecordFailure, Unregister, UpdatePartial, Reap, CancelMessage
<1>7. CASE CancelFail \/ DeleteCancel \/ DeleteRows \/ Restart \/ UNCHANGED vars
  BY <1>4, <1>7 DEF CancelFail, DeleteCancel, DeleteRows, Restart, vars
<1> QED BY <1>1, <1>4, <1>5, <1>6, <1>7, ChatSplit

-----------------------------------------------------------------------------
(* The inductive invariant.                                                *)
ChatInv ==
    /\ Types
    /\ HubFits
    /\ TextsFit
    /\ RowsTold
    /\ DeltasGrow
    /\ PageTypes
    /\ Following

LEMMA ChatInit == Init => ChatInv
<1> SUFFICES ASSUME Init PROVE ChatInv
  OBVIOUS
<1> USE DEF Init
<1>1. Types
  BY NoText DEF Types, TaskState
<1>2. HubFits
  BY DEF HubFits, InHub
<1>3. TextsFit
  BY NoText DEF TextsFit
<1>4. \A t \in Turn : channel[t] = << >> /\ DOMAIN channel[t] = {}
  OBVIOUS
<1>5. RowsTold
  BY <1>4 DEF RowsTold, Told, EventIn
<1>6. DeltasGrow
  BY <1>4 DEF DeltasGrow, Grow, EventIn
<1>7. Idle \in State /\ Idle.pc = "idle" /\ Idle.end = "none" /\ Idle.rx = FALSE /\ Idle.text = << >>
  BY NoText DEF Idle, State
<1>8. PageTypes
  BY <1>7 DEF PageTypes
<1>9. Following
  <2>1. 1 \in Turn /\ Idle.turn = 1
    BY ChatAssumption DEF Turn, Idle
  <2>2. Follows(Idle)
    BY <1>7, <2>1, NoText DEF Follows
  <2> QED BY <2>2 DEF Following
<1> QED BY <1>1, <1>2, <1>3, <1>5, <1>6, <1>8, <1>9 DEF ChatInv

LEMMA ChatStep == ChatInv /\ [Next]_vars => ChatInv'
BY TypesStep, HubStep, TextsStep, ToldStep, GrowStep, FollowingStep DEF ChatInv

(* Where a turn's job, its row and its channel stand to one another, and   *)
(* what a page has read of a channel it follows (GenerationJob::run,       *)
(* finish_turn, fail_message, stream_message, attach_stream).              *)
THEOREM ChatInvHolds == Spec => []ChatInv
BY ChatInit, ChatStep, PTL DEF Spec

(* What the readers are told, the row says: a 'done' is sent only of an    *)
(* answer stored with that text, an 'error' only of a row that has failed, *)
(* and nothing that may still run changes either (GenerationJob::run, the  *)
(* supervisor of post_message).                                            *)
THEOREM EventsTell == Spec => []EventsTellTheRow
<1>1. ChatInv => EventsTellTheRow
  BY DEF ChatInv, RowsTold, Told, EventsTellTheRow
<1> QED BY <1>1, ChatInvHolds, PTL

(* No page shows a fragment twice or out of order, and one that followed   *)
(* an answer shows all of it once told that it is done, wherever it        *)
(* subscribed, whatever the saved text covered and however often it came   *)
(* back (stream_message, attach_stream, the offsets of deltas).            *)
THEOREM FollowersSeeAll == Spec => []FollowersSeeItAll
<1>1. ASSUME ChatInv PROVE FollowersSeeItAll
  <2> SUFFICES ASSUME NEW r \in Reader
               PROVE  /\ Increasing(reader[r].text)
                      /\ reader[r].end = "done" /\ reader[r].rx
                         /\ EventIn(reader[r].turn, "done") # {} /\ Exists
                            => reader[r].text = content[reader[r].turn]
    BY DEF FollowersSeeItAll, Increasing
  <2>1. Follows(reader[r])
    BY <1>1 DEF ChatInv, Following
  <2> QED BY <2>1 DEF Follows, ToldDone
<1> QED BY <1>1, ChatInvHolds, PTL

-----------------------------------------------------------------------------
(* The conversation as it is replayed, by the rows of its messages and     *)
(* their statuses.                                                         *)
Shown(st) == {e \in Entry : e.kind = "answer" => st[e.turn] = "complete"}

(* A turn that has begun and is not over stands last in the log.           *)
EndsWith(l, front, t) ==
    /\ l = Append(Append(front, Message(t, "user")), Message(t, "answer"))
    /\ \A i \in 1..Len(front) : front[i].turn # t

Ending(l, t) == \E front \in Seq(Entry) : EndsWith(l, front, t)

LEMMA Entries ==
    ASSUME NEW t \in Turn
    PROVE  /\ Message(t, "user") \in Entry /\ Message(t, "answer") \in Entry
           /\ Message(t, "user") # Message(t, "answer")
           /\ \A kind : Message(t, kind).turn = t /\ Message(t, kind).kind = kind
BY DEF Message, Entry

LEMMA Plumbed ==
    ASSUME Types, NEW t \in Turn
    PROVE  /\ Plumbing(t) \in Seq(Entry)
           /\ \A i \in 1..Len(Plumbing(t)) : Plumbing(t)[i].kind # "answer"
<1>1. 2 * rounds[t] \in Nat
  BY DEF Types
<1>2. ASSUME NEW i \in 1..(2 * rounds[t])
      PROVE  /\ Message(t, IF i % 2 = 1 THEN "call" ELSE "reply") \in Entry
             /\ Message(t, IF i % 2 = 1 THEN "call" ELSE "reply").kind # "answer"
  BY DEF Message, Entry
<1>3. Plumbing(t) \in [1..(2 * rounds[t]) -> Entry] /\ Len(Plumbing(t)) = 2 * rounds[t]
  BY <1>1, <1>2 DEF Plumbing
<1>4. Plumbing(t) \in Seq(Entry)
  BY <1>1, <1>3
<1> QED BY <1>1, <1>2, <1>3, <1>4 DEF Plumbing

(* Statuses that tell the same turns complete show the same of the log.    *)
LEMMA SameShown ==
    ASSUME NEW l \in Seq(Entry), NEW st, NEW st2,
           \A i \in 1..Len(l) : st[l[i].turn] = "complete" <=> st2[l[i].turn] = "complete"
    PROVE  Only(l, Shown(st)) = Only(l, Shown(st2))
<1>1. \A i \in 1..Len(l) : l[i] \in Shown(st) <=> l[i] \in Shown(st2)
  BY DEF Shown
<1> QED BY <1>1, OnlySame

(* A question is shown, its answer not before it is complete.              *)
LEMMA AskShown ==
    ASSUME NEW l \in Seq(Entry), NEW t \in Turn, NEW st, st[t] # "complete"
    PROVE  Only(Append(Append(l, Message(t, "user")), Message(t, "answer")), Shown(st))
              = Append(Only(l, Shown(st)), Message(t, "user"))
<1> DEFINE user == Message(t, "user")
           answer == Message(t, "answer")
<1>1. user \in Entry /\ answer \in Entry /\ user \in Shown(st) /\ answer \notin Shown(st)
  BY Entries DEF Shown
<1>2. Append(l, user) \in Seq(Entry)
  BY <1>1
<1> HIDE DEF user, answer
<1>3. Only(Append(l, user), Shown(st)) = Append(Only(l, Shown(st)), user)
  BY <1>1, OnlyAppend
<1>4. Only(Append(Append(l, user), answer), Shown(st)) = Only(Append(l, user), Shown(st))
  <2> DEFINE s == Append(l, user)
  <2>1. s \in Seq(Entry)
    BY <1>2
  <2> HIDE DEF s
  <2>2. Only(Append(s, answer), Shown(st)) = Only(s, Shown(st))
    BY <1>1, <2>1, OnlyAppend
  <2> QED BY <2>2 DEF s
<1> QED BY <1>3, <1>4 DEF user, answer

(* The answer leaves its place ...                                         *)
LEMMA MovedOut ==
    ASSUME NEW l, NEW front \in Seq(Entry), NEW t \in Turn, EndsWith(l, front, t)
    PROVE  Only(l, Entry \ {Message(t, "answer")}) = Append(front, Message(t, "user"))
<1> DEFINE user == Message(t, "user")
           answer == Message(t, "answer")
           T == Entry \ {answer}
<1>1. user \in Entry /\ answer \in Entry /\ user \in T /\ answer \notin T
  BY Entries
<1>2. Append(front, user) \in Seq(Entry)
  BY <1>1
<1>3. l = Append(Append(front, user), answer)
  BY DEF EndsWith
<1>4. \A i \in 1..Len(front) : front[i] \in T
  BY Entries DEF EndsWith
<1> HIDE DEF user, answer, T
<1>5. Only(front, T) = front
  BY <1>4, OnlyAll
<1>6. Only(Append(front, user), T) = Append(front, user)
  BY <1>1, <1>5, OnlyAppend
<1>7. Only(l, T) = Append(front, user)
  <2> DEFINE s == Append(front, user)
  <2>1. s \in Seq(Entry)
    BY <1>2
  <2> HIDE DEF s
  <2>2. Only(Append(s, answer), T) = Only(s, T)
    BY <1>1, <2>1, OnlyAppend
  <2> QED BY <1>3, <1>6, <2>2 DEF s
<1> QED BY <1>7 DEF user, answer, T

(* ... and comes back, complete, behind the rows of the turn's tools.      *)
Completes(st, st2, t) ==
    /\ st[t] # "complete" /\ st2[t] = "complete"
    /\ \A u \in Turn : u # t => (st[u] = "complete" <=> st2[u] = "complete")

NoAnswer(tools) == \A i \in 1..Len(tools) : tools[i].kind # "answer"

MovesBack(l, front, t, st, st2, tools) ==
    /\ Only(l, Shown(st)) = Append(Only(front, Shown(st)), Message(t, "user"))
    /\ Only(Only(l, Entry \ {Message(t, "answer")}) \o tools
               \o <<Message(t, "answer")>>, Shown(st2))
          = Only(l, Shown(st)) \o tools \o <<Message(t, "answer")>>

LEMMA MovedBack ==
    ASSUME NEW l, NEW front \in Seq(Entry), NEW t \in Turn, EndsWith(l, front, t),
           NEW st, NEW st2, Completes(st, st2, t),
           NEW tools \in Seq(Entry), NoAnswer(tools)
    PROVE  MovesBack(l, front, t, st, st2, tools)
<1> DEFINE user == Message(t, "user")
           answer == Message(t, "answer")
           told == Only(l, Shown(st))
<1>1. told = Append(Only(front, Shown(st)), user)
  BY AskShown DEF EndsWith, Completes
<1>2. Only(front, Shown(st)) = Only(front, Shown(st2))
  <2>1. \A i \in 1..Len(front) : front[i] \in Entry
    OBVIOUS
  <2>2. \A e \in Entry : e.turn \in Turn
    BY DEF Entry
  <2>3. \A i \in 1..Len(front) : front[i].turn \in Turn /\ front[i].turn # t
    BY <2>1, <2>2 DEF EndsWith
  <2>4. \A i \in 1..Len(front) : st[front[i].turn] = "complete" <=> st2[front[i].turn] = "complete"
    BY <2>3 DEF Completes
  <2> QED BY <2>4, SameShown
<1>3. user \in Entry /\ answer \in Entry /\ user \in Shown(st2) /\ answer \in Shown(st2)
  BY Entries DEF Shown, Completes
<1>4. Only(Append(front, user), Shown(st2)) = Append(Only(front, Shown(st2)), user)
  <2> HIDE DEF user
  <2> QED BY <1>3, OnlyAppend
<1>5. Append(front, user) \in Seq(Entry)
  BY <1>3
<1>6. \A i \in 1..Len(tools) : tools[i] \in Shown(st2)
  BY DEF Shown, NoAnswer
<1>7. Only(Append(front, user) \o tools, Shown(st2)) = told \o tools
  <2> DEFINE s == Append(front, user)
  <2>1. s \in Seq(Entry) /\ Only(s, Shown(st2)) = told
    BY <1>1, <1>2, <1>4, <1>5
  <2> HIDE DEF s, user, told
  <2>2. Only(s \o tools, Shown(st2)) = Only(s, Shown(st2)) \o tools
    BY <1>6, <2>1, OnlyConcat
  <2> QED BY <2>1, <2>2 DEF s
<1>8. Append(front, user) \o tools \in Seq(Entry) /\ <<answer>> \in Seq(Entry)
  BY <1>3, <1>5
<1>9. \A i \in 1..Len(<<answer>>) : <<answer>>[i] \in Shown(st2)
  BY <1>3
<1>10. Only(Append(front, user) \o tools \o <<answer>>, Shown(st2)) = told \o tools \o <<answer>>
  <2> DEFINE s == Append(front, user) \o tools
             last == <<answer>>
  <2>1. s \in Seq(Entry) /\ last \in Seq(Entry) /\ \A i \in 1..Len(last) : last[i] \in Shown(st2)
    BY <1>8, <1>9
  <2>2. Only(s, Shown(st2)) = told \o tools
    BY <1>7
  <2> HIDE DEF s, last, user, answer, told
  <2>3. Only(s \o last, Shown(st2)) = Only(s, Shown(st2)) \o last
    BY <2>1, OnlyConcat
  <2> QED BY <2>2, <2>3 DEF s, last
<1>11. Only(l, Entry \ {answer}) = Append(front, user)
  BY MovedOut
<1> QED BY <1>1, <1>10, <1>11 DEF MovesBack

-----------------------------------------------------------------------------
(* Every message is of a turn that has begun, the turns begin in their     *)
(* order, and one that generates or is being finished stands last.         *)
Began == \A i \in 1..Len(log) : status[log[i].turn] # "none"

InOrder == \A t, u \in Turn : u < t /\ status[t] # "none" => status[u] # "none"

Held == \A t \in Turn : task[t] = "finish" <=> lock = t

StandsLast == \A t \in Turn : Generating(t) \/ lock = t => Exists /\ Ending(log, t)

InBounds == \A t \in Turn : rounds[t] <= ToolRounds[t] /\ buffer[t] <= Fragments[t]

LogInv ==
    /\ log \in Seq(Entry) /\ lock \in Turn \union {NoTurn}
    /\ Began /\ InOrder /\ Held /\ StandsLast /\ InBounds

(* A step that leaves the replayed messages alone.                         *)
Still ==
    /\ log' = log /\ (Exists' <=> Exists)
    /\ \A u \in Turn :
          /\ status'[u] = "none" <=> status[u] = "none"
          /\ Generating(u)' => Generating(u)
          /\ status'[u] = "complete" <=> status[u] = "complete"
          /\ status[u] = "complete" => content'[u] = content[u]

LEMMA FailStill ==
    ASSUME Types, NEW t \in Turn, FailRow(t), UNCHANGED <<log, deletion, content>>
    PROVE  Still
<1>1. \A u \in Turn : status'[u] = status[u] \/ (Generating(u) /\ status'[u] = "failed")
  BY FailRowEffect
<1> QED BY <1>1 DEF Still, Exists, Generating, Active

LEMMA RowsStill == ASSUME UNCHANGED <<log, status, deletion, content>> PROVE Still
BY DEF Still, Exists, Generating

LEMMA StillStep ==
    ASSUME Types, [Next]_vars
    PROVE  Still \/ DeleteRows \/ \E t \in Turn : StartTurn(t) \/ FinishCommit(t)
<1> USE DEF rows, job, bounds
<1>1. CASE UNCHANGED vars
  BY <1>1, RowsStill DEF vars
<1>2. ASSUME NEW t \in Turn, Job(t), ~ StartTurn(t), ~ FinishCommit(t) PROVE Still
  <2>1. CASE RecordFailure(t)
    <3>1. CASE FailRow(t)
      BY <2>1, <3>1, FailStill DEF RecordFailure
    <3>2. CASE status' = status
      BY <2>1, <3>2, RowsStill DEF RecordFailure
    <3> QED BY <2>1, <3>1, <3>2 DEF RecordFailure
  <2>2. CASE Register(t) \/ DropPost(t) \/ Emit(t) \/ ToolRound(t)
    BY <2>2, RowsStill DEF Register, DropPost, Emit, ToolRound
  <2>3. CASE FinishRead(t) \/ SendDone(t) \/ JobEnds(t) \/ Unregister(t)
    BY <2>3, RowsStill DEF FinishRead, SendDone, JobEnds, Unregister
  <2> QED BY <1>2, <2>1, <2>2, <2>3 DEF Job
<1>3. ASSUME NEW t \in Turn, Row(t) PROVE Still
  <2>1. CASE UpdatePartial(t)
    <3>1. /\ log' = log /\ deletion' = deletion /\ Generating(t)
          /\ status' = [status EXCEPT ![t] = "running"]
          /\ content' = [content EXCEPT ![t] = Text(buffer[t])]
      BY <2>1 DEF UpdatePartial
    <3>2. /\ \A u \in Turn : u # t => status'[u] = status[u] /\ content'[u] = content[u]
          /\ status'[t] = "running"
      BY <3>1 DEF Types
    <3> QED BY <3>1, <3>2 DEF Still, Exists, Generating, Active
  <2>2. CASE Reap(t)
    BY <2>2, FailStill DEF Reap
  <2>3. CASE CancelMessage(t)
    BY <2>3, RowsStill DEF CancelMessage
  <2> QED BY <1>3, <2>1, <2>2, <2>3 DEF Row
<1>4. CASE CancelFail
  <2>1. cancel \in Turn
    BY <1>4 DEF CancelFail, Types
  <2> QED BY <1>4, <2>1, FailStill DEF CancelFail
<1>5. CASE DeleteCancel
  BY <1>5 DEF DeleteCancel, Still, Exists, Generating
<1>6. ASSUME NEW r \in Reader, Page(r) PROVE Still
  BY <1>6, PagesOnly, RowsStill
<1>7. CASE Crash
  BY <1>7 DEF Crash, Still, Exists, Generating
<1>8. CASE Restart
  <2>1. \A u \in Turn : status'[u] = IF Generating(u) THEN "failed" ELSE status[u]
    BY <1>8 DEF Restart
  <2>2. UNCHANGED <<log, deletion, content>>
    BY <1>8 DEF Restart
  <2> QED BY <2>1, <2>2 DEF Still, Exists, Generating, Active
<1> QED BY <1>1, <1>2, <1>3, <1>4, <1>5, <1>6, <1>7, <1>8, ChatSplit

(* Nobody holds the row lock but a turn that is being finished.            *)
LEMMA HeldStep ==
    ASSUME Types, Held, lock \in Turn \union {NoTurn}, [Next]_vars
    PROVE  /\ Held' /\ lock' \in Turn \union {NoTurn}
           /\ \A t \in Turn : lock' = t => lock = t \/ (Generating(t)' /\ Exists')
<1> DEFINE P == /\ Held' /\ lock' \in Turn \union {NoTurn}
                /\ \A t \in Turn : lock' = t => lock = t \/ (Generating(t)' /\ Exists')
<1> USE DEF rows, job, bounds
<1>0. NoTurn \notin Turn
  BY ChatAssumption
<1>1. CASE UNCHANGED <<task, lock>>
  BY <1>1 DEF Held
<1>2. CASE UNCHANGED vars
  BY <1>1, <1>2 DEF vars
<1>3. ASSUME NEW t \in Turn, Job(t) PROVE P
  <2>1. ASSUME lock' = lock, task[t] # "finish",
               NEW s, s # "finish", task' = [task EXCEPT ![t] = s]
        PROVE  P
    <3>1. \A u \in Turn : task'[u] = "finish" <=> task[u] = "finish"
      BY <2>1 DEF Types
    <3> QED BY <2>1, <3>1 DEF Held
  <2>2. CASE StartTurn(t)
    <3>1. task[t] # "finish"
      BY <1>0, <2>2 DEF StartTurn, Held
    <3> QED BY <2>1, <2>2, <3>1 DEF StartTurn
  <2>3. CASE Register(t)
    BY <2>1, <2>3 DEF Register
  <2>4. CASE DropPost(t)
    BY <2>1, <2>4 DEF DropPost
  <2>5. CASE Emit(t) \/ ToolRound(t)
    BY <1>1, <2>5 DEF Emit, ToolRound
  <2>6. CASE FinishRead(t)
    <3>1. CASE Exists /\ Generating(t)
      <4>1. /\ lock = NoTurn /\ lock' = t /\ task' = [task EXCEPT ![t] = "finish"]
            /\ UNCHANGED <<status, deletion>>
        BY <2>6, <3>1 DEF FinishRead
      <4>2. \A u \in Turn : task'[u] = "finish" <=> u = t
        BY <1>0, <4>1 DEF Held, Types
      <4> QED BY <3>1, <4>1, <4>2 DEF Held, Exists, Generating
    <3>2. CASE ~(Exists /\ Generating(t))
      BY <2>1, <2>6, <3>2 DEF FinishRead
    <3> QED BY <3>1, <3>2
  <2>7. CASE FinishCommit(t) \/ (JobEnds(t) /\ task[t] = "finish")
    <3>1. lock = t
      BY <2>7 DEF Held, FinishCommit
    <3>2. lock' = NoTurn /\ \E s : s # "finish" /\ task' = [task EXCEPT ![t] = s]
      BY <2>7, <3>1 DEF FinishCommit, Finished, JobEnds
    <3>3. \A u \in Turn : task'[u] # "finish"
      BY <3>1, <3>2 DEF Held, Types
    <3> QED BY <1>0, <3>2, <3>3 DEF Held
  <2>8. CASE SendDone(t)
    BY <2>1, <2>8 DEF SendDone
  <2>9. CASE JobEnds(t) /\ task[t] # "finish"
    <3>1. lock' = lock
      BY <2>9 DEF Held, JobEnds
    <3> QED BY <2>1, <2>9, <3>1 DEF JobEnds
  <2>10. CASE RecordFailure(t)
    BY <2>1, <2>10 DEF RecordFailure
  <2>11. CASE Unregister(t)
    BY <2>1, <2>11 DEF Unregister
  <2> QED BY <1>3, <2>2, <2>3, <2>4, <2>5, <2>6, <2>7, <2>8, <2>9, <2>10, <2>11 DEF Job
<1>4. ASSUME NEW t \in Turn, Row(t) PROVE P
  BY <1>1, <1>4 DEF Row, UpdatePartial, Reap, CancelMessage
<1>5. ASSUME NEW r \in Reader, Page(r) PROVE P
  BY <1>1, <1>5, PagesOnly
<1>6. CASE CancelFail \/ DeleteCancel \/ DeleteRows \/ Restart
  BY <1>1, <1>6 DEF CancelFail, DeleteCancel, DeleteRows, Restart
<1>7. CASE Crash
  <2>1. lock' = NoTurn /\ \A u \in Turn : task'[u] # "finish"
    BY <1>7 DEF Crash
  <2> QED BY <1>0, <2>1 DEF Held
<1> QED BY <1>2, <1>3, <1>4, <1>5, <1>6, <1>7, ChatSplit

LEMMA BoundsStep ==
    ASSUME Types, InBounds, [Next]_vars
    PROVE  InBounds'
<1> USE DEF rows, job, bounds
<1>1. CASE UNCHANGED <<rounds, buffer>>
  BY <1>1 DEF InBounds
<1>2. CASE UNCHANGED vars
  BY <1>1, <1>2 DEF vars
<1>3. ASSUME NEW t \in Turn, Job(t) PROVE InBounds'
  <2>1. CASE Emit(t)
    <3>1. /\ rounds' = rounds /\ buffer' = [buffer EXCEPT ![t] = @ + 1]
          /\ buffer[t] < Fragments[t] /\ buffer[t] \in Nat /\ Fragments[t] \in Nat
      BY <2>1, ChatAssumption DEF Emit, Types
    <3>2. buffer'[t] = buffer[t] + 1 /\ \A u \in Turn : u # t => buffer'[u] = buffer[u]
      BY <3>1 DEF Types
    <3>3. buffer'[t] <= Fragments[t]
      BY <3>1, <3>2
    <3> QED BY <3>1, <3>2, <3>3 DEF InBounds
  <2>2. CASE ToolRound(t)
    <3>1. /\ buffer' = buffer /\ rounds' = [rounds EXCEPT ![t] = @ + 1]
          /\ rounds[t] < ToolRounds[t] /\ rounds[t] \in Nat /\ ToolRounds[t] \in Nat
      BY <2>2, ChatAssumption DEF ToolRound, Types
    <3>2. rounds'[t] = rounds[t] + 1 /\ \A u \in Turn : u # t => rounds'[u] = rounds[u]
      BY <3>1 DEF Types
    <3>3. rounds'[t] <= ToolRounds[t]
      BY <3>1, <3>2
    <3> QED BY <3>1, <3>2, <3>3 DEF InBounds
  <2>3. CASE Unregister(t)
    <3>1. rounds' = [rounds EXCEPT ![t] = 0] /\ buffer' = [buffer EXCEPT ![t] = 0]
      BY <2>3 DEF Unregister
    <3>2. /\ rounds'[t] = 0 /\ buffer'[t] = 0
          /\ \A u \in Turn : u # t => rounds'[u] = rounds[u] /\ buffer'[u] = buffer[u]
      BY <3>1 DEF Types
    <3>3. Fragments[t] \in Nat /\ ToolRounds[t] \in Nat
      BY ChatAssumption
    <3> QED BY <3>2, <3>3 DEF InBounds
  <2>4. CASE ~ Emit(t) /\ ~ ToolRound(t) /\ ~ Unregister(t)
    <3>1. UNCHANGED <<rounds, buffer>>
      BY <1>3, <2>4 DEF Job, StartTurn, Register, DropPost, FinishRead, FinishCommit,
                        SendDone, JobEnds, RecordFailure
    <3> QED BY <1>1, <3>1
  <2> QED BY <2>1, <2>2, <2>3, <2>4
<1>4. ASSUME NEW t \in Turn, Row(t) PROVE InBounds'
  BY <1>1, <1>4 DEF Row, UpdatePartial, Reap, CancelMessage
<1>5. ASSUME NEW r \in Reader, Page(r) PROVE InBounds'
  BY <1>1, <1>5, PagesOnly
<1>6. CASE CancelFail \/ DeleteCancel \/ DeleteRows \/ Restart
  BY <1>1, <1>6 DEF CancelFail, DeleteCancel, DeleteRows, Restart
<1>7. CASE Crash
  <2>1. \A u \in Turn : rounds'[u] = 0 /\ buffer'[u] = 0
    BY <1>7 DEF Crash
  <2>2. \A u \in Turn : Fragments[u] \in Nat /\ ToolRounds[u] \in Nat
    BY ChatAssumption
  <2> QED BY <2>1, <2>2 DEF InBounds
<1> QED BY <1>2, <1>3, <1>4, <1>5, <1>6, <1>7, ChatSplit

LEMMA Two ==
    ASSUME NEW l \in Seq(Entry), NEW a \in Entry, NEW b \in Entry
    PROVE  /\ l \o <<a, b>> = Append(Append(l, a), b)
           /\ l \o <<a, b>> \in Seq(Entry) /\ Len(l \o <<a, b>>) = Len(l) + 2
           /\ \A i \in 1..(Len(l) + 2) :
                 (l \o <<a, b>>)[i] \in {a, b} \/ (i \in 1..Len(l) /\ (l \o <<a, b>>)[i] = l[i])
OBVIOUS

LEMMA OneLast ==
    ASSUME NEW l, NEW t \in Turn, NEW u \in Turn, Ending(l, t), Ending(l, u)
    PROVE  t = u
<1>1. PICK f \in Seq(Entry) : l = Append(Append(f, Message(t, "user")), Message(t, "answer"))
  BY DEF Ending, EndsWith
<1>2. PICK g \in Seq(Entry) : l = Append(Append(g, Message(u, "user")), Message(u, "answer"))
  BY DEF Ending, EndsWith
<1>3. l[Len(l)] = Message(t, "answer")
  BY <1>1, Entries
<1>4. l[Len(l)] = Message(u, "answer")
  BY <1>2, Entries
<1> QED BY <1>3, <1>4, Entries

LEMMA EntryTurn == \A e \in Entry : e.turn \in Turn
BY DEF Entry

LEMMA StillLog ==
    ASSUME LogInv, Still, \A t \in Turn : lock' = t => lock = t \/ (Generating(t)' /\ Exists')
    PROVE  log' \in Seq(Entry) /\ Began' /\ InOrder' /\ StandsLast'
<1>1. log' = log /\ log \in Seq(Entry)
  BY DEF LogInv, Still
<1>2. Began'
  <2>1. \A i \in 1..Len(log) : log[i].turn \in Turn
    BY <1>1, EntryTurn
  <2> QED BY <1>1, <2>1 DEF LogInv, Began, Still
<1>3. InOrder'
  BY DEF LogInv, InOrder, Still
<1>4. StandsLast'
  <2> SUFFICES ASSUME NEW t \in Turn, Generating(t)' \/ lock' = t
               PROVE  Exists' /\ Ending(log', t)
    BY DEF StandsLast
  <2>1. Generating(t) \/ lock = t
    BY DEF Still
  <2>2. Exists /\ Ending(log, t)
    BY <2>1 DEF LogInv, StandsLast
  <2> QED BY <1>1, <2>2 DEF Still
<1> QED BY <1>1, <1>2, <1>3, <1>4

LEMMA Starting ==
    ASSUME Types, LogInv, NEW t \in Turn, StartTurn(t)
    PROVE  /\ log \in Seq(Entry)
           /\ log' = Append(Append(log, Message(t, "user")), Message(t, "answer"))
           /\ \A i \in 1..Len(log) : log[i].turn \in Turn /\ log[i].turn # t
           /\ status'[t] = "pending" /\ status[t] = "none"
           /\ \A u \in Turn : u # t => status'[u] = status[u]
           /\ content' = content /\ deletion' = deletion
<1>1. /\ log' = log \o <<Message(t, "user"), Message(t, "answer")>>
      /\ status' = [status EXCEPT ![t] = "pending"] /\ status[t] = "none"
      /\ content' = content /\ deletion' = deletion
  BY DEF StartTurn
<1>2. log \in Seq(Entry) /\ Began
  BY DEF LogInv
<1>3. log' = Append(Append(log, Message(t, "user")), Message(t, "answer"))
  BY <1>1, <1>2, Entries, Two
<1>4. \A i \in 1..Len(log) : log[i].turn \in Turn /\ log[i].turn # t
  BY <1>1, <1>2, EntryTurn DEF Began
<1> QED BY <1>1, <1>2, <1>3, <1>4 DEF Types

LEMMA StartLog ==
    ASSUME Types, LogInv, NEW t \in Turn, StartTurn(t)
    PROVE  log' \in Seq(Entry) /\ Began' /\ InOrder' /\ StandsLast'
<1>1. /\ Exists /\ Exists' /\ lock' = NoTurn /\ NoTurn \notin Turn
      /\ \A u \in Turn : ~ Generating(u)
      /\ \A u \in Turn : u < t => status[u] # "none"
      /\ log' = log \o <<Message(t, "user"), Message(t, "answer")>>
  BY ChatAssumption DEF StartTurn, Exists
<1>2. log \in Seq(Entry) /\ Began /\ InOrder
  BY DEF LogInv
<1> DEFINE a == Message(t, "user")
           b == Message(t, "answer")
<1>3. a \in Entry /\ b \in Entry /\ a.turn = t /\ b.turn = t
  BY Entries
<1>4. /\ log' \in Seq(Entry) /\ Len(log') = Len(log) + 2
      /\ \A i \in 1..(Len(log) + 2) : log'[i] \in {a, b} \/ (i \in 1..Len(log) /\ log'[i] = log[i])
  <2> HIDE DEF a, b
  <2>1. log' = log \o <<a, b>>
    BY <1>1 DEF a, b
  <2> QED BY <1>2, <1>3, <2>1, Two
<1>5. Began'
  <2> SUFFICES ASSUME NEW i \in 1..Len(log') PROVE status'[log'[i].turn] # "none"
    BY DEF Began
  <2>1. CASE log'[i].turn = t
    BY <2>1, Starting
  <2>2. CASE log'[i].turn # t
    <3>1. i \in 1..Len(log) /\ log'[i] = log[i]
      BY <1>3, <1>4, <2>2
    <3> QED BY <1>2, <2>2, <3>1, Starting DEF Began
  <2> QED BY <2>1, <2>2
<1>6. InOrder'
  <2> SUFFICES ASSUME NEW x \in Turn, NEW u \in Turn, u < x, status'[x] # "none"
               PROVE  status'[u] # "none"
    BY DEF InOrder
  <2>1. /\ status'[t] = "pending" /\ status[t] = "none"
        /\ \A y \in Turn : y # t => status'[y] = status[y]
    BY Starting
  <2>2. status[u] # "none"
    <3>1. CASE x = t
      BY <1>1, <3>1
    <3>2. CASE x # t
      BY <1>2, <2>1, <3>2 DEF InOrder
    <3> QED BY <3>1, <3>2
  <2> QED BY <2>1, <2>2
<1>7. StandsLast'
  <2> SUFFICES ASSUME NEW u \in Turn, Generating(u)' PROVE Ending(log', u)
    BY <1>1 DEF StandsLast
  <2>1. u = t
    BY <1>1, Starting DEF Generating
  <2>2. EndsWith(log', log, t)
    BY Starting DEF EndsWith
  <2> QED BY <1>2, <2>1, <2>2 DEF Ending
<1> QED BY <1>4, <1>5, <1>6, <1>7

LEMMA Finishing ==
    ASSUME Types, RowsTold, LogInv, NEW t \in Turn, FinishCommit(t)
    PROVE  /\ Exists /\ status[t] \notin {"none", "complete"} /\ status'[t] = "complete"
           /\ \A u \in Turn : u # t => status'[u] = status[u] /\ content'[u] = content[u]
           /\ content'[t] = Answer(buffer[t])
           /\ lock' = NoTurn /\ deletion' = deletion
           /\ Ending(log, t)
           /\ log' = Only(log, Entry \ {Message(t, "answer")}) \o Plumbing(t)
                        \o <<Message(t, "answer")>>
<1>1. /\ task[t] = "finish" /\ deletion' = deletion /\ lock' = NoTurn
      /\ status' = [status EXCEPT ![t] = "complete"]
      /\ content' = [content EXCEPT ![t] = Answer(buffer[t])]
      /\ log' = Only(log, Entry \ {Message(t, "answer")}) \o Plumbing(t)
                        \o <<Message(t, "answer")>>
  BY DEF FinishCommit, Finished
<1>2. Exists /\ Ending(log, t)
  BY <1>1 DEF LogInv, Held, StandsLast
<1>3. Told(t)
  BY <1>2 DEF RowsTold
<1>4. status[t] \notin {"none", "complete"}
  BY <1>1, <1>3 DEF Told
<1> QED BY <1>1, <1>2, <1>4 DEF Types

LEMMA Joined ==
    ASSUME NEW s \in Seq(Entry), NEW p \in Seq(Entry)
    PROVE  /\ s \o p \in Seq(Entry) /\ Len(s \o p) = Len(s) + Len(p)
           /\ Len(s) \in Nat /\ Len(p) \in Nat
           /\ \A i \in 1..Len(s) : (s \o p)[i] = s[i]
           /\ \A i \in 1..Len(p) : (s \o p)[Len(s) + i] = p[i]
OBVIOUS

Moved(front, t, tools) ==
    Append(front, Message(t, "user")) \o tools \o <<Message(t, "answer")>>

LEMMA Behind ==
    ASSUME NEW l, NEW front \in Seq(Entry), NEW t \in Turn, EndsWith(l, front, t),
           NEW tools \in Seq(Entry), \A i \in 1..Len(tools) : tools[i].turn = t
    PROVE  /\ Moved(front, t, tools) \in Seq(Entry)
           /\ \A i \in 1..Len(Moved(front, t, tools)) :
                 \/ Moved(front, t, tools)[i].turn = t
                 \/ i \in 1..Len(l) /\ Moved(front, t, tools)[i] = l[i]
<1> DEFINE a == Message(t, "user")
           b == Message(t, "answer")
           s == Append(front, a)
           m == Moved(front, t, tools)
<1>1. a \in Entry /\ b \in Entry /\ a.turn = t /\ b.turn = t
  BY Entries
<1>2. l = Append(s, b)
  BY DEF EndsWith
<1> HIDE DEF a, b
<1>3. /\ s \in Seq(Entry) /\ Len(s) = Len(front) + 1 /\ s[Len(front) + 1] = a
      /\ \A i \in 1..Len(front) : s[i] = front[i]
  BY <1>1
<1> HIDE DEF s
<1>4. Len(l) = Len(s) + 1 /\ \A i \in 1..Len(s) : l[i] = s[i]
  BY <1>1, <1>2, <1>3
<1> DEFINE q == s \o tools
<1>5. /\ q \in Seq(Entry) /\ Len(q) = Len(s) + Len(tools)
      /\ \A i \in 1..Len(s) : q[i] = s[i]
      /\ \A i \in 1..Len(q) : i \notin 1..Len(s) => q[i].turn = t
  <2>1. /\ q \in Seq(Entry) /\ Len(q) = Len(s) + Len(tools) /\ Len(s) \in Nat /\ Len(tools) \in Nat
        /\ \A i \in 1..Len(s) : q[i] = s[i]
        /\ \A j \in 1..Len(tools) : q[Len(s) + j] = tools[j]
    BY <1>3, Joined
  <2> HIDE DEF q
  <2>2. ASSUME NEW i \in 1..Len(q), i \notin 1..Len(s) PROVE q[i].turn = t
    <3>1. i - Len(s) \in 1..Len(tools) /\ Len(s) + (i - Len(s)) = i
      BY <2>1, <2>2
    <3> QED BY <2>1, <3>1
  <2> QED BY <2>1, <2>2
<1> HIDE DEF q
<1>6. m = q \o <<b>>
  BY DEF q, s, a, b, Moved
<1> HIDE DEF m
<1>7. /\ m \in Seq(Entry) /\ Len(m) = Len(q) + 1 /\ m[Len(q) + 1] = b
      /\ \A i \in 1..Len(q) : m[i] = q[i]
  <2>1. q \in Seq(Entry)
    BY <1>5
  <2>2. Append(q, b) \in Seq(Entry) /\ m = Append(q, b)
    BY <1>1, <1>6, <2>1
  <2> QED BY <1>1, <2>1, <2>2
<1>8. ASSUME NEW i \in 1..Len(m) PROVE m[i].turn = t \/ (i \in 1..Len(l) /\ m[i] = l[i])
  <2>0. Len(q) \in Nat /\ Len(s) \in Nat
    BY <1>3, <1>5
  <2>1. CASE i = Len(q) + 1
    BY <1>1, <1>7, <2>1
  <2>2. CASE i \in 1..Len(q)
    <3>1. CASE i \in 1..Len(s)
      BY <1>4, <1>5, <1>7, <2>0, <2>2, <3>1
    <3>2. CASE i \notin 1..Len(s)
      BY <1>5, <1>7, <2>2, <3>2
    <3> QED BY <3>1, <3>2
  <2>3. i = Len(q) + 1 \/ i \in 1..Len(q)
    BY <1>7, <2>0
  <2> QED BY <2>1, <2>2, <2>3
<1> QED BY <1>7, <1>8 DEF m

LEMMA ToolTurns ==
    ASSUME Types, NEW t \in Turn PROVE \A i \in 1..Len(Plumbing(t)) : Plumbing(t)[i].turn = t
<1>1. 2 * rounds[t] \in Nat
  BY DEF Types
<1>2. Len(Plumbing(t)) = 2 * rounds[t]
  BY <1>1 DEF Plumbing
<1> QED BY <1>2, Entries DEF Plumbing

LEMMA FinishLog ==
    ASSUME Types, RowsTold, LogInv, NEW t \in Turn, FinishCommit(t)
    PROVE  log' \in Seq(Entry) /\ Began' /\ InOrder' /\ StandsLast'
<1>1. PICK front \in Seq(Entry) : EndsWith(log, front, t)
  BY Finishing DEF Ending
<1>2. log' = Append(front, Message(t, "user")) \o Plumbing(t) \o <<Message(t, "answer")>>
  <2>1. Only(log, Entry \ {Message(t, "answer")}) = Append(front, Message(t, "user"))
    BY <1>1, MovedOut
  <2> QED BY <2>1, Finishing
<1>3. /\ log' \in Seq(Entry)
      /\ \A i \in 1..Len(log') : log'[i].turn = t \/ (i \in 1..Len(log) /\ log'[i] = log[i])
  <2> DEFINE tools == Plumbing(t)
             l == log
  <2>1. tools \in Seq(Entry) /\ \A i \in 1..Len(tools) : tools[i].turn = t
    BY Plumbed, ToolTurns
  <2>2. log' = Moved(front, t, tools)
    BY <1>2 DEF Moved
  <2>3. EndsWith(l, front, t)
    BY <1>1
  <2> HIDE DEF tools, l
  <2>4. /\ Moved(front, t, tools) \in Seq(Entry)
        /\ \A i \in 1..Len(Moved(front, t, tools)) :
              \/ Moved(front, t, tools)[i].turn = t
              \/ i \in 1..Len(l) /\ Moved(front, t, tools)[i] = l[i]
    BY <2>1, <2>3, Behind
  <2> QED BY <2>2, <2>4 DEF l
<1>4. Began /\ InOrder /\ StandsLast /\ log \in Seq(Entry)
  BY DEF LogInv
<1>5. Began'
  <2> SUFFICES ASSUME NEW i \in 1..Len(log') PROVE status'[log'[i].turn] # "none"
    BY DEF Began
  <2>1. CASE log'[i].turn = t
    BY <2>1, Finishing
  <2>2. CASE log'[i].turn # t
    <3>1. i \in 1..Len(log) /\ log'[i] = log[i] /\ log[i].turn \in Turn
      BY <1>3, <1>4, <2>2, EntryTurn
    <3>2. status[log[i].turn] # "none"
      BY <1>4, <3>1 DEF Began
    <3>3. \A u \in Turn : u # t => status'[u] = status[u]
      BY Finishing
    <3> QED BY <2>2, <3>1, <3>2, <3>3
  <2> QED BY <2>1, <2>2
<1>6. InOrder'
  BY <1>4, Finishing DEF InOrder
<1>7. StandsLast'
  <2> SUFFICES ASSUME NEW u \in Turn, Generating(u)' \/ lock' = u PROVE FALSE
    BY DEF StandsLast
  <2>1. Generating(u)' /\ u # t
    BY Finishing, ChatAssumption DEF Generating, Active
  <2>2. Generating(u)
    BY <2>1, Finishing DEF Generating
  <2>3. Ending(log, u) /\ Ending(log, t)
    BY <1>4, <2>2, Finishing DEF StandsLast
  <2> QED BY <2>1, <2>3, OneLast
<1> QED BY <1>3, <1>5, <1>6, <1>7

LEMMA DeleteLog ==
    ASSUME LogInv, DeleteRows PROVE log' \in Seq(Entry) /\ Began' /\ InOrder' /\ StandsLast'
<1>1. log' = << >> /\ Len(log') = 0 /\ lock' = NoTurn /\ NoTurn \notin Turn
      /\ \A t \in Turn : status'[t] = "none"
  BY ChatAssumption DEF DeleteRows
<1> QED BY <1>1 DEF Began, InOrder, StandsLast, Generating, Active

LEMMA LogInit == Init => LogInv
<1> SUFFICES ASSUME Init PROVE LogInv
  OBVIOUS
<1>1. log \in Seq(Entry) /\ Len(log) = 0 /\ lock = NoTurn /\ NoTurn \notin Turn
  BY ChatAssumption DEF Init
<1>2. \A t \in Turn : status[t] = "none" /\ task[t] = "none" /\ rounds[t] = 0 /\ buffer[t] = 0
  BY DEF Init
<1>3. InBounds
  BY <1>2, ChatAssumption DEF InBounds
<1> QED BY <1>1, <1>2, <1>3 DEF LogInv, Began, InOrder, Held, StandsLast, Generating, Active

LEMMA LogStep == ASSUME Types, RowsTold, LogInv, [Next]_vars PROVE LogInv'
<1>1. /\ Held' /\ lock' \in Turn \union {NoTurn}
      /\ \A t \in Turn : lock' = t => lock = t \/ (Generating(t)' /\ Exists')
  BY HeldStep DEF LogInv
<1>2. InBounds'
  BY BoundsStep DEF LogInv
<1>3. log' \in Seq(Entry) /\ Began' /\ InOrder' /\ StandsLast'
  BY <1>1, StillStep, StillLog, StartLog, FinishLog, DeleteLog
<1> QED BY <1>1, <1>2, <1>3 DEF LogInv

-----------------------------------------------------------------------------
(* What the conversation keeps, step by step.                              *)
LEMMA Replayed ==
    /\ Replay = Only(log, Shown(status)) /\ Replay' = Only(log', Shown(status'))
    /\ Said = [t \in Turn |-> IF status[t] = "complete" THEN content[t] ELSE << >>]
    /\ Said' = [t \in Turn |-> IF status'[t] = "complete" THEN content'[t] ELSE << >>]
BY DEF Replay, Said, Answered, Shown

LEMMA InitPromised == Init => Promised!Init
<1> SUFFICES ASSUME Init PROVE Promised!Init
  OBVIOUS
<1>1. log = << >> /\ Exists /\ \A t \in Turn : status[t] = "none"
  BY DEF Init, Exists
<1>2. Replay = << >>
  BY <1>1, Replayed, OnlyEmpty
<1>3. Said = [t \in Turn |-> << >>]
  BY <1>1, Replayed
<1> QED BY <1>1, <1>2, <1>3 DEF Promised!Init, Promised!Unsaid

LEMMA StillPromised == ASSUME LogInv, Still PROVE UNCHANGED Promised!vars
<1>1. log' = log /\ log \in Seq(Entry) /\ (Exists' <=> Exists)
  BY DEF LogInv, Still
<1>2. Only(log, Shown(status)) = Only(log, Shown(status'))
  <2> DEFINE l == log
             st == status
             st2 == status'
  <2>1. l \in Seq(Entry)
    BY <1>1
  <2>2. \A i \in 1..Len(l) : l[i].turn \in Turn
    BY <1>1, EntryTurn
  <2>3. \A i \in 1..Len(l) : st[l[i].turn] = "complete" <=> st2[l[i].turn] = "complete"
    BY <2>2 DEF Still
  <2> HIDE DEF l, st, st2
  <2>4. Only(l, Shown(st)) = Only(l, Shown(st2))
    BY <2>1, <2>3, SameShown
  <2> QED BY <2>4 DEF l, st, st2
<1>3. Replay' = Replay
  BY <1>1, <1>2, Replayed
<1>4. Said' = Said
  BY Replayed DEF Still
<1> QED BY <1>1, <1>3, <1>4 DEF Promised!vars

LEMMA AskPromised ==
    ASSUME Types, LogInv, NEW t \in Turn, StartTurn(t) PROVE Promised!Ask
<1> DEFINE l == log
           st == status
           st2 == status'
<1>1. /\ l \in Seq(Entry)
      /\ log' = Append(Append(l, Message(t, "user")), Message(t, "answer"))
      /\ \A i \in 1..Len(l) : l[i].turn \in Turn /\ l[i].turn # t
      /\ st2[t] = "pending" /\ st[t] = "none"
      /\ \A u \in Turn : u # t => st2[u] = st[u]
      /\ content' = content /\ deletion' = deletion
  BY Starting
<1>2. \A i \in 1..Len(l) : st[l[i].turn] = "complete" <=> st2[l[i].turn] = "complete"
  BY <1>1
<1>3. Exists /\ Exists' /\ InOrder /\ Began
  BY DEF StartTurn, Exists, LogInv
<1>4. Said' = Said
  BY <1>1, Replayed
<1> HIDE DEF l, st, st2
<1>5. Only(l, Shown(st)) = Only(l, Shown(st2))
  BY <1>1, <1>2, SameShown
<1>6. Only(Append(Append(l, Message(t, "user")), Message(t, "answer")), Shown(st2))
         = Append(Only(l, Shown(st2)), Message(t, "user"))
  BY <1>1, AskShown
<1>7. Replay = Only(l, Shown(st)) /\ Replay' = Only(log', Shown(st2))
  BY Replayed DEF l, st, st2
<1>8. Replay' = Append(Replay, Message(t, "user"))
  BY <1>1, <1>5, <1>6, <1>7
<1>9. \A i \in 1..Len(l) : l[i].turn < t
  <2> SUFFICES ASSUME NEW i \in 1..Len(l) PROVE l[i].turn < t
    OBVIOUS
  <2>1. l[i].turn \in Nat /\ t \in Nat /\ l[i].turn # t
    BY <1>1, ChatAssumption DEF Turn
  <2>2. ~(t < l[i].turn)
    <3>1. status[l[i].turn] # "none" /\ status[t] = "none"
      BY <1>1, <1>3 DEF Began, l, st
    <3> QED BY <1>1, <1>3, <3>1 DEF InOrder
  <2> QED BY <2>1, <2>2
<1>10. \A i \in DOMAIN Replay : Replay[i].turn < t
  <2> DEFINE T == Shown(st)
             q == Only(l, T)
  <2>1. PICK h : Chosen(h, l, Len(l), T, q)
    <3> HIDE DEF T, q
    <3>1. \E h : Chosen(h, l, Len(l), T, Only(l, T))
      BY <1>1, OnlyChosen
    <3> QED BY <3>1 DEF q
  <2>2. q \in Seq(Entry)
    <3> HIDE DEF T
    <3> QED BY <1>1, OnlyChosen
  <2> HIDE DEF T, q
  <2>3. \A i \in 1..Len(q) : h[i] \in 1..Len(l) /\ q[i] = l[h[i]]
    BY <2>1 DEF Chosen
  <2>4. DOMAIN q = 1..Len(q)
    BY <2>2
  <2>5. \A i \in DOMAIN q : q[i].turn < t
    BY <1>9, <2>3, <2>4
  <2> QED BY <1>7, <2>5 DEF q, T
<1>11. Promised!Message(t, "user") = Message(t, "user")
  BY DEF Promised!Message, Message
<1> QED BY <1>3, <1>4, <1>8, <1>10, <1>11 DEF Promised!Ask

LEMMA CompletePromised ==
    ASSUME Types, RowsTold, LogInv, NEW t \in Turn, FinishCommit(t) PROVE Promised!Complete
<1> DEFINE l == log
           st == status
           st2 == status'
           tools == Plumbing(t)
<1>1. /\ Exists /\ st[t] # "complete" /\ st2[t] = "complete"
      /\ \A u \in Turn : u # t => st2[u] = st[u] /\ content'[u] = content[u]
      /\ content'[t] = Answer(buffer[t])
      /\ deletion' = deletion
      /\ log' = Only(l, Entry \ {Message(t, "answer")}) \o tools \o <<Message(t, "answer")>>
  BY Finishing
<1>2. PICK front \in Seq(Entry) : EndsWith(l, front, t)
  BY Finishing DEF Ending
<1>3. tools \in Seq(Entry) /\ \A i \in 1..Len(tools) : tools[i].kind # "answer"
  BY Plumbed
<1>4. Replay = Only(l, Shown(st)) /\ Replay' = Only(log', Shown(st2))
  BY Replayed
<1>5. /\ Replay = Append(Only(front, Shown(st)), Message(t, "user"))
      /\ Replay' = Replay \o tools \o <<Message(t, "answer")>>
  <2> HIDE DEF l, st, st2, tools
  <2>1. Completes(st, st2, t)
    BY <1>1 DEF Completes
  <2>2. tools \in Seq(Entry) /\ NoAnswer(tools)
    BY <1>3 DEF NoAnswer
  <2>3. MovesBack(l, front, t, st, st2, tools)
    BY <1>2, <2>1, <2>2, MovedBack
  <2> QED BY <1>1, <1>4, <2>3 DEF MovesBack
<1>6. Replay # << >> /\ Replay[Len(Replay)] = Message(t, "user")
  <2> DEFINE s == Only(front, Shown(st))
             m == Message(t, "user")
  <2>1. s \in Seq(Entry) /\ m \in Entry
    <3>1. \A T : Only(front, T) \in Seq(Entry)
      BY OnlyChosen
    <3> QED BY <3>1, Entries
  <2>2. Replay = Append(s, m)
    BY <1>5
  <2> HIDE DEF s, m
  <2>3. Append(s, m) # << >> /\ Append(s, m)[Len(Append(s, m))] = m
    BY <2>1
  <2> QED BY <2>2, <2>3 DEF m
<1>7. Replay[Len(Replay)].kind = "user" /\ Replay[Len(Replay)].turn = t
  BY <1>6, Entries
<1>8. Said' = [Said EXCEPT ![t] = Answer(buffer[t])]
  <2>1. \A u \in Turn : Said'[u] = IF u = t THEN Answer(buffer[t]) ELSE Said[u]
    BY <1>1, Replayed
  <2> QED BY <2>1, Replayed
<1>9. rounds[t] \in 0..ToolRounds[t]
  BY ChatAssumption DEF LogInv, InBounds, Types
<1>10. Answer(buffer[t]) \in Promised!Texts(t)
  <2>1. buffer[t] \in Nat /\ buffer[t] <= Fragments[t] /\ Fragments[t] \in Nat
    BY ChatAssumption DEF LogInv, InBounds, Types
  <2>2. CASE buffer[t] = 0
    BY <2>2 DEF Answer, Promised!Texts
  <2>3. CASE buffer[t] # 0
    BY <2>1, <2>3 DEF Answer, Text, Promised!Texts
  <2> QED BY <2>2, <2>3
<1>11. Promised!Calls(t, rounds[t]) = tools /\ Promised!Message(t, "answer") = Message(t, "answer")
  BY DEF Promised!Calls, Promised!Message, Plumbing, Message
<1>12. Exists' <=> Exists
  BY <1>1 DEF Exists
<1> HIDE DEF l, st, st2, tools
<1> QED BY <1>1, <1>5, <1>6, <1>7, <1>8, <1>9, <1>10, <1>11, <1>12 DEF Promised!Complete

LEMMA DeletePromised == ASSUME DeleteRows PROVE Promised!Delete
<1>1. /\ Exists /\ ~ Exists' /\ log' = << >> /\ \A t \in Turn : status'[t] = "none"
  BY DEF DeleteRows, Exists
<1>2. Replay' = << >>
  BY <1>1, Replayed, OnlyEmpty
<1>3. Said' = [t \in Turn |-> << >>]
  BY <1>1, Replayed
<1> QED BY <1>1, <1>2, <1>3 DEF Promised!Delete, Promised!Unsaid

LEMMA StepPromised ==
    ASSUME Types, RowsTold, LogInv, [Next]_vars PROVE [Promised!Next]_(Promised!vars)
<1>1. CASE Still
  BY <1>1, StillPromised
<1>2. CASE DeleteRows
  BY <1>2, DeletePromised DEF Promised!Next
<1>3. ASSUME NEW t \in Turn, StartTurn(t) PROVE Promised!Next
  BY <1>3, AskPromised DEF Promised!Next
<1>4. ASSUME NEW t \in Turn, FinishCommit(t) PROVE Promised!Next
  BY <1>4, CompletePromised DEF Promised!Next
<1> QED BY <1>1, <1>2, <1>3, <1>4, StillStep

(* Every stored message is of a turn that has begun, and the question and  *)
(* the answer of the turn that generates, or is being finished under the   *)
(* conversation's lock, stand last (start_turn, finish_turn).              *)
THEOREM LogInvHolds == Spec => []LogInv
<1>1. ChatInv /\ LogInv /\ [Next]_vars => LogInv'
  BY LogStep DEF ChatInv
<1> QED BY <1>1, LogInit, ChatInvHolds, PTL DEF Spec

(* What later turns replay only grows, by a question, or by all of a       *)
(* turn's calls, their replies and its answer at once, until it is deleted *)
(* as a whole: ChatTurn implements Transcript (start_turn, finish_turn,    *)
(* load_transcript).                                                       *)
THEOREM TranscriptIsKept == Spec => KeepsTranscript
<1>1. ChatInv /\ LogInv /\ [Next]_vars => [Promised!Next]_(Promised!vars)
  BY StepPromised DEF ChatInv
<1> QED BY <1>1, InitPromised, ChatInvHolds, LogInvHolds, PTL
        DEF Spec, KeepsTranscript, Promised!Spec

-----------------------------------------------------------------------------
(* The types in full.                                                      *)
LEMMA Longest ==
    /\ LongestAnswer \in Nat
    /\ \A t \in Turn, n \in Nat : n <= Fragments[t] => n <= LongestAnswer
<1>1. NTurns \in Nat /\ NTurns # 0 /\ \A t \in Turn : Fragments[t] \in Nat
  BY ChatAssumption
<1> DEFINE M == {k \in 0..NTurns : k = 0 \/ \E m \in 1..k : \A t \in 1..k : Fragments[t] <= Fragments[m]}
<1>2. 0 \in M
  BY <1>1
<1>3. ASSUME NEW k \in 0..NTurns, k \in M, k + 1 \in 0..NTurns PROVE k + 1 \in M
  <2>1. Fragments[k + 1] \in Nat /\ \A t \in 1..k : Fragments[t] \in Nat /\ t \in 1..(k + 1)
    BY <1>1, <1>3 DEF Turn
  <2>2. CASE k = 0
    <3>1. 1 \in 1..(k + 1) /\ \A t \in 1..(k + 1) : Fragments[t] <= Fragments[1]
      BY <2>1, <2>2
    <3> QED BY <1>3, <3>1
  <2>3. CASE k # 0
    <3>1. PICK m \in 1..k : \A t \in 1..k : Fragments[t] <= Fragments[m]
      BY <1>3, <2>3
    <3>2. CASE Fragments[k + 1] <= Fragments[m]
      <4>1. \A t \in 1..(k + 1) : Fragments[t] <= Fragments[m]
        <5> TAKE t \in 1..(k + 1)
        <5>1. t = k + 1 \/ t \in 1..k
          OBVIOUS
        <5> QED BY <3>1, <3>2, <5>1
      <4> QED BY <1>3, <2>1, <3>1, <4>1
    <3>3. CASE ~(Fragments[k + 1] <= Fragments[m])
      <4>1. \A t \in 1..(k + 1) : Fragments[t] <= Fragments[k + 1]
        <5> TAKE t \in 1..(k + 1)
        <5>1. t = k + 1 \/ t \in 1..k
          OBVIOUS
        <5> QED BY <2>1, <3>1, <3>3, <5>1
      <4>2. k + 1 \in 1..(k + 1)
        BY <1>3
      <4> QED BY <1>3, <4>1, <4>2
    <3> QED BY <3>2, <3>3
  <2> QED BY <2>2, <2>3
<1>4. NTurns \in M
  <2> HIDE DEF M
  <2>1. 0..NTurns \subseteq M
    BY <1>1, <1>2, <1>3, UpTo
  <2> QED BY <1>1, <2>1
<1>5. PICK m \in Turn : \A t \in Turn : Fragments[t] <= Fragments[m]
  BY <1>1, <1>4 DEF Turn
<1>6. \E n \in {Fragments[t] : t \in Turn} : \A t \in Turn : Fragments[t] <= n
  BY <1>5
<1>7. /\ LongestAnswer \in {Fragments[t] : t \in Turn}
      /\ \A t \in Turn : Fragments[t] <= LongestAnswer
  BY <1>6 DEF LongestAnswer
<1> QED BY <1>1, <1>7

LEMMA AllTexts ==
    ASSUME NEW t \in Turn, NEW n \in Nat, n <= Fragments[t]
    PROVE  /\ << >> \in Texts /\ Text(n) \in Texts /\ Answer(n) \in Texts
           /\ Delta(n) \in ChatEvent /\ ToolEvent \in ChatEvent /\ Failed \in ChatEvent
           /\ Done(Answer(n)) \in ChatEvent
<1>1. n \in 0..LongestAnswer /\ 0 \in 0..LongestAnswer
  BY Longest
<1>2. Text(n) \in Texts /\ Text(0) \in Texts /\ <<0>> \in Texts
  BY <1>1 DEF Texts
<1>3. Text(0) = << >>
  BY DEF Text
<1> HIDE DEF Texts
<1>4. << >> \in Texts /\ Answer(n) \in Texts
  BY <1>2, <1>3 DEF Answer
<1> QED BY <1>1, <1>2, <1>4 DEF Delta, ToolEvent, Failed, Done, ChatEvent

(* What Types leaves out.                                                  *)
FullTypes ==
    /\ up \in BOOLEAN
    /\ deletion \in {"none", "cancelled", "deleted"}
    /\ content \in [Turn -> Texts]
    /\ flag \in SUBSET Turn
    /\ channel \in [Turn -> Seq(ChatEvent)]
    /\ stops \in 0..MaxStops
    /\ faults \in 0..MaxFaults

LEMMA CountUp == ASSUME NEW m \in Nat, NEW n \in 0..m, n < m PROVE n + 1 \in 0..m
OBVIOUS

LEMMA SentTyped ==
    ASSUME FullTypes, NEW t \in Turn, NEW e \in ChatEvent, Send(t, e)
    PROVE  channel' \in [Turn -> Seq(ChatEvent)]
<1>1. Append(channel[t], e) \in Seq(ChatEvent)
  BY DEF FullTypes
<1> QED BY <1>1 DEF FullTypes, Send

LEMMA FullStep ==
    ASSUME Types, InBounds, FullTypes, [Next]_vars PROVE FullTypes'
<1> USE DEF rows, job, bounds
<1>1. MaxStops \in Nat /\ MaxFaults \in Nat
  BY ChatAssumption
<1>2. \A t \in Turn : buffer[t] \in Nat /\ buffer[t] <= Fragments[t] /\ Fragments[t] \in Nat
  BY ChatAssumption DEF Types, InBounds
<1>3. stops' \in 0..MaxStops /\ faults' \in 0..MaxFaults
  <2>1. /\ stops' = stops \/ (stops < MaxStops /\ stops' = stops + 1)
        /\ faults' = faults \/ (faults < MaxFaults /\ faults' = faults + 1)
    BY DEF Next, TurnStep, PageStep, StartTurn, Register, DropPost, Emit, ToolRound, FinishRead,
           FinishCommit, SendDone, JobEnds, RecordFailure, Unregister, UpdatePartial, Reap,
           CancelMessage, CancelFail, DeleteCancel, DeleteRows, Reconnect, Snapshot, Receive,
           Disconnect, Subscribe, Crash, Restart, vars
  <2> QED BY <1>1, <2>1, CountUp DEF FullTypes
<1>4. up' \in BOOLEAN /\ deletion' \in {"none", "cancelled", "deleted"}
  BY DEF FullTypes, Exists, Next, TurnStep, PageStep, StartTurn, Register, DropPost, Emit,
         ToolRound, FinishRead, FinishCommit, SendDone, JobEnds, RecordFailure, Unregister,
         UpdatePartial, Reap, CancelMessage, CancelFail, DeleteCancel, DeleteRows, Reconnect,
         Snapshot, Receive, Disconnect, Subscribe, Crash, Restart, vars
<1>5. UNCHANGED content \/ DeleteRows
         \/ \E t \in Turn : UpdatePartial(t) \/ FinishCommit(t)
  BY DEF Next, TurnStep, PageStep, StartTurn, Register, DropPost, Emit, ToolRound, FinishRead,
         SendDone, JobEnds, RecordFailure, Unregister, Reap, CancelMessage, CancelFail,
         DeleteCancel, Reconnect, Snapshot, Receive, Disconnect, Subscribe, Crash, Restart, vars
<1>6. content' \in [Turn -> Texts]
  <2>1. ASSUME NEW t \in Turn, NEW s \in Texts, content' = [content EXCEPT ![t] = s]
        PROVE  content' \in [Turn -> Texts]
    BY <2>1 DEF FullTypes
  <2>2. CASE DeleteRows
    <3>1. content' = [t \in Turn |-> << >>]
      BY <2>2 DEF DeleteRows
    <3> QED BY <1>2, <3>1, AllTexts
  <2>3. ASSUME NEW t \in Turn, UpdatePartial(t) PROVE content' \in [Turn -> Texts]
    BY <1>2, <2>1, <2>3, AllTexts DEF UpdatePartial
  <2>4. ASSUME NEW t \in Turn, FinishCommit(t) PROVE content' \in [Turn -> Texts]
    BY <1>2, <2>1, <2>4, AllTexts DEF FinishCommit, Finished
  <2>5. CASE UNCHANGED content
    BY <2>5 DEF FullTypes
  <2> QED BY <1>5, <2>2, <2>3, <2>4, <2>5
<1>7. UNCHANGED channel
         \/ \E t \in Turn : Emit(t) \/ ToolRound(t) \/ SendDone(t) \/ RecordFailure(t)
  BY DEF Next, TurnStep, PageStep, StartTurn, Register, DropPost, FinishRead, FinishCommit,
         JobEnds, Unregister, UpdatePartial, Reap, CancelMessage, CancelFail, DeleteCancel,
         DeleteRows, Reconnect, Snapshot, Receive, Disconnect, Subscribe, Crash, Restart, vars
<1>8. channel' \in [Turn -> Seq(ChatEvent)]
  <2>1. ASSUME NEW t \in Turn, Emit(t) PROVE channel' \in [Turn -> Seq(ChatEvent)]
    <3>1. buffer[t] + 1 \in Nat /\ buffer[t] + 1 <= Fragments[t] /\ Send(t, Delta(buffer[t] + 1))
      BY <1>2, <2>1 DEF Emit
    <3>2. Delta(buffer[t] + 1) \in ChatEvent
      BY <3>1, AllTexts
    <3> QED BY <3>1, <3>2, SentTyped
  <2>2. ASSUME NEW t \in Turn, ToolRound(t) \/ SendDone(t) PROVE channel' \in [Turn -> Seq(ChatEvent)]
    <3>1. ToolEvent \in ChatEvent /\ Done(Answer(buffer[t])) \in ChatEvent
      BY <1>2, AllTexts
    <3> QED BY <2>2, <3>1, SentTyped DEF ToolRound, SendDone
  <2>3. ASSUME NEW t \in Turn, RecordFailure(t) PROVE channel' \in [Turn -> Seq(ChatEvent)]
    <3>1. Failed \in ChatEvent
      BY <1>2, AllTexts
    <3>2. Send(t, Failed) \/ channel' = channel
      BY <2>3 DEF RecordFailure
    <3> QED BY <3>1, <3>2, SentTyped DEF FullTypes
  <2>4. CASE UNCHANGED channel
    BY <2>4 DEF FullTypes
  <2> QED BY <1>7, <2>1, <2>2, <2>3, <2>4
<1>9. flag' \in SUBSET Turn
  BY DEF FullTypes, Types, Next, TurnStep, PageStep, StartTurn, Register, DropPost, Emit,
         ToolRound, FinishRead, FinishCommit, SendDone, JobEnds, RecordFailure, Unregister,
         UpdatePartial, Reap, CancelMessage, CancelFail, DeleteCancel, DeleteRows, Reconnect,
         Snapshot, Receive, Disconnect, Subscribe, Crash, Restart, vars
<1> QED BY <1>3, <1>4, <1>6, <1>8, <1>9 DEF FullTypes

LEMMA FullInit == Init => FullTypes
<1> SUFFICES ASSUME Init PROVE FullTypes
  OBVIOUS
<1>1. << >> \in Texts
  <2>1. 1 \in Turn /\ Fragments[1] \in Nat
    BY ChatAssumption DEF Turn
  <2> QED BY <2>1, AllTexts
<1>2. 0 \in 0..MaxStops /\ 0 \in 0..MaxFaults
  BY ChatAssumption
<1> QED BY <1>1, <1>2 DEF Init, FullTypes

LEMMA Typed == ASSUME ChatInv, LogInv, FullTypes PROVE TypeOK
<1>1. reader \in [Reader -> ReaderState]
  <2>1. ASSUME NEW r \in Reader PROVE reader[r] \in ReaderState
    <3>1. reader[r] \in State /\ reader[r].turn \in Turn
      BY DEF ChatInv, PageTypes, Following, Follows
    <3> QED BY <3>1 DEF State, ReaderState
  <2> QED BY <2>1 DEF ChatInv, PageTypes
<1> QED BY <1>1 DEF ChatInv, Types, LogInv, FullTypes, TypeOK

(* Every variable keeps its type: rows, texts, events and pages stay what  *)
(* the code can store, send and show of them.                              *)
THEOREM ChatTypeCorrect == Spec => []TypeOK
<1>1. ChatInv /\ LogInv /\ FullTypes /\ [Next]_vars => FullTypes'
  BY FullStep DEF ChatInv, LogInv
<1>2. ChatInv /\ LogInv /\ FullTypes => TypeOK
  BY Typed
<1> QED BY <1>1, <1>2, FullInit, ChatInvHolds, LogInvHolds, PTL DEF Spec

-----------------------------------------------------------------------------
(* What a run's time and the row's age have in common.                     *)
TimeLeft ==
    \A r \in Run : run[r].pc # "idle" =>
        /\ age + run[r].left <= Timeout
        /\ run[r].pc = "accepted" => age = 0

SavesFollowStarts == saved <= starts

AnalysisInv == Analysis!TypeOK /\ Analysis!ReportStands /\ Analysis!FlagsAreLive /\ TimeLeft /\ SavesFollowStarts

-----------------------------------------------------------------------------
LEMMA AnalysisBounds ==
    /\ Timeout \in Nat /\ ReapGrace \in Nat /\ MaxStarts \in Nat /\ MaxFailures \in Nat
    /\ ReapGrace > 0
    /\ Analysis!Old \in Nat /\ NoRun \notin Run
BY AnalysisFits DEF Analysis!AnalysisAssumption, Analysis!Old

LEMMA NoTaskType == Analysis!NoTask \in Analysis!RunState /\ Analysis!NoTask.pc = "idle" /\ Analysis!NoTask.job = "none" /\ Analysis!NoTask.left = 0
BY AnalysisFits DEF Analysis!AnalysisAssumption, Analysis!NoTask, Analysis!RunState

(* One run changes, and its new state has the type of a run.               *)
LEMMA RunStep ==
    ASSUME Analysis!TypeOK, NEW r \in Run, NEW s \in Analysis!RunState, run' = [run EXCEPT ![r] = s]
    PROVE  /\ run' \in [Run -> Analysis!RunState]
           /\ \A q \in Run : run'[q] = IF q = r THEN s ELSE run[q]
BY DEF Analysis!TypeOK

LEMMA RunFields ==
    ASSUME Analysis!TypeOK, NEW r \in Run
    PROVE  run[r] \in Analysis!RunState /\ run[r].left \in 0..Timeout
BY DEF Analysis!TypeOK, Analysis!RunState

LEMMA FailedType ==
    ASSUME Analysis!TypeOK
    PROVE  /\ Analysis!Failed \in {"none", "pending", "running", "completed", "failed"}
           /\ verdict = "completed" => Analysis!Failed = "completed"
BY DEF Analysis!TypeOK, Analysis!Failed, Analysis!InFlight

(* A run goes on, its flag and its time untouched, over a row that keeps   *)
(* its age and its report.                                                 *)
LEMMA RunGoesOn ==
    ASSUME AnalysisInv, NEW r \in Run, NEW s \in Analysis!RunState, run' = [run EXCEPT ![r] = s],
           s.pc # "idle" => run[r].pc # "idle" /\ s.pc # "accepted",
           s.left <= run[r].left,
           registry' \in {registry, NoRun},
           registry' = r => s.pc \in {"supervised", "ended"},
           UNCHANGED <<age, starts>>
    PROVE  TimeLeft' /\ Analysis!FlagsAreLive'
<1>1. \A q \in Run : run'[q] = IF q = r THEN s ELSE run[q]
  BY RunStep DEF AnalysisInv
<1>2. TimeLeft'
  <2> SUFFICES ASSUME NEW q \in Run, run'[q].pc # "idle"
               PROVE  age + run'[q].left <= Timeout /\ (run'[q].pc = "accepted" => age = 0)
    BY DEF TimeLeft
  <2>1. CASE q = r
    <3>1. age + run[r].left <= Timeout /\ s.left <= run[r].left /\ s.pc # "accepted"
      BY <1>1, <2>1 DEF AnalysisInv, TimeLeft
    <3>2. age \in Nat /\ run[r].left \in Nat /\ s.left \in Nat
      BY RunFields, AnalysisBounds DEF AnalysisInv, Analysis!TypeOK, Analysis!RunState
    <3> QED BY <1>1, <2>1, <3>1, <3>2, AnalysisBounds
  <2>2. CASE q # r
    BY <1>1, <2>2 DEF AnalysisInv, TimeLeft
  <2> QED BY <2>1, <2>2
<1>3. Analysis!FlagsAreLive'
  <2> SUFFICES ASSUME registry' # NoRun PROVE run'[registry'].pc \in {"supervised", "ended"}
    BY DEF Analysis!FlagsAreLive
  <2>1. registry' = registry /\ registry \in Run
    BY DEF AnalysisInv, Analysis!TypeOK
  <2> QED BY <1>1, <2>1 DEF AnalysisInv, Analysis!FlagsAreLive
<1> QED BY <1>2, <1>3

-----------------------------------------------------------------------------
LEMMA AnalysisInit == Analysis!Init => AnalysisInv
<1> SUFFICES ASSUME Analysis!Init PROVE AnalysisInv
  OBVIOUS
<1>1. run \in [Run -> Analysis!RunState]
  BY NoTaskType DEF Analysis!Init
<1>2. 0 \in 0..Analysis!Old /\ 0 \in 0..MaxStarts /\ 0 \in 0..MaxFailures
  BY AnalysisBounds
<1>3. Analysis!TypeOK
  BY <1>1, <1>2 DEF Analysis!Init, Analysis!TypeOK
<1> QED BY <1>3, NoTaskType DEF Analysis!Init, AnalysisInv, Analysis!ReportStands, Analysis!FlagsAreLive, TimeLeft, SavesFollowStarts

LEMMA TickInv ==
    ASSUME AnalysisInv, Analysis!Tick PROVE AnalysisInv'
<1> DEFINE s(r) == IF run[r].left > 0 THEN [run[r] EXCEPT !.left = @ - 1] ELSE run[r]
<1>1. \A r \in Run : /\ s(r) \in Analysis!RunState
                     /\ s(r).pc = run[r].pc
                     /\ s(r).left = IF run[r].left > 0 THEN run[r].left - 1 ELSE 0
  <2> TAKE r \in Run
  <2>1. run[r] \in Analysis!RunState /\ run[r].left \in 0..Timeout
    BY RunFields DEF AnalysisInv
  <2>2. CASE run[r].left > 0
    <3>1. run[r].left - 1 \in 0..Timeout
      BY <2>1, <2>2, AnalysisBounds
    <3> QED BY <2>1, <2>2, <3>1 DEF Analysis!RunState
  <2>3. CASE ~(run[r].left > 0)
    BY <2>1, <2>3, AnalysisBounds
  <2> QED BY <2>2, <2>3
<1>2. \A r \in Run : run'[r] = s(r)
  BY DEF Analysis!Tick
<1>3. run' \in [Run -> Analysis!RunState]
  BY <1>1 DEF Analysis!Tick
<1>4. age' \in 0..Analysis!Old /\ age' <= age + 1
  BY AnalysisBounds DEF AnalysisInv, Analysis!TypeOK, Analysis!Tick
<1>5. Analysis!TypeOK'
  BY <1>3, <1>4 DEF AnalysisInv, Analysis!TypeOK, Analysis!Tick
<1>6. Analysis!ReportStands' /\ SavesFollowStarts'
  BY DEF AnalysisInv, Analysis!ReportStands, SavesFollowStarts, Analysis!Tick
<1>7. Analysis!FlagsAreLive'
  BY <1>1, <1>2 DEF AnalysisInv, Analysis!FlagsAreLive, Analysis!TypeOK, Analysis!Tick
<1>8. TimeLeft'
  <2> SUFFICES ASSUME NEW r \in Run, run'[r].pc # "idle"
               PROVE  age' + run'[r].left <= Timeout /\ (run'[r].pc = "accepted" => age' = 0)
    BY DEF TimeLeft
  <2>1. run[r].pc = "supervised" /\ run[r].left > 0
    BY <1>1, <1>2 DEF Analysis!Tick, Analysis!Quiet
  <2>2. run'[r].pc = "supervised" /\ run'[r].left = run[r].left - 1
    BY <1>1, <1>2, <2>1
  <2>3. age + run[r].left <= Timeout /\ age \in Nat /\ run[r].left \in Nat
    BY <2>1, RunFields, AnalysisBounds DEF AnalysisInv, Analysis!TypeOK, TimeLeft
  <2> HIDE DEF s
  <2> QED BY <1>4, <2>2, <2>3, AnalysisBounds
<1> QED BY <1>5, <1>6, <1>7, <1>8 DEF AnalysisInv

LEMMA StartAnalysisInv ==
    ASSUME AnalysisInv, NEW r \in Run, Analysis!StartAnalysis(r) PROVE AnalysisInv'
<1> DEFINE s == [run[r] EXCEPT !.pc = "accepted"]
<1>1. s \in Analysis!RunState /\ s.pc = "accepted" /\ s.left = 0
  BY NoTaskType, RunFields DEF AnalysisInv, Analysis!StartAnalysis, Analysis!RunState
<1>2. run' = [run EXCEPT ![r] = s]
  BY DEF Analysis!StartAnalysis
<1> HIDE DEF s
<1>3. run' \in [Run -> Analysis!RunState] /\ \A q \in Run : run'[q] = IF q = r THEN s ELSE run[q]
  BY <1>1, <1>2, RunStep DEF AnalysisInv
<1>4. Analysis!TypeOK'
  BY <1>3, AnalysisBounds DEF AnalysisInv, Analysis!TypeOK, Analysis!StartAnalysis
<1>5. Analysis!ReportStands' /\ SavesFollowStarts'
  BY AnalysisBounds DEF AnalysisInv, Analysis!TypeOK, Analysis!ReportStands, SavesFollowStarts, Analysis!StartAnalysis
<1>6. Analysis!FlagsAreLive'
  <2>1. registry # r
    BY NoTaskType, AnalysisBounds DEF AnalysisInv, Analysis!FlagsAreLive, Analysis!StartAnalysis
  <2> QED BY <1>3, <2>1 DEF AnalysisInv, Analysis!TypeOK, Analysis!FlagsAreLive, Analysis!StartAnalysis
<1>7. TimeLeft'
  <2> SUFFICES ASSUME NEW q \in Run PROVE 0 + run'[q].left <= Timeout
    BY DEF TimeLeft, Analysis!StartAnalysis
  <2> QED BY <1>1, <1>3, RunFields, AnalysisBounds DEF AnalysisInv
<1> QED BY <1>4, <1>5, <1>6, <1>7 DEF AnalysisInv

LEMMA RegisterInv ==
    ASSUME AnalysisInv, NEW r \in Run, Analysis!Register(r) PROVE AnalysisInv'
<1> DEFINE s == [run[r] EXCEPT !.pc = "supervised", !.job = "claim", !.left = Timeout]
<1>1. s \in Analysis!RunState /\ s.pc = "supervised" /\ s.left = Timeout
  <2>1. Timeout \in 0..Timeout
    BY AnalysisBounds
  <2> QED BY <2>1, RunFields DEF AnalysisInv, Analysis!RunState
<1>2. run' = [run EXCEPT ![r] = s]
  BY DEF Analysis!Register
<1> HIDE DEF s
<1>3. run' \in [Run -> Analysis!RunState] /\ \A q \in Run : run'[q] = IF q = r THEN s ELSE run[q]
  BY <1>1, <1>2, RunStep DEF AnalysisInv
<1>4. Analysis!TypeOK'
  BY <1>3 DEF AnalysisInv, Analysis!TypeOK, Analysis!Register
<1>5. Analysis!ReportStands' /\ SavesFollowStarts'
  BY DEF AnalysisInv, Analysis!ReportStands, SavesFollowStarts, Analysis!Register
<1>6. Analysis!FlagsAreLive'
  BY <1>1, <1>3 DEF Analysis!FlagsAreLive, Analysis!Register
<1>7. age = 0
  BY DEF AnalysisInv, TimeLeft, Analysis!Register
<1>8. TimeLeft'
  BY <1>1, <1>3, <1>7, AnalysisBounds DEF AnalysisInv, TimeLeft, Analysis!Register
<1> QED BY <1>4, <1>5, <1>6, <1>8 DEF AnalysisInv

LEMMA DropRequestInv ==
    ASSUME AnalysisInv, NEW r \in Run, Analysis!DropRequest(r) PROVE AnalysisInv'
<1>1. run' \in [Run -> Analysis!RunState]
  BY NoTaskType, RunStep DEF AnalysisInv, Analysis!DropRequest
<1>2. Analysis!TypeOK'
  BY <1>1, AnalysisBounds DEF AnalysisInv, Analysis!TypeOK, Analysis!DropRequest
<1>3. registry # r
  BY AnalysisBounds DEF Analysis!AnalysisAssumption, AnalysisInv, Analysis!FlagsAreLive, Analysis!DropRequest
<1>4. TimeLeft' /\ Analysis!FlagsAreLive'
  <2>1. Analysis!NoTask.left <= run[r].left
    BY NoTaskType, RunFields, AnalysisBounds DEF AnalysisInv
  <2>2. run' = [run EXCEPT ![r] = Analysis!NoTask] /\ registry' = registry
    BY DEF Analysis!DropRequest
  <2> QED BY <1>3, <2>1, <2>2, NoTaskType, RunGoesOn DEF Analysis!DropRequest
<1>5. Analysis!ReportStands' /\ SavesFollowStarts'
  BY DEF AnalysisInv, Analysis!ReportStands, SavesFollowStarts, Analysis!DropRequest
<1> QED BY <1>2, <1>4, <1>5 DEF AnalysisInv

(* A job that advances leaves its run where it is.                         *)
LEMMA Advances ==
    ASSUME AnalysisInv, NEW r \in Run, NEW next \in {"none", "claim", "work", "save", "ok", "err"}, Analysis!Advance(r, next)
    PROVE  /\ run' \in [Run -> Analysis!RunState]
           /\ \A q \in Run : run'[q].pc = run[q].pc /\ run'[q].left = run[q].left
<1> DEFINE s == [run[r] EXCEPT !.job = IF run[r].pc = "supervised" THEN next ELSE "none"]
<1>1. s \in Analysis!RunState /\ s.pc = run[r].pc /\ s.left = run[r].left
  BY RunFields DEF AnalysisInv, Analysis!RunState
<1>2. run' = [run EXCEPT ![r] = s]
  BY DEF Analysis!Advance
<1> HIDE DEF s
<1> QED BY <1>1, <1>2, RunStep DEF AnalysisInv

LEMMA ClaimRowInv ==
    ASSUME AnalysisInv, NEW r \in Run, Analysis!ClaimRow(r) PROVE AnalysisInv'
<1>1. /\ run' \in [Run -> Analysis!RunState]
      /\ \A q \in Run : run'[q].pc = run[q].pc /\ run'[q].left = run[q].left
  BY Advances DEF Analysis!ClaimRow
<1>2. age' = age \/ age' = 0
  BY DEF Analysis!ClaimRow
<1>3. Analysis!TypeOK'
  BY <1>1, <1>2, AnalysisBounds DEF AnalysisInv, Analysis!TypeOK, Analysis!ClaimRow
<1>4. Analysis!ReportStands' /\ SavesFollowStarts'
  BY DEF AnalysisInv, Analysis!ReportStands, SavesFollowStarts, Analysis!ClaimRow
<1>5. Analysis!FlagsAreLive'
  BY <1>1 DEF AnalysisInv, Analysis!TypeOK, Analysis!FlagsAreLive, Analysis!ClaimRow
<1>6. TimeLeft'
  <2> SUFFICES ASSUME NEW q \in Run, run'[q].pc # "idle"
               PROVE  age' + run'[q].left <= Timeout /\ (run'[q].pc = "accepted" => age' = 0)
    BY DEF TimeLeft
  <2> QED BY <1>1, <1>2, RunFields, AnalysisBounds DEF AnalysisInv, TimeLeft
<1> QED BY <1>3, <1>4, <1>5, <1>6 DEF AnalysisInv

LEMMA AnswerInv ==
    ASSUME AnalysisInv, NEW r \in Run, NEW next \in {"save", "err"}, Analysis!Answer(r, next) PROVE AnalysisInv'
<1> DEFINE s == [run[r] EXCEPT !.job = next]
<1>1. s \in Analysis!RunState /\ s.pc = "supervised" /\ s.left = run[r].left
  BY RunFields DEF AnalysisInv, Analysis!RunState, Analysis!Answer
<1>2. run' = [run EXCEPT ![r] = s]
  BY DEF Analysis!Answer
<1>3. run[r].pc = "supervised"
  BY DEF Analysis!Answer
<1> HIDE DEF s
<1>4. Analysis!TypeOK'
  BY <1>1, <1>2, RunStep DEF AnalysisInv, Analysis!TypeOK, Analysis!Answer
<1>5. TimeLeft' /\ Analysis!FlagsAreLive'
  <2>1. s.left <= run[r].left
    BY <1>1, <1>2, <1>3, RunFields, AnalysisBounds DEF AnalysisInv
  <2> QED BY <1>1, <1>2, <1>3, <2>1, RunGoesOn DEF Analysis!Answer
<1>6. Analysis!ReportStands' /\ SavesFollowStarts'
  BY DEF AnalysisInv, Analysis!ReportStands, SavesFollowStarts, Analysis!Answer
<1> QED BY <1>4, <1>5, <1>6 DEF AnalysisInv

LEMMA SaveReportInv ==
    ASSUME AnalysisInv, NEW r \in Run, Analysis!SaveReport(r) PROVE AnalysisInv'
<1>1. /\ run' \in [Run -> Analysis!RunState]
      /\ \A q \in Run : run'[q].pc = run[q].pc /\ run'[q].left = run[q].left
  BY Advances DEF Analysis!SaveReport
<1>2. Analysis!TypeOK'
  BY <1>1 DEF AnalysisInv, Analysis!TypeOK, Analysis!SaveReport
<1>3. Analysis!ReportStands' /\ SavesFollowStarts'
  BY AnalysisBounds DEF AnalysisInv, Analysis!TypeOK, Analysis!ReportStands, SavesFollowStarts, Analysis!SaveReport
<1>4. Analysis!FlagsAreLive'
  BY <1>1 DEF AnalysisInv, Analysis!TypeOK, Analysis!FlagsAreLive, Analysis!SaveReport
<1>5. TimeLeft'
  BY <1>1 DEF AnalysisInv, TimeLeft, Analysis!SaveReport
<1> QED BY <1>2, <1>3, <1>4, <1>5 DEF AnalysisInv

LEMMA JoinedInv ==
    ASSUME AnalysisInv, NEW r \in Run, Analysis!Joined(r) PROVE AnalysisInv'
<1> DEFINE s == [Analysis!NoTask EXCEPT !.pc = "ended", !.failed = run[r].job = "err"]
<1>1. s \in Analysis!RunState /\ s.pc = "ended" /\ s.left = 0
  BY NoTaskType DEF Analysis!RunState
<1>2. run' = [run EXCEPT ![r] = s] /\ run[r].pc = "supervised"
  BY DEF Analysis!Joined
<1> HIDE DEF s
<1>3. Analysis!TypeOK'
  BY <1>1, <1>2, RunStep DEF AnalysisInv, Analysis!TypeOK, Analysis!Joined
<1>4. TimeLeft' /\ Analysis!FlagsAreLive'
  <2>1. s.left <= run[r].left
    BY <1>1, <1>2, RunFields, AnalysisBounds DEF AnalysisInv
  <2> QED BY <1>1, <1>2, <2>1, RunGoesOn DEF Analysis!Joined
<1>5. Analysis!ReportStands' /\ SavesFollowStarts'
  BY DEF AnalysisInv, Analysis!ReportStands, SavesFollowStarts, Analysis!Joined
<1> QED BY <1>3, <1>4, <1>5 DEF AnalysisInv

LEMMA AbortInv ==
    ASSUME AnalysisInv, NEW r \in Run, Analysis!Abort(r) PROVE AnalysisInv'
<1>1. PICK sent \in {"none"} \union ({run[r].job} \intersect {"claim", "save"}) :
          run' = [run EXCEPT ![r] = [Analysis!NoTask EXCEPT !.pc = "ended", !.failed = TRUE, !.job = sent]]
  BY DEF Analysis!Abort
<1> DEFINE s == [Analysis!NoTask EXCEPT !.pc = "ended", !.failed = TRUE, !.job = sent]
<1>2. s \in Analysis!RunState /\ s.pc = "ended" /\ s.left = 0
  BY NoTaskType DEF Analysis!RunState
<1>3. run' = [run EXCEPT ![r] = s] /\ run[r].pc = "supervised"
  BY <1>1 DEF Analysis!Abort
<1> HIDE DEF s
<1>4. Analysis!TypeOK'
  BY <1>2, <1>3, RunStep DEF AnalysisInv, Analysis!TypeOK, Analysis!Abort
<1>5. TimeLeft' /\ Analysis!FlagsAreLive'
  <2>1. s.left <= run[r].left
    BY <1>2, <1>3, RunFields, AnalysisBounds DEF AnalysisInv
  <2> QED BY <1>2, <1>3, <2>1, RunGoesOn DEF Analysis!Abort
<1>6. Analysis!ReportStands' /\ SavesFollowStarts'
  BY DEF AnalysisInv, Analysis!ReportStands, SavesFollowStarts, Analysis!Abort
<1> QED BY <1>4, <1>5, <1>6 DEF AnalysisInv

LEMMA UnregisterInv ==
    ASSUME AnalysisInv, NEW r \in Run, Analysis!Unregister(r) PROVE AnalysisInv'
<1> DEFINE s == [run[r] EXCEPT !.pc = IF run[r].failed THEN "marking" ELSE "idle", !.failed = FALSE]
<1>1. s \in Analysis!RunState /\ s.pc \in {"marking", "idle"} /\ s.left = run[r].left
  BY RunFields DEF AnalysisInv, Analysis!RunState
<1>2. run' = [run EXCEPT ![r] = s] /\ run[r].pc = "ended" /\ registry' = NoRun
  BY DEF Analysis!Unregister
<1> HIDE DEF s
<1>3. Analysis!TypeOK'
  BY <1>1, <1>2, RunStep DEF AnalysisInv, Analysis!TypeOK, Analysis!Unregister
<1>4. TimeLeft' /\ Analysis!FlagsAreLive'
  <2>1. s.left <= run[r].left
    BY <1>1, <1>2, AnalysisBounds, RunFields, AnalysisBounds DEF AnalysisInv
  <2> QED BY <1>1, <1>2, AnalysisBounds, <2>1, RunGoesOn DEF Analysis!Unregister
<1>5. Analysis!ReportStands' /\ SavesFollowStarts'
  BY DEF AnalysisInv, Analysis!ReportStands, SavesFollowStarts, Analysis!Unregister
<1> QED BY <1>3, <1>4, <1>5 DEF AnalysisInv

LEMMA MarkFailedInv ==
    ASSUME AnalysisInv, NEW r \in Run, Analysis!MarkFailed(r) PROVE AnalysisInv'
<1> DEFINE s == [run[r] EXCEPT !.pc = "idle"]
<1>1. s \in Analysis!RunState /\ s.pc = "idle" /\ s.left = run[r].left
  BY RunFields DEF AnalysisInv, Analysis!RunState
<1>2. run' = [run EXCEPT ![r] = s] /\ run[r].pc = "marking"
  BY DEF Analysis!MarkFailed
<1> HIDE DEF s
<1>3. Analysis!TypeOK'
  BY <1>1, <1>2, RunStep, FailedType DEF AnalysisInv, Analysis!TypeOK, Analysis!MarkFailed
<1>4. registry # r
  BY <1>2, AnalysisBounds DEF AnalysisInv, Analysis!FlagsAreLive
<1>5. TimeLeft' /\ Analysis!FlagsAreLive'
  <2>1. s.left <= run[r].left
    BY <1>1, <1>2, <1>4, RunFields, AnalysisBounds DEF AnalysisInv
  <2> QED BY <1>1, <1>2, <1>4, <2>1, RunGoesOn DEF Analysis!MarkFailed
<1>6. Analysis!ReportStands' /\ SavesFollowStarts'
  BY FailedType DEF AnalysisInv, Analysis!ReportStands, SavesFollowStarts, Analysis!MarkFailed
<1> QED BY <1>3, <1>5, <1>6 DEF AnalysisInv

-----------------------------------------------------------------------------
LEMMA CancelInv ==
    ASSUME AnalysisInv, Analysis!Cancel PROVE AnalysisInv'
<1> DEFINE s == [run[registry] EXCEPT !.cancelled = run[registry].pc = "supervised"]
<1>1. registry \in Run
  BY DEF AnalysisInv, Analysis!TypeOK, Analysis!Cancel
<1>2. s \in Analysis!RunState /\ s.pc = run[registry].pc /\ s.left = run[registry].left
  BY <1>1, RunFields DEF AnalysisInv, Analysis!RunState
<1>3. run' = [run EXCEPT ![registry] = s] /\ registry' = registry
  BY DEF Analysis!Cancel
<1>4. run[registry].pc \in {"supervised", "ended"}
  BY DEF AnalysisInv, Analysis!FlagsAreLive, Analysis!Cancel
<1> HIDE DEF s
<1>5. Analysis!TypeOK'
  BY <1>1, <1>2, <1>3, RunStep DEF AnalysisInv, Analysis!TypeOK, Analysis!Cancel
<1>6. TimeLeft' /\ Analysis!FlagsAreLive'
  <2>1. s.left <= run[registry].left
    BY <1>1, <1>2, <1>3, <1>4, RunFields, AnalysisBounds DEF AnalysisInv
  <2> QED BY <1>1, <1>2, <1>3, <1>4, <2>1, RunGoesOn DEF Analysis!Cancel
<1>7. Analysis!ReportStands' /\ SavesFollowStarts'
  BY DEF AnalysisInv, Analysis!ReportStands, SavesFollowStarts, Analysis!Cancel
<1> QED BY <1>5, <1>6, <1>7 DEF AnalysisInv

(* What only releases or reaps a row.                                      *)
LEMMA ReleaseInv ==
    ASSUME AnalysisInv, Analysis!CancelUnowned \/ Analysis!Release \/ Analysis!Reap PROVE AnalysisInv'
<1>1. /\ UNCHANGED <<age, registry, run, starts, saved, failures>>
      /\ verdict' \in {verdict, Analysis!Failed}
      /\ releasing' \in BOOLEAN
  BY DEF AnalysisInv, Analysis!TypeOK, Analysis!CancelUnowned, Analysis!Release, Analysis!Reap
<1>2. Analysis!TypeOK'
  BY <1>1, FailedType DEF AnalysisInv, Analysis!TypeOK
<1>3. Analysis!ReportStands' /\ SavesFollowStarts'
  BY <1>1, FailedType DEF AnalysisInv, Analysis!ReportStands, SavesFollowStarts
<1>4. Analysis!FlagsAreLive' /\ TimeLeft'
  BY <1>1 DEF AnalysisInv, Analysis!FlagsAreLive, TimeLeft
<1> QED BY <1>2, <1>3, <1>4 DEF AnalysisInv

LEMMA RestartInv ==
    ASSUME AnalysisInv, NEW swept \in BOOLEAN, Analysis!Restart(swept) PROVE AnalysisInv'
<1>1. verdict' \in {verdict, Analysis!Failed}
  BY DEF Analysis!Restart
<1>2. run' \in [Run -> Analysis!RunState] /\ \A r \in Run : run'[r].pc = "idle"
  BY NoTaskType DEF Analysis!Restart
<1>3. Analysis!TypeOK'
  <2>1. failures' \in 0..MaxFailures
    BY AnalysisBounds DEF AnalysisInv, Analysis!TypeOK, Analysis!Restart
  <2>2. verdict' \in {"none", "pending", "running", "completed", "failed"}
    BY <1>1, FailedType DEF AnalysisInv, Analysis!TypeOK
  <2> QED BY <1>2, <2>1, <2>2 DEF AnalysisInv, Analysis!TypeOK, Analysis!Restart
<1>4. Analysis!ReportStands' /\ SavesFollowStarts'
  BY <1>1, FailedType DEF AnalysisInv, Analysis!ReportStands, SavesFollowStarts, Analysis!Restart
<1>5. Analysis!FlagsAreLive' /\ TimeLeft'
  BY <1>2 DEF Analysis!FlagsAreLive, TimeLeft, Analysis!Restart
<1> QED BY <1>3, <1>4, <1>5 DEF AnalysisInv

LEMMA AnalysisNext == AnalysisInv /\ [Analysis!Next]_(Analysis!vars) => AnalysisInv'
<1> SUFFICES ASSUME AnalysisInv, [Analysis!Next]_(Analysis!vars) PROVE AnalysisInv'
  OBVIOUS
<1>1. CASE Analysis!Tick
  BY <1>1, TickInv
<1>2. ASSUME NEW r \in Run, Analysis!StartAnalysis(r) \/ Analysis!DropRequest(r) PROVE AnalysisInv'
  BY <1>2, StartAnalysisInv, DropRequestInv
<1>3. ASSUME NEW r \in Run, Analysis!Step(r) PROVE AnalysisInv'
  BY <1>3, RegisterInv, ClaimRowInv, SaveReportInv, JoinedInv, AbortInv, UnregisterInv, MarkFailedInv DEF Analysis!Step
<1>4. ASSUME NEW r \in Run, NEW next \in {"save", "err"}, Analysis!Answer(r, next) PROVE AnalysisInv'
  BY <1>4, AnswerInv
<1>5. CASE Analysis!Cancel
  BY <1>5, CancelInv
<1>6. CASE Analysis!CancelUnowned \/ Analysis!Release \/ Analysis!Reap
  BY <1>6, ReleaseInv
<1>7. ASSUME NEW swept \in BOOLEAN, Analysis!Restart(swept) PROVE AnalysisInv'
  BY <1>7, RestartInv
<1>8. CASE UNCHANGED Analysis!vars
  BY <1>8 DEF Analysis!vars, AnalysisInv, Analysis!TypeOK, Analysis!ReportStands, Analysis!FlagsAreLive, TimeLeft, SavesFollowStarts
<1> QED BY <1>1, <1>2, <1>3, <1>4, <1>5, <1>6, <1>7, <1>8 DEF Analysis!Next

-----------------------------------------------------------------------------
(* Types are kept by every step of an analysis.                            *)
THEOREM AnalysisTypeCorrect == Analysis!Spec => []Analysis!TypeOK
<1>1. AnalysisInv => Analysis!TypeOK
  BY DEF AnalysisInv
<1> QED BY <1>1, AnalysisInit, AnalysisNext, PTL DEF Analysis!Spec

(* No failure is ever recorded over a saved report, by any of the tasks    *)
(* that may still hold one when the report is saved.                       *)
THEOREM SavedReportStands == Analysis!Spec => []ReportStands
<1>1. AnalysisInv => ReportStands
  BY DEF AnalysisInv, ReportStands
<1> QED BY <1>1, AnalysisInit, AnalysisNext, PTL DEF Analysis!Spec

(* A cancel that finds a flag finds a run that will see it, or has ended.  *)
THEOREM RegisteredFlagsAreLive == Analysis!Spec => []FlagsAreLive
<1>1. AnalysisInv => FlagsAreLive
  BY DEF AnalysisInv, FlagsAreLive
<1> QED BY <1>1, AnalysisInit, AnalysisNext, PTL DEF Analysis!Spec

(* The reaper takes no row while any run of the trip is under way, for any *)
(* timeout, grace and number of runs.                                      *)
THEOREM ReaperWaits == Analysis!Spec => []ReaperNeverRaces
<1>1. AnalysisInv => ReaperNeverRaces
  <2> SUFFICES ASSUME AnalysisInv, Analysis!Reapable, NEW r \in Run, run[r].pc # "idle" PROVE FALSE
    BY DEF ReaperNeverRaces, Analysis!ReaperNeverRaces
  <2>1. age + run[r].left <= Timeout
    BY DEF AnalysisInv, TimeLeft
  <2>2. age \in Nat /\ run[r].left \in Nat
    BY RunFields, AnalysisBounds DEF AnalysisInv, Analysis!TypeOK
  <2> QED BY <2>1, <2>2, AnalysisBounds DEF Analysis!Reapable
<1> QED BY <1>1, AnalysisInit, AnalysisNext, PTL DEF Analysis!Spec
=============================================================================
