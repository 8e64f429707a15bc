------------------------------ MODULE ChatTurn ------------------------------
(***************************************************************************)
(* One conversation with the assistant: the messages a turn stores, the    *)
(* generation that runs detached from the request that started it, the     *)
(* timer that saves its partial text, the channel that fans its events out *)
(* and the pages that read them, against cancels, deletion, the reaper,  *)
(* dropped connections and restarts.                                       *)
(*                                                                         *)
(* Text is a sequence of fragments, numbered as they are streamed; each    *)
(* has length 1, so the byte offset of fragment n is n - 1.                *)
(***************************************************************************)
EXTENDS Naturals, Sequences, Lists

CONSTANTS
    NTurns,         \* bound: turns started
    Reader,         \* pages that show an answer as it comes
    NoTurn,         \* "nobody holds the conversation's row lock"
    Fragments,      \* bound: fragments of one answer
    ToolRounds,     \* bound: rounds of one turn that call a tool
    Capacity,       \* CHANNEL_CAPACITY
    MaxStops,       \* bound: cancel and delete requests
    MaxFaults       \* bound: jobs that fail, dropped requests and streams, crashes

Turn == 1..NTurns

ASSUME ChatAssumption ==
    /\ {NTurns, Capacity, MaxStops, MaxFaults} \subseteq Nat /\ NTurns # 0
    /\ Fragments \in [Turn -> Nat] /\ ToolRounds \in [Turn -> Nat]
    /\ NoTurn \notin Turn

VARIABLES
    up,         \* the process is serving
    deletion,   \* where DELETE of the conversation stands
    log,        \* chat_messages in the order of seq
    status,     \* status of each turn's answer row
    content,    \* content of each turn's answer row
    lock,       \* the turn whose transaction holds the conversation's row lock
    task,       \* each turn's request, job and supervisor
    hub,        \* ChatHub: turns with a channel registered
    flag,       \* turns whose cancel flag is set
    buffer,     \* TeeSink's text so far, as the number of fragments
    rounds,     \* tool rounds of each turn
    channel,    \* events sent on each turn's channel
    cancel,     \* the turn a cancel request found no task for
    reader,     \* what each page is doing and shows
    stops, faults

rows == <<log, status, content, lock>>
job == <<task, hub, flag, buffer, rounds, channel>>
bounds == <<stops, faults>>
vars == <<up, deletion, rows, job, cancel, reader, bounds>>

-----------------------------------------------------------------------------
Text(n) == [i \in 1..n |-> i]
LongestAnswer == CHOOSE n \in {Fragments[t] : t \in Turn} : \A t \in Turn : Fragments[t] <= n
Texts == {Text(n) : n \in 0..LongestAnswer} \union {<<0>>}

(* What the job saves: everything it streamed or, when the rounds ran out  *)
(* before a word of it, a line that says so (fragment 0).                  *)
Answer(n) == IF n = 0 THEN <<0>> ELSE Text(n)

Entry == [turn : Turn, kind : {"user", "call", "reply", "answer"}]
Message(t, kind) == [turn |-> t, kind |-> kind]

Delta(n) == [kind |-> "delta", n |-> n, text |-> << >>]
ToolEvent == [kind |-> "tool", n |-> 0, text |-> << >>]
Done(text) == [kind |-> "done", n |-> 0, text |-> text]
Failed == [kind |-> "failed", n |-> 0, text |-> << >>]
ChatEvent == [kind : {"delta", "tool", "done", "failed"}, n : 0..LongestAnswer, text : Texts]

(* posted: the turn is committed, its channel not registered.  run: the    *)
(* job generates.  finish: finish_turn holds the lock and saw the row      *)
(* still generating.  saved: it committed.  failing: the supervisor is     *)
(* about to record the failure.  closing: about to unregister.             *)
TaskState == {"none", "posted", "run", "finish", "saved", "failing", "closing", "over"}

Active == {"pending", "running"}
Terminal == {"complete", "failed"}
Generating(t) == status[t] \in Active

Idle == [pc |-> "idle", turn |-> 1, rx |-> FALSE, pos |-> 0, already |-> 0,
         text |-> << >>, end |-> "none"]
ReaderState ==
    [pc : {"idle", "read", "stream", "broken", "ended"}, turn : Turn, rx : BOOLEAN,
     pos : Nat, already : Nat, text : Seq(Nat),
     end : {"none", "done", "failed", "stale", "lost"}]

Init ==
    /\ up = TRUE
    /\ deletion = "none"
    /\ log = << >>
    /\ status = [t \in Turn |-> "none"]
    /\ content = [t \in Turn |-> << >>]
    /\ lock = NoTurn
    /\ task = [t \in Turn |-> "none"]
    /\ hub = {}
    /\ flag = {}
    /\ buffer = [t \in Turn |-> 0]
    /\ rounds = [t \in Turn |-> 0]
    /\ channel = [t \in Turn |-> << >>]
    /\ cancel = NoTurn
    /\ reader = [r \in Reader |-> Idle]
    /\ stops = 0
    /\ faults = 0

Exists == deletion # "deleted"

-----------------------------------------------------------------------------
(* post_message.                                                           *)

(* Mutant: start_turn inserts without counting what still generates.       *)
StartTurnUnchecked(t) ==
    /\ up /\ Exists
    /\ lock = NoTurn
    /\ status[t] = "none" /\ \A u \in Turn : u < t => status[u] # "none"
    /\ log' = log \o <<Message(t, "user"), Message(t, "answer")>>
    /\ status' = [status EXCEPT ![t] = "pending"]
    /\ task' = [task EXCEPT ![t] = "posted"]
    /\ UNCHANGED <<up, deletion, content, lock, hub, flag, buffer, rounds, channel,
                   cancel, reader, bounds>>

(* start_turn: one transaction under the conversation's lock.              *)
StartTurn(t) ==
    /\ up /\ Exists
    /\ lock = NoTurn
    /\ \A u \in Turn : ~ Generating(u)
    /\ status[t] = "none" /\ \A u \in Turn : u < t => status[u] # "none"
    /\ log' = log \o <<Message(t, "user"), Message(t, "answer")>>
    /\ status' = [status EXCEPT ![t] = "pending"]
    /\ task' = [task EXCEPT ![t] = "posted"]
    /\ UNCHANGED <<up, deletion, content, lock, hub, flag, buffer, rounds, channel,
                   cancel, reader, bounds>>

(* The channel is registered and the task spawned.                         *)
Register(t) ==
    /\ up
    /\ task[t] = "posted"
    /\ task' = [task EXCEPT ![t] = "run"]
    /\ hub' = hub \union {t}
    /\ UNCHANGED <<up, deletion, rows, flag, buffer, rounds, channel, cancel, reader,
                   bounds>>

(* The client goes away: its request's handler is dropped where it waits.  *)
DropPost(t) ==
    /\ up
    /\ task[t] = "posted" /\ faults < MaxFaults
    /\ task' = [task EXCEPT ![t] = "over"]
    /\ faults' = faults + 1
    /\ UNCHANGED <<up, deletion, rows, hub, flag, buffer, rounds, channel, cancel,
                   reader, stops>>

-----------------------------------------------------------------------------
(* GenerationJob::run and the chat loop it calls.                          *)

Send(t, e) == channel' = [channel EXCEPT ![t] = Append(@, e)]

(* A fragment: TeeSink keeps it, then sends it.                            *)
Emit(t) ==
    /\ up
    /\ task[t] = "run" /\ buffer[t] < Fragments[t]
    /\ buffer' = [buffer EXCEPT ![t] = @ + 1]
    /\ Send(t, Delta(buffer[t] + 1))
    /\ UNCHANGED <<up, deletion, rows, task, hub, flag, rounds, cancel, reader, bounds>>

(* A round that calls a tool; the last one is not offered any.             *)
ToolRound(t) ==
    /\ up
    /\ task[t] = "run" /\ rounds[t] < ToolRounds[t]
    /\ rounds' = [rounds EXCEPT ![t] = @ + 1]
    /\ Send(t, ToolEvent)
    /\ UNCHANGED <<up, deletion, rows, task, hub, flag, buffer, cancel, reader, bounds>>

(* The flusher's tick: update_partial saves the text so far in a row that  *)
(* still generates; a statement under way outlives the job.                *)
UpdatePartial(t) ==
    /\ up
    /\ buffer[t] > Len(content[t])
    /\ Generating(t)
    /\ content' = [content EXCEPT ![t] = Text(buffer[t])]
    /\ status' = [status EXCEPT ![t] = "running"]
    /\ UNCHANGED <<up, deletion, log, lock, job, cancel, reader, bounds>>

(* finish_turn: under the lock, is the answer still wanted?                *)
FinishRead(t) ==
    /\ up
    /\ task[t] = "run" /\ lock = NoTurn
    /\ IF Exists /\ Generating(t)
       THEN lock' = t /\ task' = [task EXCEPT ![t] = "finish"]
       ELSE lock' = lock /\ task' = [task EXCEPT ![t] = "closing"]
    /\ UNCHANGED <<up, deletion, log, status, content, hub, flag, buffer, rounds,
                   channel, cancel, reader, bounds>>

Plumbing(t) == [i \in 1..(2 * rounds[t]) |->
                   Message(t, IF i % 2 = 1 THEN "call" ELSE "reply")]

(* The rows of the tool rounds, then the answer's own row, moved after     *)
(* them; the UPDATE does not ask for the row's status again.               *)
Finished(t) ==
    /\ log' = Only(log, Entry \ {Message(t, "answer")})
                 \o Plumbing(t) \o <<Message(t, "answer")>>
    /\ content' = [content EXCEPT ![t] = Answer(buffer[t])]
    /\ status' = [status EXCEPT ![t] = "complete"]
    /\ lock' = NoTurn

FinishCommit(t) ==
    /\ up
    /\ task[t] = "finish"
    /\ Finished(t)
    /\ task' = [task EXCEPT ![t] = "saved"]
    /\ UNCHANGED <<up, deletion, hub, flag, buffer, rounds, channel, cancel, reader,
                   bounds>>

SendDone(t) ==
    /\ up
    /\ task[t] = "saved"
    /\ Send(t, Done(Answer(buffer[t])))
    /\ task' = [task EXCEPT ![t] = "closing"]
    /\ UNCHANGED <<up, deletion, rows, hub, flag, buffer, rounds, cancel, reader, bounds>>

(* The supervisor aborts a job whose flag is set or whose time is over, or *)
(* the job fails or panics by itself.  What finish_turn had begun rolls    *)
(* back; what it had committed stays.                                      *)
JobEnds(t) ==
    /\ up
    /\ task[t] \in {"run", "finish", "saved"}
    /\ \/ t \in flag /\ faults' = faults
       \/ t \notin flag /\ faults < MaxFaults /\ faults' = faults + 1
    /\ task' = [task EXCEPT ![t] = "failing"]
    /\ lock' = IF lock = t THEN NoTurn ELSE lock
    /\ UNCHANGED <<up, deletion, log, status, content, hub, flag, buffer, rounds,
                   channel, cancel, reader, stops>>

(* Mutant: fail_message does not ask for the row's status.                 *)
FailAnyRow(t) ==
    status' = IF status[t] # "none" THEN [status EXCEPT ![t] = "failed"] ELSE status

(* fail_message.                                                           *)
FailRow(t) ==
    status' = IF Generating(t) THEN [status EXCEPT ![t] = "failed"] ELSE status

(* The supervisor records the failure first, then tells the readers.  The  *)
(* row of a deleted conversation is not there to be failed, and one whose  *)
(* failure cannot be recorded is left to the reaper.                       *)
RecordFailure(t) ==
    /\ up
    /\ task[t] = "failing"
    /\ \/ /\ FailRow(t)
          /\ IF Generating(t) THEN Send(t, Failed) ELSE channel' = channel
       \/ UNCHANGED <<status, channel>>
    /\ task' = [task EXCEPT ![t] = "closing"]
    /\ UNCHANGED <<up, deletion, log, content, lock, hub, flag, buffer, rounds, cancel,
                   reader, bounds>>

(* Mutant: the channel is left in the hub.                                 *)
UnregisterNot(t) ==
    /\ up
    /\ task[t] = "closing"
    /\ task' = [task EXCEPT ![t] = "over"]
    /\ buffer' = [buffer EXCEPT ![t] = 0]
    /\ rounds' = [rounds EXCEPT ![t] = 0]
    /\ UNCHANGED <<up, deletion, rows, hub, flag, channel, cancel, reader, bounds>>

Unregister(t) ==
    /\ up
    /\ task[t] = "closing"
    /\ task' = [task EXCEPT ![t] = "over"]
    /\ hub' = hub \ {t}
    /\ flag' = flag \ {t}
    /\ buffer' = [buffer EXCEPT ![t] = 0]
    /\ rounds' = [rounds EXCEPT ![t] = 0]
    /\ UNCHANGED <<up, deletion, rows, channel, cancel, reader, bounds>>

-----------------------------------------------------------------------------
(* cancel_message: reads the row and asks the hub; when no task is         *)
(* registered, it fails the row itself (CancelFail).                       *)
CancelMessage(t) ==
    /\ up /\ Exists
    /\ cancel = NoTurn /\ stops < MaxStops
    /\ Generating(t)
    /\ IF t \in hub THEN flag' = flag \union {t} /\ cancel' = cancel
                    ELSE flag' = flag /\ cancel' = t
    /\ stops' = stops + 1
    /\ UNCHANGED <<up, deletion, rows, task, hub, buffer, rounds, channel, reader,
                   faults>>

CancelFail ==
    /\ up
    /\ cancel # NoTurn
    /\ FailRow(cancel)
    /\ cancel' = NoTurn
    /\ UNCHANGED <<up, deletion, log, content, lock, job, reader, bounds>>

(* delete_conversation: signals what generates, then deletes.              *)
DeleteCancel ==
    /\ up
    /\ deletion = "none" /\ stops < MaxStops
    /\ deletion' = "cancelled"
    /\ stops' = stops + 1
    /\ flag' = flag \union {t \in hub : Generating(t)}
    /\ UNCHANGED <<up, rows, task, hub, buffer, rounds, channel, cancel, reader, faults>>

DeleteRows ==
    /\ up
    /\ deletion = "cancelled" /\ lock = NoTurn
    /\ deletion' = "deleted"
    /\ log' = << >>
    /\ status' = [t \in Turn |-> "none"]
    /\ content' = [t \in Turn |-> << >>]
    /\ UNCHANGED <<up, lock, job, cancel, reader, bounds>>

(* Mutant: the reaper looks for rows that have begun to stream.            *)
ReapRunning(t) ==
    /\ up
    /\ status[t] = "running" /\ task[t] = "over"
    /\ FailRow(t)
    /\ UNCHANGED <<up, deletion, log, content, lock, job, cancel, reader, bounds>>

(* The reaper fails a row older than any task that owns it can be.         *)
Reap(t) ==
    /\ up
    /\ Generating(t) /\ task[t] = "over"
    /\ FailRow(t)
    /\ UNCHANGED <<up, deletion, log, content, lock, job, cancel, reader, bounds>>

-----------------------------------------------------------------------------
(* stream_message, and the page at its other end: it follows each turn     *)
(* once, reconnections aside.                                              *)

(* The server subscribes first ...                                         *)
Subscribed(r, t) ==
    reader' = [reader EXCEPT ![r] = [@ EXCEPT !.pc = "read", !.turn = t, !.end = "none",
                                              !.rx = t \in hub, !.pos = Len(channel[t])]]

Subscribe(r, t) ==
    /\ up
    /\ status[t] # "none"
    /\ reader[r].pc = "idle" \/ (reader[r].pc = "ended" /\ reader[r].turn < t)
    /\ Subscribed(r, t)
    /\ UNCHANGED <<up, deletion, rows, job, cancel, bounds>>

(* The browser opens a broken connection again.                            *)
Reconnect(r) ==
    /\ up
    /\ reader[r].pc = "broken"
    /\ Subscribed(r, reader[r].turn)
    /\ UNCHANGED <<up, deletion, rows, job, cancel, bounds>>

Ended(state, end) == [state EXCEPT !.pc = "ended", !.end = end, !.pos = 0, !.already = 0]

(* ... and then reads the row.  The page takes the snapshot as the text,   *)
(* and the stream ends with it when there is nothing to follow.            *)
Snapshot(r) ==
    /\ up
    /\ reader[r].pc = "read"
    /\ LET t == reader[r].turn
           shown == [reader[r] EXCEPT !.text = content[t], !.already = Len(content[t])]
       IN reader' = [reader EXCEPT ![r] =
             CASE ~ Exists -> Ended(reader[r], "lost")
               [] Exists /\ status[t] = "failed" -> Ended(shown, "failed")
               [] Exists /\ status[t] = "complete" -> Ended(shown, "done")
               [] Exists /\ Generating(t) /\ ~ reader[r].rx -> Ended(shown, "done")
               [] OTHER -> [shown EXCEPT !.pc = "stream"]]
    /\ UNCHANGED <<up, deletion, rows, job, cancel, bounds>>

(* A fragment that begins within the text already there.                   *)
Covered(n, length) == n - 1 < length

(* Mutant: the page takes 'done' as a signal only.                         *)
ApplyDoneSignal(state, e) ==
    CASE e.kind = "delta" ->
            IF Covered(e.n, state.already) \/ Covered(e.n, Len(state.text)) THEN state
            ELSE [state EXCEPT !.text = Append(@, e.n)]
      [] e.kind = "tool" -> state
      [] e.kind = "done" -> Ended(state, "done")
      [] e.kind = "failed" -> Ended(state, "failed")

(* The server leaves out what its snapshot covered, the page what its own  *)
(* text covers.                                                            *)
Apply(state, e) ==
    CASE e.kind = "delta" ->
            IF Covered(e.n, state.already) \/ Covered(e.n, Len(state.text)) THEN state
            ELSE [state EXCEPT !.text = Append(@, e.n)]
      [] e.kind = "tool" -> state
      [] e.kind = "done" -> Ended([state EXCEPT !.text = e.text], "done")
      [] e.kind = "failed" -> Ended(state, "failed")

Receive(r) ==
    /\ up
    /\ reader[r].pc = "stream"
    /\ LET t == reader[r].turn
           behind == Len(channel[t]) - reader[r].pos
           next == [reader[r] EXCEPT !.pos = @ + 1]
       IN \/ /\ behind > Capacity
             /\ reader' = [reader EXCEPT ![r] = Ended(@, "stale")]
          \/ /\ behind \in 1..Capacity
             /\ reader' = [reader EXCEPT ![r] = Apply(next, channel[t][next.pos])]
          \/ /\ behind = 0 /\ t \notin hub
             /\ reader' = [reader EXCEPT ![r] = Ended(@, "done")]
    /\ UNCHANGED <<up, deletion, rows, job, cancel, bounds>>

Disconnect(r) ==
    /\ faults < MaxFaults
    /\ reader[r].pc \in {"read", "stream"}
    /\ reader' = [reader EXCEPT ![r].pc = "broken"]
    /\ faults' = faults + 1
    /\ UNCHANGED <<up, deletion, rows, job, cancel, stops>>

-----------------------------------------------------------------------------
(* The process dies: its tasks, channels and open transactions with it.    *)
Crash ==
    /\ up /\ faults < MaxFaults
    /\ up' = FALSE
    /\ faults' = faults + 1
    /\ lock' = NoTurn
    /\ task' = [t \in Turn |-> IF task[t] = "none" THEN "none" ELSE "over"]
    /\ hub' = {}
    /\ flag' = {}
    /\ cancel' = NoTurn
    /\ deletion' = IF Exists THEN "none" ELSE deletion
    /\ reader' = [r \in Reader |-> IF reader[r].pc \in {"read", "stream"}
                                   THEN [reader[r] EXCEPT !.pc = "broken"] ELSE reader[r]]
    /\ buffer' = [t \in Turn |-> 0]
    /\ rounds' = [t \in Turn |-> 0]
    /\ UNCHANGED <<log, status, content, channel, stops>>

(* main: fail_interrupted_messages, before anything is served.             *)
Restart ==
    /\ ~ up
    /\ up' = TRUE
    /\ status' = [t \in Turn |-> IF Generating(t) THEN "failed" ELSE status[t]]
    /\ UNCHANGED <<deletion, log, content, lock, job, cancel, reader, bounds>>

-----------------------------------------------------------------------------
TurnStep(t) ==
    \/ Register(t) \/ FinishRead(t) \/ FinishCommit(t) \/ SendDone(t) \/ JobEnds(t)
    \/ RecordFailure(t) \/ Unregister(t)

PageStep(r) == Reconnect(r) \/ Snapshot(r) \/ Receive(r)

Next ==
    \/ \E t \in Turn :
          \/ StartTurn(t) \/ DropPost(t) \/ TurnStep(t) \/ Reap(t) \/ CancelMessage(t)
          \/ Emit(t) \/ ToolRound(t) \/ UpdatePartial(t)
    \/ CancelFail
    \/ DeleteCancel \/ DeleteRows
    \/ \E r \in Reader : PageStep(r) \/ Disconnect(r) \/ \E t \in Turn : Subscribe(r, t)
    \/ Crash \/ Restart

Spec == Init /\ [][Next]_vars

(* A job ends within CHAT_TURN_TIMEOUT and its supervisor goes on to the   *)
(* end; the reaper runs every REAP_INTERVAL; a page's stream is served; the*)
(* process is started again.                                               *)
Fairness ==
    /\ \A t \in Turn : WF_vars(TurnStep(t)) /\ WF_vars(Reap(t))
    /\ \A r \in Reader : WF_vars(PageStep(r))
    /\ WF_vars(Restart)

FairSpec == Spec /\ Fairness
-----------------------------------------------------------------------------
(* Every variable keeps its type.                                          *)
TypeOK ==
    /\ up \in BOOLEAN
    /\ deletion \in {"none", "cancelled", "deleted"}
    /\ log \in Seq(Entry)
    /\ status \in [Turn -> {"none", "pending", "running"} \union Terminal]
    /\ content \in [Turn -> Texts]
    /\ lock \in Turn \union {NoTurn}
    /\ task \in [Turn -> TaskState]
    /\ hub \in SUBSET Turn
    /\ flag \in SUBSET Turn
    /\ buffer \in [Turn -> Nat]
    /\ rounds \in [Turn -> Nat]
    /\ channel \in [Turn -> Seq(ChatEvent)]
    /\ cancel \in Turn \union {NoTurn}
    /\ reader \in [Reader -> ReaderState]
    /\ stops \in 0..MaxStops
    /\ faults \in 0..MaxFaults

EventIn(t, kind) == {i \in DOMAIN channel[t] : channel[t][i].kind = kind}

(* What the readers are told, the row says, for as long as it exists: a    *)
(* 'done' is sent for an answer that is stored with that text, an 'error'  *)
(* for a row that has failed, whatever cancels, flushes, the reaper and    *)
(* restarts do before or after (GenerationJob::run, the supervisor of      *)
(* post_message).                                                          *)
EventsTellTheRow ==
    Exists => \A t \in Turn :
        /\ \A i \in EventIn(t, "done") :
              status[t] = "complete" /\ content[t] = channel[t][i].text
        /\ EventIn(t, "failed") # {} => status[t] = "failed"

(* No page shows a fragment twice or out of order, and one that follows an *)
(* answer while it is written shows all of it once it is told that it is   *)
(* done, however the saved partial text, the fragments that fell before    *)
(* the page subscribed, the live ones and reconnections overlap            *)
(* (stream_message, attach_stream, the offsets of deltas).                 *)
FollowersSeeItAll ==
    \A r \in Reader : LET t == reader[r].turn IN
        /\ \A i, j \in DOMAIN reader[r].text :
              i < j => reader[r].text[i] < reader[r].text[j]
        /\ reader[r].end = "done" /\ reader[r].rx /\ EventIn(t, "done") # {} /\ Exists
              => reader[r].text = content[t]

(* The messages a later turn replays, in order, and what its answers say   *)
(* (load_transcript).                                                      *)
Answered(t) == status[t] = "complete"
Replay == Only(log, {e \in Entry : e.kind = "answer" => Answered(e.turn)})
Said == [t \in Turn |-> IF Answered(t) THEN content[t] ELSE << >>]

(* The stored conversation only grows, by a question, or by all of a       *)
(* turn's tool calls, their replies and its answer right behind its        *)
(* question, until it is deleted as a whole (start_turn, finish_turn).     *)
Promised == INSTANCE Transcript WITH log <- Replay, said <- Said, deleted <- ~ Exists
KeepsTranscript == Promised!Spec

(* Every turn is answered or failed in the end, so that the conversation   *)
(* can go on, whatever fails, is cancelled, dropped or dies.               *)
EveryTurnSettles == \A t \in Turn : [](Generating(t) => <>(~ Generating(t)))

(* Every page that waits for an answer is told how it ended.               *)
EveryPageEnds == \A r \in Reader : reader[r].pc # "idle" ~> reader[r].pc = "ended"
=============================================================================
