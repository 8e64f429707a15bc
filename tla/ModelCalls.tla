----------------------------- MODULE ModelCalls -----------------------------
(***************************************************************************)
(* A chat turn's calls of the model (crate ai: openrouter.rs, chat.rs): an *)
(* answer streams in, cut into chunks anywhere, is put together from its   *)
(* lines and shown as it comes; a call that fails is tried again unless    *)
(* something was shown; the tools asked for are run, old results make room *)
(* for new ones, and the last call must answer.                            *)
(*                                                                         *)
(* A line is one frame of the stream, of three parts: up to somewhere in   *)
(* it, the rest, and its newline; a chunk is any number of parts.  A       *)
(* fragment is known by the number of its frame.  Lengths are in units:    *)
(* a fragment is one long, a result shorter or longer than the stub that   *)
(* may take its place.                                                     *)
(***************************************************************************)
EXTENDS Naturals, FiniteSets, SequencesExt, Lists

CONSTANTS
    MaxRounds,  \* max_turns
    Attempts,   \* 1 + MAX_TRANSIENT_RETRIES
    Budget,     \* message_budget
    Slots,      \* tool calls of one answer, by their `index'
    MaxFrames,  \* bound: frames of one answer
    MaxChunk    \* bound: parts of one chunk

ModelAssumption ==
    /\ {MaxRounds, Attempts, Budget, MaxFrames, MaxChunk} \subseteq Nat
    /\ IsFiniteSet(Slots)

VARIABLES
    at,         \* where the turn stands
    round,      \* turn_idx
    attempt,    \* the attempt at this round's call
    sent,       \* the frames the model answers this attempt with
    got,        \* how many of their parts have arrived
    acc,        \* StreamAccumulator
    streamed,   \* what this round has shown
    emitted,    \* something of this call was handed on
    content,    \* length of what the rounds before have shown
    said,       \* history: length of what the model said in the rounds before
    messages,   \* the request's messages
    answerNow,  \* no tools are offered any more
    cut         \* the body of this answer has ended

vars == <<at, round, attempt, sent, got, acc, streamed, emitted, content, said, messages,
          answerNow, cut>>
call == <<round, content, said, messages, answerNow>>

-----------------------------------------------------------------------------
(* Text, something to skip (white space alone, a keepalive, another field, *)
(* JSON that does not parse), a fragment of the tool call in a slot, with  *)
(* its name or without.                                                    *)
Frame == [kind : {"text", "noise"}, slot : {0}] \cup [kind : {"name", "args"}, slot : Slots]
LastFrame == [kind : {"done", "error"}, slot : {0}]

(* What the model may answer with: [DONE] or an error is the end of it,    *)
(* and so is the end of the body.                                          *)
Answers == LET short == UNION {[1..n -> Frame] : n \in 0..(MaxFrames - 1)}
           IN  short \cup {Append(s, f) : s \in short, f \in LastFrame}

Empty == [text |-> <<>>, calls |-> [s \in Slots |-> <<>>], over |-> "no"]

(* push_line: a fragment goes to the text, or to the call of its `index'.  *)
PushLine(a, i) ==
    LET f == sent[i]
    IN  CASE a.over # "no" -> a
          [] a.over = "no" /\ f.kind = "text" -> [a EXCEPT !.text = Append(@, i)]
          [] a.over = "no" /\ f.kind \in {"name", "args"} -> [a EXCEPT !.calls[f.slot] = Append(@, i)]
          [] a.over = "no" /\ f.kind \in {"done", "error"} -> [a EXCEPT !.over = f.kind]
          [] OTHER -> a

Between(i, j) == [k \in 1..(j - i + 1) |-> i + k - 1]

(* Mutant: each chunk is decoded on its own.                               *)
LinesOfChunk(n) == IF n < 3 THEN <<>> ELSE Between((got + 2) \div 3 + 1, (got + n) \div 3)

(* SseLineBuffer::push: the lines that n more parts complete.              *)
LinesOf(n) == Between(got \div 3 + 1, (got + n) \div 3)

(* The calls whose name is known: they are announced, and made.            *)
Called(a) == {s \in Slots : \E k \in 1..Len(a.calls[s]) : sent[a.calls[s][k]].kind = "name"}

(* The accumulator and what has been shown as more lines are pushed.       *)
Pushed(lines) ==
    LET a[n \in 0..Len(lines)] == IF n = 0 THEN acc ELSE PushLine(a[n - 1], lines[n])
    IN  a[Len(lines)]

Push(lines) ==
    LET a == Pushed(lines)
    IN  /\ acc' = a
        /\ streamed' = streamed \o SubSeq(a.text, Len(acc.text) + 1, Len(a.text))
        /\ emitted' = (emitted \/ a.text # acc.text \/ Called(a) # Called(acc))

Sizes(ms) ==
    LET sum[n \in 0..Len(ms)] == IF n = 0 THEN 0 ELSE sum[n - 1] + ms[n].size
    IN  sum[Len(ms)]

(* Replayed from before this turn: a tool's result with its call.          *)
History == <<[role |-> "call", size |-> 1, calls |-> 1, stub |-> FALSE],
             [role |-> "tool", size |-> 2, calls |-> 0, stub |-> FALSE]>>

NewCall == sent' = <<>> /\ got' = 0 /\ acc' = Empty /\ cut' = FALSE

Init ==
    /\ at = "request" /\ round = 0 /\ attempt = 1
    /\ sent = <<>> /\ got = 0 /\ acc = Empty
    /\ streamed = <<>> /\ emitted = FALSE
    /\ content = 0 /\ said = 0
    /\ messages = History
    /\ answerNow = FALSE /\ cut = FALSE

-----------------------------------------------------------------------------
(* The model begins to answer.                                             *)
Respond ==
    /\ at = "request" /\ at' = "stream"
    /\ sent' \in Answers
    /\ UNCHANGED <<call, attempt, got, acc, streamed, emitted, cut>>

(* A chunk arrives.                                                        *)
Chunk(n) ==
    /\ at = "stream" /\ acc.over = "no"
    /\ got + n <= 3 * Len(sent) /\ got' = got + n
    /\ Push(LinesOf(n))
    /\ UNCHANGED <<call, at, attempt, sent, cut>>

(* The body ends (one that ends sooner is another answer's): a last line   *)
(* without its newline is taken, half of one does not parse.               *)
BodyEnds ==
    /\ at = "stream" /\ acc.over = "no"
    /\ got + 3 > 3 * Len(sent)
    /\ at' = "ended" /\ cut' = TRUE
    /\ IF got = 3 * Len(sent) - 1 THEN Push(<<Len(sent)>>) ELSE UNCHANGED <<acc, streamed, emitted>>
    /\ UNCHANGED <<call, attempt, sent, got>>

(* [DONE], or an error: what comes after it is not read.                   *)
StreamEnds ==
    /\ at = "stream" /\ acc.over # "no"
    /\ at' = "ended"
    /\ UNCHANGED <<call, attempt, sent, got, acc, streamed, emitted, cut>>

(* Mutant: the stream is tried again like any other request.               *)
MayRetryAlways == TRUE

(* "Anything already on screen makes a replay worse than an error."        *)
MayRetry == ~emitted

(* An attempt fails for a while (no answer, a broken or silent connection, *)
(* a rate limit, a server error): another one, ...                         *)
TryAgain ==
    /\ attempt < Attempts /\ MayRetry
    /\ at' = "request" /\ attempt' = attempt + 1
    /\ NewCall

(* ... or the call fails for good, as it also does when the server says to *)
(* wait for too long, or that the request is wrong.                        *)
GiveUp == at' = "failed" /\ UNCHANGED <<attempt, sent, got, acc, cut>>

RequestFails ==
    /\ at = "request"
    /\ TryAgain \/ GiveUp
    /\ UNCHANGED <<call, streamed, emitted>>

StreamBreaks ==
    /\ at = "stream" /\ acc.over = "no"
    /\ TryAgain \/ GiveUp
    /\ UNCHANGED <<call, streamed, emitted>>

Nothing == acc.over = "error" \/ (acc.text = <<>> /\ Called(acc) = {})

(* finish: an error, or nothing at all, is an error.                       *)
TurnFails ==
    /\ at = "ended" /\ Nothing
    /\ GiveUp
    /\ UNCHANGED <<call, streamed, emitted>>

(* No tool is asked for: that was the answer.                              *)
TurnAnswers ==
    /\ at = "ended" /\ ~Nothing /\ Called(acc) = {}
    /\ at' = "answered"
    /\ content' = content + Len(streamed) /\ said' = said + Len(acc.text)
    /\ UNCHANGED <<round, attempt, sent, got, acc, streamed, emitted, messages, answerNow, cut>>

-----------------------------------------------------------------------------
Stub == 1

(* Mutant: the results of earlier turns may go too.                        *)
EvictableAll(i) == TRUE

(* Messages of this turn only.                                             *)
Evictable(i) == i > Len(History)

(* fit_turn_budget: results give way to the stub, oldest first, until what *)
(* is left fits.                                                           *)
MakeWay(ms, i) ==
    IF Sizes(ms) > Budget /\ Evictable(i) /\ ms[i].role = "tool"
    THEN [ms EXCEPT ![i].size = Stub, ![i].stub = TRUE] ELSE ms

Fit(ms) ==
    LET m[n \in 0..Len(ms)] == IF n = 0 THEN ms ELSE MakeWay(m[n - 1], n)
    IN  m[Len(ms)]

ToolsOffered == ~answerNow /\ round + 1 < MaxRounds

(* The tools asked for are run, in the order of their slots, and the next  *)
(* round begins, or the rounds have run out.                               *)
RunTools ==
    /\ at = "ended" /\ ~Nothing /\ Called(acc) # {}
    /\ LET n == Cardinality(Called(acc))
       IN  \E size \in [1..n -> {0, 2}] :
              LET ms == messages
                        \o <<[role |-> "call", size |-> 1, calls |-> n, stub |-> FALSE]>>
                        \o [i \in 1..n |-> [role |-> "tool", size |-> size[i],
                                            calls |-> 0, stub |-> FALSE]]
              IN  /\ messages' = Fit(ms)
                  /\ answerNow' = (answerNow \/ Sizes(Fit(ms)) > Budget)
    /\ round' = round + 1
    /\ at' = IF round + 1 < MaxRounds THEN "request" ELSE "ran out"
    /\ attempt' = 1 /\ NewCall /\ streamed' = <<>> /\ emitted' = FALSE
    /\ content' = content + Len(streamed) /\ said' = said + Len(acc.text)

Next ==
    \/ Respond \/ RequestFails
    \/ \E n \in 1..MaxChunk : Chunk(n)
    \/ BodyEnds \/ StreamEnds \/ StreamBreaks
    \/ TurnFails \/ TurnAnswers \/ RunTools

Spec == Init /\ [][Next]_vars

-----------------------------------------------------------------------------
(* What the reader is shown is what the model said in the one attempt that *)
(* counts: "once any fragment has been handed to `on_delta' ... replaying  *)
(* the turn would duplicate visible text" (openrouter.rs).                 *)
ShownOnce == streamed = acc.text /\ content = said

(* The frames whose line is complete, with the last one of a body that     *)
(* ended without a newline.                                                *)
Arrived == (IF cut THEN got + 1 ELSE got) \div 3
Received(fragments) == Only(Between(1, Arrived), fragments)

Texts == {i \in 1..Len(sent) : sent[i].kind = "text"}
CallsTo(s) == {i \in 1..Len(sent) : sent[i].kind \in {"name", "args"} /\ sent[i].slot = s}

(* However the stream was cut, all that arrived is in the answer, in       *)
(* order, and each tool is called with the fragments of its own call.      *)
ReceivedIsSent ==
    /\ acc.text = Received(Texts)
    /\ \A s \in Slots : acc.calls[s] = Received(CallsTo(s))

Results == {i \in 1..Len(messages) : messages[i].role = "tool"}

(* A request that offers tools fits its budget; what was replayed stands,  *)
(* every call keeps a reply to each of its tools, and of this turn's       *)
(* results the oldest go first: "call the tool again if you still need it".*)
RequestsFit ==
    /\ ToolsOffered /\ round > 0 => Sizes(messages) <= Budget
    /\ IsPrefix(History, messages)
    /\ \A i \in 1..Len(messages) : messages[i].role = "call" =>
          /\ i + messages[i].calls <= Len(messages)
          /\ (i + 1)..(i + messages[i].calls) \subseteq Results
          /\ i + messages[i].calls + 1 \notin Results
    /\ \A i, j \in Results : Len(History) < i /\ i < j /\ messages[j].stub => messages[i].stub
=============================================================================
