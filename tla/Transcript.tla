----------------------------- MODULE Transcript -----------------------------
(***************************************************************************)
(* What a conversation keeps, whatever becomes of its generations: the     *)
(* messages a provider is sent again in every later turn.  They only grow, *)
(* a turn at a time, and every tool call stands with its reply.            *)
(***************************************************************************)
EXTENDS Naturals, Sequences

CONSTANTS Turn, Fragments, ToolRounds

VARIABLES
    log,        \* the complete messages, oldest first
    said,       \* the text of each turn's answer, once complete
    deleted     \* the conversation is gone

vars == <<log, said, deleted>>

Texts(t) == {[i \in 1..n |-> i] : n \in 1..Fragments[t]} \union {<<0>>}

Message(t, kind) == [turn |-> t, kind |-> kind]

Unsaid == [t \in Turn |-> << >>]

Init == log = << >> /\ said = Unsaid /\ deleted = FALSE

(* A turn begins with its question.                                        *)
Ask ==
    /\ ~ deleted
    /\ \E t \in Turn :
          /\ \A i \in DOMAIN log : log[i].turn < t
          /\ log' = Append(log, Message(t, "user"))
    /\ UNCHANGED <<said, deleted>>

Calls(t, n) ==
    [i \in 1..(2 * n) |-> Message(t, IF i % 2 = 1 THEN "call" ELSE "reply")]

(* Its answer follows at once, behind what its tools were asked and said.  *)
Complete ==
    /\ ~ deleted
    /\ log # << >> /\ log[Len(log)].kind = "user"
    /\ LET t == log[Len(log)].turn IN
       \E n \in 0..ToolRounds[t], text \in Texts(t) :
          /\ log' = log \o Calls(t, n) \o <<Message(t, "answer")>>
          /\ said' = [said EXCEPT ![t] = text]
    /\ UNCHANGED deleted

Delete ==
    /\ ~ deleted
    /\ deleted' = TRUE /\ log' = << >> /\ said' = Unsaid

Next == Ask \/ Complete \/ Delete

Spec == Init /\ [][Next]_vars
=============================================================================
