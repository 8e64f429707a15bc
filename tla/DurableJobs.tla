---------------------------- MODULE DurableJobs ----------------------------
(***************************************************************************)
(* What the job queue promises the handlers of one trip (the heading of    *)
(* jobs/mod.rs): a job that is asked for is owed, across restarts, until   *)
(* it is done or given up on, and then only another request makes it owed  *)
(* again.  A done job may be forgotten; the jobs of a deleted trip are.    *)
(***************************************************************************)
EXTENDS Naturals

CONSTANT Key        \* the job kinds of the trip

VARIABLES
    state,      \* what each job is
    asked,      \* requests made for each job
    open        \* the trip exists

vars == <<state, asked, open>>

Init ==
    /\ state = [k \in Key |-> "absent"]
    /\ asked = [k \in Key |-> 0]
    /\ open = TRUE

Ask(k) ==
    /\ open
    /\ state' = [state EXCEPT ![k] = "owed"]
    /\ asked' = [asked EXCEPT ![k] = @ + 1]
    /\ UNCHANGED open

Settle(k, outcome) ==
    /\ state[k] = "owed"
    /\ state' = [state EXCEPT ![k] = outcome]
    /\ UNCHANGED <<asked, open>>

Forget(k) ==
    /\ state[k] = "done"
    /\ state' = [state EXCEPT ![k] = "absent"]
    /\ UNCHANGED <<asked, open>>

Close ==
    /\ open
    /\ open' = FALSE
    /\ state' = [k \in Key |-> "absent"]
    /\ UNCHANGED asked

Next ==
    \/ \E k \in Key : Ask(k) \/ Forget(k) \/ \E outcome \in {"done", "failed"} : Settle(k, outcome)
    \/ Close

Spec == Init /\ [][Next]_vars
=============================================================================
