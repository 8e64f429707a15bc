--------------------------- MODULE TrackJobsProofs ---------------------------
(***************************************************************************)
(* Proofs about TrackJobs, for any number of jobs and passes and any times *)
(* with JobTimeout < LockTime: its types, that a row whose lock expired    *)
(* has no run under way, that queued rows wait for a claim, that the queue *)
(* implements DurableJobs, and that no job runs more often at a time than  *)
(* it was asked for.  Then about TripTraffic, the estimate one of those    *)
(* jobs makes: its types, that a pending summary has somebody to go on,    *)
(* and when the summary is that of the frames and of the trip's flag.      *)
(*                                                                         *)
(* The argument for the second: a row some pass has just claimed still has *)
(* its whole lock, and the lock of a running row exceeds what is left of   *)
(* every run of that job, its own claimer's or an older one's (LocksLast). *)
(* A tick takes one off both, and a new claim only renews the lock.  And   *)
(* for TripTraffic: a summary that is not resolved is owed by a queued or  *)
(* abandoned job, by a run with something left to write or report, or by a *)
(* request; each of them hands the debt on, pays it, or tells nobody, and  *)
(* then the history says so (Owed).                                        *)
(***************************************************************************)
EXTENDS TripTraffic, FiniteSetTheorems, TLAPS

LocksLast ==
    \A p \in Pass :
        pass[p].pc \in {"claimed", "running", "recording"} /\ row[pass[p].key].status = "running" =>
            /\ row[pass[p].key].lock > pass[p].left
            /\ pass[p].pc = "claimed" => row[pass[p].key].lock = LockTime

Inv == TypeOK /\ LocksLast

RowsOK == row \in [Key -> JobRow]

PassOK ==
    /\ pass \in [Pass -> PassState]
    /\ \A p \in Pass : pass[p].pc \notin {"idle", "checked"} => pass[p].key \in Key

RestOK ==
    /\ gone \in BOOLEAN
    /\ inFlight \in SUBSET Key
    /\ server \in [phase : Phase, grace : 0..Grace, left : SUBSET Key]
    /\ requests \in [Key -> 0..MaxRequests]
    /\ rechecks \in 0..MaxRechecks
    /\ stops \in 0..MaxStops

LEMMA TypeParts == TypeOK <=> RowsOK /\ PassOK /\ RestOK
BY DEF TypeOK, RowsOK, PassOK, RestOK

LEMMA TypePartsNext == TypeOK' <=> RowsOK' /\ PassOK' /\ RestOK'
BY DEF TypeOK, RowsOK, PassOK, RestOK

-----------------------------------------------------------------------------
(* What the helpers return.                                                *)

LEMMA Bounds ==
    /\ MaxAttempts \in Nat /\ JobTimeout \in Nat /\ LockTime \in Nat /\ Grace \in Nat
    /\ MaxDelay \in Nat /\ MaxRequests \in Nat /\ MaxRechecks \in Nat /\ MaxStops \in Nat
    /\ JobTimeout < LockTime
BY JobsAssumption

LEMMA IdleType ==
    /\ IdlePass \in PassState
    /\ IdlePass.pc = "idle"
    /\ IdlePass.left = 0
BY JobsAssumption DEF IdlePass, PassState, PassPC, Outcome

LEMMA NoRowType == NoRow \in JobRow /\ NoRow.status = "none"
BY JobsAssumption DEF NoRow, JobRow, Status

LEMMA Minus1Type ==
    ASSUME NEW m \in Nat, NEW n \in 0..m
    PROVE  Minus1(n) \in 0..m /\ (n > 0 => Minus1(n) = n - 1)
BY DEF Minus1

LEMMA QueuedType ==
    ASSUME NEW d \in 0..MaxDelay
    PROVE  [status |-> "queued", attempts |-> 0, delay |-> d, lock |-> 0] \in JobRow
BY JobsAssumption DEF JobRow, Status

LEMMA PassFields ==
    ASSUME PassOK, NEW p \in Pass
    PROVE  /\ pass[p] \in PassState
           /\ pass[p].attempts \in Nat
           /\ pass[p].left \in 0..JobTimeout
           /\ pass[p].outcome \in Outcome
           /\ pass[p].todo \in SUBSET Key
           /\ pass[p].pc \notin {"idle", "checked"} => pass[p].key \in Key
BY DEF PassOK, PassState

LEMMA RowFields ==
    ASSUME RowsOK, NEW k \in Key
    PROVE  /\ row[k] \in JobRow
           /\ row[k].attempts \in Nat
           /\ row[k].delay \in 0..MaxDelay
           /\ row[k].lock \in 0..LockTime
BY DEF RowsOK, JobRow

LEMMA PassStep ==
    ASSUME PassOK, NEW p \in Pass, NEW s \in PassState,
           s.pc \notin {"idle", "checked"} => s.key \in Key,
           pass' = [pass EXCEPT ![p] = s]
    PROVE  PassOK'
BY DEF PassOK

LEMMA RowStep ==
    ASSUME RowsOK, NEW k \in Key, NEW r \in JobRow, row' = [row EXCEPT ![k] = r]
    PROVE  RowsOK'
BY DEF RowsOK

(* What record writes has the type of a row, and is running only if the    *)
(* row was running and stays as it was.                                    *)
LEMMA RecordedType ==
    ASSUME RowsOK, NEW k \in Key, NEW task \in PassState, NEW d \in 0..MaxDelay
    PROVE  /\ Recorded(k, task, d) \in JobRow
           /\ Recorded(k, task, d).status # "running"
           /\ row[k].status = "queued" => Recorded(k, task, d) = row[k]
<1>0. 0 \in 0..LockTime
  BY Bounds
<1>1. task.outcome \in {"done", "recheck", "failed"}
  BY DEF PassState, Outcome
<1>2. row[k] \in JobRow
  BY RowFields
<1>3. CASE row[k].status # "running"
  BY <1>2, <1>3 DEF Recorded
<1>4. CASE row[k].status = "running" /\ task.outcome = "done"
  <2>1. Recorded(k, task, d) = [row[k] EXCEPT !.status = "done", !.lock = 0]
    BY <1>4, Zenon DEF Recorded
  <2>2. Recorded(k, task, d) \in JobRow
    BY <1>2, <2>1, <1>0 DEF JobRow, Status
  <2>3. Recorded(k, task, d).status = "done"
    BY <1>2, <2>1 DEF JobRow
  <2> QED BY <1>4, <2>2, <2>3
<1>5. CASE row[k].status = "running" /\ task.outcome = "recheck"
  <2>1. Recorded(k, task, d) = [status |-> "queued", attempts |-> 0, delay |-> d, lock |-> 0]
    BY <1>5, Zenon DEF Recorded
  <2> QED BY <1>5, <2>1, QueuedType
<1>6. CASE row[k].status = "running" /\ task.outcome = "failed"
  <2>1. Recorded(k, task, d) =
          [row[k] EXCEPT !.status = IF task.attempts >= MaxAttempts THEN "failed" ELSE "queued",
                         !.delay = d, !.lock = 0]
    BY <1>6, Zenon DEF Recorded
  <2> DEFINE new == IF task.attempts >= MaxAttempts THEN "failed" ELSE "queued"
  <2>2. new \in {"failed", "queued"}
    OBVIOUS
  <2> HIDE DEF new
  <2>3. Recorded(k, task, d) \in JobRow
    BY <1>2, <2>1, <2>2, <1>0 DEF JobRow, Status, new
  <2>4. Recorded(k, task, d).status = new
    BY <1>2, <2>1 DEF JobRow, new
  <2> QED BY <1>6, <2>2, <2>3, <2>4
<1> QED BY <1>1, <1>3, <1>4, <1>5, <1>6

-----------------------------------------------------------------------------
(* The bound on locks, step by step: it survives when no row is made       *)
(* running and no pass but an ended one is touched, and so on.             *)

LEMMA LocksKept ==
    ASSUME LocksLast, PassOK',
           \A k \in Key : row'[k].status = "running" => row'[k] = row[k],
           \A p \in Pass : pass'[p].pc \in {"claimed", "running", "recording"} => pass'[p] = pass[p]
    PROVE  LocksLast'
BY DEF PassOK, LocksLast

LEMMA QueueTypes ==
    ASSUME RowsOK, NEW k \in Key, NEW d \in 0..MaxDelay, Queue(k, d),
           requests \in [Key -> 0..MaxRequests]
    PROVE  /\ RowsOK'
           /\ requests' \in [Key -> 0..MaxRequests]
           /\ \A j \in Key : row'[j].status = "running" => row'[j] = row[j]
           /\ \A j \in Key : row[j].status = "queued" => row'[j].status = "queued"
<1>1. CASE gone
  BY <1>1 DEF Queue, RowsOK
<1>2. CASE ~gone
  <2>1. RowsOK'
    BY <1>2, QueuedType, RowStep DEF Queue
  <2>2. requests' \in [Key -> 0..MaxRequests]
    BY <1>2, JobsAssumption DEF Queue
  <2> QED BY <1>2, <2>1, <2>2 DEF Queue, RowsOK
<1> QED BY <1>1, <1>2

LEMMA InitInv == Init => Inv
<1> SUFFICES ASSUME Init PROVE Inv
  OBVIOUS
<1>1. RowsOK /\ PassOK
  BY IdleType, NoRowType DEF Init, RowsOK, PassOK
<1>2. RestOK
  <2>1. Up \in [phase : Phase, grace : 0..Grace, left : SUBSET Key]
    BY Bounds DEF Up, Phase
  <2>2. 0 \in 0..MaxRequests /\ 0 \in 0..MaxRechecks /\ 0 \in 0..MaxStops
    BY Bounds
  <2> QED BY <2>1, <2>2 DEF Init, RestOK
<1>3. LocksLast
  BY IdleType DEF Init, LocksLast
<1> QED BY <1>1, <1>2, <1>3, TypeParts DEF Inv

LEMMA TickInv ==
    ASSUME Inv, Tick PROVE Inv'
<1> USE DEF Inv
<1>1. RowsOK'
  <2>1. \A k \in Key : [row[k] EXCEPT !.delay = Minus1(@), !.lock = Minus1(@)] \in JobRow
    <3> TAKE k \in Key
    <3>1. Minus1(row[k].delay) \in 0..MaxDelay /\ Minus1(row[k].lock) \in 0..LockTime
      BY Bounds, Minus1Type, RowFields, TypeParts
    <3> QED BY <3>1, RowFields, TypeParts DEF JobRow
  <2> QED BY <2>1 DEF RowsOK, Tick
<1>2. PassOK'
  <2>1. \A p \in Pass : [pass[p] EXCEPT !.left = Minus1(@)] \in PassState
    <3> TAKE p \in Pass
    <3>1. Minus1(pass[p].left) \in 0..JobTimeout
      BY Bounds, Minus1Type, PassFields, TypeParts
    <3> QED BY <3>1, PassFields, TypeParts DEF PassState
  <2> QED BY <2>1, TypeParts DEF PassOK, PassState, Tick
<1>3. RestOK'
  <2>1. Minus1(server.grace) \in 0..Grace
    BY Bounds, Minus1Type, TypeParts DEF RestOK
  <2> QED BY <2>1, TypeParts DEF RestOK, Tick
<1>4. LocksLast'
  <2> SUFFICES ASSUME NEW p \in Pass, pass'[p].pc \in {"claimed", "running", "recording"}, row'[pass'[p].key].status = "running"
               PROVE  /\ row'[pass'[p].key].lock > pass'[p].left
                      /\ pass'[p].pc = "claimed" => row'[pass'[p].key].lock = LockTime
    BY DEF LocksLast
  <2> DEFINE k == pass[p].key
  <2>1. pass' = [q \in Pass |-> [pass[q] EXCEPT !.left = Minus1(@)]]
    BY DEF Tick
  <2>2. pass[p] \in PassState
    BY PassFields, TypeParts
  <2>3. pass'[p].key = k /\ pass'[p].pc = pass[p].pc /\ pass'[p].left = Minus1(pass[p].left)
    BY <2>1, <2>2 DEF PassState
  <2>4. pass[p].pc = "running" /\ pass[p].left > 0
    BY <2>3 DEF Tick
  <2>5. k \in Key
    BY <2>4, PassFields, TypeParts
  <2>6. row'[k].status = row[k].status /\ row'[k].lock = Minus1(row[k].lock)
    BY <2>5, RowFields, TypeParts DEF Tick, JobRow
  <2>7. row[k].lock > pass[p].left
    BY <2>3, <2>4, <2>6 DEF LocksLast
  <2> HIDE DEF k
  <2>8. row[k].lock \in 0..LockTime /\ pass[p].left \in 0..JobTimeout
    BY <2>5, RowFields, PassFields, TypeParts
  <2> QED BY <2>3, <2>4, <2>6, <2>7, <2>8, Bounds DEF Minus1
<1> QED BY <1>1, <1>2, <1>3, <1>4, TypePartsNext

LEMMA EnqueueInv ==
    ASSUME Inv, NEW k \in Key, NEW d \in 0..MaxDelay, Enqueue(k, d) PROVE Inv'
<1>1. TypeOK'
  BY QueueTypes, TypeParts, TypePartsNext DEF Inv, Enqueue, PassOK, RestOK
<1>2. \A j \in Key : row'[j].status = "running" => row'[j] = row[j]
  BY QueueTypes, TypeParts DEF Inv, Enqueue, RestOK
<1>3. pass' = pass
  BY DEF Enqueue
<1>4. LocksLast'
  BY <1>1, <1>2, <1>3, LocksKept, TypePartsNext DEF Inv
<1> QED BY <1>1, <1>4 DEF Inv

LEMMA BeginClaimInv ==
    ASSUME Inv, NEW p \in Pass, BeginClaim(p) PROVE Inv'
<1>1. [pass[p] EXCEPT !.pc = "checked"] \in PassState
  BY PassFields, TypeParts DEF Inv, PassState, PassPC
<1>2. PassOK'
  BY <1>1, PassStep, TypeParts DEF Inv, BeginClaim, PassState
<1>3. TypeOK'
  BY <1>2, TypeParts, TypePartsNext DEF Inv, BeginClaim, RowsOK, RestOK
<1>4. \A q \in Pass : pass'[q].pc \in {"claimed", "running", "recording"} => pass'[q] = pass[q]
  BY <1>1, TypeParts DEF Inv, BeginClaim, PassOK, PassState
<1>5. row' = row
  BY DEF BeginClaim
<1>6. LocksLast'
  BY <1>3, <1>4, <1>5, LocksKept, TypePartsNext DEF Inv
<1> QED BY <1>3, <1>6 DEF Inv

LEMMA ClaimInv ==
    ASSUME Inv, NEW p \in Pass, NEW k \in Key, Claim(p, k) PROVE Inv'
<1> DEFINE r == [row[k] EXCEPT !.status = "running", !.attempts = @ + 1, !.lock = LockTime]
           s == [IdlePass EXCEPT !.pc = "claimed", !.key = k,
                    !.attempts = row[k].attempts + 1]
<1>1. r \in JobRow /\ r.lock = LockTime
  <2>1. LockTime \in 0..LockTime
    BY Bounds
  <2>2. row[k] \in JobRow
    BY RowFields, TypeParts DEF Inv
  <2>3. row[k].attempts + 1 \in Nat
    BY RowFields, TypeParts DEF Inv
  <2> QED BY <2>1, <2>2, <2>3 DEF JobRow, Status
<1>2. s \in PassState /\ s.pc = "claimed" /\ s.key = k /\ s.left = 0
  <2>1. requests[k] \in 0..MaxRequests /\ row[k].attempts + 1 \in Nat
    BY RowFields, TypeParts DEF Inv, RestOK
  <2> QED BY <2>1, IdleType DEF PassState, PassPC
<1>3. row' = [row EXCEPT ![k] = r] /\ pass' = [pass EXCEPT ![p] = s]
  <2>1. row' = [row EXCEPT ![k] = r]
    BY DEF Claim
  <2> QED BY <2>1 DEF Claim
<1> HIDE DEF r, s
<1>4. TypeOK'
  <2>1. RowsOK'
    BY <1>1, <1>3, RowStep, TypeParts DEF Inv
  <2>2. PassOK'
    BY <1>2, <1>3, PassStep, TypeParts DEF Inv
  <2> QED BY <2>1, <2>2, TypeParts, TypePartsNext DEF Inv, Claim, RestOK
<1>5. LocksLast'
  <2> SUFFICES ASSUME NEW q \in Pass, pass'[q].pc \in {"claimed", "running", "recording"}, row'[pass'[q].key].status = "running"
               PROVE  /\ row'[pass'[q].key].lock > pass'[q].left
                      /\ pass'[q].pc = "claimed" => row'[pass'[q].key].lock = LockTime
    BY DEF LocksLast
  <2>1. pass'[q].left \in 0..JobTimeout
    BY <1>4 DEF TypeOK, PassState
  <2>2. CASE pass'[q].key = k
    BY <1>1, <1>3, <2>1, <2>2, Bounds, TypeParts DEF Inv, RowsOK
  <2>3. CASE pass'[q].key # k
    <3>1. pass'[q] = pass[q]
      BY <1>2, <1>3, <2>3, TypeParts DEF Inv, PassOK
    <3>2. row'[pass[q].key] = row[pass[q].key]
      BY <1>3, <2>3, <3>1, TypeParts DEF Inv, RowsOK
    <3> QED BY <3>1, <3>2 DEF Inv, LocksLast
  <2> QED BY <2>2, <2>3
<1> QED BY <1>4, <1>5 DEF Inv

LEMMA NothingDueInv ==
    ASSUME Inv, NEW p \in Pass, NothingDue(p) PROVE Inv'
<1>1. TypeOK'
  BY IdleType, PassStep, TypeParts, TypePartsNext DEF Inv, NothingDue, RowsOK, RestOK
<1>2. \A q \in Pass : pass'[q].pc \in {"claimed", "running", "recording"} => pass'[q] = pass[q]
  BY IdleType, TypeParts DEF Inv, NothingDue, PassOK
<1>3. row' = row
  BY DEF NothingDue
<1>4. LocksLast'
  BY <1>1, <1>2, <1>3, LocksKept, TypePartsNext DEF Inv
<1> QED BY <1>1, <1>4 DEF Inv

LEMMA RunInv ==
    ASSUME Inv, NEW p \in Pass, Run(p) PROVE Inv'
<1> DEFINE s == [pass[p] EXCEPT !.pc = "running", !.left = JobTimeout, !.todo = FollowUps[pass[p].key]]
<1>1. pass[p].key \in Key /\ pass[p] \in PassState /\ pass[p].pc = "claimed"
  BY PassFields, TypeParts DEF Inv, Run
<1>2. s \in PassState /\ s.key = pass[p].key /\ s.pc = "running" /\ s.left = JobTimeout
  <2>1. JobTimeout \in 0..JobTimeout /\ FollowUps[pass[p].key] \in SUBSET Key
    BY <1>1, Bounds, JobsAssumption
  <2> QED BY <1>1, <2>1 DEF PassState, PassPC
<1>3. pass' = [pass EXCEPT ![p] = s]
  BY DEF Run
<1> HIDE DEF s
<1>4. TypeOK'
  <2>1. PassOK'
    BY <1>1, <1>2, <1>3, PassStep, TypeParts DEF Inv
  <2> QED BY <1>1, <2>1, TypeParts, TypePartsNext DEF Inv, Run, RowsOK, RestOK
<1>5. LocksLast'
  <2> SUFFICES ASSUME NEW q \in Pass, pass'[q].pc \in {"claimed", "running", "recording"},
                      row[pass'[q].key].status = "running"
               PROVE  /\ row[pass'[q].key].lock > pass'[q].left
                      /\ pass'[q].pc = "claimed" => row[pass'[q].key].lock = LockTime
    BY DEF LocksLast, Run
  <2>1. CASE q = p
    <3>1. pass'[q] = s
      BY <1>3, <2>1, TypeParts DEF Inv, PassOK
    <3>2. row[pass[p].key].lock = LockTime
      BY <1>1, <1>2, <3>1 DEF Inv, LocksLast
    <3> QED BY <1>2, <3>1, <3>2, Bounds
  <2>2. CASE q # p
    BY <1>3, <2>2, TypeParts DEF Inv, PassOK, LocksLast
  <2> QED BY <2>1, <2>2
<1> QED BY <1>4, <1>5 DEF Inv

(* A pass that is running and stays so, or goes on to record its outcome.  *)
LEMMA RunGoesOn ==
    ASSUME Inv, PassOK', NEW p \in Pass, NEW s \in PassState,
           pass[p].pc = "running", s.pc \in {"running", "recording"},
           s.key = pass[p].key, s.left = pass[p].left,
           pass' = [pass EXCEPT ![p] = s],
           \A k \in Key : row'[k].status = "running" => row'[k] = row[k]
    PROVE  LocksLast'
<1> SUFFICES ASSUME NEW q \in Pass, pass'[q].pc \in {"claimed", "running", "recording"},
                    row'[pass'[q].key].status = "running"
             PROVE  /\ row'[pass'[q].key].lock > pass'[q].left
                    /\ pass'[q].pc = "claimed" => row'[pass'[q].key].lock = LockTime
  BY DEF LocksLast
<1>1. pass'[q].key \in Key
  BY DEF PassOK
<1>2. CASE q = p
  <2>1. pass'[q] = s
    BY <1>2, TypeParts DEF Inv, PassOK
  <2> QED BY <1>1, <2>1 DEF Inv, LocksLast
<1>3. CASE q # p
  <2>1. pass'[q] = pass[q]
    BY <1>3, TypeParts DEF Inv, PassOK
  <2> QED BY <1>1, <2>1 DEF Inv, LocksLast
<1> QED BY <1>2, <1>3

LEMMA FollowUpInv ==
    ASSUME Inv, NEW p \in Pass, NEW k \in Key, FollowUp(p, k) PROVE Inv'
<1> DEFINE s == [pass[p] EXCEPT !.todo = @ \ {k}]
<1>1. pass[p].key \in Key /\ pass[p] \in PassState /\ pass[p].todo \in SUBSET Key /\ pass[p].pc = "running"
  BY PassFields, TypeParts DEF Inv, FollowUp
<1>2. /\ s \in PassState /\ s.key = pass[p].key /\ s.pc = "running" /\ s.left = pass[p].left
  BY <1>1 DEF PassState, PassPC
<1>3. pass' = [pass EXCEPT ![p] = s]
  BY DEF FollowUp
<1> HIDE DEF s
<1>4. PassOK'
  BY <1>1, <1>2, <1>3, PassStep, TypeParts DEF Inv
<1>5. /\ RowsOK' /\ requests' \in [Key -> 0..MaxRequests]
      /\ \A j \in Key : row'[j].status = "running" => row'[j] = row[j]
  <2>1. 0 \in 0..MaxDelay
    BY Bounds
  <2> QED BY <2>1, QueueTypes, TypeParts DEF Inv, FollowUp, RestOK
<1>6. TypeOK'
  BY <1>4, <1>5, TypeParts, TypePartsNext DEF Inv, FollowUp, RestOK
<1>7. LocksLast'
  BY <1>1, <1>2, <1>3, <1>4, <1>5, RunGoesOn
<1> QED BY <1>6, <1>7 DEF Inv

LEMMA FinishInv ==
    ASSUME Inv, NEW p \in Pass, NEW outcome \in Outcome, Finish(p, outcome) PROVE Inv'
<1> DEFINE s == [pass[p] EXCEPT !.pc = "recording", !.outcome = outcome]
<1>1. pass[p].key \in Key /\ pass[p] \in PassState /\ pass[p].pc = "running"
  BY PassFields, TypeParts DEF Inv, Finish
<1>2. s \in PassState /\ s.key = pass[p].key /\ s.pc = "recording" /\ s.left = pass[p].left
  BY <1>1 DEF PassState, PassPC
<1>3. pass' = [pass EXCEPT ![p] = s]
  BY DEF Finish
<1> HIDE DEF s
<1>4. PassOK'
  BY <1>1, <1>2, <1>3, PassStep, TypeParts DEF Inv
<1>5. rechecks' \in 0..MaxRechecks
  BY Bounds, TypeParts DEF Inv, Finish, RestOK
<1>6. TypeOK'
  BY <1>4, <1>5, TypeParts, TypePartsNext DEF Inv, Finish, RowsOK, RestOK
<1>7. row' = row
  BY DEF Finish
<1>8. LocksLast'
  BY <1>1, <1>2, <1>3, <1>4, <1>7, RunGoesOn
<1> QED BY <1>6, <1>8 DEF Inv

LEMMA RecordInv ==
    ASSUME Inv, NEW p \in Pass, NEW d \in 1..MaxDelay, Record(p, d) PROVE Inv'
<1> DEFINE k == pass[p].key
           s == [pass[p] EXCEPT !.pc = "recorded"]
<1>1. k \in Key /\ pass[p] \in PassState /\ d \in 0..MaxDelay
  BY PassFields, Bounds, TypeParts DEF Inv, Record
<1>2. s \in PassState /\ s.key = k /\ s.pc = "recorded"
  BY <1>1 DEF PassState, PassPC
<1>3. /\ pass' = [pass EXCEPT ![p] = s]
      /\ row' = [row EXCEPT ![k] = Recorded(k, pass[p], d)]
  BY DEF Record
<1>4. Recorded(k, pass[p], d) \in JobRow /\ Recorded(k, pass[p], d).status # "running"
  BY <1>1, RecordedType, TypeParts DEF Inv
<1> HIDE DEF k, s
<1>6. PassOK' /\ RowsOK'
  BY <1>1, <1>2, <1>3, <1>4, PassStep, RowStep, TypeParts DEF Inv
<1>7. TypeOK'
  BY <1>6, TypeParts, TypePartsNext DEF Inv, Record, RestOK
<1>8. \A j \in Key : row'[j].status = "running" => row'[j] = row[j]
  BY <1>1, <1>3, <1>4, TypeParts DEF Inv, RowsOK
<1>9. \A q \in Pass : pass'[q].pc \in {"claimed", "running", "recording"} => pass'[q] = pass[q]
  BY <1>2, <1>3, TypeParts DEF Inv, PassOK
<1>10. LocksLast'
  BY <1>6, <1>8, <1>9, LocksKept DEF Inv
<1> QED BY <1>7, <1>10 DEF Inv

LEMMA RecordFailsInv ==
    ASSUME Inv, NEW p \in Pass, RecordFails(p) PROVE Inv'
<1>1. [pass[p] EXCEPT !.pc = "recorded"] \in PassState /\ pass[p].key \in Key
  BY PassFields, TypeParts DEF Inv, RecordFails, PassState, PassPC
<1>2. PassOK'
  BY <1>1, PassStep, TypeParts DEF Inv, RecordFails, PassState
<1>3. stops' \in 0..MaxStops
  BY Bounds, TypeParts DEF Inv, RecordFails, RestOK
<1>4. TypeOK'
  BY <1>2, <1>3, TypeParts, TypePartsNext DEF Inv, RecordFails, RowsOK, RestOK
<1>5. \A q \in Pass : pass'[q].pc \in {"claimed", "running", "recording"} => pass'[q] = pass[q]
  BY <1>1, TypeParts DEF Inv, RecordFails, PassOK, PassState
<1>6. row' = row
  BY DEF RecordFails
<1>7. LocksLast'
  BY <1>2, <1>5, <1>6, LocksKept DEF Inv
<1> QED BY <1>4, <1>7 DEF Inv

LEMMA LeaveInv ==
    ASSUME Inv, NEW p \in Pass, Leave(p) PROVE Inv'
<1>1. PassOK'
  BY IdleType, PassStep, TypeParts DEF Inv, Leave
<1>2. TypeOK'
  BY <1>1, TypeParts, TypePartsNext DEF Inv, Leave, RowsOK, RestOK
<1>3. \A q \in Pass : pass'[q].pc \in {"claimed", "running", "recording"} => pass'[q] = pass[q]
  BY IdleType, TypeParts DEF Inv, Leave, PassOK
<1>4. row' = row
  BY DEF Leave
<1>5. LocksLast'
  BY <1>1, <1>3, <1>4, LocksKept DEF Inv
<1> QED BY <1>2, <1>5 DEF Inv

-----------------------------------------------------------------------------
LEMMA DeleteTripInv ==
    ASSUME Inv, DeleteTrip PROVE Inv'
<1>1. RowsOK' /\ PassOK' /\ \A k \in Key : row'[k].status # "running"
  BY NoRowType, TypeParts DEF Inv, DeleteTrip, RowsOK, PassOK
<1>2. TypeOK'
  BY <1>1, TypeParts, TypePartsNext DEF Inv, DeleteTrip, RestOK
<1>3. LocksLast'
  BY <1>1, LocksKept DEF Inv, DeleteTrip
<1> QED BY <1>2, <1>3 DEF Inv

LEMMA ExpireInv ==
    ASSUME Inv, NEW k \in Key, Expire(k) PROVE Inv'
<1>1. RowsOK' /\ PassOK'
  BY NoRowType, RowStep, TypeParts DEF Inv, Expire, PassOK
<1>2. \A j \in Key : row'[j].status = "running" => row'[j] = row[j]
  BY NoRowType, TypeParts DEF Inv, Expire, RowsOK
<1>3. TypeOK'
  BY <1>1, TypeParts, TypePartsNext DEF Inv, Expire, RestOK
<1>4. LocksLast'
  BY <1>1, <1>2, LocksKept DEF Inv, Expire
<1> QED BY <1>3, <1>4 DEF Inv

LEMMA ReleaseInv ==
    ASSUME Inv, NEW k \in Key, Release(k) PROVE Inv'
<1> DEFINE r == [status |-> "queued", attempts |-> Minus1(row[k].attempts), delay |-> 0, lock |-> 0]
<1>1. r \in JobRow /\ r.status = "queued"
  <2>1. Minus1(row[k].attempts) \in Nat
    BY RowFields, TypeParts DEF Inv, Minus1
  <2> QED BY <2>1, Bounds DEF JobRow, Status
<1>2. row' = row \/ row' = [row EXCEPT ![k] = r]
  BY DEF Release
<1> HIDE DEF r
<1>3. RowsOK' /\ PassOK'
  BY <1>1, <1>2, RowStep, TypeParts DEF Inv, Release, RowsOK, PassOK
<1>4. \A j \in Key : row'[j].status = "running" => row'[j] = row[j]
  BY <1>1, <1>2, TypeParts DEF Inv, RowsOK
<1>5. server' \in [phase : Phase, grace : 0..Grace, left : SUBSET Key]
  BY TypeParts DEF Inv, Release, RestOK
<1>6. TypeOK'
  BY <1>3, <1>5, TypeParts, TypePartsNext DEF Inv, Release, RestOK
<1>7. LocksLast'
  BY <1>3, <1>4, LocksKept DEF Inv, Release
<1> QED BY <1>6, <1>7 DEF Inv

(* The steps of drain and restart leave rows and passes alone.             *)
LEMMA ServerInv ==
    ASSUME Inv, BeginDrain \/ ListInFlight \/ Restart PROVE Inv'
<1>1. row' = row /\ pass' = pass /\ RowsOK' /\ PassOK'
  BY TypeParts DEF Inv, BeginDrain, ListInFlight, Restart, RowsOK, PassOK
<1>2. 0 \in 0..Grace /\ Grace \in 0..Grace
  BY Bounds
<1>3. server' \in [phase : Phase, grace : 0..Grace, left : SUBSET Key]
  BY <1>2, TypeParts DEF Inv, BeginDrain, ListInFlight, Restart, Up, Phase, RestOK
<1>4. stops' \in 0..MaxStops
  BY Bounds, TypeParts DEF Inv, BeginDrain, ListInFlight, Restart, RestOK
<1>5. TypeOK'
  BY <1>1, <1>3, <1>4, TypeParts, TypePartsNext DEF Inv, BeginDrain, ListInFlight, Restart, RestOK
<1>6. LocksLast'
  BY <1>1, LocksKept DEF Inv
<1> QED BY <1>5, <1>6 DEF Inv

(* The end of the process leaves nothing under way.                        *)
LEMMA EndInv ==
    ASSUME Inv, Exit \/ Crash PROVE Inv'
<1>1. pass' = [p \in Pass |-> IdlePass] /\ row' = row
  BY DEF Exit, Crash, End
<1>2. RowsOK' /\ PassOK' /\ \A p \in Pass : pass'[p].pc = "idle"
  BY <1>1, IdleType, TypeParts DEF Inv, RowsOK, PassOK
<1>3. server' \in [phase : Phase, grace : 0..Grace, left : SUBSET Key]
  BY Bounds DEF Exit, Crash, End, Phase
<1>4. stops' \in 0..MaxStops
  BY Bounds, TypeParts DEF Inv, Exit, Crash, RestOK
<1>5. TypeOK'
  BY <1>2, <1>3, <1>4, TypeParts, TypePartsNext DEF Inv, Exit, Crash, End, RestOK
<1>6. LocksLast'
  BY <1>1, <1>2, LocksKept DEF Inv
<1> QED BY <1>5, <1>6 DEF Inv

LEMMA NextInv == Inv /\ [Next]_vars => Inv'
<1> SUFFICES ASSUME Inv, [Next]_vars PROVE Inv'
  OBVIOUS
<1>1. CASE Tick
  BY <1>1, TickInv
<1>2. ASSUME NEW k \in Key, NEW d \in 0..MaxDelay, Enqueue(k, d) PROVE Inv'
  BY <1>2, EnqueueInv
<1>3. ASSUME NEW p \in Pass, BeginClaim(p) PROVE Inv'
  BY <1>3, BeginClaimInv
<1>4. ASSUME NEW p \in Pass, NEW k \in Key, Claim(p, k) PROVE Inv'
  BY <1>4, ClaimInv
<1>5. ASSUME NEW p \in Pass, Work(p) \/ RecordFails(p) PROVE Inv'
  BY <1>5, RecordFailsInv, NothingDueInv, RunInv, FollowUpInv, FinishInv, RecordInv, LeaveInv DEF Work
<1>6. CASE DeleteTrip
  BY <1>6, DeleteTripInv
<1>7. ASSUME NEW k \in Key, Expire(k) PROVE Inv'
  BY <1>7, ExpireInv
<1>8. CASE BeginDrain \/ Shutdown \/ Crash
  BY <1>8, ReleaseInv, ServerInv, EndInv DEF Shutdown
<1>9. CASE UNCHANGED vars
  BY <1>9 DEF vars, Inv, TypeOK, LocksLast
<1> QED BY <1>1, <1>2, <1>3, <1>4, <1>5, <1>6, <1>7, <1>8, <1>9 DEF Next

-----------------------------------------------------------------------------
(* Types are kept by every step of the queue.                              *)
THEOREM TypeCorrect == Spec => []TypeOK
<1>1. Inv => TypeOK
  BY DEF Inv
<1> QED BY <1>1, InitInv, NextInv, PTL DEF Spec

(* A claim lock outlives every run of its job: what claim_and_run reclaims *)
(* after LOCK_SECS is never still executing, for any number of jobs, of    *)
(* passes, of requests and of restarts, as JOB_TIMEOUT < LOCK_SECS.        *)
THEOREM LockOutlivesRun == Spec => []NeverReclaimedWhileExecuting
<1>1. Inv => NeverReclaimedWhileExecuting
  <2> SUFFICES ASSUME Inv, NEW k \in Key, NEW p \in Pass, Executing(p, k),
                      row[k].status = "running", row[k].lock = 0
               PROVE  FALSE
    BY DEF NeverReclaimedWhileExecuting
  <2>1. row[k].lock > pass[p].left
    BY DEF Inv, LocksLast, Executing
  <2>2. pass[p].left \in 0..JobTimeout
    BY PassFields, TypeParts DEF Inv
  <2> QED BY <2>1, <2>2, Bounds
<1> QED BY <1>1, InitInv, NextInv, PTL DEF Spec

-----------------------------------------------------------------------------
QueuedWaits ==
    \A k \in Key : row[k].status = "queued" /\ row'[k].status # "queued" =>
        gone' \/ \E p \in Pass : pass'[p].pc = "claimed" /\ pass'[p].key = k

(* Everything but a claim leaves a queued row queued, or deletes the trip. *)
LEMMA QueuedWaitsNext == TypeOK /\ [Next]_vars => QueuedWaits
<1> SUFFICES ASSUME RowsOK, PassOK, RestOK, [Next]_vars,
                    NEW k \in Key, row[k].status = "queued", row'[k].status # "queued"
             PROVE  gone' \/ \E p \in Pass : pass'[p].pc = "claimed" /\ pass'[p].key = k
  BY TypeParts DEF QueuedWaits
<1>1. CASE Tick
  BY <1>1, RowFields DEF Tick, JobRow
<1>2. ASSUME NEW j \in Key, NEW d \in 0..MaxDelay, Queue(j, d) PROVE FALSE
  BY <1>2, QueueTypes DEF RestOK
<1>3. ASSUME NEW p \in Pass, NEW j \in Key, Claim(p, j)
      PROVE  gone' \/ \E q \in Pass : pass'[q].pc = "claimed" /\ pass'[q].key = k
  <2>1. j = k
    BY <1>3 DEF Claim, RowsOK
  <2>2. pass' = [pass EXCEPT ![p] = [IdlePass EXCEPT !.pc = "claimed", !.key = k,
                                       !.attempts = row[k].attempts + 1]]
    BY <1>3, <2>1 DEF Claim
  <2>3. pass'[p].pc = "claimed" /\ pass'[p].key = k
    BY <2>2 DEF PassOK, IdlePass
  <2> QED BY <2>3
<1>4. ASSUME NEW p \in Pass, NEW d \in 1..MaxDelay, Record(p, d) PROVE FALSE
  <2>1. pass[p].key \in Key /\ pass[p] \in PassState /\ d \in 0..MaxDelay
    BY <1>4, PassFields, Bounds DEF Record
  <2>2. row' = [row EXCEPT ![pass[p].key] = Recorded(pass[p].key, pass[p], d)]
    BY <1>4 DEF Record
  <2> QED BY <2>1, <2>2, RecordedType DEF RowsOK
<1>5. ASSUME NEW p \in Pass, Work(p) \/ RecordFails(p) PROVE FALSE
  <2>1. ASSUME NEW j \in Key, FollowUp(p, j) PROVE FALSE
    <3>1. 0 \in 0..MaxDelay
      BY Bounds
    <3> QED BY <1>2, <2>1, <3>1 DEF FollowUp
  <2>2. CASE NothingDue(p) \/ Run(p) \/ Leave(p) \/ RecordFails(p)
    BY <2>2 DEF NothingDue, Run, Leave, RecordFails
  <2>3. ASSUME NEW outcome \in Outcome, Finish(p, outcome) PROVE FALSE
    BY <2>3 DEF Finish
  <2> QED BY <1>4, <1>5, <2>1, <2>2, <2>3 DEF Work
<1>6. CASE DeleteTrip
  BY <1>6 DEF DeleteTrip
<1>7. ASSUME NEW j \in Key, Expire(j) \/ Release(j) PROVE FALSE
  BY <1>7 DEF Expire, Release, RowsOK
<1>8. CASE BeginDrain \/ ListInFlight \/ Exit \/ Restart \/ Crash
  BY <1>8 DEF BeginDrain, ListInFlight, Exit, Restart, Crash, End
<1>9. ASSUME NEW p \in Pass, BeginClaim(p) PROVE FALSE
  BY <1>9 DEF BeginClaim
<1>10. CASE UNCHANGED vars
  BY <1>10 DEF vars
<1> QED BY <1>1, <1>2, <1>3, <1>5, <1>6, <1>7, <1>8, <1>9, <1>10 DEF Next, Shutdown, Enqueue

(* A request made while its job runs waits in the row until it is claimed, *)
(* or goes with the trip: no outcome of the older run overwrites it.       *)
THEOREM QueuedRowsWait == Spec => QueuedRowsWaitForClaim
<1>1. Inv => TypeOK
  BY DEF Inv
<1>2. TypeOK /\ [Next]_vars => QueuedWaits
  BY QueuedWaitsNext
<1> QED BY <1>1, <1>2, InitInv, NextInv, PTL DEF Spec, QueuedRowsWaitForClaim, QueuedWaits

-----------------------------------------------------------------------------
(* A step that changes one row, and neither the requests nor the trip,     *)
(* keeps the promise if the job stays what it is or settles.               *)
LEMMA RowChange ==
    ASSUME RowsOK, NEW k \in Key, NEW r \in JobRow, row' = [row EXCEPT ![k] = r],
           UNCHANGED <<requests, gone>>,
           \/ Promised(r.status) = Promised(row[k].status)
           \/ Promised(row[k].status) = "owed" /\ Promised(r.status) \in {"done", "failed"}
    PROVE  [Promise!Next]_(Promise!vars)
<1> DEFINE st == [j \in Key |-> Promised(row[j].status)]
           new == [j \in Key |-> Promised(row'[j].status)]
<1>1. new = [st EXCEPT ![k] = Promised(r.status)]
  <2>1. \A j \in Key : row'[j] = IF j = k THEN r ELSE row[j]
    BY DEF RowsOK
  <2>2. \A j \in Key : Promised(row'[j].status) = IF j = k THEN Promised(r.status) ELSE Promised(row[j].status)
    BY <2>1
  <2> DEFINE x == Promised(r.status)
  <2> HIDE DEF x
  <2>3. \A j \in Key : new[j] = IF j = k THEN x ELSE st[j]
    BY <2>2 DEF x
  <2>4. new = [st EXCEPT ![k] = x]
    BY <2>3
  <2> QED BY <2>4 DEF x
<1>2. CASE Promised(r.status) = Promised(row[k].status)
  <2>1. new = st
    BY <1>1, <1>2
  <2> QED BY <2>1 DEF Promise!vars
<1>3. CASE Promised(row[k].status) = "owed" /\ Promised(r.status) \in {"done", "failed"}
  <2>1. Promise!Settle(k, Promised(r.status))
    BY <1>1, <1>3 DEF Promise!Settle
  <2> QED BY <1>3, <2>1 DEF Promise!Next
<1> QED BY <1>2, <1>3

(* A request is a request of the promise.                                  *)
LEMMA QueueAsks ==
    ASSUME RowsOK, NEW k \in Key, NEW d \in 0..MaxDelay, Queue(k, d), UNCHANGED gone
    PROVE  [Promise!Next]_(Promise!vars)
<1>1. CASE gone
  BY <1>1 DEF Queue, Promise!vars
<1>2. CASE ~gone
  <2> DEFINE r == [status |-> "queued", attempts |-> 0, delay |-> d, lock |-> 0]
  <2>1. row' = [row EXCEPT ![k] = r] /\ requests' = [requests EXCEPT ![k] = @ + 1]
    BY <1>2 DEF Queue
  <2>2. \A j \in Key : row'[j] = IF j = k THEN r ELSE row[j]
    BY <2>1 DEF RowsOK
  <2>3. Promised(r.status) = "owed"
    BY DEF Promised
  <2>4. [j \in Key |-> Promised(row'[j].status)]
          = [[j \in Key |-> Promised(row[j].status)] EXCEPT ![k] = "owed"]
    BY <2>2, <2>3
  <2>5. Promise!Ask(k)
    BY <1>2, <2>1, <2>4 DEF Promise!Ask
  <2> QED BY <2>5 DEF Promise!Next
<1> QED BY <1>1, <1>2

LEMMA PromiseInit == Init => Promise!Init
BY NoRowType DEF Init, Promise!Init, Promised

LEMMA TickKeeps ==
    ASSUME RowsOK, Tick PROVE [Promise!Next]_(Promise!vars)
<1>1. \A k \in Key : row'[k].status = row[k].status
  BY RowFields DEF Tick, JobRow
<1>2. [k \in Key |-> Promised(row'[k].status)] = [k \in Key |-> Promised(row[k].status)]
  BY <1>1
<1> QED BY <1>2 DEF Tick, Promise!vars

LEMMA ClaimKeeps ==
    ASSUME RowsOK, NEW p \in Pass, NEW k \in Key, Claim(p, k)
    PROVE  [Promise!Next]_(Promise!vars)
<1> DEFINE r == [row[k] EXCEPT !.status = "running", !.attempts = @ + 1, !.lock = LockTime]
<1>1. r \in JobRow /\ r.status = "running"
  <2>1. LockTime \in 0..LockTime /\ row[k].attempts + 1 \in Nat
    BY Bounds, RowFields
  <2> QED BY <2>1, RowFields DEF JobRow, Status
<1>2. row' = [row EXCEPT ![k] = r]
  BY DEF Claim
<1>3. Promised(row[k].status) = "owed" /\ Promised("running") = "owed"
  BY DEF Claim, Due, Promised
<1> HIDE DEF r
<1>4. UNCHANGED <<requests, gone>>
  BY DEF Claim
<1> QED BY <1>1, <1>2, <1>3, <1>4, RowChange

LEMMA RecordKeeps ==
    ASSUME RowsOK, PassOK, NEW p \in Pass, NEW d \in 1..MaxDelay, Record(p, d)
    PROVE  [Promise!Next]_(Promise!vars)
<1> DEFINE k == pass[p].key
           r == Recorded(k, pass[p], d)
<1>1. k \in Key /\ pass[p] \in PassState /\ d \in 0..MaxDelay
  BY PassFields, Bounds DEF Record
<1>2. r \in JobRow /\ r.status # "running"
  BY <1>1, RecordedType
<1>3. row' = [row EXCEPT ![k] = r] /\ UNCHANGED <<requests, gone>>
  BY DEF Record
<1>4. \/ Promised(r.status) = Promised(row[k].status)
      \/ Promised(row[k].status) = "owed" /\ Promised(r.status) \in {"done", "failed"}
  <2>1. CASE row[k].status # "running"
    BY <2>1 DEF Recorded
  <2>2. CASE row[k].status = "running"
    <3>1. r.status \in {"queued", "done", "failed"}
      <4>1. row[k] \in JobRow /\ pass[p].outcome \in {"done", "recheck", "failed"}
        BY <1>1, RowFields, PassFields DEF Outcome
      <4>2. CASE pass[p].outcome = "done"
        BY <2>2, <4>1, <4>2 DEF Recorded, JobRow
      <4>3. CASE pass[p].outcome = "recheck"
        BY <2>2, <4>1, <4>3 DEF Recorded, JobRow
      <4>4. CASE pass[p].outcome = "failed"
        BY <2>2, <4>1, <4>4 DEF Recorded, JobRow
      <4> QED BY <4>1, <4>2, <4>3, <4>4
    <3> QED BY <2>2, <3>1 DEF Promised
  <2> QED BY <2>1, <2>2
<1> HIDE DEF k, r
<1> QED BY <1>1, <1>2, <1>3, <1>4, RowChange

LEMMA ReleaseKeeps ==
    ASSUME RowsOK, NEW k \in Key, Release(k)
    PROVE  [Promise!Next]_(Promise!vars)
<1> DEFINE r == [status |-> "queued", attempts |-> Minus1(row[k].attempts), delay |-> 0, lock |-> 0]
<1>1. CASE row[k].status # "running"
  BY <1>1 DEF Release, Promise!vars
<1>2. CASE row[k].status = "running"
  <2>1. r \in JobRow /\ r.status = "queued"
    <3>1. Minus1(row[k].attempts) \in Nat
      BY RowFields DEF Minus1
    <3> QED BY <3>1, Bounds DEF JobRow, Status
  <2>2. row' = [row EXCEPT ![k] = r] /\ UNCHANGED <<requests, gone>>
    BY <1>2 DEF Release
  <2>3. Promised(row[k].status) = "owed" /\ Promised("queued") = "owed"
    BY <1>2 DEF Promised
  <2> HIDE DEF r
  <2> QED BY <2>1, <2>2, <2>3, RowChange
<1> QED BY <1>1, <1>2

LEMMA ExpireKeeps ==
    ASSUME RowsOK, NEW k \in Key, Expire(k)
    PROVE  [Promise!Next]_(Promise!vars)
<1>1. \A j \in Key : row'[j] = IF j = k THEN NoRow ELSE row[j]
  BY DEF Expire, RowsOK
<1>2. Promised("done") = "done" /\ Promised("none") = "absent"
  BY DEF Promised
<1>3. [j \in Key |-> Promised(row'[j].status)]
        = [[j \in Key |-> Promised(row[j].status)] EXCEPT ![k] = "absent"]
  BY <1>1, <1>2, NoRowType
<1>4. Promise!Forget(k)
  BY <1>2, <1>3 DEF Expire, Promise!Forget
<1> QED BY <1>4 DEF Promise!Next

LEMMA DeleteTripKeeps ==
    ASSUME DeleteTrip PROVE [Promise!Next]_(Promise!vars)
<1>1. [k \in Key |-> Promised(row'[k].status)] = [k \in Key |-> "absent"]
  BY NoRowType DEF DeleteTrip, Promised
<1>2. Promise!Close
  BY <1>1 DEF DeleteTrip, Promise!Close
<1> QED BY <1>2 DEF Promise!Next

LEMMA PromiseNext == TypeOK /\ [Next]_vars => [Promise!Next]_(Promise!vars)
<1> SUFFICES ASSUME RowsOK, PassOK, [Next]_vars PROVE [Promise!Next]_(Promise!vars)
  BY TypeParts
<1>1. CASE Tick
  BY <1>1, TickKeeps
<1>2. ASSUME NEW k \in Key, NEW d \in 0..MaxDelay, Enqueue(k, d) PROVE [Promise!Next]_(Promise!vars)
  BY <1>2, QueueAsks DEF Enqueue
<1>3. ASSUME NEW p \in Pass, BeginClaim(p) PROVE [Promise!Next]_(Promise!vars)
  BY <1>3 DEF BeginClaim, Promise!vars
<1>4. ASSUME NEW p \in Pass, NEW k \in Key, Claim(p, k) PROVE [Promise!Next]_(Promise!vars)
  BY <1>4, ClaimKeeps
<1>5. ASSUME NEW p \in Pass, Work(p) \/ RecordFails(p) PROVE [Promise!Next]_(Promise!vars)
  <2>1. CASE NothingDue(p) \/ Run(p) \/ Leave(p) \/ RecordFails(p)
    BY <2>1 DEF NothingDue, Run, Leave, RecordFails, Promise!vars
  <2>2. ASSUME NEW k \in Key, FollowUp(p, k) PROVE [Promise!Next]_(Promise!vars)
    <3>1. 0 \in 0..MaxDelay
      BY Bounds
    <3> QED BY <2>2, <3>1, QueueAsks DEF FollowUp
  <2>3. ASSUME NEW outcome \in Outcome, Finish(p, outcome) PROVE [Promise!Next]_(Promise!vars)
    BY <2>3 DEF Finish, Promise!vars
  <2>4. ASSUME NEW d \in 1..MaxDelay, Record(p, d) PROVE [Promise!Next]_(Promise!vars)
    BY <2>4, RecordKeeps
  <2> QED BY <1>5, <2>1, <2>2, <2>3, <2>4 DEF Work
<1>6. CASE DeleteTrip
  BY <1>6, DeleteTripKeeps
<1>7. ASSUME NEW k \in Key, Expire(k) PROVE [Promise!Next]_(Promise!vars)
  BY <1>7, ExpireKeeps
<1>8. CASE BeginDrain \/ ListInFlight \/ Exit \/ Restart \/ Crash
  BY <1>8 DEF BeginDrain, ListInFlight, Exit, Restart, Crash, End, Promise!vars
<1>9. ASSUME NEW k \in Key, Release(k) PROVE [Promise!Next]_(Promise!vars)
  BY <1>9, ReleaseKeeps
<1>10. CASE UNCHANGED vars
  BY <1>10 DEF vars, Promise!vars
<1> QED BY <1>1, <1>2, <1>3, <1>4, <1>5, <1>6, <1>7, <1>8, <1>9, <1>10 DEF Next, Shutdown

(* The job queue implements the durable queue of DurableJobs: whatever     *)
(* claims, retries, timeouts, shutdowns and crashes do, a job that was     *)
(* asked for is owed until it is done or given up on, and what has settled *)
(* comes back by a request only.                                           *)
THEOREM QueueKeepsPromise == Spec => KeepsPromise
<1>1. Inv => TypeOK
  BY DEF Inv
<1> QED BY <1>1, InitInv, NextInv, PromiseInit, PromiseNext, PTL DEF Spec, KeepsPromise, Promise!Spec

-----------------------------------------------------------------------------
(* Runs are counted against requests.  A queued row has one to spare for   *)
(* the run its claim will start; a row that its run queues again gives     *)
(* back that run's own.  Only a row handed back by a shutdown may be       *)
(* queued with its run still under way, and then no claim is under way     *)
(* (NoClaims): time has passed since the last one could start (QuietEnd).  *)
Runs(k) == {p \in Pass : Executing(p, k)}

NoClaims == server.phase = "releasing" /\ \A p \in Pass : pass[p].pc # "checked"

Counted(k) ==
    /\ IsFiniteSet(Runs(k))
    /\ Cardinality(Runs(k)) <= requests[k]
    /\ row[k].status # "none" => requests[k] > 0
    /\ row[k].status = "queued" => Cardinality(Runs(k)) < requests[k] \/ NoClaims

GraceRunning == server.phase = "draining" /\ server.grace < Grace

HandingBack == server.phase = "releasing" /\ server.left # {}

QuietEnd == GraceRunning \/ HandingBack => \A p \in Pass : pass[p].pc # "checked"

RunsCounted == (\A k \in Key : Counted(k)) /\ QuietEnd

LEMMA FewerRuns ==
    ASSUME TypeOK, NEW k \in Key, Counted(k), Runs(k)' \subseteq Runs(k)
    PROVE  /\ IsFiniteSet(Runs(k)')
           /\ Cardinality(Runs(k)') \in Nat /\ Cardinality(Runs(k)) \in Nat
           /\ Cardinality(Runs(k)') <= Cardinality(Runs(k))
           /\ Runs(k)' # Runs(k) => Cardinality(Runs(k)') < Cardinality(Runs(k))
           /\ requests[k] \in Nat
<1> DEFINE S == Runs(k)
           T == Runs(k)'
<1>1. IsFiniteSet(S) /\ T \in SUBSET S
  BY DEF Counted
<1>2. requests[k] \in Nat
  BY Bounds DEF TypeOK
<1> HIDE DEF S, T
<1>3. IsFiniteSet(T) /\ Cardinality(T) <= Cardinality(S) /\ (Cardinality(S) = Cardinality(T) => S = T)
  BY <1>1, FS_Subset
<1>4. Cardinality(S) \in Nat /\ Cardinality(T) \in Nat
  BY <1>1, <1>3, FS_CardinalityType
<1>5. T # S => Cardinality(T) < Cardinality(S)
  BY <1>3, <1>4
<1> QED BY <1>2, <1>3, <1>4, <1>5 DEF S, T

(* The count survives a step that starts no run and makes no row queued.   *)
LEMMA CountKept ==
    ASSUME TypeOK, NEW k \in Key, Counted(k), Runs(k)' \subseteq Runs(k),
           requests'[k] = requests[k],
           row'[k].status # "none" => row[k].status # "none",
           row'[k].status = "queued" => row[k].status = "queued",
           NoClaims => NoClaims'
    PROVE  Counted(k)'
<1> DEFINE m == Cardinality(Runs(k))
           n == Cardinality(Runs(k)')
<1>1. IsFiniteSet(Runs(k)') /\ m \in Nat /\ n \in Nat /\ n <= m /\ requests[k] \in Nat
  BY FewerRuns
<1>2. m <= requests[k] /\ (row[k].status # "none" => requests[k] > 0)
      /\ (row[k].status = "queued" => m < requests[k] \/ NoClaims)
  BY DEF Counted
<1> HIDE DEF m, n
<1>3. n <= requests'[k] /\ (row'[k].status # "none" => requests'[k] > 0)
  BY <1>1, <1>2
<1>4. row'[k].status = "queued" => n < requests'[k] \/ NoClaims'
  BY <1>1, <1>2
<1> QED BY <1>1, <1>3, <1>4 DEF Counted, n

(* Nobody runs k, and it was asked for if it has a row.                    *)
LEMMA NobodyRuns ==
    ASSUME TypeOK, NEW k \in Key, Counted(k), Runs(k)' = {}, requests'[k] = requests[k],
           row'[k] = row[k]
    PROVE  Counted(k)'
<1>1. IsFiniteSet({}) /\ Cardinality({}) = 0
  BY FS_EmptySet
<1>2. requests[k] \in Nat
  BY Bounds DEF TypeOK
<1>3. row[k].status # "none" => requests[k] > 0
  BY DEF Counted
<1>4. row[k].status = "queued" => row[k].status # "none"
  OBVIOUS
<1> QED BY <1>1, <1>2, <1>3, <1>4 DEF Counted

(* A step that leaves the passes' runs, the rows and the requests alone.   *)
LEMMA SameCounts ==
    ASSUME TypeOK, RunsCounted, UNCHANGED <<row, requests>>, NoClaims => NoClaims', QuietEnd',
           \A p \in Pass, k \in Key : Executing(p, k)' => Executing(p, k)
    PROVE  RunsCounted'
<1> SUFFICES ASSUME NEW k \in Key PROVE Counted(k)'
  BY DEF RunsCounted
<1>1. Runs(k)' \subseteq Runs(k)
  BY DEF Runs
<1> QED BY <1>1, CountKept DEF RunsCounted

(* The others of a step of one pass.                                       *)
LEMMA OtherPasses ==
    ASSUME TypeOK, NEW p \in Pass, NEW s, pass' = [pass EXCEPT ![p] = s]
    PROVE  pass'[p] = s /\ \A q \in Pass \ {p} : pass'[q] = pass[q]
BY DEF TypeOK

(* A request brings the run it asks for.                                   *)
LEMMA QueueCounts ==
    ASSUME TypeOK, NEW j \in Key, NEW d \in 0..MaxDelay, Queue(j, d), NEW k \in Key, Counted(k),
           Runs(k)' = Runs(k), NoClaims => NoClaims'
    PROVE  Counted(k)'
<1>1. CASE row'[k] = row[k] /\ requests'[k] = requests[k]
  BY <1>1, CountKept
<1>2. CASE ~(row'[k] = row[k] /\ requests'[k] = requests[k])
  <2>1. requests'[k] = requests[k] + 1
    BY <1>2 DEF Queue, TypeOK
  <2> DEFINE m == Cardinality(Runs(k))
             n == Cardinality(Runs(k)')
  <2>2. IsFiniteSet(Runs(k)') /\ m \in Nat /\ n = m /\ requests[k] \in Nat
    BY FewerRuns
  <2>3. m <= requests[k]
    BY DEF Counted
  <2> HIDE DEF m, n
  <2>4. n <= requests'[k] /\ requests'[k] > 0 /\ n < requests'[k]
    BY <2>1, <2>2, <2>3
  <2> QED BY <2>2, <2>4 DEF Counted, n
<1> QED BY <1>1, <1>2

-----------------------------------------------------------------------------
LEMMA InitCounts == Init => RunsCounted
<1> SUFFICES ASSUME Init PROVE RunsCounted
  OBVIOUS
<1>1. \A k \in Key : Runs(k) = {} /\ row[k].status = "none" /\ requests[k] = 0
  BY IdleType, NoRowType DEF Init, Runs, Executing
<1>2. IsFiniteSet({}) /\ Cardinality({}) = 0
  BY FS_EmptySet
<1>3. QuietEnd
  BY DEF Init, Up, QuietEnd, GraceRunning, HandingBack
<1> QED BY <1>1, <1>2, <1>3 DEF RunsCounted, Counted

LEMMA TickCounts ==
    ASSUME TypeOK, RunsCounted, Tick PROVE RunsCounted'
<1>1. \A p \in Pass : pass'[p].key = pass[p].key /\ pass'[p].pc = pass[p].pc
  <2> TAKE p \in Pass
  <2>1. pass[p] \in PassState
    BY DEF TypeOK
  <2> QED BY <2>1 DEF Tick, PassState
<1>2. \A k \in Key : row'[k].status = row[k].status
  <2> TAKE k \in Key
  <2>1. row[k] \in JobRow
    BY DEF TypeOK
  <2> QED BY <2>1 DEF Tick, JobRow
<1>3. server.phase # "releasing" /\ server'.phase = server.phase /\ requests' = requests
  BY DEF Tick, TypeOK
<1>4. \A k \in Key : Counted(k)'
  <2> TAKE k \in Key
  <2>1. Runs(k)' \subseteq Runs(k)
    BY <1>1 DEF Runs, Executing
  <2> QED BY <1>2, <1>3, <2>1, CountKept DEF RunsCounted, NoClaims
<1>5. QuietEnd'
  BY <1>1, <1>3 DEF Tick, QuietEnd, GraceRunning, HandingBack
<1> QED BY <1>4, <1>5 DEF RunsCounted

LEMMA EnqueueCounts ==
    ASSUME TypeOK, RunsCounted, NEW j \in Key, NEW d \in 0..MaxDelay, Enqueue(j, d)
    PROVE  RunsCounted'
<1>1. QuietEnd'
  BY DEF Enqueue, RunsCounted, QuietEnd, GraceRunning, HandingBack
<1>2. \A k \in Key : Counted(k)'
  <2> TAKE k \in Key
  <2>1. Runs(k)' = Runs(k) /\ (NoClaims => NoClaims')
    BY DEF Enqueue, Runs, Executing, NoClaims
  <2>2. Queue(j, d)
    BY DEF Enqueue
  <2> QED BY <2>1, <2>2, QueueCounts DEF RunsCounted
<1> QED BY <1>1, <1>2 DEF RunsCounted

(* A step of one pass that starts no run and touches no row.               *)
LEMMA PassGoesOn ==
    ASSUME TypeOK, RunsCounted, NEW p \in Pass, NEW s, pass' = [pass EXCEPT ![p] = s],
           UNCHANGED <<row, requests, server>>,
           s.pc \in {"claimed", "running", "recording"} =>
               s.key = pass[p].key /\ pass[p].pc \in {"claimed", "running", "recording"},
           s.pc = "checked" => server.phase = "up"
    PROVE  RunsCounted'
<1>1. pass'[p] = s /\ \A q \in Pass \ {p} : pass'[q] = pass[q]
  BY OtherPasses
<1>2. \A q \in Pass, k \in Key : Executing(q, k)' => Executing(q, k)
  BY <1>1 DEF Executing
<1>3. NoClaims => NoClaims'
  BY <1>1 DEF NoClaims
<1>4. QuietEnd'
  BY <1>1 DEF RunsCounted, QuietEnd, GraceRunning, HandingBack
<1> QED BY <1>2, <1>3, <1>4, SameCounts

LEMMA PassCounts ==
    ASSUME TypeOK, RunsCounted, NEW p \in Pass,
           BeginClaim(p) \/ NothingDue(p) \/ Run(p) \/ Leave(p) \/ RecordFails(p)
             \/ (\E outcome \in Outcome : Finish(p, outcome))
    PROVE  RunsCounted'
<1>0. pass[p] \in PassState
  BY DEF TypeOK
<1>1. CASE BeginClaim(p)
  <2> DEFINE s == [pass[p] EXCEPT !.pc = "checked"]
  <2>1. s.pc = "checked"
    BY <1>0 DEF PassState
  <2>2. pass' = [pass EXCEPT ![p] = s]
    BY <1>1 DEF BeginClaim
  <2> HIDE DEF s
  <2> QED BY <1>1, <2>1, <2>2, PassGoesOn DEF BeginClaim
<1>2. CASE Run(p)
  <2> DEFINE s == [pass[p] EXCEPT !.pc = "running", !.left = JobTimeout, !.todo = FollowUps[pass[p].key]]
  <2>1. s.pc = "running" /\ s.key = pass[p].key
    BY <1>0 DEF PassState
  <2>2. pass' = [pass EXCEPT ![p] = s]
    BY <1>2 DEF Run
  <2> HIDE DEF s
  <2> QED BY <1>2, <2>1, <2>2, PassGoesOn DEF Run
<1>3. CASE RecordFails(p)
  <2> DEFINE s == [pass[p] EXCEPT !.pc = "recorded"]
  <2>1. s.pc = "recorded"
    BY <1>0 DEF PassState
  <2>2. pass' = [pass EXCEPT ![p] = s]
    BY <1>3 DEF RecordFails
  <2> HIDE DEF s
  <2> QED BY <1>3, <2>1, <2>2, PassGoesOn DEF RecordFails
<1>4. ASSUME NEW outcome \in Outcome, Finish(p, outcome) PROVE RunsCounted'
  <2> DEFINE s == [pass[p] EXCEPT !.pc = "recording", !.outcome = outcome]
  <2>1. s.pc = "recording" /\ s.key = pass[p].key
    BY <1>0 DEF PassState
  <2>2. pass' = [pass EXCEPT ![p] = s]
    BY <1>4 DEF Finish
  <2> HIDE DEF s
  <2> QED BY <1>4, <2>1, <2>2, PassGoesOn DEF Finish
<1>5. CASE NothingDue(p) \/ Leave(p)
  BY <1>5, IdleType, PassGoesOn DEF NothingDue, Leave
<1> QED BY <1>1, <1>2, <1>3, <1>4, <1>5

(* A claim takes the run its queued row has to spare, or restarts the only *)
(* run of a row whose lock has expired (LocksLast).                        *)
LEMMA ClaimCounts ==
    ASSUME Inv, RunsCounted, NEW p \in Pass, NEW j \in Key, Claim(p, j)
    PROVE  RunsCounted'
<1>1. TypeOK /\ LocksLast /\ ~NoClaims
  BY DEF Inv, Claim, NoClaims
<1> DEFINE s == [IdlePass EXCEPT !.pc = "claimed", !.key = j, !.attempts = row[j].attempts + 1]
<1>2. s.pc = "claimed" /\ s.key = j
  BY DEF IdlePass
<1>3. pass' = [pass EXCEPT ![p] = s] /\ pass[p].pc = "checked"
  BY DEF Claim
<1> HIDE DEF s
<1>4. pass'[p] = s /\ \A q \in Pass \ {p} : pass'[q] = pass[q]
  BY <1>1, <1>3, OtherPasses
<1>5. requests' = requests /\ server' = server
      /\ \A k \in Key : k # j => row'[k] = row[k]
  BY <1>1 DEF Claim, TypeOK
<1>6. QuietEnd'
  BY <1>2, <1>4, <1>5 DEF RunsCounted, QuietEnd, GraceRunning, HandingBack
<1>7. ASSUME NEW k \in Key, k # j PROVE Counted(k)'
  <2>1. Runs(k)' \subseteq Runs(k)
    BY <1>2, <1>4, <1>7 DEF Runs, Executing
  <2> QED BY <1>1, <1>5, <1>7, <2>1, CountKept DEF RunsCounted
<1>8. Counted(j)'
  <2> DEFINE m == Cardinality(Runs(j))
             n == Cardinality(Runs(j)')
  <2>1. Runs(j)' = Runs(j) \union {p} /\ p \notin Runs(j)
    BY <1>2, <1>3, <1>4 DEF Runs, Executing
  <2>2. IsFiniteSet(Runs(j)) /\ m \in Nat /\ requests[j] \in Nat
    BY <1>1, FewerRuns, FS_CardinalityType, Bounds DEF RunsCounted, Counted, TypeOK
  <2>3. IsFiniteSet(Runs(j)') /\ n = m + 1
    BY <2>1, <2>2, FS_AddElement
  <2>4. m < requests[j]
    <3>1. CASE row[j].status = "queued"
      BY <1>1, <3>1 DEF RunsCounted, Counted
    <3>2. CASE row[j].status = "running" /\ row[j].lock = 0
      <4>1. \A q \in Pass : ~Executing(q, j)
        <5> SUFFICES ASSUME NEW q \in Pass, Executing(q, j) PROVE FALSE
          OBVIOUS
        <5>1. row[j].lock > pass[q].left
          BY <1>1, <3>2 DEF LocksLast, Executing
        <5>2. pass[q].left \in 0..JobTimeout
          BY <1>1, PassFields, TypeParts
        <5> QED BY <3>2, <5>1, <5>2, Bounds
      <4>2. Runs(j) = {}
        BY <4>1 DEF Runs
      <4>3. m = 0
        BY <4>2, FS_EmptySet
      <4>4. requests[j] > 0
        BY <3>2 DEF RunsCounted, Counted
      <4> QED BY <4>3, <4>4
    <3> QED BY <3>1, <3>2 DEF Claim, Due
  <2>5. row'[j].status = "running"
    <3>1. row[j] \in JobRow
      BY <1>1 DEF TypeOK
    <3> QED BY <1>1, <3>1 DEF Claim, TypeOK, JobRow
  <2> HIDE DEF m, n
  <2>6. n <= requests'[j] /\ requests'[j] > 0
    BY <1>5, <2>2, <2>3, <2>4
  <2> QED BY <2>3, <2>5, <2>6 DEF Counted, n
<1> QED BY <1>6, <1>7, <1>8 DEF RunsCounted

(* A follow-up is a request like any other.                                *)
LEMMA FollowUpCounts ==
    ASSUME TypeOK, RunsCounted, NEW p \in Pass, NEW j \in Key, FollowUp(p, j)
    PROVE  RunsCounted'
<1>0. pass[p] \in PassState
  BY DEF TypeOK
<1> DEFINE s == [pass[p] EXCEPT !.todo = @ \ {j}]
<1>1. s.pc = pass[p].pc /\ s.key = pass[p].key
  BY <1>0 DEF PassState
<1>2. pass' = [pass EXCEPT ![p] = s]
  BY DEF FollowUp
<1> HIDE DEF s
<1>3. \A q \in Pass : pass'[q].pc = pass[q].pc /\ pass'[q].key = pass[q].key
  BY <1>1, <1>2, OtherPasses
<1>4. server' = server /\ Queue(j, 0) /\ 0 \in 0..MaxDelay
  BY Bounds DEF FollowUp
<1>5. QuietEnd'
  BY <1>3, <1>4 DEF RunsCounted, QuietEnd, GraceRunning, HandingBack
<1>6. \A k \in Key : Counted(k)'
  <2> TAKE k \in Key
  <2>1. Runs(k)' = Runs(k)
    BY <1>3 DEF Runs, Executing
  <2>2. NoClaims => NoClaims'
    BY <1>3, <1>4 DEF NoClaims
  <2> QED BY <1>4, <2>1, <2>2, QueueCounts DEF RunsCounted
<1> QED BY <1>5, <1>6 DEF RunsCounted

(* A run that is recorded gives back its request to the row it queues.     *)
LEMMA RecordCounts ==
    ASSUME TypeOK, RunsCounted, NEW p \in Pass, NEW d \in 1..MaxDelay, Record(p, d)
    PROVE  RunsCounted'
<1> DEFINE s == [pass[p] EXCEPT !.pc = "recorded"]
<1>a. PICK j \in Key : j = pass[p].key
  BY DEF TypeOK, Record
<1>0. pass[p] \in PassState /\ d \in 0..MaxDelay
  BY Bounds DEF TypeOK
<1>1. s.pc = "recorded"
  BY <1>0 DEF PassState
<1>2. /\ pass' = [pass EXCEPT ![p] = s] /\ pass[p].pc = "recording"
      /\ row' = [row EXCEPT ![j] = Recorded(j, pass[p], d)]
      /\ requests' = requests /\ server' = server
  BY <1>a DEF Record
<1> HIDE DEF s
<1>3. pass'[p] = s /\ \A q \in Pass \ {p} : pass'[q] = pass[q]
  BY <1>2, OtherPasses
<1>4. QuietEnd' /\ (NoClaims => NoClaims')
  BY <1>1, <1>2, <1>3 DEF RunsCounted, QuietEnd, GraceRunning, HandingBack, NoClaims
<1>5. ASSUME NEW k \in Key, k # j PROVE Counted(k)'
  <2>1. Runs(k)' \subseteq Runs(k)
    BY <1>1, <1>3 DEF Runs, Executing
  <2>2. row'[k] = row[k]
    BY <1>2, <1>5 DEF TypeOK
  <2> QED BY <1>2, <1>4, <2>1, <2>2, CountKept DEF RunsCounted
<1>6. Counted(j)'
  <2>1. Runs(j)' \subseteq Runs(j) /\ p \in Runs(j) /\ p \notin Runs(j)'
    BY <1>a, <1>1, <1>2, <1>3 DEF Runs, Executing
  <2>2. row'[j] = Recorded(j, pass[p], d)
    BY <1>2 DEF TypeOK
  <2>3. row[j].status = "none" => row'[j].status = "none"
    BY <2>2 DEF Recorded
  <2> DEFINE m == Cardinality(Runs(j))
             n == Cardinality(Runs(j)')
  <2>4. IsFiniteSet(Runs(j)') /\ m \in Nat /\ n \in Nat /\ n < m /\ requests[j] \in Nat
    BY <2>1, FewerRuns DEF RunsCounted
  <2>5. m <= requests[j] /\ (row[j].status # "none" => requests[j] > 0)
    BY DEF RunsCounted, Counted
  <2> HIDE DEF m, n
  <2>6. n < requests'[j] /\ n <= requests'[j] /\ (row'[j].status # "none" => requests'[j] > 0)
    BY <1>2, <2>3, <2>4, <2>5
  <2> QED BY <2>4, <2>6 DEF Counted, n
<1> QED BY <1>4, <1>5, <1>6 DEF RunsCounted

(* The trip goes, or rows long done do.                                    *)
LEMMA RowsGoCounts ==
    ASSUME TypeOK, RunsCounted, DeleteTrip \/ (\E j \in Key : Expire(j)) PROVE RunsCounted'
<1>1. UNCHANGED <<pass, requests, server>>
  BY DEF DeleteTrip, Expire
<1>2. \A k \in Key : row'[k] = row[k] \/ row'[k].status = "none"
  BY NoRowType DEF DeleteTrip, Expire, TypeOK
<1>3. QuietEnd'
  BY <1>1 DEF RunsCounted, QuietEnd, GraceRunning, HandingBack
<1>4. \A k \in Key : Counted(k)'
  <2> TAKE k \in Key
  <2>1. Runs(k)' \subseteq Runs(k) /\ (NoClaims => NoClaims')
    BY <1>1 DEF Runs, Executing, NoClaims
  <2>2. row'[k].status # "none" => row[k].status # "none"
    BY <1>2
  <2>3. row'[k].status = "queued" => row[k].status = "queued"
    BY <1>2
  <2> QED BY <1>1, <2>1, <2>2, <2>3, CountKept DEF RunsCounted
<1> QED BY <1>3, <1>4 DEF RunsCounted

(* A job is handed back when no claim can start it a second time.          *)
LEMMA ReleaseCounts ==
    ASSUME TypeOK, RunsCounted, NEW j \in Key, Release(j) PROVE RunsCounted'
<1>1. UNCHANGED <<pass, requests>> /\ server'.phase = server.phase
      /\ server.phase = "releasing" /\ server.left # {}
  BY DEF Release, TypeOK
<1>2. NoClaims
  BY <1>1 DEF RunsCounted, QuietEnd, HandingBack, NoClaims
<1>3. NoClaims'
  BY <1>1, <1>2 DEF NoClaims
<1>4. QuietEnd'
  BY <1>3 DEF QuietEnd, GraceRunning, HandingBack, NoClaims
<1>5. \A k \in Key : row[k].status = "none" => row'[k].status = "none"
  BY DEF Release, TypeOK
<1>6. \A k \in Key : Counted(k)'
  <2> TAKE k \in Key
  <2>1. Runs(k)' = Runs(k)
    BY <1>1 DEF Runs, Executing
  <2> QED BY <1>1, <1>3, <1>5, <2>1 DEF RunsCounted, Counted
<1> QED BY <1>4, <1>6 DEF RunsCounted

(* drain lists the jobs in flight only once its grace has run out, and a   *)
(* pass that looked before the shutdown has claimed by then.               *)
LEMMA ServerCounts ==
    ASSUME TypeOK, RunsCounted, BeginDrain \/ ListInFlight \/ Restart PROVE RunsCounted'
<1>1. UNCHANGED <<row, requests, pass>>
  BY DEF BeginDrain, ListInFlight, Restart
<1>2. ~NoClaims
  BY DEF BeginDrain, ListInFlight, Restart, Alive, NoClaims
<1>3. QuietEnd'
  <2>1. CASE BeginDrain
    <3>1. server'.phase = "draining" /\ server'.grace = Grace /\ Grace \in Nat
      BY <2>1, Bounds DEF BeginDrain
    <3> QED BY <3>1 DEF QuietEnd, GraceRunning, HandingBack
  <2>2. CASE ListInFlight
    <3>1. server'.phase = "releasing" /\ server'.left = inFlight
      BY <2>2 DEF ListInFlight
    <3>2. inFlight # {} => GraceRunning
      BY <2>2, JobsAssumption DEF ListInFlight, GraceRunning
    <3> QED BY <1>1, <3>1, <3>2 DEF RunsCounted, QuietEnd, GraceRunning, HandingBack
  <2>3. CASE Restart
    BY <2>3 DEF Restart, Up, QuietEnd, GraceRunning, HandingBack
  <2> QED BY <2>1, <2>2, <2>3
<1>4. \A p \in Pass, k \in Key : Executing(p, k)' => Executing(p, k)
  BY <1>1 DEF Executing
<1> QED BY <1>1, <1>2, <1>3, <1>4, SameCounts

(* Whatever a dead process had under way, its rows were asked for.         *)
LEMMA EndCounts ==
    ASSUME TypeOK, RunsCounted, Exit \/ Crash PROVE RunsCounted'
<1>1. \A p \in Pass : pass'[p].pc = "idle"
  BY IdleType DEF Exit, Crash, End
<1>2. UNCHANGED <<row, requests>> /\ server'.phase \in {"stopped", "crashed"}
  BY DEF Exit, Crash, End
<1>3. QuietEnd'
  BY <1>2 DEF QuietEnd, GraceRunning, HandingBack
<1>4. \A k \in Key : Counted(k)'
  <2> TAKE k \in Key
  <2>1. Runs(k)' = {}
    BY <1>1 DEF Runs, Executing
  <2> QED BY <1>2, <2>1, NobodyRuns DEF RunsCounted
<1> QED BY <1>3, <1>4 DEF RunsCounted

LEMMA CountsStep == Inv /\ RunsCounted /\ [Next]_vars => RunsCounted'
<1> SUFFICES ASSUME Inv, RunsCounted, [Next]_vars PROVE RunsCounted'
  OBVIOUS
<1>0. TypeOK
  BY DEF Inv
<1>1. CASE Tick
  BY <1>0, <1>1, TickCounts
<1>2. ASSUME NEW k \in Key, NEW d \in 0..MaxDelay, Enqueue(k, d) PROVE RunsCounted'
  BY <1>0, <1>2, EnqueueCounts
<1>3. ASSUME NEW p \in Pass, BeginClaim(p) PROVE RunsCounted'
  BY <1>0, <1>3, PassCounts
<1>4. ASSUME NEW p \in Pass, NEW k \in Key, Claim(p, k) PROVE RunsCounted'
  BY <1>4, ClaimCounts
<1>5. ASSUME NEW p \in Pass, Work(p) \/ RecordFails(p) PROVE RunsCounted'
  <2>1. CASE NothingDue(p) \/ Run(p) \/ Leave(p) \/ RecordFails(p)
    BY <1>0, <2>1, PassCounts
  <2>2. CASE \E outcome \in Outcome : Finish(p, outcome)
    BY <1>0, <2>2, PassCounts
  <2>3. CASE \E k \in Key : FollowUp(p, k)
    BY <1>0, <2>3, FollowUpCounts
  <2>4. CASE \E d \in 1..MaxDelay : Record(p, d)
    BY <1>0, <2>4, RecordCounts
  <2> QED BY <1>5, <2>1, <2>2, <2>3, <2>4 DEF Work
<1>6. CASE DeleteTrip \/ (\E k \in Key : Expire(k))
  BY <1>0, <1>6, RowsGoCounts
<1>7. CASE \E k \in Key : Release(k)
  BY <1>0, <1>7, ReleaseCounts
<1>8. CASE BeginDrain \/ ListInFlight \/ Restart
  BY <1>0, <1>8, ServerCounts
<1>9. CASE Exit \/ Crash
  BY <1>0, <1>9, EndCounts
<1>10. CASE UNCHANGED vars
  <2>1. \A p \in Pass, k \in Key : Executing(p, k)' => Executing(p, k)
    BY <1>10 DEF vars, Executing
  <2>2. QuietEnd' /\ (NoClaims => NoClaims') /\ UNCHANGED <<row, requests>>
    BY <1>10 DEF vars, RunsCounted, QuietEnd, GraceRunning, HandingBack, NoClaims
  <2> QED BY <1>0, <2>1, <2>2, SameCounts
<1> QED BY <1>1, <1>2, <1>3, <1>4, <1>5, <1>6, <1>7, <1>8, <1>9, <1>10 DEF Next, Shutdown

(* No job has more runs under way at a time than it was asked for: neither *)
(* a retry, a reclaim of an expired lock, a shutdown that hands jobs back  *)
(* nor a crash makes claim_and_run start one twice.                        *)
THEOREM RunsAreAskedFor == Spec => []OneRunPerRequest
<1>1. RunsCounted => OneRunPerRequest
  BY DEF RunsCounted, Counted, Runs, OneRunPerRequest
<1> QED BY <1>1, InitInv, NextInv, InitCounts, CountsStep, PTL DEF Spec

-----------------------------------------------------------------------------
(* TripTraffic takes the steps of the queue, its outcomes and time         *)
(* included, but for statements of its own that fail, and for the owner's  *)
(* request, which queues the job whether or not the process is still up.   *)
FailsAlone ==
    /\ stops < MaxStops
    /\ stops' = stops + 1
    /\ UNCHANGED <<row, gone, pass, inFlight, server, requests, rechecks>>

OwnerQueues ==
    /\ Queue(Traffic, 0)
    /\ UNCHANGED <<gone, pass, inFlight, server, rechecks, stops>>

LEMMA TrafficSplit ==
    ASSUME NextTraffic
    PROVE  \/ QueueStep
           \/ \E p \in Pass : RunJob(p) \/ ReadPoints(p) \/ RunWrites(p)
           \/ \E p \in Pass, outcome \in {"done", "failed"} : FinishJob(p, outcome)
           \/ \E p \in Pass, d \in 1..MaxDelay : RecordJob(p, d)
           \/ \E p \in Pass : MarkFailed(p) \/ LeaveJob(p) \/ RecordJobFails(p) \/ MarkFails(p)
           \/ \E e \in late : LateCommit(e)
           \/ AskTraffic \/ CheckInFlight \/ OwnerPends \/ OwnerFlags \/ OwnerEnqueues
           \/ OwnerFails \/ PointsChange \/ TripGoes \/ ProcessEnds
BY DEF NextTraffic, TrafficWork, FinishJob

LEMMA OnTheQueue ==
    ASSUME NextTraffic PROVE [Next]_vars \/ FailsAlone \/ OwnerQueues
<1> USE DEF vars
<1>1. CASE QueueStep
  BY <1>1, TrafficAssumption DEF QueueStep, Next, Work, Shutdown
<1>2. ASSUME NEW p \in Pass, RunJob(p) \/ ReadPoints(p) \/ RunWrites(p)
      PROVE  [Next]_vars
  BY <1>2 DEF RunJob, ReadPoints, RunWrites, Next, Work
<1>3. ASSUME NEW p \in Pass, NEW outcome \in {"done", "failed"}, FinishJob(p, outcome)
      PROVE  [Next]_vars
  BY <1>3 DEF FinishJob, Next, Work, Outcome
<1>4. ASSUME NEW p \in Pass, NEW d \in 1..MaxDelay, RecordJob(p, d) PROVE [Next]_vars
  BY <1>4 DEF RecordJob, Next, Work
<1>5. ASSUME NEW p \in Pass, MarkFailed(p) \/ LeaveJob(p) \/ RecordJobFails(p) \/ MarkFails(p)
      PROVE  [Next]_vars \/ FailsAlone
  BY <1>5 DEF MarkFailed, LeaveJob, RecordJobFails, MarkFails, Next, Work, FailsAlone
<1>6. ASSUME NEW e \in late, LateCommit(e) PROVE [Next]_vars
  BY <1>6 DEF LateCommit
<1>7. CASE AskTraffic \/ CheckInFlight \/ OwnerPends \/ OwnerFlags \/ PointsChange
  BY <1>7 DEF AskTraffic, CheckInFlight, OwnerPends, OwnerFlags, PointsChange
<1>8. CASE OwnerEnqueues
  BY <1>8 DEF OwnerEnqueues, OwnerQueues
<1>9. CASE OwnerFails
  BY <1>9 DEF OwnerFails, FailsAlone
<1>10. CASE TripGoes \/ ProcessEnds
  BY <1>10 DEF TripGoes, ProcessEnds, Next, Shutdown
<1> QED BY <1>1, <1>2, <1>3, <1>4, <1>5, <1>6, <1>7, <1>8, <1>9, <1>10, TrafficSplit

LEMMA QueueInv == ASSUME Inv, [NextTraffic]_allVars PROVE Inv'
<1>1. CASE UNCHANGED allVars \/ [Next]_vars
  BY <1>1, NextInv DEF allVars, vars
<1>2. CASE FailsAlone
  <2>1. stops' \in 0..MaxStops
    BY <1>2, Bounds DEF Inv, TypeOK, FailsAlone
  <2> QED BY <1>2, <2>1 DEF Inv, TypeOK, LocksLast, FailsAlone
<1>3. CASE OwnerQueues
  <2>1. 0 \in 0..MaxDelay /\ requests \in [Key -> 0..MaxRequests] /\ RowsOK
    BY Bounds, TypeParts DEF Inv, TypeOK
  <2>2. /\ RowsOK' /\ requests' \in [Key -> 0..MaxRequests]
        /\ \A j \in Key : row'[j].status = "running" => row'[j] = row[j]
    BY <1>3, <2>1, QueueTypes, TrafficAssumption DEF OwnerQueues
  <2>3. PassOK' /\ RestOK'
    BY <1>3, <2>2, TypeParts DEF Inv, OwnerQueues, PassOK, RestOK
  <2>4. TypeOK' /\ pass' = pass
    BY <1>3, <2>2, <2>3, TypePartsNext DEF OwnerQueues
  <2> QED BY <2>2, <2>3, <2>4, LocksKept DEF Inv
<1> QED BY <1>1, <1>2, <1>3, OnTheQueue

-----------------------------------------------------------------------------
(* What a step of the queue does to its pass, and to the row.              *)
Others(p) == \A q \in Pass : q # p => pass'[q] = pass[q]

LEMMA PassEffects ==
    ASSUME TypeOK, NEW p \in Pass
    PROVE  /\ BeginClaim(p) =>
                  /\ pass[p].pc = "idle" /\ pass'[p].pc = "checked" /\ Others(p)
                  /\ pass'[p].outcome = pass[p].outcome
           /\ NothingDue(p) =>
                  /\ pass[p].pc = "checked" /\ pass'[p].pc = "idle" /\ Others(p)
                  /\ pass'[p].outcome = "done"
           /\ Leave(p) =>
                  /\ pass[p].pc = "recorded" /\ pass'[p].pc = "idle" /\ Others(p)
                  /\ pass'[p].outcome = "done"
           /\ \A k \in Key : Claim(p, k) =>
                  /\ pass[p].pc = "checked" /\ pass'[p].pc = "claimed" /\ pass'[p].key = k
                  /\ pass'[p].outcome = "done" /\ Others(p)
           /\ Run(p) =>
                  /\ pass[p].pc = "claimed" /\ pass'[p].pc = "running" /\ Others(p)
                  /\ pass'[p].key = pass[p].key /\ pass'[p].outcome = pass[p].outcome
           /\ \A outcome \in Outcome : Finish(p, outcome) =>
                  /\ pass[p].pc = "running" /\ pass'[p].pc = "recording" /\ Others(p)
                  /\ pass'[p].key = pass[p].key /\ pass'[p].outcome = outcome
           /\ \A d : Record(p, d) =>
                  /\ pass[p].pc = "recording" /\ pass'[p].pc = "recorded" /\ Others(p)
                  /\ pass'[p].key = pass[p].key /\ pass'[p].outcome = pass[p].outcome
           /\ RecordFails(p) =>
                  /\ pass[p].pc = "recording" /\ pass'[p].pc = "recorded" /\ Others(p)
                  /\ pass'[p].key = pass[p].key /\ pass'[p].outcome = pass[p].outcome
<1>0. pass[p] \in PassState /\ IdlePass.pc = "idle" /\ IdlePass.outcome = "done"
  BY DEF TypeOK, IdlePass
<1>1. ASSUME NEW s, pass' = [pass EXCEPT ![p] = s] PROVE pass'[p] = s /\ Others(p)
  BY <1>1 DEF TypeOK, Others
<1>2. /\ [pass[p] EXCEPT !.pc = "checked"].pc = "checked"
      /\ [pass[p] EXCEPT !.pc = "checked"].outcome = pass[p].outcome
      /\ [pass[p] EXCEPT !.pc = "recorded"].pc = "recorded"
      /\ [pass[p] EXCEPT !.pc = "recorded"].key = pass[p].key
      /\ [pass[p] EXCEPT !.pc = "recorded"].outcome = pass[p].outcome
  BY <1>0 DEF PassState
<1>3. BeginClaim(p) =>
          /\ pass[p].pc = "idle" /\ pass'[p].pc = "checked" /\ Others(p)
          /\ pass'[p].outcome = pass[p].outcome
  BY <1>1, <1>2 DEF BeginClaim
<1>4. NothingDue(p) => /\ pass[p].pc = "checked" /\ pass'[p].pc = "idle" /\ Others(p)
                       /\ pass'[p].outcome = "done"
  BY <1>0, <1>1 DEF NothingDue
<1>5. Leave(p) => /\ pass[p].pc = "recorded" /\ pass'[p].pc = "idle" /\ Others(p)
                  /\ pass'[p].outcome = "done"
  BY <1>0, <1>1 DEF Leave
<1>6. ASSUME NEW k \in Key, Claim(p, k)
      PROVE  /\ pass[p].pc = "checked" /\ pass'[p].pc = "claimed" /\ pass'[p].key = k
             /\ pass'[p].outcome = "done" /\ Others(p)
  <2> DEFINE s == [IdlePass EXCEPT !.pc = "claimed", !.key = k, !.attempts = row[k].attempts + 1]
  <2>1. s.pc = "claimed" /\ s.key = k /\ s.outcome = "done"
    BY DEF IdlePass
  <2>2. pass' = [pass EXCEPT ![p] = s]
    BY <1>6 DEF Claim
  <2> HIDE DEF s
  <2> QED BY <1>1, <1>6, <2>1, <2>2 DEF Claim
<1>7. ASSUME Run(p)
      PROVE  /\ pass[p].pc = "claimed" /\ pass'[p].pc = "running" /\ Others(p)
             /\ pass'[p].key = pass[p].key /\ pass'[p].outcome = pass[p].outcome
  <2> DEFINE s == [pass[p] EXCEPT !.pc = "running", !.left = JobTimeout,
                                  !.todo = FollowUps[pass[p].key]]
  <2>1. s.pc = "running" /\ s.key = pass[p].key /\ s.outcome = pass[p].outcome
    BY <1>0 DEF PassState
  <2>2. pass' = [pass EXCEPT ![p] = s]
    BY <1>7 DEF Run
  <2> HIDE DEF s
  <2> QED BY <1>1, <1>7, <2>1, <2>2 DEF Run
<1>8. ASSUME NEW outcome \in Outcome, Finish(p, outcome)
      PROVE  /\ pass[p].pc = "running" /\ pass'[p].pc = "recording" /\ Others(p)
             /\ pass'[p].key = pass[p].key /\ pass'[p].outcome = outcome
  <2> DEFINE s == [pass[p] EXCEPT !.pc = "recording", !.outcome = outcome]
  <2>1. s.pc = "recording" /\ s.key = pass[p].key /\ s.outcome = outcome
    BY <1>0 DEF PassState
  <2>2. pass' = [pass EXCEPT ![p] = s]
    BY <1>8 DEF Finish
  <2> HIDE DEF s
  <2> QED BY <1>1, <1>8, <2>1, <2>2 DEF Finish
<1>9. ASSUME NEW d, Record(p, d)
      PROVE  /\ pass[p].pc = "recording" /\ pass'[p].pc = "recorded" /\ Others(p)
             /\ pass'[p].key = pass[p].key /\ pass'[p].outcome = pass[p].outcome
  BY <1>1, <1>2, <1>9 DEF Record
<1>10. RecordFails(p) =>
          /\ pass[p].pc = "recording" /\ pass'[p].pc = "recorded" /\ Others(p)
          /\ pass'[p].key = pass[p].key /\ pass'[p].outcome = pass[p].outcome
  BY <1>1, <1>2 DEF RecordFails
<1> QED BY <1>3, <1>4, <1>5, <1>6, <1>7, <1>8, <1>9, <1>10

LEMMA TickEffects ==
    ASSUME TypeOK, Tick
    PROVE  /\ \A p \in Pass : /\ pass'[p].pc = pass[p].pc /\ pass'[p].key = pass[p].key
                              /\ pass'[p].outcome = pass[p].outcome
           /\ \A k \in Key : row'[k].status = row[k].status
<1>1. ASSUME NEW p \in Pass
      PROVE  /\ pass'[p].pc = pass[p].pc /\ pass'[p].key = pass[p].key
             /\ pass'[p].outcome = pass[p].outcome
  <2>1. pass[p] \in PassState
    BY DEF TypeOK
  <2> QED BY <2>1 DEF Tick, PassState
<1>2. ASSUME NEW k \in Key PROVE row'[k].status = row[k].status
  <2>1. row[k] \in JobRow
    BY DEF TypeOK
  <2> QED BY <2>1 DEF Tick, JobRow
<1> QED BY <1>1, <1>2

(* The row of the job, whoever changes it.                                 *)
LEMMA RowEffects ==
    ASSUME TypeOK, NEW k \in Key
    PROVE  /\ \A d \in 0..MaxDelay : Queue(k, d) => (gone /\ row' = row) \/ row'[k].status = "queued"
           /\ \A p \in Pass : Claim(p, k) => row'[k].status = "running"
           /\ Expire(k) => row[k].status = "done" /\ row'[k].status = "none"
           /\ Release(k) => \/ row'[k].status = row[k].status
                            \/ row[k].status = "running" /\ row'[k].status = "queued"
<1>0. row[k] \in JobRow
  BY DEF TypeOK
<1>1. ASSUME NEW d \in 0..MaxDelay, Queue(k, d)
      PROVE  (gone /\ row' = row) \/ row'[k].status = "queued"
  BY <1>1 DEF Queue, TypeOK
<1>2. ASSUME NEW p \in Pass, Claim(p, k) PROVE row'[k].status = "running"
  <2> DEFINE r == [row[k] EXCEPT !.status = "running", !.attempts = @ + 1, !.lock = LockTime]
  <2>1. row' = [row EXCEPT ![k] = r]
    BY <1>2 DEF Claim
  <2>2. r.status = "running"
    BY <1>0 DEF JobRow
  <2> HIDE DEF r
  <2> QED BY <2>1, <2>2 DEF TypeOK
<1>3. Expire(k) => row[k].status = "done" /\ row'[k].status = "none"
  BY NoRowType DEF Expire, TypeOK
<1>4. ASSUME Release(k)
      PROVE  \/ row'[k].status = row[k].status
             \/ row[k].status = "running" /\ row'[k].status = "queued"
  <2>1. ASSUME NEW r, row' = [row EXCEPT ![k] = r] PROVE row'[k] = r
    BY <2>1 DEF TypeOK
  <2>2. CASE row[k].status = "running"
    <3> DEFINE r == [status |-> "queued", attempts |-> Minus1(row[k].attempts),
                     delay |-> 0, lock |-> 0]
    <3>1. row' = [row EXCEPT ![k] = r] /\ r.status = "queued"
      BY <1>4, <2>2 DEF Release
    <3> HIDE DEF r
    <3> QED BY <2>1, <2>2, <3>1
  <2>3. CASE row[k].status # "running"
    <3>1. row' = row
      BY <1>4, <2>3 DEF Release
    <3> QED BY <3>1
  <2> QED BY <2>2, <2>3
<1> QED BY <1>1, <1>2, <1>3, <1>4

-----------------------------------------------------------------------------
(* A run's stage, and its pass: "mark" is left to do when the outcome is   *)
(* recorded, nothing when it is about to be.                               *)
StagesFit ==
    \A p \in Pass :
        /\ pass[p].pc \notin {"idle", "checked"} => pass[p].key = Traffic
        /\ estimate[p].at # "end" => pass[p].pc \in {"running", "recorded"}
        /\ pass[p].pc = "running" => estimate[p].at # "mark"
        /\ pass[p].pc = "recorded" => estimate[p].at \in {"end", "mark"}
        /\ pass[p].outcome # "recheck"

OwnTypes ==
    /\ points \in Points
    /\ summary \in Summary
    /\ frames \in Points
    /\ analyzed \in BOOLEAN
    /\ estimate \in [Pass -> Estimate]
    /\ late \subseteq Estimate
    /\ owner \in {"idle", "check", "upsert", "flag", "enqueue"}
    /\ overlapped \in BOOLEAN
    /\ unsettled \in BOOLEAN

(* A deleted trip has no estimate.                                         *)
GoneHasNone == gone => summary = NoSummary /\ ~analyzed

OtherStages(p) == \A q \in Pass : q # p => estimate'[q] = estimate[q]

LEMMA PointZero == 0 \in Points /\ NoSummary \in Summary /\ NoEstimate \in Estimate
                   /\ NoSummary.status = "none" /\ NoEstimate.at = "end"
BY TrafficAssumption DEF Points, NoSummary, Summary, NoEstimate, Estimate

(* What a step does to its run's stage.                                    *)
LEMMA StageEffects ==
    ASSUME OwnTypes, NEW p \in Pass
    PROVE  /\ RunJob(p) => estimate'[p].at = "read" /\ OtherStages(p)
           /\ ReadPoints(p) =>
                  /\ estimate[p].at = "read" /\ OtherStages(p)
                  /\ estimate'[p].at \in {"end", "skip", "pend"}
                  /\ estimate'[p].at = "end" => gone
           /\ RunWrites(p) =>
                  /\ estimate'[p].at = After(estimate[p].at) /\ OtherStages(p)
                  /\ estimate'[p].of = estimate[p].of
           /\ \A outcome \in {"done", "failed"} : FinishJob(p, outcome) =>
                  estimate'[p].at = "end" /\ OtherStages(p)
           /\ \A d : RecordJob(p, d) =>
                  /\ estimate'[p].at = IF GivesUp(p) THEN "mark" ELSE estimate[p].at
                  /\ OtherStages(p)
           /\ MarkFailed(p) \/ MarkFails(p) =>
                  /\ pass[p].pc = "recorded" /\ estimate[p].at = "mark"
                  /\ estimate'[p].at = "end" /\ OtherStages(p)
           /\ ProcessEnds => \A q \in Pass : estimate'[q].at = "end"
<1>0. estimate[p] \in Estimate
  BY DEF OwnTypes
<1>1. ASSUME NEW s, estimate' = [estimate EXCEPT ![p] = s] PROVE estimate'[p] = s /\ OtherStages(p)
  BY <1>1 DEF OwnTypes, OtherStages
<1>2. ASSUME NEW a PROVE [estimate[p] EXCEPT !.at = a].at = a
                         /\ [estimate[p] EXCEPT !.at = a].of = estimate[p].of
  BY <1>0 DEF Estimate
<1>3. RunJob(p) => estimate'[p].at = "read" /\ OtherStages(p)
  <2> DEFINE s == [at |-> "read", of |-> 0]
  <2>1. RunJob(p) => estimate' = [estimate EXCEPT ![p] = s]
    BY DEF RunJob
  <2>2. s.at = "read"
    OBVIOUS
  <2> HIDE DEF s
  <2> QED BY <1>1, <2>1, <2>2
<1>4. ASSUME ReadPoints(p)
      PROVE  /\ estimate[p].at = "read" /\ OtherStages(p)
             /\ estimate'[p].at \in {"end", "skip", "pend"}
             /\ estimate'[p].at = "end" => gone
  <2> DEFINE s == [at |-> IF gone THEN "end" ELSE IF points < Enough THEN "skip" ELSE "pend",
                   of |-> points]
  <2>1. estimate' = [estimate EXCEPT ![p] = s] /\ estimate[p].at = "read"
    BY <1>4 DEF ReadPoints
  <2>2. s.at \in {"end", "skip", "pend"} /\ (s.at = "end" => gone)
    OBVIOUS
  <2> HIDE DEF s
  <2> QED BY <1>1, <2>1, <2>2
<1>5. ASSUME RunWrites(p)
      PROVE  /\ estimate'[p].at = After(estimate[p].at) /\ OtherStages(p)
             /\ estimate'[p].of = estimate[p].of
  <2> DEFINE s == [estimate[p] EXCEPT !.at = After(estimate[p].at)]
  <2>1. estimate' = [estimate EXCEPT ![p] = s]
    BY <1>5 DEF RunWrites
  <2>2. s.at = After(estimate[p].at) /\ s.of = estimate[p].of
    BY <1>2
  <2> HIDE DEF s
  <2> QED BY <1>1, <2>1, <2>2
<1>6. ASSUME NEW a, estimate' = [estimate EXCEPT ![p].at = a]
      PROVE  estimate'[p].at = a /\ OtherStages(p)
  <2>1. estimate' = [estimate EXCEPT ![p] = [estimate[p] EXCEPT !.at = a]]
    BY <1>6
  <2> QED BY <1>1, <1>2, <2>1
<1>7. ASSUME NEW outcome \in {"done", "failed"}, FinishJob(p, outcome)
      PROVE  estimate'[p].at = "end" /\ OtherStages(p)
  BY <1>6, <1>7 DEF FinishJob
<1>8. ASSUME NEW d, RecordJob(p, d)
      PROVE  /\ estimate'[p].at = IF GivesUp(p) THEN "mark" ELSE estimate[p].at
             /\ OtherStages(p)
  <2> DEFINE a == IF GivesUp(p) THEN "mark" ELSE estimate[p].at
  <2>1. estimate' = [estimate EXCEPT ![p].at = a]
    BY <1>8 DEF RecordJob
  <2> HIDE DEF a
  <2>2. estimate'[p].at = a /\ OtherStages(p)
    BY <1>6, <2>1
  <2> QED BY <2>2 DEF a
<1>9. MarkFailed(p) \/ MarkFails(p) =>
          /\ pass[p].pc = "recorded" /\ estimate[p].at = "mark"
          /\ estimate'[p].at = "end" /\ OtherStages(p)
  BY <1>6 DEF MarkFailed, MarkFails
<1>10. ProcessEnds => \A q \in Pass : estimate'[q].at = "end"
  BY PointZero DEF ProcessEnds
<1> QED BY <1>3, <1>4, <1>5, <1>7, <1>8, <1>9, <1>10

(* A stage that does not change with its pass fits.                        *)
StageFits(p) ==
    /\ pass[p].pc \notin {"idle", "checked"} => pass[p].key = Traffic
    /\ estimate[p].at # "end" => pass[p].pc \in {"running", "recorded"}
    /\ pass[p].pc = "running" => estimate[p].at # "mark"
    /\ pass[p].pc = "recorded" => estimate[p].at \in {"end", "mark"}
    /\ pass[p].outcome # "recheck"

LEMMA AfterStage == ASSUME NEW at PROVE After(at) \in {"frames", "ready", "end"}
BY DEF After

LEMMA StagesStep ==
    ASSUME TypeOK, OwnTypes, StagesFit, [NextTraffic]_allVars PROVE StagesFit'
<1>0. StagesFit <=> \A p \in Pass : StageFits(p)
  BY DEF StagesFit, StageFits
<1>a. StagesFit' <=> \A p \in Pass : StageFits(p)'
  BY DEF StagesFit, StageFits
<1> HIDE DEF StagesFit
<1>1. ASSUME NEW p \in Pass, pass'[p] = pass[p], estimate'[p] = estimate[p] PROVE StageFits(p)'
  BY <1>0, <1>1 DEF StageFits
<1>2. ASSUME NEW p \in Pass, Others(p), OtherStages(p) \/ estimate' = estimate, StageFits(p)'
      PROVE  StagesFit'
  BY <1>a, <1>1, <1>2 DEF Others, OtherStages
<1>3. CASE UNCHANGED allVars
  BY <1>a, <1>1, <1>3 DEF allVars, trafficVars
<1>4. CASE QueueStep
  <2> USE DEF QueueStep, trafficVars
  <2>1. CASE Tick
    BY <1>0, <1>a, <1>4, <2>1, TickEffects DEF StageFits
  <2>2. ASSUME NEW p \in Pass, BeginClaim(p) \/ NothingDue(p) \/ Claim(p, Traffic)
        PROVE  StagesFit'
    <3>1. Others(p) /\ estimate' = estimate
      BY <1>4, <2>2, PassEffects, TrafficAssumption
    <3>2. StageFits(p)'
      BY <1>0, <1>4, <2>2, PassEffects, TrafficAssumption DEF StageFits
    <3> QED BY <1>2, <3>1, <3>2
  <2>3. ASSUME UNCHANGED pass PROVE StagesFit'
    BY <1>a, <1>1, <1>4, <2>3
  <2> QED BY <1>4, <2>1, <2>2, <2>3 DEF Enqueue, Expire, BeginDrain, ListInFlight, Release, Restart
<1>5. ASSUME NEW p \in Pass, RunJob(p) PROVE StagesFit'
  <2>1. Run(p)
    BY <1>5 DEF RunJob
  <2>2. Others(p) /\ OtherStages(p)
    BY <1>5, <2>1, PassEffects, StageEffects
  <2>3. StageFits(p)'
    BY <1>0, <1>5, <2>1, PassEffects, StageEffects DEF StageFits
  <2> QED BY <1>2, <2>2, <2>3
<1>6. ASSUME NEW p \in Pass, ReadPoints(p) \/ RunWrites(p) PROVE StagesFit'
  <2>1. pass' = pass /\ pass[p].pc = "running"
    BY <1>6 DEF ReadPoints, RunWrites, Estimating, vars
  <2>2. OtherStages(p) /\ estimate'[p].at \notin {"mark"}
    BY <1>6, StageEffects, AfterStage
  <2>3. StageFits(p)'
    BY <1>0, <2>1, <2>2 DEF StageFits
  <2> QED BY <1>2, <2>1, <2>2, <2>3 DEF Others
<1>7. ASSUME NEW p \in Pass, NEW outcome \in {"done", "failed"}, FinishJob(p, outcome)
      PROVE  StagesFit'
  <2>1. Finish(p, outcome) /\ outcome \in Outcome
    BY <1>7 DEF FinishJob, Outcome
  <2>2. Others(p) /\ OtherStages(p)
    BY <1>7, <2>1, PassEffects, StageEffects
  <2>3. StageFits(p)'
    BY <1>0, <1>7, <2>1, PassEffects, StageEffects DEF StageFits
  <2> QED BY <1>2, <2>2, <2>3
<1>8. ASSUME NEW p \in Pass, NEW d \in 1..MaxDelay, RecordJob(p, d) PROVE StagesFit'
  <2>1. Record(p, d)
    BY <1>8 DEF RecordJob
  <2>2. Others(p) /\ OtherStages(p)
    BY <1>8, <2>1, PassEffects, StageEffects
  <2>3. StageFits(p)'
    BY <1>0, <1>8, <2>1, PassEffects, StageEffects DEF StageFits
  <2> QED BY <1>2, <2>2, <2>3
<1>9. ASSUME NEW p \in Pass, MarkFailed(p) \/ MarkFails(p) PROVE StagesFit'
  <2>1. pass' = pass
    BY <1>9 DEF MarkFailed, MarkFails, vars
  <2>2. OtherStages(p) /\ StageFits(p)'
    BY <1>0, <1>9, <2>1, StageEffects DEF StageFits
  <2> QED BY <1>2, <2>1, <2>2 DEF Others
<1>10. ASSUME NEW p \in Pass, LeaveJob(p) PROVE StagesFit'
  <2>1. Leave(p) /\ estimate' = estimate /\ estimate[p].at # "mark"
    BY <1>10 DEF LeaveJob, trafficVars
  <2>2. Others(p) /\ StageFits(p)'
    BY <1>0, <2>1, PassEffects DEF StageFits
  <2> QED BY <1>2, <2>1, <2>2
<1>11. ASSUME NEW p \in Pass, RecordJobFails(p) PROVE StagesFit'
  <2>1. RecordFails(p) /\ estimate' = estimate
    BY <1>11 DEF RecordJobFails
  <2>2. Others(p) /\ StageFits(p)'
    BY <1>0, <2>1, PassEffects DEF StageFits
  <2> QED BY <1>2, <2>1, <2>2
<1>12. ASSUME NEW e \in late, LateCommit(e) PROVE pass' = pass /\ estimate' = estimate
  BY <1>12 DEF LateCommit, vars
<1>13. CASE AskTraffic \/ CheckInFlight \/ OwnerPends \/ OwnerFlags \/ OwnerEnqueues
            \/ OwnerFails \/ PointsChange \/ TripGoes
  <2>1. pass' = pass /\ estimate' = estimate
    BY <1>13 DEF AskTraffic, CheckInFlight, OwnerPends, OwnerFlags, OwnerEnqueues, OwnerFails,
                 PointsChange, TripGoes, DeleteTrip, vars
  <2> QED BY <1>a, <1>1, <2>1
<1>14. CASE ProcessEnds
  <2>1. \A p \in Pass : pass'[p].pc = "idle" /\ pass'[p].outcome = "done"
    BY <1>14 DEF ProcessEnds, Exit, Crash, End, IdlePass
  <2> QED BY <1>a, <1>14, <2>1, StageEffects DEF StageFits
<1> QED BY <1>a, <1>1, <1>3, <1>4, <1>5, <1>6, <1>7, <1>8, <1>9, <1>10, <1>11, <1>12, <1>13, <1>14,
           TrafficSplit

-----------------------------------------------------------------------------
(* The types of TripTraffic's own variables.                               *)
At == {"read", "skip", "pend", "frames", "ready", "end", "mark"}

LEMMA UpsertEffects ==
    ASSUME NEW status, NEW of, Upsert(status, of)
    PROVE  /\ summary'.status = status /\ summary'.of = of
           /\ status = "ready" => analyzed'
           /\ status # "ready" => ~analyzed'
BY DEF Upsert

LEMMA WriteEffects ==
    ASSUME NEW e, Write(e)
    PROVE  /\ e.at \in {"skip", "pend", "frames", "ready"}
           /\ e.at = "skip" => summary'.status = "skipped" /\ ~analyzed' /\ frames' = frames
           /\ e.at = "pend" => summary'.status = "pending" /\ ~analyzed' /\ frames' = frames
           /\ e.at = "frames" => summary' = summary /\ analyzed' = analyzed /\ frames' = e.of
           /\ e.at = "ready" => /\ summary'.status = "ready" /\ summary'.of = e.of
                                /\ analyzed' /\ frames' = frames
<1>1. CASE e.at = "skip" /\ Skip(e.of)
  BY <1>1, UpsertEffects DEF Skip
<1>2. CASE e.at = "pend" /\ Pend(e.of)
  BY <1>2, UpsertEffects DEF Pend
<1>3. CASE e.at = "frames" /\ Replace(e.of)
  BY <1>3 DEF Replace
<1>4. CASE e.at = "ready" /\ Ready(e.of)
  BY <1>4, UpsertEffects DEF Ready
<1> QED BY <1>1, <1>2, <1>3, <1>4 DEF Write

LEMMA UpsertTypes ==
    ASSUME NEW status \in {"none", "pending", "ready", "skipped", "failed"}, NEW of \in Points,
           Upsert(status, of)
    PROVE  summary' \in Summary /\ analyzed' \in BOOLEAN
BY DEF Upsert, Summary

LEMMA WriteTypes ==
    ASSUME OwnTypes, NEW e \in Estimate, Write(e)
    PROVE  summary' \in Summary /\ frames' \in Points /\ analyzed' \in BOOLEAN
<1>1. e.of \in Points
  BY DEF Estimate
<1>2. CASE Skip(e.of)
  BY <1>2, UpsertTypes, PointZero DEF Skip, OwnTypes
<1>3. CASE Pend(e.of)
  BY <1>3, UpsertTypes, PointZero DEF Pend, OwnTypes
<1>4. CASE Replace(e.of)
  BY <1>1, <1>4 DEF Replace, OwnTypes
<1>5. CASE Ready(e.of)
  BY <1>1, <1>5, UpsertTypes DEF Ready, OwnTypes
<1> QED BY <1>2, <1>3, <1>4, <1>5 DEF Write

LEMMA StageTypes ==
    ASSUME OwnTypes, NEW p \in Pass, NEW a \in At, estimate' = [estimate EXCEPT ![p].at = a]
    PROVE  estimate' \in [Pass -> Estimate]
<1> DEFINE s == [estimate[p] EXCEPT !.at = a]
<1>1. estimate[p] \in Estimate
  BY DEF OwnTypes
<1>2. s \in Estimate
  BY <1>1 DEF Estimate, At
<1>3. estimate' = [estimate EXCEPT ![p] = s]
  OBVIOUS
<1> HIDE DEF s
<1> QED BY <1>2, <1>3 DEF OwnTypes

LEMMA OwnTypesStep ==
    ASSUME TypeOK, OwnTypes, [NextTraffic]_allVars PROVE OwnTypes'
<1>1. CASE UNCHANGED trafficVars
  BY <1>1 DEF trafficVars, OwnTypes
<1>2. CASE UNCHANGED allVars \/ QueueStep
  BY <1>1, <1>2 DEF allVars, trafficVars, QueueStep
<1>3. ASSUME NEW p \in Pass, RunJob(p) PROVE OwnTypes'
  <2> DEFINE s == [at |-> "read", of |-> 0]
  <2>1. s \in Estimate
    BY PointZero DEF Estimate
  <2>2. estimate' = [estimate EXCEPT ![p] = s]
    BY <1>3 DEF RunJob
  <2> HIDE DEF s
  <2>3. estimate' \in [Pass -> Estimate]
    BY <2>1, <2>2 DEF OwnTypes
  <2>4. overlapped' \in BOOLEAN
    BY <1>3 DEF RunJob
  <2> QED BY <1>3, <2>3, <2>4 DEF RunJob, OwnTypes
<1>4. ASSUME NEW p \in Pass, ReadPoints(p) PROVE OwnTypes'
  <2> DEFINE s == [at |-> IF gone THEN "end" ELSE IF points < Enough THEN "skip" ELSE "pend",
                   of |-> points]
  <2>1. s \in Estimate
    BY DEF Estimate, OwnTypes
  <2>2. estimate' = [estimate EXCEPT ![p] = s]
    BY <1>4 DEF ReadPoints
  <2> HIDE DEF s
  <2>3. estimate' \in [Pass -> Estimate]
    BY <2>1, <2>2 DEF OwnTypes
  <2> QED BY <1>4, <2>3 DEF ReadPoints, OwnTypes
<1>5. ASSUME NEW p \in Pass, RunWrites(p) PROVE OwnTypes'
  <2> DEFINE a == After(estimate[p].at)
  <2>1. a \in At
    BY AfterStage DEF At
  <2>2. estimate' = [estimate EXCEPT ![p].at = a] /\ Write(estimate[p])
    BY <1>5 DEF RunWrites
  <2> HIDE DEF a
  <2>3. estimate' \in [Pass -> Estimate]
    BY <2>1, <2>2, StageTypes
  <2>4. summary' \in Summary /\ frames' \in Points /\ analyzed' \in BOOLEAN
    BY <2>2, WriteTypes DEF OwnTypes
  <2> QED BY <1>5, <2>3, <2>4 DEF RunWrites, OwnTypes
<1>6. ASSUME NEW p \in Pass, NEW outcome \in {"done", "failed"}, FinishJob(p, outcome)
      PROVE  OwnTypes'
  <2>1. estimate' \in [Pass -> Estimate]
    BY <1>6, StageTypes DEF FinishJob, At
  <2>2. late' \subseteq Estimate
    BY <1>6 DEF FinishJob, LeftBehind, OwnTypes
  <2> QED BY <1>6, <2>1, <2>2 DEF FinishJob, OwnTypes
<1>7. ASSUME NEW p \in Pass, NEW d \in 1..MaxDelay, RecordJob(p, d) PROVE OwnTypes'
  <2> DEFINE a == IF GivesUp(p) THEN "mark" ELSE estimate[p].at
  <2>1. a \in At
    BY DEF OwnTypes, Estimate, At
  <2>2. estimate' = [estimate EXCEPT ![p].at = a]
    BY <1>7 DEF RecordJob
  <2> HIDE DEF a
  <2>3. estimate' \in [Pass -> Estimate]
    BY <2>1, <2>2, StageTypes
  <2>4. unsettled' \in BOOLEAN
    BY <1>7 DEF RecordJob
  <2> QED BY <1>7, <2>3, <2>4 DEF RecordJob, OwnTypes
<1>8. ASSUME NEW p \in Pass, MarkFailed(p) PROVE OwnTypes'
  <2>1. estimate' \in [Pass -> Estimate]
    BY <1>8, StageTypes DEF MarkFailed, At
  <2>2. summary' \in Summary /\ analyzed' \in BOOLEAN
    BY <1>8, UpsertTypes, PointZero DEF MarkFailed, OwnTypes
  <2> QED BY <1>8, <2>1, <2>2 DEF MarkFailed, OwnTypes
<1>9. ASSUME NEW p \in Pass, MarkFails(p) PROVE OwnTypes'
  <2>1. estimate' \in [Pass -> Estimate]
    BY <1>9, StageTypes DEF MarkFails, At
  <2> QED BY <1>9, <2>1 DEF MarkFails, OwnTypes
<1>10. ASSUME NEW p \in Pass, LeaveJob(p) PROVE OwnTypes'
  BY <1>1, <1>10 DEF LeaveJob
<1>11. ASSUME NEW p \in Pass, RecordJobFails(p) PROVE OwnTypes'
  <2>1. unsettled' \in BOOLEAN
    BY <1>11 DEF RecordJobFails
  <2> QED BY <1>11, <2>1 DEF RecordJobFails, OwnTypes
<1>12. ASSUME NEW e \in late, LateCommit(e) PROVE OwnTypes'
  <2>1. e \in Estimate /\ late' \subseteq Estimate
    BY <1>12 DEF LateCommit, OwnTypes
  <2>2. /\ summary' \in Summary /\ frames' \in Points /\ analyzed' \in BOOLEAN
        /\ overlapped' \in BOOLEAN /\ unsettled' \in BOOLEAN
    BY <1>12, <2>1, WriteTypes DEF LateCommit, OwnTypes
  <2> QED BY <1>12, <2>1, <2>2 DEF LateCommit, OwnTypes
<1>13. CASE AskTraffic \/ CheckInFlight \/ OwnerFlags \/ OwnerEnqueues
  BY <1>13 DEF AskTraffic, CheckInFlight, OwnerFlags, OwnerEnqueues, OwnTypes
<1>14. CASE OwnerPends
  <2>1. [summary EXCEPT !.status = "pending"] \in Summary
    BY DEF OwnTypes, Summary
  <2>2. summary' \in Summary
    BY <1>14, <2>1 DEF OwnerPends, OwnTypes
  <2> QED BY <1>14, <2>2 DEF OwnerPends, OwnTypes
<1>15. CASE OwnerFails
  <2>1. unsettled' \in BOOLEAN
    BY <1>15 DEF OwnerFails, OwnTypes
  <2> QED BY <1>15, <2>1 DEF OwnerFails, OwnTypes
<1>16. CASE PointsChange
  BY <1>16 DEF PointsChange, OwnTypes
<1>17. CASE TripGoes
  BY <1>17, PointZero DEF TripGoes, OwnTypes
<1>18. CASE ProcessEnds
  <2>1. late' \subseteq Estimate /\ estimate' \in [Pass -> Estimate]
    BY <1>18, PointZero DEF ProcessEnds, LeftBehind, OwnTypes
  <2>2. unsettled' \in BOOLEAN
    BY <1>18 DEF ProcessEnds
  <2> QED BY <1>18, <2>1, <2>2 DEF ProcessEnds, OwnTypes
<1> QED BY <1>2, <1>3, <1>4, <1>5, <1>6, <1>7, <1>8, <1>9, <1>10, <1>11, <1>12, <1>13, <1>14,
           <1>15, <1>16, <1>17, <1>18, TrafficSplit

(* What was told is not untold, and a deleted trip's estimate stays away.  *)
LEMMA HistoryStays ==
    ASSUME OwnTypes, [NextTraffic]_allVars
    PROVE  (unsettled => unsettled') /\ (overlapped => overlapped')
BY TrafficSplit
   DEF OwnTypes, allVars, trafficVars, QueueStep, RunJob, ReadPoints, RunWrites, FinishJob,
       RecordJob, MarkFailed, LeaveJob, RecordJobFails, MarkFails, LateCommit, AskTraffic,
       CheckInFlight, OwnerPends, OwnerFlags, OwnerEnqueues, OwnerFails, PointsChange, TripGoes,
       ProcessEnds

-----------------------------------------------------------------------------
(* Who writes the estimate, and who the trip.                              *)
LEMMA Writers ==
    ASSUME [NextTraffic]_allVars
    PROVE  \/ UNCHANGED <<summary, frames, analyzed>>
           \/ \E p \in Pass : RunWrites(p)
           \/ \E p \in Pass : MarkFailed(p) /\ ~gone
           \/ \E e \in late : LateCommit(e) /\ ~gone /\ Write(e)
           \/ OwnerPends /\ ~gone
           \/ OwnerFlags
           \/ TripGoes
BY TrafficSplit
   DEF allVars, trafficVars, QueueStep, RunJob, ReadPoints, FinishJob, RecordJob, MarkFailed,
       LeaveJob, RecordJobFails, MarkFails, LateCommit, AskTraffic, CheckInFlight, OwnerPends,
       OwnerEnqueues, OwnerFails, PointsChange, ProcessEnds

LEMMA GoneStays == ASSUME [NextTraffic]_allVars PROVE gone' = gone \/ TripGoes
<1>1. CASE QueueStep
  BY <1>1 DEF QueueStep, Tick, Enqueue, BeginClaim, NothingDue, Claim, Expire, BeginDrain,
              ListInFlight, Release, Restart
<1>2. ASSUME NEW p \in Pass, RunJob(p) \/ ReadPoints(p) \/ RunWrites(p)
      PROVE  gone' = gone
  BY <1>2 DEF RunJob, Run, ReadPoints, RunWrites, vars
<1>3. ASSUME NEW p \in Pass, NEW outcome \in {"done", "failed"}, FinishJob(p, outcome)
      PROVE  gone' = gone
  BY <1>3 DEF FinishJob, Finish
<1>4. ASSUME NEW p \in Pass, NEW d \in 1..MaxDelay, RecordJob(p, d) PROVE gone' = gone
  BY <1>4 DEF RecordJob, Record
<1>5. ASSUME NEW p \in Pass, MarkFailed(p) \/ LeaveJob(p) \/ RecordJobFails(p) \/ MarkFails(p)
      PROVE  gone' = gone
  BY <1>5 DEF MarkFailed, LeaveJob, Leave, RecordJobFails, RecordFails, MarkFails, vars
<1>6. ASSUME NEW e \in late, LateCommit(e) PROVE gone' = gone
  BY <1>6 DEF LateCommit, vars
<1>7. CASE AskTraffic \/ CheckInFlight \/ OwnerPends \/ OwnerFlags \/ PointsChange
           \/ OwnerEnqueues \/ OwnerFails \/ ProcessEnds \/ UNCHANGED allVars
  BY <1>7 DEF AskTraffic, CheckInFlight, OwnerPends, OwnerFlags, PointsChange, OwnerEnqueues,
              OwnerFails, ProcessEnds, Exit, Crash, End, allVars, vars
<1> QED BY <1>1, <1>2, <1>3, <1>4, <1>5, <1>6, <1>7, TrafficSplit

(* What MarkFailed, OwnerPends and TripGoes leave in the summary.          *)
LEMMA OtherWrites ==
    ASSUME OwnTypes
    PROVE  /\ \A p \in Pass : MarkFailed(p) /\ ~gone =>
                  summary'.status = "failed" /\ ~analyzed' /\ frames' = frames
           /\ OwnerPends /\ ~gone => /\ summary'.status = "pending" /\ analyzed' = analyzed
                                     /\ frames' = frames /\ owner = "upsert" /\ owner' = "flag"
           /\ OwnerFlags => /\ summary' = summary /\ ~analyzed' /\ frames' = frames
                            /\ owner = "flag" /\ owner' = "enqueue"
           /\ TripGoes => /\ gone' /\ summary' = NoSummary /\ summary'.status = "none"
                          /\ ~analyzed' /\ frames' = 0
<1>1. ASSUME NEW p \in Pass, MarkFailed(p), ~gone
      PROVE  summary'.status = "failed" /\ ~analyzed' /\ frames' = frames
  BY <1>1, UpsertEffects DEF MarkFailed
<1>2. ASSUME OwnerPends, ~gone
      PROVE  /\ summary'.status = "pending" /\ analyzed' = analyzed
             /\ frames' = frames /\ owner = "upsert" /\ owner' = "flag"
  <2>1. [summary EXCEPT !.status = "pending"].status = "pending"
    BY DEF OwnTypes, Summary
  <2> QED BY <1>2, <2>1 DEF OwnerPends
<1>3. OwnerFlags => /\ summary' = summary /\ ~analyzed' /\ frames' = frames
                    /\ owner = "flag" /\ owner' = "enqueue"
  BY DEF OwnerFlags
<1>4. TripGoes => /\ gone' /\ summary' = NoSummary /\ summary'.status = "none"
                  /\ ~analyzed' /\ frames' = 0
  BY PointZero DEF TripGoes, DeleteTrip
<1> QED BY <1>1, <1>2, <1>3, <1>4

LEMMA GoneHasNoneStep ==
    ASSUME OwnTypes, GoneHasNone, [NextTraffic]_allVars PROVE GoneHasNone'
<1>1. CASE TripGoes
  BY <1>1, OtherWrites DEF GoneHasNone
<1>2. CASE UNCHANGED <<summary, frames, analyzed>> \/ OwnerFlags
  BY <1>1, <1>2, GoneStays, OtherWrites DEF GoneHasNone
<1>3. CASE ~gone
  BY <1>1, <1>3, GoneStays DEF GoneHasNone
<1> QED BY <1>1, <1>2, <1>3, Writers DEF RunWrites

(* The flag runs ahead of the summary only within a request.               *)
FlagLags == analyzed /\ summary.status # "ready" => owner = "flag" \/ unsettled

LEMMA OwnerStays ==
    ASSUME owner = "flag", [NextTraffic]_allVars
    PROVE  owner' = "flag" \/ unsettled' \/ OwnerFlags
BY TrafficSplit
   DEF allVars, trafficVars, QueueStep, RunJob, ReadPoints, RunWrites, FinishJob, RecordJob,
       MarkFailed, LeaveJob, RecordJobFails, MarkFails, LateCommit, AskTraffic, CheckInFlight,
       OwnerPends, OwnerEnqueues, OwnerFails, PointsChange, TripGoes, ProcessEnds

LEMMA FlagLagsStep ==
    ASSUME OwnTypes, FlagLags, [NextTraffic]_allVars PROVE FlagLags'
<1>1. CASE UNCHANGED <<summary, analyzed>> \/ OwnerFlags
  BY <1>1, OwnerStays, HistoryStays, OtherWrites DEF FlagLags
<1>2. ASSUME NEW e, Write(e) PROVE FlagLags'
  <2>1. CASE e.at = "frames"
    BY <1>1, <1>2, <2>1 DEF Write, Replace
  <2>2. CASE e.at # "frames"
    BY <1>2, <2>2, WriteEffects DEF FlagLags
  <2> QED BY <2>1, <2>2
<1>3. CASE TripGoes \/ (OwnerPends /\ ~gone) \/ \E p \in Pass : MarkFailed(p) /\ ~gone
  BY <1>3, OtherWrites DEF FlagLags
<1> QED BY <1>1, <1>2, <1>3, Writers DEF RunWrites

-----------------------------------------------------------------------------
(* A summary that is pending, or ready without its flag, has somebody to   *)
(* go on: a job that is queued or left to its lock, a run that is yet to   *)
(* write or to report, or a request on its way to the queue.               *)
Goes(p) == \/ pass[p].pc = "claimed"
           \/ pass[p].pc = "running" /\ estimate[p].at # "end"
           \/ pass[p].pc = "recording" /\ pass[p].outcome = "failed"
           \/ estimate[p].at = "mark"

Abandoned == row[Traffic].status = "running" /\ \A p \in Pass : ~Executing(p, Traffic)

Unresolved == summary.status = "pending" \/ (~analyzed /\ summary.status = "ready")

Owing ==
    \/ row[Traffic].status = "queued"
    \/ Abandoned
    \/ \E p \in Pass : Goes(p)
    \/ owner \in {"flag", "enqueue"}

Owed == Unresolved => unsettled \/ Owing

LEMMA OwingStays ==
    ASSUME Owing, row'[Traffic].status = row[Traffic].status \/ row'[Traffic].status = "queued",
           owner \in {"flag", "enqueue"} => owner' \in {"flag", "enqueue"},
           \A q \in Pass : Goes(q) => Goes(q)',
           \A q \in Pass : Executing(q, Traffic)' => Executing(q, Traffic)
    PROVE  Owing'
BY DEF Owing, Abandoned

(* The other passes do not tell a step apart.                              *)
LEMMA OthersGo ==
    ASSUME NEW p \in Pass, Others(p), OtherStages(p) \/ estimate' = estimate
    PROVE  /\ \A q \in Pass : q # p => Goes(q)' = Goes(q)
           /\ \A q \in Pass : q # p => Executing(q, Traffic)' = Executing(q, Traffic)
BY DEF Others, OtherStages, Goes, Executing

LEMMA SameRow == ASSUME row' = row PROVE row'[Traffic].status = row[Traffic].status
OBVIOUS

(* The steps of the queue.                                                 *)
LEMMA OwingOnTheQueue ==
    ASSUME TypeOK, StagesFit, Owing, QueueStep PROVE Owing'
<1> USE TrafficAssumption
<1>0. owner' = owner /\ estimate' = estimate
  BY DEF QueueStep, trafficVars
<1>1. CASE Tick
  <2>1. \A q \in Pass : Goes(q)' = Goes(q) /\ Executing(q, Traffic)' = Executing(q, Traffic)
    BY <1>0, <1>1, TickEffects DEF Goes, Executing
  <2>2. row'[Traffic].status = row[Traffic].status
    BY <1>1, TickEffects
  <2> QED BY <1>0, <2>1, <2>2, OwingStays
<1>2. ASSUME NEW d \in 0..MaxDelay, Enqueue(Traffic, d) PROVE Owing'
  BY <1>2, RowEffects DEF Enqueue, Owing
<1>3. ASSUME NEW p \in Pass, BeginClaim(p) \/ NothingDue(p) PROVE Owing'
  <2>1. Others(p) /\ row' = row
    BY <1>3, PassEffects DEF BeginClaim, NothingDue
  <2>2. ~Goes(p) /\ ~Executing(p, Traffic)'
    BY <1>3, PassEffects DEF StagesFit, Goes, Executing
  <2> QED BY <1>0, <2>1, <2>2, SameRow, OthersGo, OwingStays
<1>4. ASSUME NEW p \in Pass, Claim(p, Traffic) PROVE Owing'
  BY <1>4, PassEffects DEF Owing, Goes
<1>5. CASE Expire(Traffic)
  <2>1. row[Traffic].status = "done" /\ pass' = pass
    BY <1>5 DEF Expire
  <2>2. \A q \in Pass : Goes(q)' = Goes(q)
    BY <1>0, <2>1 DEF Goes
  <2> QED BY <1>0, <2>1, <2>2 DEF Owing, Abandoned
<1>6. ASSUME pass' = pass,
             row'[Traffic].status = row[Traffic].status \/ row'[Traffic].status = "queued"
      PROVE  Owing'
  <2>1. \A q \in Pass : Goes(q)' = Goes(q) /\ Executing(q, Traffic)' = Executing(q, Traffic)
    BY <1>0, <1>6 DEF Goes, Executing
  <2> QED BY <1>0, <1>6, <2>1, OwingStays
<1>7. CASE BeginDrain \/ ListInFlight \/ Release(Traffic) \/ Restart
  BY <1>6, <1>7, RowEffects, SameRow DEF BeginDrain, ListInFlight, Release, Restart
<1> QED BY <1>1, <1>2, <1>3, <1>4, <1>5, <1>7 DEF QueueStep

(* A run that writes goes on, or resolves the summary.                     *)
LEMMA OwingAtWork ==
    ASSUME TypeOK, OwnTypes, StagesFit, GoneHasNone, NEW p \in Pass,
           RunJob(p) \/ ReadPoints(p) \/ RunWrites(p), Unresolved'
    PROVE  Owing'
<1>1. CASE RunJob(p)
  <2>1. pass'[p].pc = "running" /\ estimate'[p].at = "read"
    BY <1>1, PassEffects, StageEffects DEF RunJob
  <2> QED BY <2>1 DEF Owing, Goes
<1>2. CASE ReadPoints(p)
  <2>1. pass'[p].pc = "running" /\ summary' = summary /\ analyzed' = analyzed
    BY <1>2 DEF ReadPoints, Estimating, vars
  <2>2. ~gone
    BY <2>1, PointZero DEF GoneHasNone, Unresolved
  <2>3. estimate'[p].at # "end"
    BY <1>2, <2>2, StageEffects
  <2> QED BY <2>1, <2>3 DEF Owing, Goes
<1>3. CASE RunWrites(p)
  <2>1. pass'[p].pc = "running" /\ Write(estimate[p])
    BY <1>3 DEF RunWrites, Estimating, vars
  <2>2. estimate[p].at \in {"pend", "frames"}
    BY <2>1, WriteEffects DEF Unresolved
  <2>3. estimate'[p].at # "end"
    BY <1>3, <2>2, StageEffects DEF After
  <2> QED BY <2>1, <2>3 DEF Owing, Goes
<1> QED BY <1>1, <1>2, <1>3

(* The end of a run, and what is recorded of it.                           *)
LEMMA OwingAtEnd ==
    ASSUME TypeOK, OwnTypes, StagesFit, Owing, NEW p \in Pass,
           NEW outcome \in {"done", "failed"}, FinishJob(p, outcome)
    PROVE  Owing'
<1>1. /\ pass[p].pc = "running" /\ pass'[p].pc = "recording" /\ pass'[p].outcome = outcome
      /\ Others(p) /\ OtherStages(p) /\ pass[p].key = Traffic /\ row' = row /\ owner' = owner
  BY PassEffects, StageEffects DEF FinishJob, Finish, Outcome, StagesFit
<1>2. CASE outcome = "failed"
  BY <1>1, <1>2 DEF Owing, Goes
<1>3. CASE outcome = "done"
  <2>1. ~Goes(p)
    BY <1>1, <1>3 DEF FinishJob, Goes
  <2>2. Executing(p, Traffic)
    BY <1>1 DEF Executing
  <2> QED BY <1>1, <2>1, <2>2, SameRow, OthersGo, OwingStays
<1> QED BY <1>2, <1>3

LEMMA RecordRow ==
    ASSUME TypeOK, NEW p \in Pass, NEW d \in 1..MaxDelay, pass[p].key = Traffic, Record(p, d)
    PROVE  /\ row[Traffic].status # "running" => row'[Traffic] = row[Traffic]
           /\ row[Traffic].status = "running" /\ pass[p].outcome = "failed"
              /\ pass[p].attempts < MaxAttempts => row'[Traffic].status = "queued"
<1>1. row' = [row EXCEPT ![Traffic] = Recorded(Traffic, pass[p], d)]
  BY DEF Record
<1>2. row'[Traffic] = Recorded(Traffic, pass[p], d)
  BY <1>1, TrafficAssumption DEF TypeOK
<1>3. row[Traffic].status # "running" => row'[Traffic] = row[Traffic]
  BY <1>2 DEF Recorded
<1>4. ASSUME row[Traffic].status = "running", pass[p].outcome = "failed",
             pass[p].attempts < MaxAttempts
      PROVE  row'[Traffic].status = "queued"
  <2> DEFINE r == [row[Traffic] EXCEPT !.status = "queued", !.delay = d, !.lock = 0]
  <2>0. row[Traffic] \in JobRow /\ pass[p].attempts \in Nat /\ MaxAttempts \in Nat
    BY TrafficAssumption, JobsAssumption DEF TypeOK, PassState
  <2>1. r.status = "queued"
    BY <2>0 DEF JobRow
  <2>2. ~(pass[p].attempts >= MaxAttempts)
    BY <1>4, <2>0
  <2>3. Recorded(Traffic, pass[p], d) = r
    BY <1>4, <2>2 DEF Recorded
  <2> QED BY <1>2, <2>1, <2>3
<1> QED BY <1>3, <1>4

LEMMA OwingAtRecord ==
    ASSUME TypeOK, OwnTypes, StagesFit, Owing, NEW p \in Pass, NEW d \in 1..MaxDelay,
           RecordJob(p, d), ~unsettled'
    PROVE  Owing'
<1>1. /\ pass[p].pc = "recording" /\ pass'[p].pc = "recorded" /\ pass[p].key = Traffic
      /\ Others(p) /\ OtherStages(p) /\ owner' = owner /\ Record(p, d)
  BY PassEffects, StageEffects DEF RecordJob, StagesFit
<1>2. estimate'[p].at = IF GivesUp(p) THEN "mark" ELSE estimate[p].at
  BY StageEffects
<1>3. CASE pass[p].outcome = "failed"
  <2>1. row[Traffic].status \in {"queued", "running"}
    BY <1>3 DEF RecordJob, Settled
  <2>2. CASE row[Traffic].status = "queued"
    BY <1>1, <2>2, RecordRow DEF Owing
  <2>3. CASE row[Traffic].status = "running" /\ GivesUp(p)
    BY <1>2, <2>3 DEF Owing, Goes
  <2>4. CASE row[Traffic].status = "running" /\ ~GivesUp(p)
    <3>1. pass[p].attempts < MaxAttempts
      BY <1>3, <2>4, JobsAssumption DEF GivesUp, TypeOK, PassState
    <3> QED BY <1>1, <1>3, <2>4, <3>1, RecordRow DEF Owing
  <2> QED BY <2>1, <2>2, <2>3, <2>4
<1>4. CASE pass[p].outcome # "failed"
  <2>1. ~Goes(p) /\ Executing(p, Traffic)
    BY <1>1, <1>4 DEF Goes, Executing, StagesFit
  <2>2. /\ \A q \in Pass : q # p => Goes(q)' = Goes(q)
        /\ row[Traffic].status = "queued" => row'[Traffic].status = "queued"
    BY <1>1, OthersGo, RecordRow
  <2> QED BY <1>1, <2>1, <2>2 DEF Owing, Abandoned
<1> QED BY <1>3, <1>4

LEMMA OwingAtRecordFails ==
    ASSUME TypeOK, OwnTypes, StagesFit, Owing, NEW p \in Pass, RecordJobFails(p), ~unsettled'
    PROVE  Owing'
<1>1. /\ pass[p].pc = "recording" /\ pass'[p].pc = "recorded" /\ pass[p].key = Traffic
      /\ Others(p) /\ estimate' = estimate /\ owner' = owner /\ row' = row
  BY PassEffects DEF RecordJobFails, RecordFails, StagesFit
<1>2. ~Executing(p, Traffic)' /\ Executing(p, Traffic)
  BY <1>1 DEF Executing
<1>3. CASE pass[p].outcome = "failed"
  <2>1. /\ row[Traffic].status \in {"queued", "running"}
        /\ \A q \in Pass : q # p => ~Executing(q, Traffic)
    BY <1>3 DEF RecordJobFails, Settled
  <2> QED BY <1>1, <1>2, <2>1, OthersGo DEF Owing, Abandoned
<1>4. CASE pass[p].outcome # "failed"
  <2>1. ~Goes(p)
    BY <1>1, <1>4 DEF Goes, StagesFit
  <2> QED BY <1>1, <1>2, <2>1, SameRow, OthersGo, OwingStays
<1> QED BY <1>3, <1>4

LEMMA OwingAtLeave ==
    ASSUME TypeOK, OwnTypes, StagesFit, Owing, NEW p \in Pass, LeaveJob(p)
    PROVE  Owing'
<1>1. /\ pass[p].pc = "recorded" /\ pass'[p].pc = "idle" /\ estimate[p].at # "mark"
      /\ Others(p) /\ estimate' = estimate /\ owner' = owner /\ row' = row
  BY PassEffects DEF LeaveJob, Leave, trafficVars
<1>2. ~Executing(p, Traffic)' /\ ~Goes(p)
  BY <1>1 DEF Executing, Goes
<1> QED BY <1>1, <1>2, SameRow, OthersGo, OwingStays

(* A transaction that commits after its run.                               *)
LEMMA OwingLate ==
    ASSUME OwnTypes, Owed, NEW e \in late, LateCommit(e), Unresolved', ~unsettled'
    PROVE  Owing'
<1>1. row' = row /\ pass' = pass /\ estimate' = estimate /\ owner' = owner
  BY DEF LateCommit, vars
<1>2. \A q \in Pass : Goes(q)' = Goes(q) /\ Executing(q, Traffic)' = Executing(q, Traffic)
  BY <1>1 DEF Goes, Executing
<1>3. CASE summary' = summary /\ analyzed' = analyzed
  <2>1. ~unsettled
    BY DEF LateCommit
  <2>2. Unresolved
    BY <1>3 DEF Unresolved
  <2>3. Owing
    BY <2>1, <2>2 DEF Owed
  <2> QED BY <1>1, <1>2, <2>3, SameRow, OwingStays
<1>4. CASE Write(e) /\ ~(summary' = summary /\ analyzed' = analyzed)
  <2>1. e.at = "pend"
    BY <1>4, WriteEffects DEF Unresolved
  <2>2. ~Settling
    BY <1>4, <2>1 DEF LateCommit
  <2> QED BY <1>1, <1>2, <2>2, SameRow DEF Settling, Settled, Owing, Abandoned
<1> QED BY <1>3, <1>4 DEF LateCommit

(* The owner's request.                                                    *)
LEMMA OwingOwner ==
    ASSUME TypeOK, OwnTypes, Owed, GoneHasNone, Unresolved', ~unsettled',
           AskTraffic \/ CheckInFlight \/ OwnerPends \/ OwnerFlags \/ OwnerEnqueues \/ OwnerFails
    PROVE  Owing'
<1>1. CASE OwnerFlags \/ (OwnerPends /\ ~gone)
  BY <1>1, OtherWrites DEF Owing
<1>2. CASE OwnerEnqueues /\ ~gone
  <2>1. 0 \in 0..MaxDelay
    BY JobsAssumption
  <2> QED BY <1>2, <2>1, RowEffects, TrafficAssumption DEF OwnerEnqueues, Owing
<1>3. ASSUME ~OwnerFlags, ~(OwnerPends /\ ~gone), ~(OwnerEnqueues /\ ~gone) PROVE Owing'
  <2>1. summary' = summary /\ analyzed' = analyzed
    BY <1>3 DEF AskTraffic, CheckInFlight, OwnerPends, OwnerEnqueues, OwnerFails
  <2>2. ~unsettled
    BY DEF AskTraffic, CheckInFlight, OwnerPends, OwnerFlags, OwnerEnqueues, OwnerFails
  <2>3. Owing
    BY <2>1, <2>2 DEF Owed, Unresolved
  <2>4. ~gone
    BY <2>1, PointZero DEF GoneHasNone, Unresolved
  <2>5. CASE AskTraffic \/ CheckInFlight
    <3>1. /\ row' = row /\ pass' = pass /\ estimate' = estimate
          /\ owner \notin {"flag", "enqueue"}
      BY <2>5 DEF AskTraffic, CheckInFlight, vars
    <3>2. \A q \in Pass : Goes(q)' = Goes(q) /\ Executing(q, Traffic)' = Executing(q, Traffic)
      BY <3>1 DEF Goes, Executing
    <3> QED BY <2>3, <3>1, <3>2, SameRow, OwingStays
  <2>6. CASE OwnerFails
    <3>1. /\ row' = row /\ pass' = pass /\ estimate' = estimate
          /\ owner \notin {"flag", "enqueue"}
      BY <2>6 DEF OwnerFails
    <3>2. \A q \in Pass : Goes(q)' = Goes(q) /\ Executing(q, Traffic)' = Executing(q, Traffic)
      BY <3>1 DEF Goes, Executing
    <3> QED BY <2>3, <3>1, <3>2, SameRow, OwingStays
  <2> QED BY <1>3, <2>4, <2>5, <2>6
<1> QED BY <1>1, <1>2, <1>3

(* The process ends.                                                       *)
LEMMA OwingProcessEnds ==
    ASSUME TypeOK, StagesFit, Owing, ProcessEnds, ~unsettled' PROVE Owing'
<1>1. row' = row /\ \A q \in Pass : ~Executing(q, Traffic)'
  BY DEF ProcessEnds, Exit, Crash, End, Executing, IdlePass
<1>2. /\ owner \notin {"flag", "enqueue"}
      /\ \A q \in Pass : estimate[q].at # "mark" /\ ~(Executing(q, Traffic) /\ Settled)
  BY DEF ProcessEnds
<1>3. ASSUME NEW q \in Pass, Goes(q) PROVE ~Settled
  <2>1. Executing(q, Traffic)
    BY <1>2, <1>3 DEF Goes, Executing, StagesFit
  <2> QED BY <1>2, <2>1
<1>4. row[Traffic].status \in {"queued", "running"}
  BY <1>2, <1>3 DEF Owing, Abandoned, Settled
<1> QED BY <1>1, <1>4, SameRow DEF Owing, Abandoned

LEMMA OwedStep ==
    ASSUME TypeOK, OwnTypes, StagesFit, GoneHasNone, Owed, [NextTraffic]_allVars PROVE Owed'
<1> SUFFICES ASSUME Unresolved', ~unsettled' PROVE Owing'
  BY DEF Owed
<1>1. ~unsettled
  BY HistoryStays
<1>2. ASSUME summary' = summary, analyzed' = analyzed PROVE Owing
  BY <1>1, <1>2 DEF Owed, Unresolved
<1>3. CASE UNCHANGED allVars
  <2>1. Owing /\ row' = row /\ pass' = pass /\ estimate' = estimate /\ owner' = owner
    BY <1>2, <1>3 DEF allVars, trafficVars
  <2>2. \A q \in Pass : Goes(q)' = Goes(q) /\ Executing(q, Traffic)' = Executing(q, Traffic)
    BY <2>1 DEF Goes, Executing
  <2> QED BY <2>1, <2>2, SameRow, OwingStays
<1>4. CASE QueueStep
  BY <1>2, <1>4, OwingOnTheQueue DEF QueueStep, trafficVars
<1>5. ASSUME NEW p \in Pass, RunJob(p) \/ ReadPoints(p) \/ RunWrites(p) PROVE Owing'
  BY <1>5, OwingAtWork
<1>6. ASSUME NEW p \in Pass, NEW outcome \in {"done", "failed"}, FinishJob(p, outcome)
      PROVE  Owing'
  <2>1. Owing
    BY <1>2, <1>6 DEF FinishJob
  <2> QED BY <1>6, <2>1, OwingAtEnd
<1>7. ASSUME NEW p \in Pass, NEW d \in 1..MaxDelay, RecordJob(p, d) PROVE Owing'
  <2>1. Owing
    BY <1>2, <1>7 DEF RecordJob
  <2> QED BY <1>7, <2>1, OwingAtRecord
<1>8. ASSUME NEW p \in Pass, RecordJobFails(p) PROVE Owing'
  <2>1. Owing
    BY <1>2, <1>8 DEF RecordJobFails
  <2> QED BY <1>8, <2>1, OwingAtRecordFails
<1>9. ASSUME NEW p \in Pass, LeaveJob(p) PROVE Owing'
  <2>1. Owing
    BY <1>2, <1>9 DEF LeaveJob, trafficVars
  <2> QED BY <1>9, <2>1, OwingAtLeave
<1>10. ASSUME NEW p \in Pass, MarkFails(p) PROVE FALSE
  BY <1>10 DEF MarkFails
<1>11. ASSUME NEW p \in Pass, MarkFailed(p) PROVE FALSE
  <2>1. CASE gone
    <3>1. summary' = summary
      BY <1>11, <2>1 DEF MarkFailed
    <3> QED BY <2>1, <3>1, PointZero DEF GoneHasNone, Unresolved
  <2>2. CASE ~gone
    BY <1>11, <2>2, OtherWrites DEF Unresolved
  <2> QED BY <2>1, <2>2
<1>12. ASSUME NEW e \in late, LateCommit(e) PROVE Owing'
  BY <1>12, OwingLate
<1>13. CASE AskTraffic \/ CheckInFlight \/ OwnerPends \/ OwnerFlags \/ OwnerEnqueues
            \/ OwnerFails
  BY <1>13, OwingOwner
<1>14. CASE PointsChange
  <2>1. /\ Owing /\ row' = row /\ pass' = pass /\ estimate' = estimate
        /\ owner' = owner
    BY <1>2, <1>14 DEF PointsChange, vars
  <2>2. \A q \in Pass : Goes(q)' = Goes(q) /\ Executing(q, Traffic)' = Executing(q, Traffic)
    BY <2>1 DEF Goes, Executing
  <2> QED BY <2>1, <2>2, SameRow, OwingStays
<1>15. CASE TripGoes
  BY <1>15, OtherWrites DEF Unresolved
<1>16. CASE ProcessEnds
  <2>1. Owing
    BY <1>2, <1>16 DEF ProcessEnds
  <2> QED BY <1>16, <2>1, OwingProcessEnds
<1> QED BY <1>3, <1>4, <1>5, <1>6, <1>7, <1>8, <1>9, <1>10, <1>11, <1>12, <1>13, <1>14, <1>15,
           <1>16, TrafficSplit

-----------------------------------------------------------------------------
(* Runs that neither overlap nor commit late: at most one is under way, it *)
(* replaces the frames of a summary that is not ready, and those it made   *)
(* ready of are the ones there are.                                        *)
AloneFits ==
    ~overlapped =>
        /\ \A p, q \in Pass : Estimating(p) /\ Estimating(q) => p = q
        /\ \A p \in Pass : Estimating(p) /\ estimate[p].at = "frames" => summary.status # "ready"
        /\ \A p \in Pass : Estimating(p) /\ estimate[p].at = "ready" /\ ~gone => estimate[p].of = frames
        /\ summary.status = "ready" => summary.of = frames

(* Only RunJob starts a run, and only ReadPoints and RunWrites move it on. *)
LEMMA RunsBegin ==
    ASSUME TypeOK, OwnTypes, StagesFit, [NextTraffic]_allVars, NEW q \in Pass, Estimating(q)'
    PROVE  \/ Estimating(q) /\ estimate'[q] = estimate[q]
           \/ RunJob(q) /\ estimate'[q].at = "read"
           \/ /\ ReadPoints(q) \/ RunWrites(q)
              /\ Estimating(q)
<1>1. ASSUME NEW p \in Pass, Others(p), OtherStages(p) \/ estimate' = estimate,
             pass'[p].pc # "running"
      PROVE  Estimating(q) /\ estimate'[q] = estimate[q]
  BY <1>1 DEF Others, OtherStages, Estimating
<1>2. ASSUME pass' = pass, estimate' = estimate
      PROVE  Estimating(q) /\ estimate'[q] = estimate[q]
  BY <1>2 DEF Estimating
<1>3. CASE UNCHANGED allVars
  BY <1>2, <1>3 DEF allVars, trafficVars
<1>4. CASE QueueStep
  <2>0. estimate' = estimate
    BY <1>4 DEF QueueStep, trafficVars
  <2>1. CASE Tick
    BY <2>0, <2>1, TickEffects DEF Estimating
  <2>2. ASSUME NEW p \in Pass, BeginClaim(p) \/ NothingDue(p) \/ Claim(p, Traffic)
        PROVE  Others(p) /\ pass'[p].pc # "running"
    BY <2>2, PassEffects, TrafficAssumption
  <2>3. CASE pass' = pass
    BY <1>2, <2>0, <2>3
  <2> QED BY <1>1, <1>4, <2>0, <2>1, <2>2, <2>3
          DEF QueueStep, Enqueue, Expire, BeginDrain, ListInFlight, Release, Restart
<1>5. ASSUME NEW p \in Pass, RunJob(p)
      PROVE  \/ Estimating(q) /\ estimate'[q] = estimate[q]
             \/ RunJob(q) /\ estimate'[q].at = "read"
  <2>1. Others(p) /\ OtherStages(p) /\ estimate'[p].at = "read"
    BY <1>5, PassEffects, StageEffects DEF RunJob
  <2> QED BY <1>5, <2>1 DEF Others, OtherStages, Estimating
<1>6. ASSUME NEW p \in Pass, ReadPoints(p) \/ RunWrites(p)
      PROVE  \/ Estimating(q) /\ estimate'[q] = estimate[q]
             \/ (ReadPoints(q) \/ RunWrites(q)) /\ Estimating(q)
  <2>1. pass' = pass /\ OtherStages(p)
    BY <1>6, StageEffects DEF ReadPoints, RunWrites, vars
  <2> QED BY <1>6, <2>1 DEF OtherStages, Estimating
<1>7. ASSUME NEW p \in Pass, NEW outcome \in {"done", "failed"}, FinishJob(p, outcome)
      PROVE  Estimating(q) /\ estimate'[q] = estimate[q]
  <2>1. Others(p) /\ OtherStages(p) /\ pass'[p].pc = "recording"
    BY <1>7, PassEffects, StageEffects DEF FinishJob, Outcome
  <2> QED BY <1>1, <2>1
<1>8. ASSUME NEW p \in Pass, NEW d \in 1..MaxDelay, RecordJob(p, d)
      PROVE  Estimating(q) /\ estimate'[q] = estimate[q]
  <2>1. Others(p) /\ OtherStages(p) /\ pass'[p].pc = "recorded"
    BY <1>8, PassEffects, StageEffects DEF RecordJob
  <2> QED BY <1>1, <2>1
<1>9. ASSUME NEW p \in Pass, MarkFailed(p) \/ MarkFails(p)
      PROVE  Estimating(q) /\ estimate'[q] = estimate[q]
  <2>1. pass' = pass /\ OtherStages(p) /\ pass[p].pc = "recorded"
    BY <1>9, StageEffects DEF MarkFailed, MarkFails, vars
  <2> QED BY <1>1, <2>1 DEF Others
<1>10. ASSUME NEW p \in Pass, LeaveJob(p) \/ RecordJobFails(p)
       PROVE  Estimating(q) /\ estimate'[q] = estimate[q]
  <2>1. Others(p) /\ estimate' = estimate /\ pass'[p].pc # "running"
    BY <1>10, PassEffects DEF LeaveJob, RecordJobFails, trafficVars
  <2> QED BY <1>1, <2>1
<1>11. CASE (\E e \in late : LateCommit(e)) \/ AskTraffic \/ CheckInFlight \/ OwnerPends
            \/ OwnerFlags \/ OwnerEnqueues \/ OwnerFails \/ PointsChange \/ TripGoes
  <2>1. pass' = pass /\ estimate' = estimate
    BY <1>11 DEF LateCommit, AskTraffic, CheckInFlight, OwnerPends, OwnerFlags, OwnerEnqueues,
                 OwnerFails, PointsChange, TripGoes, DeleteTrip, vars
  <2> QED BY <1>2, <2>1
<1>12. CASE ProcessEnds
  <2>1. pass'[q].pc = "idle"
    BY <1>12 DEF ProcessEnds, Exit, Crash, End, IdlePass
  <2> QED BY <2>1 DEF Estimating
<1> QED BY <1>3, <1>4, <1>5, <1>6, <1>7, <1>8, <1>9, <1>10, <1>11, <1>12, TrafficSplit

LEMMA OneAtATime ==
    ASSUME TypeOK, OwnTypes, StagesFit, AloneFits, [NextTraffic]_allVars, ~overlapped'
    PROVE  \A p, q \in Pass : Estimating(p)' /\ Estimating(q)' => p = q
<1>1. ~overlapped
  BY HistoryStays
<1>2. ASSUME NEW p \in Pass, RunJob(p) PROVE \A q \in Pass : Estimating(q)' => q = p
  <2>1. \A q \in Pass : q # p => ~Executing(q, Traffic)
    BY <1>2 DEF RunJob
  <2>2. \A q \in Pass : q # p => ~Estimating(q)
    BY <2>1 DEF StagesFit, Executing, Estimating
  <2>3. Others(p)
    BY <1>2, PassEffects DEF RunJob
  <2> QED BY <2>2, <2>3 DEF Others, Estimating
<1>3. ASSUME \A p \in Pass : ~RunJob(p), NEW q \in Pass, Estimating(q)' PROVE Estimating(q)
  BY <1>3, RunsBegin
<1>4. \A p, q \in Pass : Estimating(p) /\ Estimating(q) => p = q
  BY <1>1 DEF AloneFits
<1> QED BY <1>2, <1>3, <1>4

LEMMA AloneFitsStep ==
    ASSUME TypeOK, OwnTypes, StagesFit, AloneFits, [NextTraffic]_allVars PROVE AloneFits'
<1> SUFFICES ASSUME ~overlapped'
             PROVE  /\ \A p, q \in Pass : Estimating(p)' /\ Estimating(q)' => p = q
                    /\ \A p \in Pass : Estimating(p)' /\ estimate'[p].at = "frames"
                                          => summary'.status # "ready"
                    /\ \A p \in Pass : Estimating(p)' /\ estimate'[p].at = "ready" /\ ~gone'
                                          => estimate'[p].of = frames'
                    /\ summary'.status = "ready" => summary'.of = frames'
  BY DEF AloneFits
<1>0. ~overlapped
  BY HistoryStays
<1>1. /\ \A p, q \in Pass : Estimating(p) /\ Estimating(q) => p = q
      /\ \A p \in Pass : Estimating(p) /\ estimate[p].at = "frames" => summary.status # "ready"
      /\ \A p \in Pass : Estimating(p) /\ estimate[p].at = "ready" /\ ~gone => estimate[p].of = frames
      /\ summary.status = "ready" => summary.of = frames
  BY <1>0 DEF AloneFits
<1>2. \A p, q \in Pass : Estimating(p)' /\ Estimating(q)' => p = q
  BY OneAtATime
<1> DEFINE Goal == /\ \A p \in Pass : Estimating(p)' /\ estimate'[p].at = "frames"
                                          => summary'.status # "ready"
                   /\ \A p \in Pass : Estimating(p)' /\ estimate'[p].at = "ready" /\ ~gone'
                                          => estimate'[p].of = frames'
                   /\ summary'.status = "ready" => summary'.of = frames'
<1>3. ASSUME NEW p \in Pass, RunWrites(p) PROVE Goal
  <2>1. /\ Estimating(p) /\ Estimating(p)' /\ ~gone /\ Write(estimate[p])
        /\ estimate'[p].at = After(estimate[p].at) /\ estimate'[p].of = estimate[p].of
    BY <1>3, StageEffects DEF RunWrites, Estimating, vars
  <2>2. \A q \in Pass : Estimating(q)' => q = p
    BY <1>2, <2>1
  <2>3. CASE estimate[p].at = "skip"
    BY <2>1, <2>2, <2>3, WriteEffects DEF After
  <2>4. CASE estimate[p].at = "pend"
    BY <2>1, <2>2, <2>4, WriteEffects DEF After
  <2>5. CASE estimate[p].at = "frames"
    <3>1. summary.status # "ready" /\ estimate'[p].at = "ready"
      BY <1>1, <2>1, <2>5 DEF After
    <3> QED BY <2>1, <2>2, <2>5, <3>1, WriteEffects
  <2>6. CASE estimate[p].at = "ready"
    <3>1. estimate[p].of = frames /\ estimate'[p].at = "end"
      BY <1>1, <2>1, <2>6 DEF After
    <3> QED BY <2>1, <2>2, <2>6, <3>1, WriteEffects
  <2> QED BY <2>1, <2>3, <2>4, <2>5, <2>6, WriteEffects
<1>4. ASSUME \A p \in Pass : ~RunWrites(p), NEW q \in Pass, Estimating(q)',
             estimate'[q].at \in {"frames", "ready"}
      PROVE  Estimating(q) /\ estimate'[q] = estimate[q]
  <2>1. ~ReadPoints(q) \/ estimate'[q].at \notin {"frames", "ready"}
    BY StageEffects
  <2> QED BY <1>4, <2>1, RunsBegin
<1>5. ASSUME \A p \in Pass : ~RunWrites(p), frames' = frames,
             summary' = summary \/ summary'.status # "ready"
      PROVE  Goal
  <2>1. ~gone' => ~gone
    BY <1>5, GoneStays, OtherWrites
  <2> QED BY <1>1, <1>4, <1>5, <2>1
<1>6. ASSUME \A p \in Pass : ~RunWrites(p), UNCHANGED <<summary, frames, analyzed>> PROVE Goal
  BY <1>5, <1>6
<1>7. ASSUME \A p \in Pass : ~RunWrites(p), NEW p \in Pass, MarkFailed(p), ~gone PROVE Goal
  BY <1>5, <1>7, OtherWrites
<1>8. ASSUME \A p \in Pass : ~RunWrites(p), (OwnerPends /\ ~gone) \/ OwnerFlags PROVE Goal
  BY <1>5, <1>8, OtherWrites
<1>9. ASSUME \A p \in Pass : ~RunWrites(p), TripGoes PROVE Goal
  <2>1. gone' /\ summary'.status = "none"
    BY <1>9, OtherWrites
  <2> QED BY <2>1
<1>10. ASSUME \A p \in Pass : ~RunWrites(p), NEW e \in late, LateCommit(e), ~gone, Write(e)
       PROVE  Goal
  <2>1. CASE UNCHANGED <<summary, frames, analyzed>>
    BY <1>6, <1>10, <2>1
  <2>2. CASE ~UNCHANGED <<summary, frames, analyzed>>
    <3>1. e.at \notin {"frames", "ready"}
      BY <1>10, <2>2 DEF LateCommit
    <3>2. summary'.status # "ready" /\ frames' = frames
      BY <1>10, <3>1, WriteEffects
    <3> QED BY <1>5, <1>10, <3>2
  <2> QED BY <2>1, <2>2
<1>11. Goal
  BY <1>3, <1>6, <1>7, <1>8, <1>9, <1>10, Writers
<1> QED BY <1>2, <1>11

-----------------------------------------------------------------------------
(* The inductive invariant of TripTraffic.                                 *)
TrafficInv ==
    Inv /\ OwnTypes /\ StagesFit /\ GoneHasNone /\ Owed /\ FlagLags /\ AloneFits

LEMMA TrafficInit == InitTraffic => TrafficInv
<1> SUFFICES ASSUME InitTraffic PROVE TrafficInv
  OBVIOUS
<1>1. Inv
  BY InitInv DEF InitTraffic
<1>2. OwnTypes
  BY PointZero DEF InitTraffic, OwnTypes
<1>3. \A p \in Pass : pass[p].pc = "idle" /\ pass[p].outcome = "done" /\ estimate[p].at = "end"
  BY PointZero DEF InitTraffic, Init, IdlePass
<1>4. StagesFit
  BY <1>3 DEF StagesFit
<1>5. summary.status = "none" /\ ~analyzed /\ summary = NoSummary
  BY PointZero DEF InitTraffic
<1>6. GoneHasNone /\ Owed /\ FlagLags
  BY <1>5 DEF GoneHasNone, Owed, Unresolved, FlagLags
<1>7. AloneFits
  BY <1>3, <1>5 DEF AloneFits, Estimating
<1> QED BY <1>1, <1>2, <1>4, <1>6, <1>7 DEF TrafficInv

LEMMA TrafficStep == TrafficInv /\ [NextTraffic]_allVars => TrafficInv'
<1> SUFFICES ASSUME TrafficInv, [NextTraffic]_allVars PROVE TrafficInv'
  OBVIOUS
<1>1. TypeOK
  BY DEF TrafficInv, Inv
<1>2. Inv' /\ OwnTypes'
  BY <1>1, QueueInv, OwnTypesStep DEF TrafficInv
<1>3. StagesFit' /\ GoneHasNone'
  BY <1>1, StagesStep, GoneHasNoneStep DEF TrafficInv
<1>4. Owed'
  BY <1>1, OwedStep DEF TrafficInv
<1>5. FlagLags' /\ AloneFits'
  BY <1>1, FlagLagsStep, AloneFitsStep DEF TrafficInv
<1> QED BY <1>2, <1>3, <1>4, <1>5 DEF TrafficInv

(* Every reachable state of the estimate's runs satisfies the inductive    *)
(* invariant: what a pass's stage may be, that a deleted trip has no       *)
(* estimate, that somebody goes on with an unresolved one (Owed), when the *)
(* flag may lag, and what runs that stay alone leave (AloneFits).          *)
THEOREM TrafficInvHolds == SpecTraffic => []TrafficInv
BY TrafficInit, TrafficStep, PTL DEF SpecTraffic

(* The estimate's state stays within its types on top of the queue's: a    *)
(* stage of a run or of a transaction left behind, a status of the summary *)
(* (traffic/job.rs) and a step of the owner's request (trips/mod.rs).      *)
THEOREM TrafficTypeCorrect == SpecTraffic => []TrafficTypeOK
<1>1. TrafficInv => TrafficTypeOK
  BY DEF TrafficInv, Inv, OwnTypes, TrafficTypeOK
<1> QED BY <1>1, TrafficInvHolds, PTL

(* Whoever goes on with a summary is more to come.                         *)
LEMMA OwingIsMore == ASSUME StagesFit, Owing PROVE MoreToCome
<1>1. ASSUME NEW p \in Pass, Goes(p) PROVE MoreToCome
  BY <1>1 DEF StagesFit, Goes, Executing, MoreToCome
<1> QED BY <1>1 DEF Owing, Abandoned, MoreToCome

(* "a failed traffic run left its summary stuck at 'pending'. Here every   *)
(* job is a row" (jobs/mod.rs): a summary that is pending always has a job *)
(* that is owed, or a run or request about to go on, or a failure or crash *)
(* took away the statement that would have told.                           *)
THEOREM PendingHasSomebody == SpecTraffic => []PendingIsBacked
<1>1. TrafficInv => PendingIsBacked
  BY OwingIsMore DEF TrafficInv, Owed, Unresolved, PendingIsBacked
<1> QED BY <1>1, TrafficInvHolds, PTL

(* A summary that is ready is that of the frames there are (traffic/job.rs *)
(* replaces the frames in one transaction and says so in another), unless  *)
(* two runs overlapped or one committed late.                              *)
THEOREM ReadyIsOfTheFrames == SpecTraffic => []ReadyFitsFrames
<1>1. TrafficInv => ReadyFitsFrames
  BY DEF TrafficInv, AloneFits, ReadyFitsFrames
<1> QED BY <1>1, TrafficInvHolds, PTL

(* The trip's flag and its summary agree (upsert_summary, traffic/job.rs), *)
(* but where a request's own statements met a run that became ready; then  *)
(* the job the request queues is still to come.                            *)
THEOREM FlagAndSummaryAgree == SpecTraffic => []FlagTellsTheSummary
<1>1. TrafficInv => FlagTellsTheSummary
  BY OwingIsMore DEF TrafficInv, FlagLags, Owed, Unresolved, FlagTellsTheSummary
<1> QED BY <1>1, TrafficInvHolds, PTL

=============================================================================
