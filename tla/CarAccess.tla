----------------------------- MODULE CarAccess -----------------------------
(***************************************************************************)
(* Who may do what with one car: shares and invitations (shares/), the     *)
(* device tokens an editor makes (devices/), and the live feeds that       *)
(* re-read access at intervals (live.rs).                                  *)
(*                                                                         *)
(* Ending a share and revoking the tokens made under it are two            *)
(* statements, and making a token checks access in one statement and       *)
(* inserts in another: a task is a request between two of its statements.  *)
(***************************************************************************)
EXTENDS Naturals

CONSTANTS
    User,           \* users the car may be shared with
    Owner,          \* the car's owner
    Device,         \* ids of device tokens
    Task,           \* requests that can be under way at once
    MaxFaults       \* bound: requests dropped and refreshes failed

VARIABLES
    share,      \* car_shares: the role of each user, or "none"
    invite,     \* share_invites: the role offered to each user, or "none"
    sharing,    \* cars.share_live_position
    device,     \* devices: who made each token and whether it works
    task,       \* requests between two statements
    feed,       \* stream_live of each user
    gone,       \* users who deleted their account
    lapsed,     \* history: users whose tokens outlived their role unnoticed
    faults      \* history: faults so far

vars == <<share, invite, sharing, device, task, feed, gone, lapsed, faults>>

-----------------------------------------------------------------------------
AccessAssumption == Owner \notin User /\ MaxFaults \in Nat

ShareRole == {"viewer", "editor"}
Standing == ShareRole \cup {"none"}
Actor == User \cup {Owner}

(* created_by is set to NULL, the owner's, when its user goes; `maker'     *)
(* remembers, for the properties.                                         *)
DeviceRow == [by : Actor, maker : Actor, state : {"absent", "live", "revoked"}]

(* What a request goes on with: leave_share deletes the share, every way   *)
(* out of a share revokes the tokens made by `user', create_device inserts *)
(* one for `user', and revoke_device revokes `dev'.                        *)
TaskState ==
    [pc : {"idle"}] \cup
    [pc : {"leave", "revokeMade"}, user : User] \cup
    [pc : {"insert"}, user : Actor] \cup
    [pc : {"revokeOne"}, dev : Device]

Idle == [pc |-> "idle"]

FeedState == [on : BOOLEAN, allowed : BOOLEAN, due : BOOLEAN]
NoFeed == [on |-> FALSE, allowed |-> FALSE, due |-> FALSE]

(* resolve_access, for the roles the handlers tell apart.                  *)
Role(u) == IF u = Owner THEN "owner" ELSE share[u]
CanRead(u) == Role(u) # "none"
CanEdit(u) == Role(u) \in {"owner", "editor"}

(* visible_cars: of a user the car is shared with.                         *)
Visible(u) == sharing /\ share[u] # "none"

(* verify_device_token                                                     *)
TokenWorks(d) == device[d].state = "live"

WorkingTokens(u) == {d \in Device : TokenWorks(d) /\ device[d].by = u}

Init ==
    /\ share = [u \in User |-> "none"]
    /\ invite = [u \in User |-> "none"]
    /\ sharing = TRUE
    /\ device = [d \in Device |-> [by |-> Owner, maker |-> Owner, state |-> "absent"]]
    /\ task = [t \in Task |-> Idle]
    /\ feed = [u \in User |-> NoFeed]
    /\ gone = {}
    /\ lapsed = {}
    /\ faults = 0

-----------------------------------------------------------------------------
(* create_share: the owner invites; a second invitation replaces the role. *)
CreateShare(u, r) ==
    /\ invite' = [invite EXCEPT ![u] = r]
    /\ UNCHANGED <<share, sharing, device, task, feed, gone, lapsed, faults>>

(* cancel_invite by the owner, decline_invite by the guest.                *)
CancelInvite(u) ==
    /\ invite[u] # "none"
    /\ invite' = [invite EXCEPT ![u] = "none"]
    /\ UNCHANGED <<share, sharing, device, task, feed, gone, lapsed, faults>>

(* Users who hold working tokens without being editors, once u's role is r *)
(* and nothing is about to revoke them: bookkeeping for the properties.    *)
Lapse(u, r) ==
    IF r = "editor" THEN lapsed \ {u}
    ELSE IF WorkingTokens(u) # {} THEN lapsed \cup {u}
    ELSE lapsed

(* accept_invite: the role offered replaces the one held, in one           *)
(* transaction; no token is revoked.                                       *)
AcceptInvite(u) ==
    /\ u \notin gone
    /\ invite[u] # "none"
    /\ share' = [share EXCEPT ![u] = invite[u]]
    /\ invite' = [invite EXCEPT ![u] = "none"]
    /\ lapsed' = Lapse(u, invite[u])
    /\ UNCHANGED <<sharing, device, task, feed, gone, faults>>

(* update_share: a viewer's tokens are revoked by the next statement.      *)
UpdateShare(t, u, r) ==
    /\ task[t] = Idle
    /\ share[u] # "none"
    /\ share' = [share EXCEPT ![u] = r]
    /\ task' = [task EXCEPT ![t] = IF r = "viewer" THEN [pc |-> "revokeMade", user |-> u]
                                                   ELSE Idle]
    /\ lapsed' = IF r = "editor" THEN lapsed \ {u} ELSE lapsed
    /\ UNCHANGED <<invite, sharing, device, feed, gone, faults>>

(* delete_share                                                            *)
DeleteShare(t, u) ==
    /\ task[t] = Idle
    /\ share[u] # "none"
    /\ share' = [share EXCEPT ![u] = "none"]
    /\ task' = [task EXCEPT ![t] = [pc |-> "revokeMade", user |-> u]]
    /\ UNCHANGED <<invite, sharing, device, feed, gone, lapsed, faults>>

(* leave_share: can_read_car, for anyone but the owner, ...                *)
CheckLeave(t, u) ==
    /\ task[t] = Idle
    /\ CanRead(u)
    /\ u # Owner
    /\ task' = [task EXCEPT ![t] = [pc |-> "leave", user |-> u]]
    /\ UNCHANGED <<share, invite, sharing, device, feed, gone, lapsed, faults>>

(* Mutant: leaving forgets the tokens.                                     *)
LeaveShareOnly(t) ==
    /\ task[t].pc = "leave"
    /\ share' = [share EXCEPT ![task[t].user] = "none"]
    /\ task' = [task EXCEPT ![t] = Idle]
    /\ UNCHANGED <<invite, sharing, device, feed, gone, lapsed, faults>>

(* ... the DELETE, whatever it finds, ...                                  *)
LeaveShare(t) ==
    /\ task[t].pc = "leave"
    /\ share' = [share EXCEPT ![task[t].user] = "none"]
    /\ task' = [task EXCEPT ![t] = [pc |-> "revokeMade", user |-> task[t].user]]
    /\ UNCHANGED <<invite, sharing, device, feed, gone, lapsed, faults>>

(* ... and, as for every way out of a share, revoke_devices_created_by.    *)
RevokeDevicesCreatedBy(t) ==
    /\ task[t].pc = "revokeMade"
    /\ device' = [d \in Device |-> IF d \in WorkingTokens(task[t].user)
                                   THEN [device[d] EXCEPT !.state = "revoked"]
                                   ELSE device[d]]
    /\ lapsed' = lapsed \ {task[t].user}
    /\ task' = [task EXCEPT ![t] = Idle]
    /\ UNCHANGED <<share, invite, sharing, feed, gone, faults>>

(* delete_account of a sharee: the share goes with the user, created_by of  *)
(* the tokens is set to NULL, and what the user's requests, or removals of  *)
(* the user, have yet to do finds nothing.                                 *)
DeleteAccount(u) ==
    /\ u \notin gone
    /\ gone' = gone \cup {u}
    /\ share' = [share EXCEPT ![u] = "none"]
    /\ device' = [d \in Device |-> IF device[d].by = u THEN [device[d] EXCEPT !.by = Owner]
                                                      ELSE device[d]]
    /\ task' = [t \in Task |-> IF task[t].pc \in {"leave", "revokeMade", "insert"}
                                 /\ task[t].user = u THEN Idle ELSE task[t]]
    /\ UNCHANGED <<invite, sharing, feed, lapsed, faults>>

(* A request is dropped between two statements, or its next one fails.     *)
Fail(t) ==
    /\ task[t] # Idle
    /\ faults < MaxFaults
    /\ faults' = faults + 1
    /\ lapsed' = IF task[t].pc = "revokeMade"
                 THEN Lapse(task[t].user, share[task[t].user]) ELSE lapsed
    /\ task' = [task EXCEPT ![t] = Idle]
    /\ UNCHANGED <<share, invite, sharing, device, feed, gone>>

-----------------------------------------------------------------------------
(* create_device: can_edit_car, ...                                        *)
CheckCreate(t, u) ==
    /\ task[t] = Idle
    /\ CanEdit(u)
    /\ task' = [task EXCEPT ![t] = [pc |-> "insert", user |-> u]]
    /\ UNCHANGED <<share, invite, sharing, device, feed, gone, lapsed, faults>>

(* ... and the INSERT, with whatever has become of that access.            *)
InsertDevice(t, d) ==
    /\ task[t].pc = "insert"
    /\ device[d].state = "absent"
    /\ device' = [device EXCEPT ![d] = [by |-> task[t].user, maker |-> task[t].user,
                                        state |-> "live"]]
    /\ lapsed' = IF CanEdit(task[t].user) THEN lapsed ELSE lapsed \cup {task[t].user}
    /\ task' = [task EXCEPT ![t] = Idle]
    /\ UNCHANGED <<share, invite, sharing, feed, gone, faults>>

(* revoke_device: the owner any token, an editor the tokens they made ...  *)
CheckRevoke(t, u, d) ==
    /\ task[t] = Idle
    /\ CanEdit(u)
    /\ device[d].state # "absent"
    /\ u = Owner \/ device[d].by = u
    /\ task' = [task EXCEPT ![t] = [pc |-> "revokeOne", dev |-> d]]
    /\ UNCHANGED <<share, invite, sharing, device, feed, gone, lapsed, faults>>

(* ... unless it has been revoked already.                                 *)
RevokeDevice(t) ==
    /\ task[t].pc = "revokeOne"
    /\ device' = [device EXCEPT ![task[t].dev].state = "revoked"]
    /\ task' = [task EXCEPT ![t] = Idle]
    /\ UNCHANGED <<share, invite, sharing, feed, gone, lapsed, faults>>

-----------------------------------------------------------------------------
SetLiveSharing(b) ==
    /\ sharing' = b
    /\ UNCHANGED <<share, invite, device, task, feed, gone, lapsed, faults>>

(* stream_live: the cars the user may see are read when the feed opens.    *)
OpenFeed(u) ==
    /\ u \notin gone
    /\ ~feed[u].on
    /\ feed' = [feed EXCEPT ![u] = [on |-> TRUE, allowed |-> Visible(u), due |-> FALSE]]
    /\ UNCHANGED <<share, invite, sharing, device, task, gone, lapsed, faults>>

CloseFeed(u) ==
    /\ feed[u].on
    /\ feed' = [feed EXCEPT ![u] = NoFeed]
    /\ UNCHANGED <<share, invite, sharing, device, task, gone, lapsed, faults>>

(* ACCESS_REFRESH has passed.                                              *)
RefreshDue(u) ==
    /\ feed[u].on /\ ~feed[u].due
    /\ feed' = [feed EXCEPT ![u].due = TRUE]
    /\ UNCHANGED <<share, invite, sharing, device, task, gone, lapsed, faults>>

(* Mutant: cars are added to those of the last read.                       *)
RefreshOnlyAdds(u) ==
    /\ feed[u].due
    /\ feed' = [feed EXCEPT ![u].allowed = @ \/ Visible(u), ![u].due = FALSE]
    /\ UNCHANGED <<share, invite, sharing, device, task, gone, lapsed, faults>>

Refresh(u) ==
    /\ feed[u].due
    /\ feed' = [feed EXCEPT ![u].allowed = Visible(u), ![u].due = FALSE]
    /\ UNCHANGED <<share, invite, sharing, device, task, gone, lapsed, faults>>

(* A failed read keeps the cars of the last one.                           *)
RefreshFails(u) ==
    /\ feed[u].due
    /\ faults < MaxFaults
    /\ faults' = faults + 1
    /\ feed' = [feed EXCEPT ![u].due = FALSE]
    /\ UNCHANGED <<share, invite, sharing, device, task, gone, lapsed>>

-----------------------------------------------------------------------------
Sharing ==
    \/ \E u \in User, r \in ShareRole : CreateShare(u, r)
    \/ \E u \in User : CancelInvite(u) \/ AcceptInvite(u) \/ DeleteAccount(u)
    \/ \E t \in Task, u \in User :
          \/ \E r \in ShareRole : UpdateShare(t, u, r)
          \/ DeleteShare(t, u)
    \/ \E t \in Task, u \in Actor : CheckLeave(t, u)
    \/ \E t \in Task : LeaveShare(t) \/ RevokeDevicesCreatedBy(t) \/ Fail(t)

Devices ==
    \/ \E t \in Task, u \in Actor : CheckCreate(t, u)
    \/ \E t \in Task, d \in Device : InsertDevice(t, d)
    \/ \E t \in Task, u \in Actor, d \in Device : CheckRevoke(t, u, d)
    \/ \E t \in Task : RevokeDevice(t)

Live ==
    \/ \E b \in BOOLEAN : SetLiveSharing(b)
    \/ \E u \in User : \/ OpenFeed(u) \/ CloseFeed(u)
                       \/ RefreshDue(u) \/ Refresh(u) \/ RefreshFails(u)

Next == Sharing \/ Devices \/ Live

Spec == Init /\ [][Next]_vars

(* The interval of an open feed goes off, and its loop then reads.         *)
Fairness == \A u \in User : WF_vars(RefreshDue(u)) /\ WF_vars(Refresh(u) \/ RefreshFails(u))

FairSpec == Spec /\ Fairness

-----------------------------------------------------------------------------
TypeOK ==
    /\ share \in [User -> Standing]
    /\ invite \in [User -> Standing]
    /\ sharing \in BOOLEAN
    /\ device \in [Device -> DeviceRow]
    /\ task \in [Task -> TaskState]
    /\ feed \in [User -> FeedState]
    /\ gone \subseteq User
    /\ lapsed \subseteq User
    /\ faults \in 0..MaxFaults

(* Something is about to revoke the tokens u made.                         *)
Revoking(u) == \E t \in Task : task[t] = [pc |-> "revokeMade", user |-> u]

(* "The access they held cannot outlive it through a token"                *)
(* (devices/mod.rs): a working token whose maker may not edit the car is   *)
(* about to be revoked, or its maker is one of those whose access ended in *)
(* steps that revoke nothing: a token inserted after the removal it raced, *)
(* an editor who accepted an invitation as viewer, a removal that failed   *)
(* between its two statements (`lapsed'), an account deleted (`gone').     *)
OnlyRacesLeaveTokens ==
    \A d \in Device :
        LET u == device[d].maker
        IN  TokenWorks(d) /\ ~CanEdit(u) => Revoking(u) \/ u \in lapsed \cup gone

(* A feed that stays open ends up showing what its user may see, whether   *)
(* the share, the role or the owner's live toggle changed, without a       *)
(* reconnect (live.rs, ACCESS_REFRESH).                                    *)
FeedsFollowAccess ==
    \A u \in User :
        /\ <>[](Visible(u)) => <>[](feed[u].on => feed[u].allowed)
        /\ <>[](~Visible(u)) => <>[](~feed[u].allowed)
=============================================================================
