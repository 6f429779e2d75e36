------------------------------ MODULE Tenancy -------------------------------
(***************************************************************************)
(* Workspaces, memberships and invitations. A request resolves its tenant  *)
(* context, reads, decides and writes, each in a transaction of its own:   *)
(* what it decides on may have changed when it writes. Two reads of        *)
(* different tables with no write between them are one step. Requests      *)
(* interleave between steps, and any of them may die there.                *)
(***************************************************************************)
EXTENDS Integers, FiniteSets

CONSTANTS
    Users,        \* each with one normalized email address
    Workspaces,   \* by normalized slug
    Tokens,       \* invitations, by the token that redeems them
    Requests,
    FirstMembers, \* standing of the users of the first workspaces
    Granted,      \* roles that requests ask for
    NoRow, NoRequest,
    MaxEvents     \* bound on the requests begun and the faults met

Roles == {"owner", "admin", "analyst", "viewer"}
Member == [role : Roles, status : {"active", "disabled"}]
Workspace == [active : BOOLEAN, version : Nat]
Invitation == [ws : Workspaces, email : Users, role : Roles, by : Users,
               status : {"open", "expired", "accepted"}]

Owns(m) == m # NoRow /\ m.role = "owner" /\ m.status = "active"

(* The first workspaces are as create_workspace leaves them, with further  *)
(* members but no owner removed.                                           *)
ASSUME TenancyAssumption ==
    /\ FirstMembers \in [Workspaces -> [Users -> Member \cup {NoRow}]]
    /\ \A w \in Workspaces, u \in Users :
          FirstMembers[w][u] # NoRow =>
              /\ FirstMembers[w][u].role = "owner" => FirstMembers[w][u].status = "active"
              /\ \E v \in Users : Owns(FirstMembers[w][v])
    /\ NoRow \notin Member \cup Workspace \cup Invitation
    /\ Granted \subseteq Roles
    /\ IsFiniteSet(Users) /\ IsFiniteSet(Requests)
    /\ MaxEvents \in Nat

VARIABLES
    workspaces,   \* row of each slug, with its version
    preferences,  \* version of the workspace's report preferences, 0 before any row
    members,      \* row of each workspace and user
    invitations,  \* row of each token
    audit,        \* number of audit entries of each workspace
    request,      \* what a request has read so far
    received, faults,
    ever_owner,   \* history: who ever was an active owner of a workspace
    grantor,      \* history: who gave a member the role
    changes,      \* history: changes an audit entry is due for
    edits,        \* history: settings edits answered with success
    crossed       \* history: where two changes overlapped, and self-transfers

tables == <<workspaces, preferences, members, invitations>>
history == <<ever_owner, grantor, changes, edits, crossed>>
vars == <<tables, audit, request, received, faults, history>>

Active(w, u) == members[w][u] # NoRow /\ members[w][u].status = "active"
Owners(w) == {u \in Users : Owns(members[w][u])}

Init ==
    /\ workspaces = [w \in Workspaces |->
          IF \E u \in Users : FirstMembers[w][u] # NoRow
          THEN [active |-> TRUE, version |-> 1] ELSE NoRow]
    /\ preferences = [w \in Workspaces |-> 0]
    /\ members = FirstMembers
    /\ invitations = [t \in Tokens |-> NoRow]
    /\ audit = [w \in Workspaces |-> 0]
    /\ request = [r \in Requests |-> NoRequest]
    /\ received = 0
    /\ faults = 0
    /\ ever_owner = [w \in Workspaces |-> Owners(w)]
    /\ grantor = [w \in Workspaces |-> [u \in Users |-> u]]
    /\ changes = [w \in Workspaces |-> 0]
    /\ edits = [w \in Workspaces |-> 0]
    /\ crossed = {}

-----------------------------------------------------------------------------
(* Permissions and the tenant context *)

RolePermissions ==
    [owner   |-> {"read", "run", "publish", "sources", "delete_sources",
                  "members", "settings", "transfer", "deactivate"},
     admin   |-> {"read", "run", "publish", "sources", "members", "settings"},
     analyst |-> {"read", "run", "publish"},
     viewer  |-> {"read"}]

(* The permission each route requires; leave needs membership only. *)
RoutePermission ==
    [invite |-> "members", change_role |-> "members", remove |-> "members",
     leave |-> "read", transfer |-> "transfer", deactivate |-> "deactivate",
     settings |-> "settings", preferences |-> "settings", get_preferences |-> "read"]
Operations == DOMAIN RoutePermission

(* get_context and require_permission *)
Admitted(w, u, op) ==
    /\ workspaces[w] # NoRow /\ workspaces[w].active
    /\ Active(w, u)
    /\ RoutePermission[op] \in RolePermissions[members[w][u].role]

Ready(r) == request[r] = NoRequest /\ received + faults < MaxEvents
Open(r, fields) ==
    /\ received' = received + 1
    /\ request' = [request EXCEPT ![r] = fields]
Advance(r, place) == request' = [request EXCEPT ![r].pc = place]
Answer(r) == request' = [request EXCEPT ![r] = NoRequest]

Start(op) ==
    CASE op \in {"change_role", "remove", "leave", "transfer"} -> "target"
      [] op = "invite" -> "pending"
      [] op = "deactivate" -> "check"
      [] op \in {"settings", "preferences"} -> "row"
      [] op = "get_preferences" -> "ensure"

(* What the request names; the other operations are about the caller.      *)
Targets(op, u) == IF op \in {"invite", "change_role", "remove", "transfer"} THEN Users ELSE {u}
Grants(op) == IF op \in {"invite", "change_role"} THEN Granted ELSE {"viewer"}

(* The role the request goes on with is the one of this moment. *)
Enter(r, op, w, u, target, role) ==
    /\ Ready(r)
    /\ Admitted(w, u, op)
    /\ Open(r, [op |-> op, ws |-> w, actor |-> u, acting |-> members[w][u].role,
                target |-> target, role |-> role, token |-> NoRow, version |-> 0,
                pc |-> Start(op)])
    /\ UNCHANGED <<tables, audit, faults, history>>

InFlight(r) == request[r] # NoRequest
At(r, place) == request[r] # NoRequest /\ request[r].pc = place

(* History: a change of the members, or of a versioned row, is written     *)
(* between the last read of another one and its write.                     *)
Decided == {"write", "promote", "demote", "commit"}
Crossing(r) ==
    LET others == {q \in Requests \ {r} :
                     /\ InFlight(q)
                     /\ request[q].ws = request[r].ws
                     /\ request[q].pc \in Decided
                     /\ At(q, "commit") <=> At(r, "commit")}
    IN crossed' = crossed
         \cup (IF others = {} THEN {} ELSE {<<IF At(r, "commit") THEN "rows" ELSE "members", request[r].ws>>})
         \cup (IF At(r, "demote") /\ request[r].target = request[r].actor
               THEN {<<"self", request[r].ws>>} ELSE {})

(* A change of one membership row, an entry of the audit log to follow *)
SetMember(r, u, m, by, audited) ==
    LET w == request[r].ws
    IN /\ members' = [members EXCEPT ![w][u] = m]
       /\ ever_owner' = [ever_owner EXCEPT ![w] = IF Owns(m) THEN @ \cup {u} ELSE @]
       /\ grantor' = [grantor EXCEPT ![w][u] =
                        IF members[w][u] # NoRow /\ m.role = members[w][u].role THEN @ ELSE by]
       /\ changes' = [changes EXCEPT ![w] = IF audited THEN @ + 1 ELSE @]
       /\ Crossing(r)

-----------------------------------------------------------------------------
(* create_workspace: the row, unless the slug is taken, then the membership *)
(* of its owner                                                            *)

CreateWorkspace(r, w, u) ==
    /\ Ready(r)
    /\ workspaces[w] = NoRow
    /\ workspaces' = [workspaces EXCEPT ![w] = [active |-> TRUE, version |-> 1]]
    /\ Open(r, [op |-> "create", ws |-> w, actor |-> u, acting |-> "owner", target |-> u,
                role |-> "owner", token |-> NoRow, version |-> 0,
                pc |-> "owner"])
    /\ UNCHANGED <<preferences, members, invitations, audit, faults, history>>

CreateOwner(r) ==
    /\ At(r, "owner")
    /\ SetMember(r, request[r].actor, [role |-> "owner", status |-> "active"],
                 request[r].actor, FALSE)
    /\ Answer(r)
    /\ UNCHANGED <<workspaces, preferences, invitations, audit, received, faults, edits>>

-----------------------------------------------------------------------------
(* invite_member and accept_invitation *)

Pending(t, w, u) ==
    invitations[t] # NoRow /\ invitations[t].ws = w /\ invitations[t].email = u
        /\ invitations[t].status = "open"

LookupPending(r) ==
    LET q == request[r]
    IN /\ At(r, "pending")
       /\ IF /\ workspaces[q.ws].active
             /\ q.role = "owner" => q.acting = "owner"
             /\ ~\E t \in Tokens : Pending(t, q.ws, q.target)
          THEN Advance(r, "insert") ELSE Answer(r)
       /\ UNCHANGED <<tables, audit, received, faults, history>>

(* The unique index knows nothing of expiry: an invitation that was never  *)
(* accepted keeps its place.                                               *)
Unaccepted(t, w, u) ==
    invitations[t] # NoRow /\ invitations[t].ws = w /\ invitations[t].email = u
        /\ invitations[t].status # "accepted"
IndexRefuses(w, u) == \E t \in Tokens : Unaccepted(t, w, u)

InsertInvitation(r, t) ==
    LET q == request[r]
    IN /\ At(r, "insert")
       /\ invitations[t] = NoRow
       /\ IF IndexRefuses(q.ws, q.target)
          THEN Answer(r) /\ UNCHANGED <<invitations, changes>>
          ELSE /\ invitations' = [invitations EXCEPT ![t] =
                     [ws |-> q.ws, email |-> q.target, role |-> q.role, by |-> q.actor,
                      status |-> "open"]]
               /\ changes' = [changes EXCEPT ![q.ws] = @ + 1]
               /\ Advance(r, "audit")
       /\ UNCHANGED <<workspaces, preferences, members, audit, received, faults,
                      ever_owner, grantor, edits, crossed>>

(* The invitation is bound to the address it was sent to. *)
Redeemer(t, u) == invitations[t].email = u

ReadInvitation(r, t, u) ==
    /\ Ready(r)
    /\ invitations[t] # NoRow
    /\ invitations[t].status = "open"
    /\ Redeemer(t, u)
    /\ workspaces[invitations[t].ws].active
    /\ members[invitations[t].ws][u] = NoRow
    /\ Open(r, [op |-> "accept", ws |-> invitations[t].ws, actor |-> u, acting |-> "viewer",
                target |-> u, role |-> invitations[t].role, token |-> t,
                version |-> 0, pc |-> "join"])
    /\ UNCHANGED <<tables, audit, faults, history>>

(* A membership row is unique by user and workspace. *)
Join(r) ==
    LET q == request[r]
    IN /\ At(r, "join")
       /\ IF members[q.ws][q.actor] # NoRow
          THEN Answer(r) /\ UNCHANGED <<members, history>>
          ELSE /\ SetMember(r, q.actor, [role |-> q.role, status |-> "active"],
                            invitations[q.token].by, TRUE)
               /\ Advance(r, "mark")
               /\ UNCHANGED edits
       /\ UNCHANGED <<workspaces, preferences, invitations, audit, received, faults>>

(* Mutant: the one who accepts is not on record. *)
MarkAcceptedSilently(r) ==
    /\ At(r, "mark")
    /\ invitations' = [invitations EXCEPT ![request[r].token].status = "accepted"]
    /\ Answer(r)
    /\ UNCHANGED <<workspaces, preferences, members, audit, received, faults, history>>

MarkAccepted(r) ==
    /\ At(r, "mark")
    /\ invitations' = [invitations EXCEPT ![request[r].token].status = "accepted"]
    /\ Advance(r, "audit")
    /\ UNCHANGED <<workspaces, preferences, members, audit, received, faults, history>>

Expire(t) ==
    /\ invitations[t] # NoRow
    /\ invitations[t].status = "open"
    /\ invitations' = [invitations EXCEPT ![t].status = "expired"]
    /\ UNCHANGED <<workspaces, preferences, members, audit, request, received, faults, history>>

-----------------------------------------------------------------------------
(* change_role, remove_member and leave_workspace: target, count, write *)

(* What the request does to an owner, as far as its target's row says *)
Departs(q, m) == m.role = "owner" /\ (q.op = "change_role" => q.role # "owner")

MayManage(q, m) ==
    /\ q.op \in {"change_role", "remove"} /\ m.role = "owner" => q.acting = "owner"
    /\ q.op = "change_role" /\ q.role = "owner" => q.acting = "owner"

ReadTarget(r) ==
    LET q == request[r]
        m == members[q.ws][q.target]
    IN /\ At(r, "target")
       /\ q.op \in {"change_role", "remove", "leave"}
       /\ IF m = NoRow \/ ~MayManage(q, m) THEN Answer(r)
          ELSE Advance(r, IF Departs(q, m) THEN "count" ELSE "write")
       /\ UNCHANGED <<tables, audit, received, faults, history>>

(* Mutant: the owner who goes is not counted among those who stay. *)
EnoughOwnersOffByOne(w) == Cardinality(Owners(w)) >= 1
EnoughOwners(w) == Cardinality(Owners(w)) > 1

CountOwners(r) ==
    /\ At(r, "count")
    /\ IF EnoughOwners(request[r].ws) THEN Advance(r, "write") ELSE Answer(r)
    /\ UNCHANGED <<tables, audit, received, faults, history>>

(* Mutant: a change of role writes the whole row as it was when active. *)
WriteMemberWhole(r) ==
    LET q == request[r]
        m == members[q.ws][q.target]
        audited == q.op # "leave"
    IN /\ At(r, "write")
       /\ SetMember(r, q.target,
                    IF q.op = "change_role" THEN [role |-> q.role, status |-> "active"]
                                            ELSE [m EXCEPT !.status = "disabled"],
                    q.actor, audited)
       /\ IF audited THEN Advance(r, "audit") ELSE Answer(r)
       /\ UNCHANGED <<workspaces, preferences, invitations, audit, received, faults, edits>>

(* update_role and update_status write their own column only. *)
WriteMember(r) ==
    LET q == request[r]
        m == members[q.ws][q.target]
        audited == q.op # "leave"
    IN /\ At(r, "write")
       /\ SetMember(r, q.target,
                    IF q.op = "change_role" THEN [m EXCEPT !.role = q.role]
                                            ELSE [m EXCEPT !.status = "disabled"],
                    q.actor, audited)
       /\ IF audited THEN Advance(r, "audit") ELSE Answer(r)
       /\ UNCHANGED <<workspaces, preferences, invitations, audit, received, faults, edits>>

-----------------------------------------------------------------------------
(* transfer_ownership: two reads, then two writes *)

ReadGiver(r) ==
    LET q == request[r]
    IN /\ At(r, "target")
       /\ q.op = "transfer"
       /\ IF Owns(members[q.ws][q.actor]) THEN Advance(r, "receiver") ELSE Answer(r)
       /\ UNCHANGED <<tables, audit, received, faults, history>>

ReadReceiver(r) ==
    LET q == request[r]
    IN /\ At(r, "receiver")
       /\ IF Active(q.ws, q.target) THEN Advance(r, "promote") ELSE Answer(r)
       /\ UNCHANGED <<tables, audit, received, faults, history>>

Promote(r) ==
    LET q == request[r]
    IN /\ At(r, "promote")
       /\ SetMember(r, q.target, [members[q.ws][q.target] EXCEPT !.role = "owner"], q.actor, FALSE)
       /\ Advance(r, "demote")
       /\ UNCHANGED <<workspaces, preferences, invitations, audit, received, faults, edits>>

Demote(r) ==
    LET q == request[r]
    IN /\ At(r, "demote")
       /\ SetMember(r, q.actor, [members[q.ws][q.actor] EXCEPT !.role = "admin"], q.actor, TRUE)
       /\ Advance(r, "audit")
       /\ UNCHANGED <<workspaces, preferences, invitations, audit, received, faults, edits>>

-----------------------------------------------------------------------------
(* Versioned rows: settings, deactivation, report preferences *)

Version(q) ==
    IF q.op = "preferences" THEN preferences[q.ws] ELSE workspaces[q.ws].version
(* A row of preferences that is not there has the version of a new one. *)
Effective(v) == IF v = 0 THEN 1 ELSE v

(* The caller reads the version it edits, at any time before. *)
ReadVersion(r) ==
    /\ At(r, "row")
    /\ request' = [request EXCEPT ![r].version = Effective(Version(request[r])), ![r].pc = "check"]
    /\ UNCHANGED <<tables, audit, received, faults, history>>

(* The update's transaction reads the row, and compares if it is given an  *)
(* expected version,                                                       *)
CheckVersion(r) ==
    LET q == request[r]
    IN /\ At(r, "check")
       /\ IF q.op = "deactivate" \/ Effective(Version(q)) = q.version
          THEN request' = [request EXCEPT ![r].version = Version(q), ![r].pc = "commit"]
          ELSE Answer(r)
       /\ UNCHANGED <<tables, audit, received, faults, history>>

(* and writes one more than it read, whatever is there by now; a new row   *)
(* of preferences collides with one inserted meanwhile.                    *)
Collides(q) == q.op = "preferences" /\ q.version = 0 /\ preferences[q.ws] # 0

CommitUpdate(r) ==
    LET q == request[r]
        next == Effective(q.version) + 1
    IN /\ At(r, "commit")
       /\ IF Collides(q)
          THEN Answer(r) /\ UNCHANGED <<workspaces, preferences, history>>
          ELSE /\ IF q.op = "preferences"
                  THEN /\ preferences' = [preferences EXCEPT ![q.ws] = next]
                       /\ UNCHANGED <<workspaces, edits>>
                  ELSE /\ workspaces' = [workspaces EXCEPT
                             ![q.ws].version = next,
                             ![q.ws].active = @ /\ q.op # "deactivate"]
                       /\ edits' = [edits EXCEPT ![q.ws] = @ + 1]
                       /\ UNCHANGED preferences
               /\ changes' = [changes EXCEPT ![q.ws] = @ + 1]
               /\ Crossing(r)
               /\ Advance(r, "audit")
               /\ UNCHANGED <<ever_owner, grantor>>
       /\ UNCHANGED <<members, invitations, audit, received, faults>>

(* get_or_create of the preferences: only the first one inserts. *)
GetPreferences(r) ==
    LET w == request[r].ws
    IN /\ At(r, "ensure")
       /\ preferences' = [preferences EXCEPT ![w] = Effective(@)]
       /\ Answer(r)
       /\ UNCHANGED <<workspaces, members, invitations, audit, received, faults, history>>

-----------------------------------------------------------------------------
(* The last transaction of an audited request *)
RecordAudit(r) ==
    /\ At(r, "audit")
    /\ audit' = [audit EXCEPT ![request[r].ws] = @ + 1]
    /\ Answer(r)
    /\ UNCHANGED <<tables, received, faults, history>>

(* An error of the database, or the end of the process, in mid-request *)
Fail(r) ==
    /\ InFlight(r)
    /\ received + faults < MaxEvents
    /\ faults' = faults + 1
    /\ Answer(r)
    /\ UNCHANGED <<tables, audit, received, history>>

Step(r) ==
    \/ \E w \in Workspaces, u \in Users :
          \/ CreateWorkspace(r, w, u)
          \/ \E op \in Operations : \E target \in Targets(op, u), role \in Grants(op) :
                Enter(r, op, w, u, target, role)
    \/ CreateOwner(r)
    \/ LookupPending(r)
    \/ \E t \in Tokens : InsertInvitation(r, t) \/ \E u \in Users : ReadInvitation(r, t, u)
    \/ Join(r) \/ MarkAccepted(r)
    \/ ReadTarget(r) \/ CountOwners(r) \/ WriteMember(r)
    \/ ReadGiver(r) \/ ReadReceiver(r) \/ Promote(r) \/ Demote(r)
    \/ ReadVersion(r) \/ CheckVersion(r) \/ CommitUpdate(r) \/ GetPreferences(r)
    \/ RecordAudit(r)
    \/ Fail(r)

Next ==
    \/ \E r \in Requests : Step(r)
    \/ \E t \in Tokens : Expire(t)

Spec == Init /\ [][Next]_vars

-----------------------------------------------------------------------------
(* Properties *)

Request == [op : Operations \cup {"create", "accept"}, ws : Workspaces, actor : Users,
            acting : Roles, target : Users, role : Roles, token : Tokens \cup {NoRow},
            version : Nat,
            pc : {"owner", "pending", "insert", "join", "mark", "target", "count",
                  "receiver", "row", "ensure", "check", "audit"} \cup Decided]

ASSUME RequestAssumption == NoRequest \notin Request

(* The rows and the requests keep their types.                             *)
TypeOK ==
    /\ workspaces \in [Workspaces -> Workspace \cup {NoRow}]
    /\ preferences \in [Workspaces -> Nat]
    /\ members \in [Workspaces -> [Users -> Member \cup {NoRow}]]
    /\ invitations \in [Tokens -> Invitation \cup {NoRow}]
    /\ audit \in [Workspaces -> Nat]
    /\ request \in [Requests -> Request \cup {NoRequest}]
    /\ received \in Nat /\ faults \in Nat /\ received + faults <= MaxEvents
    /\ ever_owner \in [Workspaces -> SUBSET Users]
    /\ grantor \in [Workspaces -> [Users -> Users]]
    /\ changes \in [Workspaces -> Nat] /\ edits \in [Workspaces -> Nat]
    /\ crossed \subseteq {"members", "rows", "self"} \X Workspaces

(* The owner role is only ever given by somebody who has been an active    *)
(* owner of that workspace: whatever requests, invitations and transfers   *)
(* cross, an admin never makes an owner (change_role, invite_member).      *)
OwnersComeFromOwners ==
    \A w \in Workspaces, u \in Users :
        members[w][u] # NoRow /\ members[w][u].role = "owner"
            => grantor[w][u] \in ever_owner[w]

(* A workspace that has members loses its last owner only where two        *)
(* changes of its members overlapped, or an owner transferred ownership to *)
(* himself: any other change keeps one, also when it dies between its      *)
(* writes (count_active_owners, the order of transfer_ownership's two).    *)
OwnerlessOnlyByRace ==
    \A w \in Workspaces :
        \/ \A u \in Users : members[w][u] = NoRow
        \/ Owners(w) # {}
        \/ <<"members", w>> \in crossed
        \/ <<"self", w>> \in crossed

(* A workspace is owned by whom an owner made one, and is owned.           *)
OwnersHold == TypeOK /\ OwnersComeFromOwners /\ OwnerlessOnlyByRace

(* Every audited change has its entry, or a request on its way to write    *)
(* it, or died; and no entry is written for what did not happen.           *)
Auditing(w) == Cardinality({r \in Requests : request[r] # NoRequest /\ request[r].ws = w
                                                /\ request[r].pc \in {"mark", "audit"}})
AuditFollowsChanges ==
    \A w \in Workspaces :
        /\ audit[w] <= changes[w]
        /\ changes[w] <= audit[w] + Auditing(w) + faults

(* The version counts the edits that were answered with success, unless    *)
(* two of them overlapped: none is applied to a row the caller has not     *)
(* seen otherwise (WorkspaceStore.update).                                 *)
VersionCountsEdits ==
    \A w \in Workspaces :
        workspaces[w] # NoRow /\ <<"rows", w>> \notin crossed => workspaces[w].version = 1 + edits[w]

(* The audit trail and the version of a workspace tell how often it was    *)
(* changed.                                                                *)
ChangesAreCounted == AuditFollowsChanges /\ VersionCountsEdits

(* Who was removed or left stays out: no invitation, role change or        *)
(* transfer makes a disabled membership active again (module docstring).   *)
RemovedStaysOut ==
    [][\A w \in Workspaces, u \in Users :
         members[w][u] # NoRow /\ members[w][u].status = "disabled"
            => members'[w][u] # NoRow /\ members'[w][u].status = "disabled"]_vars

-----------------------------------------------------------------------------
(* What the documentation says and the code does not do *)

(* tenancy/service.py:90, "Every active workspace must retain at least one *)
(* owner."                                                                 *)
OwnerRetained ==
    \A w \in Workspaces :
        workspaces[w] # NoRow /\ workspaces[w].active /\ (\E u \in Users : members[w][u] # NoRow)
            => Owners(w) # {}

(* tenancy/contracts.py:96, "a concurrent edit in between is a conflict,   *)
(* not a silent overwrite."                                                *)
NoSilentOverwrite ==
    \A w \in Workspaces : workspaces[w] # NoRow => workspaces[w].version = 1 + edits[w]

(* db/records.py:618, the index "enforces no duplicate pending invitation  *)
(* for the same (workspace, email)": it refuses only while one is pending. *)
IndexRefusesPendingOnly ==
    \A w \in Workspaces, u \in Users :
        IndexRefuses(w, u) => \E t \in Tokens : Pending(t, w, u)

=============================================================================
