-------------------------- MODULE Tenancy_proofs ----------------------------
(***************************************************************************)
(* What holds of the memberships and the books of a workspace for every    *)
(* number of users, workspaces, invitations and requests, whatever         *)
(* requests cross and wherever they die.                                   *)
(***************************************************************************)
EXTENDS Tenancy, FiniteSetTheorems, TLAPS

-----------------------------------------------------------------------------
(* The inductive invariant                                                   *)

Rows(w) == {u \in Users : members[w][u] # NoRow}

(* What a request has established by the place it has reached, and what no   *)
(* other request can take back: rows of the three tables never go.           *)
Fits(q) ==
    /\ workspaces[q.ws] # NoRow
    /\ q.op # "create" => Rows(q.ws) # {}
    /\ q.op \notin {"create", "accept"} => q.actor \in Rows(q.ws)
    /\ q.op # "create" /\ q.acting = "owner" => q.actor \in ever_owner[q.ws]
    /\ q.pc = "owner" => q.op = "create"
    /\ q.pc \in {"pending", "insert"} => q.op = "invite"
    /\ q.pc = "insert" /\ q.role = "owner" => q.acting = "owner"
    /\ q.pc \in {"join", "mark"} =>
          /\ q.op = "accept" /\ q.token \in Tokens
          /\ invitations[q.token] # NoRow
          /\ invitations[q.token].ws = q.ws /\ invitations[q.token].role = q.role
    /\ q.pc \in {"count", "write"} =>
          /\ q.op \in {"change_role", "remove", "leave"}
          /\ q.target \in Rows(q.ws)
          /\ q.op = "change_role" /\ q.role = "owner" => q.acting = "owner"
    /\ q.pc \in {"receiver", "promote", "demote"} =>
          q.op = "transfer" /\ q.actor \in ever_owner[q.ws]
    /\ q.pc \in {"promote", "demote"} => q.target \in Rows(q.ws)
    /\ q.pc \in {"row", "check", "commit"} => q.op \in {"settings", "preferences", "deactivate"}

RequestsFit == \A r \in Requests : InFlight(r) => Fits(request[r])

(* A workspace has members from its owner's row on, and no request is about  *)
(* to write that row once it has.                                            *)
Founded ==
    /\ \A w \in Workspaces : workspaces[w] = NoRow => Rows(w) = {} /\ edits[w] = 0
    /\ \A t \in Tokens : invitations[t] # NoRow =>
          workspaces[invitations[t].ws] # NoRow /\ Rows(invitations[t].ws) # {}
    /\ \A r \in Requests : At(r, "owner") => Rows(request[r].ws) = {}
    /\ \A r, q \in Requests :
          At(r, "owner") /\ At(q, "owner") /\ request[r].ws = request[q].ws => r = q

(* Who owns, or invites an owner, is on record as one who did own.           *)
OwnersRecorded ==
    /\ \A w \in Workspaces : Owners(w) \subseteq ever_owner[w]
    /\ \A t \in Tokens : invitations[t] # NoRow /\ invitations[t].role = "owner"
          => invitations[t].by \in ever_owner[invitations[t].ws]

(* What a request has read of the owners is still so when it writes, where   *)
(* no two changes of the members overlapped.                                 *)
Quiet(w) == <<"members", w>> \notin crossed /\ <<"self", w>> \notin crossed
Grounded(q) ==
    Quiet(q.ws) =>
        /\ q.pc = "write" =>
              (q.op = "change_role" /\ q.role = "owner") \/ Owners(q.ws) \ {q.target} # {}
        /\ q.pc = "promote" => Active(q.ws, q.target)
        /\ q.pc = "demote" => Owns(members[q.ws][q.target])
AllGrounded == \A r \in Requests : InFlight(r) => Grounded(request[r])

(* The three counts of an audited change                                     *)
Auditors(w) == {r \in Requests : request[r] # NoRequest /\ request[r].ws = w
                                     /\ request[r].pc \in {"mark", "audit"}}
Booked ==
    \A w \in Workspaces :
        /\ audit[w] + Cardinality(Auditors(w)) <= changes[w]
        /\ changes[w] <= audit[w] + Cardinality(Auditors(w)) + faults

(* A request that is to commit holds the version it will replace, where no   *)
(* two of them overlapped.                                                   *)
Current ==
    \A r \in Requests :
        At(r, "commit") /\ request[r].op # "preferences" /\ <<"rows", request[r].ws>> \notin crossed
            => request[r].version = workspaces[request[r].ws].version

TenancyInv ==
    /\ TypeOK /\ RequestsFit /\ Founded
    /\ OwnersRecorded /\ OwnersComeFromOwners
    /\ AllGrounded /\ OwnerlessOnlyByRace
    /\ Booked
    /\ Current /\ VersionCountsEdits

-----------------------------------------------------------------------------
(* Types                                                                     *)

Places == {"owner", "pending", "insert", "join", "mark", "target", "count",
           "receiver", "row", "ensure", "check", "audit"} \cup Decided

LEMMA RowsAreRows ==
    \A x \in Member \cup Workspace \cup Invitation : x # NoRow
BY TenancyAssumption

LEMMA Bumped ==
    ASSUME NEW S, NEW f \in [S -> Nat], NEW x \in S
    PROVE  [f EXCEPT ![x] = @ + 1] \in [S -> Nat]
OBVIOUS

LEMMA RequestTyped ==
    ASSUME TypeOK, NEW r \in Requests, InFlight(r)
    PROVE  /\ request[r] \in Request
           /\ request[r].ws \in Workspaces /\ request[r].actor \in Users
           /\ request[r].target \in Users
           /\ request[r].role \in Roles /\ request[r].acting \in Roles
           /\ request[r].version \in Nat
BY DEF TypeOK, InFlight, Request

LEMMA OpenTyped ==
    ASSUME TypeOK, NEW r \in Requests, NEW q \in Request, Ready(r), Open(r, q)
    PROVE  /\ request' \in [Requests -> Request \cup {NoRequest}]
           /\ received' \in Nat /\ received' + faults <= MaxEvents
BY TenancyAssumption DEF TypeOK, Ready, Open

LEMMA AdvanceTyped ==
    ASSUME TypeOK, NEW r \in Requests, InFlight(r), NEW place \in Places, Advance(r, place)
    PROVE  request' \in [Requests -> Request \cup {NoRequest}]
<1>1. [request[r] EXCEPT !.pc = place] \in Request
  BY RequestTyped DEF Request, Places
<1>2. QED
  BY <1>1 DEF TypeOK, Advance

LEMMA AnswerTyped ==
    ASSUME TypeOK, NEW r \in Requests, Answer(r)
    PROVE  request' \in [Requests -> Request \cup {NoRequest}]
BY DEF TypeOK, Answer

LEMMA CrossingTyped ==
    ASSUME TypeOK, NEW r \in Requests, InFlight(r), Crossing(r)
    PROVE  crossed' \subseteq {"members", "rows", "self"} \X Workspaces
<1>1. request[r].ws \in Workspaces
  BY RequestTyped
<1>2. QED
  BY <1>1 DEF TypeOK, Crossing

LEMMA SetMemberTyped ==
    ASSUME TypeOK, NEW r \in Requests, InFlight(r), NEW u \in Users, NEW m \in Member,
           NEW by \in Users, NEW audited \in BOOLEAN, SetMember(r, u, m, by, audited)
    PROVE  /\ members' \in [Workspaces -> [Users -> Member \cup {NoRow}]]
           /\ ever_owner' \in [Workspaces -> SUBSET Users]
           /\ grantor' \in [Workspaces -> [Users -> Users]]
           /\ changes' \in [Workspaces -> Nat]
           /\ crossed' \subseteq {"members", "rows", "self"} \X Workspaces
<1> DEFINE w == request[r].ws
<1>1. w \in Workspaces
  BY RequestTyped
<1>2. members' \in [Workspaces -> [Users -> Member \cup {NoRow}]]
  BY <1>1 DEF SetMember, TypeOK
<1>3. ever_owner' \in [Workspaces -> SUBSET Users]
  BY <1>1 DEF SetMember, TypeOK
<1>4. grantor' \in [Workspaces -> [Users -> Users]]
  BY <1>1 DEF SetMember, TypeOK
<1>5. changes' \in [Workspaces -> Nat]
  BY <1>1 DEF SetMember, TypeOK
<1>6. QED
  BY <1>2, <1>3, <1>4, <1>5, CrossingTyped DEF SetMember

LEMMA ReadTyped ==
    ASSUME TypeOK, UNCHANGED <<tables, audit, received, faults, history>>,
           request' \in [Requests -> Request \cup {NoRequest}]
    PROVE  TypeOK'
BY DEF TypeOK, tables, history

LEMMA MembersTyped ==
    ASSUME TypeOK,
           UNCHANGED <<workspaces, preferences, invitations, audit, received, faults, edits>>,
           request' \in [Requests -> Request \cup {NoRequest}],
           members' \in [Workspaces -> [Users -> Member \cup {NoRow}]],
           ever_owner' \in [Workspaces -> SUBSET Users],
           grantor' \in [Workspaces -> [Users -> Users]],
           changes' \in [Workspaces -> Nat],
           crossed' \subseteq {"members", "rows", "self"} \X Workspaces
    PROVE  TypeOK'
BY DEF TypeOK

LEMMA BeginTyped ==
    ASSUME TypeOK, NEW r \in Requests, NEW w \in Workspaces, NEW u \in Users
    PROVE  /\ CreateWorkspace(r, w, u) => TypeOK'
           /\ \A op \in Operations : \A target \in Targets(op, u), role \in Grants(op) :
                 Enter(r, op, w, u, target, role) => TypeOK'
           /\ \A t \in Tokens : ReadInvitation(r, t, u) => TypeOK'
<1>1. ASSUME CreateWorkspace(r, w, u) PROVE TypeOK'
  <2> DEFINE q == [op |-> "create", ws |-> w, actor |-> u, acting |-> "owner", target |-> u,
                   role |-> "owner", token |-> NoRow, version |-> 0, pc |-> "owner"]
  <2>1. q \in Request
    BY DEF Request, Roles
  <2>2. Ready(r) /\ Open(r, q)
    BY <1>1 DEF CreateWorkspace
  <2>3. /\ request' \in [Requests -> Request \cup {NoRequest}]
        /\ received' \in Nat /\ received' + faults <= MaxEvents
    BY <2>1, <2>2, OpenTyped
  <2>4. workspaces' \in [Workspaces -> Workspace \cup {NoRow}]
    BY <1>1 DEF CreateWorkspace, Workspace, TypeOK
  <2>5. UNCHANGED <<preferences, members, invitations, audit, faults, history>>
    BY <1>1 DEF CreateWorkspace
  <2>6. QED
    BY <2>3, <2>4, <2>5 DEF TypeOK, history
<1>2. ASSUME NEW op \in Operations, NEW target \in Targets(op, u), NEW role \in Grants(op),
             Enter(r, op, w, u, target, role)
      PROVE  TypeOK'
  <2> DEFINE q == [op |-> op, ws |-> w, actor |-> u, acting |-> members[w][u].role,
                   target |-> target, role |-> role, token |-> NoRow, version |-> 0,
                   pc |-> Start(op)]
  <2>1. op \in {"invite", "change_role", "remove", "leave", "transfer", "deactivate",
                "settings", "preferences", "get_preferences"}
    BY DEF Operations, RoutePermission
  <2>2. Start(op) \in Places
    BY <2>1 DEF Start, Places
  <2>3. target \in Users /\ role \in Roles
    BY <2>1, TenancyAssumption DEF Targets, Grants, Roles
  <2>4. members[w][u].role \in Roles
    BY <1>2 DEF Enter, Admitted, Active, TypeOK, Member
  <2>5. q \in Request
    BY <2>2, <2>3, <2>4 DEF Request, Places
  <2>6. Ready(r) /\ Open(r, q) /\ UNCHANGED <<tables, audit, faults, history>>
    BY <1>2 DEF Enter
  <2>7. /\ request' \in [Requests -> Request \cup {NoRequest}]
        /\ received' \in Nat /\ received' + faults <= MaxEvents
    BY <2>5, <2>6, OpenTyped
  <2>8. QED
    BY <2>6, <2>7 DEF TypeOK, tables, history
<1>3. ASSUME NEW t \in Tokens, ReadInvitation(r, t, u) PROVE TypeOK'
  <2> DEFINE q == [op |-> "accept", ws |-> invitations[t].ws, actor |-> u, acting |-> "viewer",
                   target |-> u, role |-> invitations[t].role, token |-> t,
                   version |-> 0, pc |-> "join"]
  <2>1. invitations[t] \in Invitation
    BY <1>3 DEF ReadInvitation, TypeOK
  <2>2. q \in Request
    BY <2>1 DEF Request, Invitation, Roles
  <2>3. Ready(r) /\ Open(r, q) /\ UNCHANGED <<tables, audit, faults, history>>
    BY <1>3 DEF ReadInvitation
  <2>4. /\ request' \in [Requests -> Request \cup {NoRequest}]
        /\ received' \in Nat /\ received' + faults <= MaxEvents
    BY <2>2, <2>3, OpenTyped
  <2>5. QED
    BY <2>3, <2>4 DEF TypeOK, tables, history
<1>4. QED
  BY <1>1, <1>2, <1>3

(* A step of a request that only reads, and goes on or answers               *)
Reading(r) ==
    LookupPending(r) \/ ReadTarget(r) \/ CountOwners(r) \/ ReadGiver(r) \/ ReadReceiver(r)
        \/ ReadVersion(r) \/ CheckVersion(r)

LEMMA ReadingTyped ==
    ASSUME TypeOK, RequestsFit, NEW r \in Requests, Reading(r)
    PROVE  TypeOK'
<1>1. InFlight(r) /\ UNCHANGED <<tables, audit, received, faults, history>>
  BY DEF Reading, LookupPending, ReadTarget, CountOwners, ReadGiver, ReadReceiver, ReadVersion,
         CheckVersion, At, InFlight
<1>2. CASE Answer(r) \/ \E place \in Places : Advance(r, place)
  BY <1>1, <1>2, AnswerTyped, AdvanceTyped, ReadTyped
<1>3. CASE LookupPending(r) \/ ReadTarget(r) \/ CountOwners(r) \/ ReadGiver(r) \/ ReadReceiver(r)
  BY <1>2, <1>3
     DEF LookupPending, ReadTarget, CountOwners, ReadGiver, ReadReceiver, Places, Decided
<1>4. Version(request[r]) \in Nat /\ Effective(Version(request[r])) \in Nat
  <2>1. workspaces[request[r].ws] \in Workspace
    BY <1>1, RequestTyped DEF TypeOK, RequestsFit, Fits
  <2>2. preferences[request[r].ws] \in Nat
    BY <1>1, RequestTyped DEF TypeOK
  <2>3. QED
    BY <2>1, <2>2 DEF Version, Effective, Workspace
<1>5. ASSUME NEW v \in Nat, NEW place \in {"check", "commit"}
      PROVE  [request[r] EXCEPT !.version = v, !.pc = place] \in Request
  BY <1>1, RequestTyped DEF Request, Decided
<1>6. CASE ReadVersion(r)
  <2>1. request' = [request EXCEPT ![r] =
                      [request[r] EXCEPT !.version = Effective(Version(request[r])), !.pc = "check"]]
    BY <1>1, <1>6 DEF ReadVersion, TypeOK
  <2>2. request' \in [Requests -> Request \cup {NoRequest}]
    BY <1>4, <1>5, <2>1 DEF TypeOK
  <2>3. QED
    BY <1>1, <2>2, ReadTyped
<1>7. CASE CheckVersion(r)
  <2>1. \/ Answer(r)
        \/ request' = [request EXCEPT ![r] =
                      [request[r] EXCEPT !.version = Version(request[r]), !.pc = "commit"]]
    BY <1>1, <1>7 DEF CheckVersion, TypeOK
  <2>2. request' \in [Requests -> Request \cup {NoRequest}]
    BY <1>4, <1>5, <2>1, AnswerTyped DEF TypeOK
  <2>3. QED
    BY <1>1, <2>2, ReadTyped
<1>8. QED
  BY <1>3, <1>6, <1>7 DEF Reading

(* A step of a request that changes one membership                           *)
Changing(r) == CreateOwner(r) \/ Join(r) \/ WriteMember(r) \/ Promote(r) \/ Demote(r)

(* What such a step puts where                                               *)
LEMMA ChangeIs ==
    ASSUME TypeOK, RequestsFit, NEW r \in Requests, Changing(r)
    PROVE  /\ InFlight(r)
           /\ \/ /\ At(r, "join") /\ members[request[r].ws][request[r].actor] # NoRow
                 /\ Answer(r) /\ UNCHANGED <<members, history>>
              \/ \E u \in Users, m \in Member, by \in Users, audited \in BOOLEAN :
                    /\ SetMember(r, u, m, by, audited)
                    /\ IF audited THEN Advance(r, "mark") \/ Advance(r, "audit")
                                  ELSE Answer(r) \/ Advance(r, "demote")
           /\ UNCHANGED <<workspaces, preferences, invitations, audit, received, faults, edits>>
<1> DEFINE q == request[r]
<1>1. /\ InFlight(r)
      /\ UNCHANGED <<workspaces, preferences, invitations, audit, received, faults>>
  BY DEF Changing, CreateOwner, Join, WriteMember, Promote, Demote, At, InFlight
<1>2. UNCHANGED edits
  BY DEF Changing, CreateOwner, Join, WriteMember, Promote, Demote, history
<1>3. q.ws \in Workspaces /\ q.actor \in Users /\ q.target \in Users /\ q.role \in Roles
  BY <1>1, RequestTyped
<1>4. \A u \in Rows(q.ws) : members[q.ws][u] \in Member
  BY <1>3 DEF Rows, TypeOK
<1>5. Fits(q)
  BY <1>1 DEF RequestsFit
<1>6. CASE CreateOwner(r)
  <2>1. [role |-> "owner", status |-> "active"] \in Member
    BY DEF Member, Roles
  <2>2. QED
    BY <1>1, <1>2, <1>3, <1>6, <2>1 DEF CreateOwner
<1>7. CASE Join(r)
  <2>1. invitations[q.token].by \in Users /\ [role |-> q.role, status |-> "active"] \in Member
    BY <1>3, <1>5, <1>7 DEF Join, At, Fits, TypeOK, Invitation, Member
  <2>2. QED
    BY <1>1, <1>2, <1>3, <1>7, <2>1 DEF Join
<1>8. CASE WriteMember(r)
  <2>1. members[q.ws][q.target] \in Member
    BY <1>4, <1>5, <1>8 DEF WriteMember, At, Fits
  <2>2. (IF q.op = "change_role" THEN [members[q.ws][q.target] EXCEPT !.role = q.role]
           ELSE [members[q.ws][q.target] EXCEPT !.status = "disabled"]) \in Member
    BY <1>3, <2>1 DEF Member
  <2>3. (q.op # "leave") \in BOOLEAN
    OBVIOUS
  <2>4. QED
    BY <1>1, <1>2, <1>3, <1>8, <2>2, <2>3 DEF WriteMember
<1>9. CASE Promote(r)
  <2>1. members[q.ws][q.target] \in Member
    BY <1>4, <1>5, <1>9 DEF Promote, At, Fits
  <2>2. [members[q.ws][q.target] EXCEPT !.role = "owner"] \in Member
    BY <2>1 DEF Member, Roles
  <2>3. QED
    BY <1>1, <1>2, <1>3, <1>9, <2>2 DEF Promote
<1>10. CASE Demote(r)
  <2>1. members[q.ws][q.actor] \in Member
    BY <1>4, <1>5, <1>10 DEF Demote, At, Fits
  <2>2. [members[q.ws][q.actor] EXCEPT !.role = "admin"] \in Member
    BY <2>1 DEF Member, Roles
  <2>3. QED
    BY <1>1, <1>2, <1>3, <1>10, <2>2 DEF Demote
<1>11. QED
  BY <1>6, <1>7, <1>8, <1>9, <1>10 DEF Changing

LEMMA ChangingTyped ==
    ASSUME TypeOK, RequestsFit, NEW r \in Requests, Changing(r)
    PROVE  TypeOK'
<1>1. InFlight(r) /\ {"mark", "audit", "demote"} \subseteq Places
  BY ChangeIs DEF Places, Decided
<1>2. request' \in [Requests -> Request \cup {NoRequest}]
  BY <1>1, ChangeIs, AnswerTyped, AdvanceTyped
<1>3. CASE UNCHANGED <<members, history>>
  BY <1>2, <1>3, ChangeIs, MembersTyped DEF history, TypeOK
<1>4. CASE \E u \in Users, m \in Member, by \in Users, audited \in BOOLEAN :
             SetMember(r, u, m, by, audited)
  BY <1>1, <1>2, <1>4, ChangeIs, SetMemberTyped, MembersTyped
<1>5. QED
  BY <1>3, <1>4, ChangeIs

(* The other steps that write                                                *)
Writing(r) ==
    \/ \E t \in Tokens : InsertInvitation(r, t)
    \/ MarkAccepted(r) \/ CommitUpdate(r) \/ GetPreferences(r) \/ RecordAudit(r) \/ Fail(r)

LEMMA WritingTyped ==
    ASSUME TypeOK, RequestsFit, NEW r \in Requests, Writing(r)
    PROVE  TypeOK'
<1> DEFINE q == request[r]
<1>1. InFlight(r)
  BY DEF Writing, InsertInvitation, MarkAccepted, CommitUpdate, GetPreferences, RecordAudit, Fail,
         At, InFlight
<1>2. q.ws \in Workspaces /\ q.actor \in Users /\ q.target \in Users /\ q.role \in Roles
         /\ q.version \in Nat
  BY <1>1, RequestTyped
<1>3. Fits(q)
  BY <1>1 DEF RequestsFit
<1>4. request' \in [Requests -> Request \cup {NoRequest}]
  <2>1. Answer(r) \/ Advance(r, "audit")
    BY DEF Writing, InsertInvitation, MarkAccepted, CommitUpdate, GetPreferences, RecordAudit, Fail
  <2>2. "audit" \in Places
    BY DEF Places
  <2>3. QED
    BY <1>1, <2>1, <2>2, AnswerTyped, AdvanceTyped
<1>5. CASE \E t \in Tokens : InsertInvitation(r, t)
  <2>1. [ws |-> q.ws, email |-> q.target, role |-> q.role, by |-> q.actor, status |-> "open"]
           \in Invitation
    BY <1>2 DEF Invitation
  <2>2. /\ invitations' \in [Tokens -> Invitation \cup {NoRow}]
        /\ changes' \in [Workspaces -> Nat]
    <3> PICK t \in Tokens : InsertInvitation(r, t)
      BY <1>5
    <3>1. invitations' \in [Tokens -> Invitation \cup {NoRow}]
      BY <2>1 DEF InsertInvitation, TypeOK
    <3>2. changes' \in [Workspaces -> Nat]
      BY <1>2 DEF InsertInvitation, TypeOK
    <3>3. QED
      BY <3>1, <3>2
  <2>3. UNCHANGED <<workspaces, preferences, members, audit, received, faults,
                    ever_owner, grantor, edits, crossed>>
    BY <1>5 DEF InsertInvitation
  <2>4. QED
    BY <1>4, <2>2, <2>3 DEF TypeOK
<1>6. CASE MarkAccepted(r)
  <2>1. invitations[q.token] \in Invitation
    BY <1>3, <1>6 DEF MarkAccepted, At, Fits, TypeOK
  <2>2. invitations' \in [Tokens -> Invitation \cup {NoRow}]
    BY <1>6, <2>1 DEF MarkAccepted, TypeOK, Invitation
  <2>3. UNCHANGED <<workspaces, preferences, members, audit, received, faults, history>>
    BY <1>6 DEF MarkAccepted
  <2>4. QED
    BY <1>4, <2>2, <2>3 DEF TypeOK, history
<1>7. CASE CommitUpdate(r)
  <2>1. workspaces[q.ws] \in Workspace
    BY <1>2, <1>3 DEF TypeOK, Fits
  <2>2. Effective(q.version) + 1 \in Nat
    BY <1>2 DEF Effective
  <2>3. workspaces' \in [Workspaces -> Workspace \cup {NoRow}]
    BY <1>2, <1>7, <2>1, <2>2 DEF CommitUpdate, TypeOK, Workspace
  <2>4. preferences' \in [Workspaces -> Nat]
    BY <1>2, <1>7, <2>2 DEF CommitUpdate, TypeOK
  <2>5. changes' \in [Workspaces -> Nat] /\ edits' \in [Workspaces -> Nat]
    <3>1. changes' = changes \/ changes' = [changes EXCEPT ![q.ws] = @ + 1]
      BY <1>7 DEF CommitUpdate, history
    <3>2. edits' = edits \/ edits' = [edits EXCEPT ![q.ws] = @ + 1]
      BY <1>7 DEF CommitUpdate, history
    <3>3. /\ q.ws \in Workspaces
          /\ changes \in [Workspaces -> Nat] /\ edits \in [Workspaces -> Nat]
      BY <1>2 DEF TypeOK
    <3>4. QED
      BY <3>1, <3>2, <3>3, Bumped
  <2>6. crossed' \subseteq {"members", "rows", "self"} \X Workspaces
    BY <1>1, <1>7, CrossingTyped DEF CommitUpdate, TypeOK, history
  <2>7. UNCHANGED <<members, invitations, audit, received, faults, ever_owner, grantor>>
    BY <1>7 DEF CommitUpdate, history
  <2>8. QED
    BY <1>4, <2>3, <2>4, <2>5, <2>6, <2>7 DEF TypeOK
<1>8. CASE GetPreferences(r)
  <2>1. preferences' \in [Workspaces -> Nat]
    BY <1>2, <1>8 DEF GetPreferences, TypeOK, Effective
  <2>2. UNCHANGED <<workspaces, members, invitations, audit, received, faults, history>>
    BY <1>8 DEF GetPreferences
  <2>3. QED
    BY <1>4, <2>1, <2>2 DEF TypeOK, history
<1>9. CASE RecordAudit(r)
  <2>1. audit' \in [Workspaces -> Nat] /\ UNCHANGED <<tables, received, faults, history>>
    BY <1>2, <1>9 DEF RecordAudit, TypeOK
  <2>2. QED
    BY <1>4, <2>1 DEF TypeOK, tables, history
<1>10. CASE Fail(r)
  <2>1. faults' \in Nat /\ received + faults' <= MaxEvents
    BY <1>10, TenancyAssumption DEF Fail, TypeOK
  <2>2. UNCHANGED <<tables, audit, received, history>>
    BY <1>10 DEF Fail
  <2>3. QED
    BY <1>4, <2>1, <2>2 DEF TypeOK, tables, history
<1>11. QED
  BY <1>5, <1>6, <1>7, <1>8, <1>9, <1>10 DEF Writing

(* A step that begins a request                                              *)
Beginning(r) ==
    \/ \E w \in Workspaces, u \in Users :
          \/ CreateWorkspace(r, w, u)
          \/ \E op \in Operations : \E target \in Targets(op, u), role \in Grants(op) :
                Enter(r, op, w, u, target, role)
    \/ \E t \in Tokens, u \in Users : ReadInvitation(r, t, u)

LEMMA StepIs ==
    ASSUME NEW r \in Requests, Step(r)
    PROVE  Beginning(r) \/ Reading(r) \/ Changing(r) \/ Writing(r)
<1>1. CASE \E w \in Workspaces, u \in Users :
            \/ CreateWorkspace(r, w, u)
            \/ \E op \in Operations : \E target \in Targets(op, u), role \in Grants(op) :
                  Enter(r, op, w, u, target, role)
  BY <1>1 DEF Beginning
<1>2. CASE \E t \in Tokens : InsertInvitation(r, t) \/ \E u \in Users : ReadInvitation(r, t, u)
  BY <1>2 DEF Beginning, Writing
<1>3. QED
  BY <1>1, <1>2 DEF Step, Reading, Changing, Writing

LEMMA NextTyped ==
    ASSUME TypeOK, RequestsFit, [Next]_vars
    PROVE  TypeOK'
<1>1. ASSUME NEW r \in Requests, Step(r) PROVE TypeOK'
  <2>1. CASE Beginning(r)
    <3>1. ASSUME NEW w \in Workspaces, NEW u \in Users,
                 \/ CreateWorkspace(r, w, u)
                 \/ \E op \in Operations : \E target \in Targets(op, u), role \in Grants(op) :
                       Enter(r, op, w, u, target, role)
          PROVE  TypeOK'
      BY <3>1, BeginTyped
    <3>2. ASSUME NEW t \in Tokens, NEW u \in Users, ReadInvitation(r, t, u) PROVE TypeOK'
      <4>1. invitations[t].ws \in Workspaces
        BY <3>2 DEF ReadInvitation, TypeOK, Invitation
      <4>2. QED
        BY <3>2, <4>1, BeginTyped
    <3>3. QED
      BY <2>1, <3>1, <3>2 DEF Beginning
  <2>2. QED
    BY <1>1, <2>1, StepIs, ReadingTyped, ChangingTyped, WritingTyped
<1>2. ASSUME NEW t \in Tokens, Expire(t) PROVE TypeOK'
  <2>1. invitations[t] \in Invitation
    BY <1>2 DEF Expire, TypeOK
  <2>2. invitations' \in [Tokens -> Invitation \cup {NoRow}]
    BY <1>2, <2>1 DEF Expire, TypeOK, Invitation
  <2>3. UNCHANGED <<workspaces, preferences, members, audit, request, received, faults, history>>
    BY <1>2 DEF Expire
  <2>4. QED
    BY <2>2, <2>3 DEF TypeOK, history
<1>3. CASE UNCHANGED vars
  BY <1>3 DEF vars, tables, history, TypeOK
<1>4. QED
  BY <1>1, <1>2, <1>3 DEF Next

-----------------------------------------------------------------------------
(* What requests have established stays so                                   *)

(* No row of the tables goes, and an invitation says what it said.           *)
Grows ==
    /\ \A w \in Workspaces : workspaces[w] # NoRow => workspaces'[w] # NoRow
    /\ \A w \in Workspaces, u \in Users : members[w][u] # NoRow => members'[w][u] # NoRow
    /\ \A t \in Tokens : invitations[t] # NoRow =>
          /\ invitations'[t] # NoRow
          /\ invitations'[t].ws = invitations[t].ws /\ invitations'[t].role = invitations[t].role
          /\ invitations'[t].by = invitations[t].by
    /\ \A w \in Workspaces : ever_owner[w] \subseteq ever_owner'[w]

(* A step of one request moves no other one.                                 *)
Moves(r) == \A q \in Requests \ {r} : request'[q] = request[q]

LEMMA FitsStable ==
    ASSUME Grows, NEW q \in Request, Fits(q)
    PROVE  Fits(q)'
<1>1. q.ws \in Workspaces
  BY DEF Request
<1>2. Rows(q.ws) \subseteq Rows(q.ws)' /\ ever_owner[q.ws] \subseteq ever_owner'[q.ws]
         /\ workspaces'[q.ws] # NoRow
  BY <1>1 DEF Grows, Rows, Fits
<1>3. q.pc \in {"join", "mark"} =>
          /\ q.op = "accept" /\ q.token \in Tokens
          /\ invitations'[q.token] # NoRow
          /\ invitations'[q.token].ws = q.ws /\ invitations'[q.token].role = q.role
  BY DEF Grows, Fits
<1>4. QED
  BY <1>2, <1>3 DEF Fits

LEMMA FitsOthers ==
    ASSUME TypeOK, RequestsFit, Grows, NEW r \in Requests, Moves(r),
           InFlight(r)' => Fits(request[r])'
    PROVE  RequestsFit'
<1> SUFFICES ASSUME NEW q \in Requests, InFlight(q)'
             PROVE  Fits(request[q])'
  BY DEF RequestsFit
<1>1. CASE q = r
  BY <1>1
<1>2. CASE q # r
  <2>1. request'[q] = request[q] /\ InFlight(q)
    BY <1>2 DEF Moves, InFlight
  <2>2. request[q] \in Request /\ Fits(request[q])
    BY <2>1, RequestTyped DEF RequestsFit
  <2>3. QED
    BY <2>1, <2>2, FitsStable DEF Fits, Rows
<1>3. QED
  BY <1>1, <1>2

LEMMA NewTypes ==
    ASSUME TypeOK
    PROVE  /\ \A w \in Workspaces : workspaces[w] # NoRow => workspaces[w] \in Workspace
           /\ \A t \in Tokens : invitations[t] # NoRow => invitations[t] \in Invitation
           /\ \A w \in Workspaces, u \in Users : members[w][u] # NoRow => members[w][u] \in Member
BY DEF TypeOK

(* What a step that opens a request makes of it                              *)
LEMMA BeginningIs ==
    ASSUME TypeOK, NEW r \in Requests, Beginning(r)
    PROVE  /\ request[r] = NoRequest /\ Moves(r)
           /\ UNCHANGED <<preferences, members, invitations, audit, faults, history>>
           /\ \/ \E w \in Workspaces : /\ workspaces[w] = NoRow
                                      /\ workspaces' = [workspaces EXCEPT ![w] =
                                                          [active |-> TRUE, version |-> 1]]
                                      /\ request'[r].op = "create" /\ request'[r].ws = w
                                      /\ request'[r].pc = "owner"
              \/ /\ UNCHANGED workspaces
                 /\ request'[r].pc \in {"join", "pending", "target", "row", "ensure", "check"}
<1>1. ASSUME NEW w \in Workspaces, NEW u \in Users, CreateWorkspace(r, w, u)
      PROVE  /\ request[r] = NoRequest /\ Moves(r)
             /\ UNCHANGED <<preferences, members, invitations, audit, faults, history>>
             /\ workspaces[w] = NoRow
             /\ workspaces' = [workspaces EXCEPT ![w] = [active |-> TRUE, version |-> 1]]
             /\ request'[r].op = "create" /\ request'[r].ws = w
             /\ request'[r].pc = "owner"
  BY <1>1 DEF CreateWorkspace, Ready, Open, Moves, TypeOK
<1>2. ASSUME NEW w \in Workspaces, NEW u \in Users, NEW op \in Operations,
             NEW target \in Targets(op, u), NEW role \in Grants(op),
             Enter(r, op, w, u, target, role)
      PROVE  /\ request[r] = NoRequest /\ Moves(r)
             /\ UNCHANGED <<workspaces, preferences, members, invitations, audit, faults, history>>
             /\ request'[r].pc \in {"pending", "target", "row", "ensure", "check"}
  <2>1. Start(op) \in {"pending", "target", "row", "ensure", "check"}
    BY DEF Operations, RoutePermission, Start
  <2>2. QED
    BY <1>2, <2>1 DEF Enter, Ready, Open, Moves, TypeOK, tables
<1>3. ASSUME NEW t \in Tokens, NEW u \in Users, ReadInvitation(r, t, u)
      PROVE  /\ request[r] = NoRequest /\ Moves(r)
             /\ UNCHANGED <<workspaces, preferences, members, invitations, audit, faults, history>>
             /\ request'[r].pc = "join"
  BY <1>3 DEF ReadInvitation, Ready, Open, Moves, TypeOK, tables
<1>4. QED
  BY <1>1, <1>2, <1>3 DEF Beginning

LEMMA BeginningFits ==
    ASSUME TypeOK, RequestsFit, Founded, OwnersRecorded, NEW r \in Requests, Beginning(r)
    PROVE  RequestsFit'
<1>1. Moves(r) /\ UNCHANGED <<members, invitations, history>>
  BY BeginningIs
<1>2. Grows
  <2>1. \A w \in Workspaces : workspaces[w] # NoRow => workspaces'[w] # NoRow
    BY BeginningIs DEF TypeOK
  <2>2. QED
    BY <1>1, <2>1 DEF Grows, history
<1>3. ASSUME NEW w \in Workspaces, NEW u \in Users, CreateWorkspace(r, w, u)
      PROVE  Fits(request[r])'
  <2>1. /\ request'[r].op = "create" /\ request'[r].ws = w /\ request'[r].pc = "owner"
        /\ workspaces'[w] = [active |-> TRUE, version |-> 1]
    BY <1>3 DEF CreateWorkspace, Open, TypeOK
  <2>2. [active |-> TRUE, version |-> 1] # NoRow
    <3>1. [active |-> TRUE, version |-> 1] \in Workspace
      BY DEF Workspace
    <3>2. QED
      BY <3>1, RowsAreRows
  <2>3. QED
    BY <2>1, <2>2 DEF Fits
<1>4. ASSUME NEW w \in Workspaces, NEW u \in Users, NEW op \in Operations,
             NEW target \in Targets(op, u), NEW role \in Grants(op),
             Enter(r, op, w, u, target, role)
      PROVE  Fits(request[r])'
  <2>1. /\ request'[r].op = op /\ request'[r].ws = w /\ request'[r].pc = Start(op)
        /\ request'[r].actor = u /\ request'[r].acting = members[w][u].role
    BY <1>4 DEF Enter, Open, TypeOK
  <2>2. workspaces'[w] # NoRow /\ Active(w, u)
    BY <1>2, <1>4 DEF Enter, Admitted, Grows
  <2>3. u \in Rows(w)' /\ (members[w][u].role = "owner" => u \in ever_owner'[w])
    BY <1>1, <2>2 DEF Active, Rows, OwnersRecorded, Owners, Owns, history
  <2>4. op \notin {"create", "accept"}
    BY DEF Operations, RoutePermission
  <2>5. /\ Start(op) \in {"pending", "target", "row", "ensure", "check"}
        /\ Start(op) = "pending" => op = "invite"
        /\ Start(op) \in {"row", "check"} => op \in {"settings", "preferences", "deactivate"}
    BY DEF Operations, RoutePermission, Start
  <2>6. QED
    BY <2>1, <2>2, <2>3, <2>4, <2>5 DEF Fits
<1>5. ASSUME NEW t \in Tokens, NEW u \in Users, ReadInvitation(r, t, u)
      PROVE  Fits(request[r])'
  <2>1. /\ request'[r].op = "accept" /\ request'[r].ws = invitations[t].ws
        /\ request'[r].pc = "join" /\ request'[r].acting = "viewer"
        /\ request'[r].token = t /\ request'[r].role = invitations[t].role
    BY <1>5 DEF ReadInvitation, Open, TypeOK
  <2>2. invitations[t] # NoRow /\ invitations[t].ws \in Workspaces
    BY <1>5 DEF ReadInvitation, TypeOK, Invitation
  <2>3. workspaces[invitations[t].ws] # NoRow /\ Rows(invitations[t].ws) # {}
    BY <2>2 DEF Founded
  <2>4. workspaces'[request'[r].ws] # NoRow
    BY <1>2, <2>1, <2>2, <2>3 DEF Grows
  <2>5. Rows(request[r].ws)' # {}
    BY <1>1, <2>1, <2>3 DEF Rows
  <2>6. QED
    BY <1>1, <2>1, <2>2, <2>4, <2>5 DEF Fits
<1>6. Fits(request[r])'
  BY <1>3, <1>4, <1>5 DEF Beginning
<1>7. QED
  BY <1>1, <1>2, <1>6, FitsOthers

LEMMA AnswerIs ==
    ASSUME TypeOK, NEW r \in Requests, Answer(r)
    PROVE  Moves(r) /\ request'[r] = NoRequest /\ ~InFlight(r)'
BY DEF TypeOK, Answer, Moves, InFlight

LEMMA AdvanceIs ==
    ASSUME TypeOK, NEW r \in Requests, InFlight(r), NEW place \in Places, Advance(r, place)
    PROVE  /\ Moves(r)
           /\ request'[r] # NoRequest /\ request'[r].pc = place
           /\ request'[r].op = request[r].op /\ request'[r].ws = request[r].ws
           /\ request'[r].actor = request[r].actor /\ request'[r].acting = request[r].acting
           /\ request'[r].target = request[r].target /\ request'[r].role = request[r].role
           /\ request'[r].token = request[r].token /\ request'[r].version = request[r].version
<1>1. request'[r] = [request[r] EXCEPT !.pc = place] /\ Moves(r)
  BY DEF TypeOK, Advance, Moves
<1>2. [request[r] EXCEPT !.pc = place] \in Request
  BY RequestTyped DEF Request, Places
<1>3. QED
  BY <1>1, <1>2, RequestTyped, RequestAssumption DEF Request

LEMMA ReadingFits ==
    ASSUME TypeOK, RequestsFit, OwnersRecorded, NEW r \in Requests, Reading(r)
    PROVE  Grows /\ Moves(r) /\ RequestsFit'
<1> DEFINE q == request[r]
<1>1. InFlight(r) /\ UNCHANGED <<tables, audit, received, faults, history>>
  BY DEF Reading, LookupPending, ReadTarget, CountOwners, ReadGiver, ReadReceiver, ReadVersion,
         CheckVersion, At, InFlight
<1>2. Grows
  BY <1>1 DEF Grows, tables, history
<1>3. Fits(q) /\ q \in Request
  BY <1>1, RequestTyped DEF RequestsFit
<1>4. ASSUME NEW place \in {"insert", "count", "write", "receiver", "promote", "check", "commit"}
      PROVE  place \in Places
  BY DEF Places, Decided
<1>5. CASE Answer(r)
  BY <1>2, <1>5, AnswerIs, FitsOthers
<1>6. CASE LookupPending(r)
  <2>1. CASE Advance(r, "insert") /\ q.pc = "pending" /\ (q.role = "owner" => q.acting = "owner")
    <3>1. Fits(request[r])'
      BY <1>1, <1>3, <1>4, <2>1, AdvanceIs DEF Fits, Rows, tables, history
    <3>2. QED
      BY <1>1, <1>2, <1>4, <2>1, <3>1, AdvanceIs, FitsOthers
  <2>2. QED
    BY <1>5, <1>6, <2>1 DEF LookupPending, At
<1>7. CASE ReadTarget(r)
  <2>1. ASSUME NEW place \in {"count", "write"}, Advance(r, place),
               q.op \in {"change_role", "remove", "leave"}, members[q.ws][q.target] # NoRow,
               q.op = "change_role" /\ q.role = "owner" => q.acting = "owner"
        PROVE  Moves(r) /\ RequestsFit'
    <3>1. q.target \in Rows(q.ws)
      BY <1>1, <2>1, RequestTyped DEF Rows
    <3>2. Fits(request[r])'
      BY <1>1, <1>3, <1>4, <2>1, <3>1, AdvanceIs DEF Fits, Rows, tables, history
    <3>3. QED
      BY <1>1, <1>2, <1>4, <2>1, <3>2, AdvanceIs, FitsOthers
  <2>2. QED
    BY <1>2, <1>5, <1>7, <2>1 DEF ReadTarget, MayManage
<1>8. CASE CountOwners(r)
  <2>1. CASE Advance(r, "write") /\ q.pc = "count"
    <3>1. Fits(request[r])'
      BY <1>1, <1>3, <1>4, <2>1, AdvanceIs DEF Fits, Rows, tables, history
    <3>2. QED
      BY <1>1, <1>2, <1>4, <2>1, <3>1, AdvanceIs, FitsOthers
  <2>2. QED
    BY <1>5, <1>8, <2>1 DEF CountOwners, At
<1>9. CASE ReadGiver(r)
  <2>1. CASE Advance(r, "receiver") /\ q.op = "transfer" /\ Owns(members[q.ws][q.actor])
    <3>1. q.actor \in ever_owner[q.ws]
      BY <1>1, <2>1, RequestTyped DEF OwnersRecorded, Owners
    <3>2. Fits(request[r])'
      BY <1>1, <1>3, <1>4, <2>1, <3>1, AdvanceIs DEF Fits, Rows, tables, history
    <3>3. QED
      BY <1>1, <1>2, <1>4, <2>1, <3>2, AdvanceIs, FitsOthers
  <2>2. QED
    BY <1>5, <1>9, <2>1 DEF ReadGiver
<1>10. CASE ReadReceiver(r)
  <2>1. CASE Advance(r, "promote") /\ q.pc = "receiver" /\ Active(q.ws, q.target)
    <3>1. q.target \in Rows(q.ws)
      BY <1>1, <2>1, RequestTyped DEF Active, Rows
    <3>2. Fits(request[r])'
      BY <1>1, <1>3, <1>4, <2>1, <3>1, AdvanceIs DEF Fits, Rows, tables, history
    <3>3. QED
      BY <1>1, <1>2, <1>4, <2>1, <3>2, AdvanceIs, FitsOthers
  <2>2. QED
    BY <1>5, <1>10, <2>1 DEF ReadReceiver, At
<1>11. ASSUME NEW v \in Nat, NEW place \in {"check", "commit"}, q.pc \in {"row", "check"},
              request' = [request EXCEPT ![r].version = v, ![r].pc = place]
       PROVE  Moves(r) /\ RequestsFit'
  <2>1. request'[r] = [q EXCEPT !.version = v, !.pc = place] /\ Moves(r)
    BY <1>11 DEF TypeOK, Moves
  <2>2. Fits(request[r])'
    <3>1. /\ request'[r].pc = place
          /\ request'[r].op = q.op /\ request'[r].ws = q.ws
          /\ request'[r].actor = q.actor /\ request'[r].acting = q.acting
      BY <1>3, <2>1 DEF Request
    <3>2. QED
      BY <1>1, <1>3, <1>11, <3>1 DEF Fits, Rows, tables, history
  <2>3. QED
    BY <1>2, <2>1, <2>2, FitsOthers
<1>12. CASE ReadVersion(r) \/ CheckVersion(r)
  <2>1. workspaces[q.ws] \in Workspace /\ preferences[q.ws] \in Nat
    BY <1>3 DEF Fits, TypeOK, Request
  <2>2. Version(q) \in Nat /\ Effective(Version(q)) \in Nat
    BY <2>1 DEF Version, Effective, Workspace
  <2>3. QED
    <3>1. CASE ReadVersion(r)
      BY <1>2, <1>11, <2>2, <3>1 DEF ReadVersion, At
    <3>2. CASE CheckVersion(r)
      BY <1>2, <1>5, <1>11, <2>2, <3>2 DEF CheckVersion, At
    <3>3. QED
      BY <1>12, <3>1, <3>2
<1>13. QED
  BY <1>2, <1>6, <1>7, <1>8, <1>9, <1>10, <1>12 DEF Reading

LEMMA ChangingGrows ==
    ASSUME TypeOK, RequestsFit, NEW r \in Requests, Changing(r)
    PROVE  Grows
<1>1. UNCHANGED <<workspaces, invitations>>
  BY ChangeIs
<1>2. CASE UNCHANGED <<members, history>>
  BY <1>1, <1>2 DEF Grows, history
<1>3. ASSUME NEW u \in Users, NEW m \in Member, NEW by \in Users, NEW audited \in BOOLEAN,
             SetMember(r, u, m, by, audited)
      PROVE  Grows
  <2>1. request[r].ws \in Workspaces /\ m # NoRow
    BY ChangeIs, RequestTyped, RowsAreRows
  <2>2. \A w \in Workspaces, v \in Users : members[w][v] # NoRow => members'[w][v] # NoRow
    BY <1>3, <2>1 DEF SetMember, TypeOK
  <2>3. \A w \in Workspaces : ever_owner[w] \subseteq ever_owner'[w]
    BY <1>3, <2>1 DEF SetMember, TypeOK
  <2>4. QED
    BY <1>1, <2>2, <2>3 DEF Grows
<1>4. QED
  BY <1>2, <1>3, ChangeIs

LEMMA ChangingFits ==
    ASSUME TypeOK, RequestsFit, NEW r \in Requests, Changing(r)
    PROVE  Grows /\ Moves(r) /\ RequestsFit'
<1> DEFINE q == request[r]
<1>1. Grows /\ InFlight(r) /\ UNCHANGED invitations
  BY ChangingGrows, ChangeIs
<1>2. Fits(q) /\ q \in Request
  BY <1>1, RequestTyped DEF RequestsFit
<1>3. \A p \in Request : p = q => Fits(p)'
  BY <1>1, <1>2, FitsStable
<1>4. {"mark", "audit", "demote"} \subseteq Places
  BY DEF Places, Decided
<1>5. CASE Answer(r)
  BY <1>1, <1>5, AnswerIs, FitsOthers
<1>6. ASSUME NEW place \in {"mark", "audit", "demote"}, Advance(r, place),
             place = "mark" => q.pc = "join", place = "demote" => q.pc = "promote"
      PROVE  Moves(r) /\ RequestsFit'
  <2>1. Fits(q)'
    BY <1>1, <1>4, <1>6, <1>2, <1>3, AdvanceIs DEF Fits, Rows
  <2>2. QED
    BY <1>1, <1>4, <1>6, <2>1, AdvanceIs, FitsOthers
<1>7. \/ Answer(r)
      \/ \E place \in {"mark", "audit", "demote"} :
            /\ Advance(r, place)
            /\ place = "mark" => q.pc = "join"
            /\ place = "demote" => q.pc = "promote"
  BY DEF Changing, CreateOwner, Join, WriteMember, Promote, Demote, At
<1>8. QED
  BY <1>1, <1>5, <1>6, <1>7

LEMMA WritingFits ==
    ASSUME TypeOK, RequestsFit, NEW r \in Requests, Writing(r)
    PROVE  Grows /\ Moves(r) /\ RequestsFit'
<1> DEFINE q == request[r]
<1>1. InFlight(r) /\ UNCHANGED <<members, ever_owner>>
  BY DEF Writing, InsertInvitation, MarkAccepted, CommitUpdate, GetPreferences, RecordAudit, Fail,
         At, InFlight, tables, history
<1>2. Fits(q) /\ q \in Request
  BY <1>1, RequestTyped DEF RequestsFit
<1>3. \A w \in Workspaces : workspaces[w] # NoRow => workspaces'[w] # NoRow
  <2>1. CASE CommitUpdate(r)
    <3>1. workspaces[q.ws] \in Workspace /\ Effective(q.version) + 1 \in Nat
      BY <1>2 DEF TypeOK, Fits, Request, Effective
    <3>2. [workspaces[q.ws] EXCEPT !.version = Effective(q.version) + 1,
                                   !.active = @ /\ q.op # "deactivate"] \in Workspace
      BY <3>1 DEF Workspace
    <3>3. workspaces' = workspaces \/
          workspaces' = [workspaces EXCEPT ![q.ws] =
             [workspaces[q.ws] EXCEPT !.version = Effective(q.version) + 1,
                                   !.active = @ /\ q.op # "deactivate"]]
      BY <1>2, <2>1 DEF CommitUpdate, TypeOK, Request
    <3>4. QED
      BY <3>2, <3>3, RowsAreRows DEF TypeOK
  <2>2. CASE UNCHANGED workspaces
    BY <2>2
  <2>3. QED
    BY <2>1, <2>2 DEF Writing, InsertInvitation, MarkAccepted, GetPreferences, RecordAudit, Fail,
                      tables
<1>4. \A t \in Tokens : invitations[t] # NoRow =>
          /\ invitations'[t] # NoRow
          /\ invitations'[t].ws = invitations[t].ws /\ invitations'[t].role = invitations[t].role
          /\ invitations'[t].by = invitations[t].by
  <2>1. CASE \E t \in Tokens : InsertInvitation(r, t)
    BY <2>1 DEF InsertInvitation, TypeOK
  <2>2. CASE MarkAccepted(r)
    <3>1. q.token \in Tokens /\ invitations[q.token] \in Invitation
      BY <1>2, <2>2 DEF MarkAccepted, At, Fits, TypeOK
    <3>2. [invitations[q.token] EXCEPT !.status = "accepted"] \in Invitation
      BY <3>1 DEF Invitation
    <3>3. invitations' = [invitations EXCEPT ![q.token] =
                            [invitations[q.token] EXCEPT !.status = "accepted"]]
      BY <2>2 DEF MarkAccepted, TypeOK
    <3>4. QED
      BY <3>1, <3>2, <3>3, RowsAreRows DEF TypeOK, Invitation
  <2>3. CASE UNCHANGED invitations
    BY <2>3
  <2>4. QED
    BY <2>1, <2>2, <2>3 DEF Writing, CommitUpdate, GetPreferences, RecordAudit, Fail, tables
<1>5. Grows
  BY <1>1, <1>3, <1>4 DEF Grows
<1>6. CASE Answer(r)
  BY <1>5, <1>6, AnswerIs, FitsOthers
<1>7. CASE Advance(r, "audit")
  <2>1. "audit" \in Places /\ Fits(q)'
    <3>1. \A p \in Request : p = q => Fits(p)'
      BY <1>2, <1>5, FitsStable
    <3>2. "audit" \in Places
      BY DEF Places
    <3>3. QED
      BY <1>1, <1>2, <1>7, <3>1, <3>2, AdvanceIs DEF Fits, Rows
  <2>2. QED
    BY <1>1, <1>5, <1>7, <2>1, AdvanceIs, FitsOthers
<1>8. QED
  BY <1>5, <1>6, <1>7
     DEF Writing, InsertInvitation, MarkAccepted, CommitUpdate, GetPreferences, RecordAudit, Fail

LEMMA ExpireIs ==
    ASSUME TypeOK, NEW t \in Tokens, Expire(t)
    PROVE  /\ UNCHANGED <<workspaces, preferences, members, audit, request, received, faults, history>>
           /\ \A v \in Tokens : invitations'[v] # NoRow => invitations[v] # NoRow
           /\ Grows
<1>1. UNCHANGED <<workspaces, preferences, members, audit, request, received, faults, history>>
  BY DEF Expire
<1>2. invitations[t] \in Invitation
  BY DEF Expire, TypeOK
<1>3. [invitations[t] EXCEPT !.status = "expired"] \in Invitation
  BY <1>2 DEF Invitation
<1>4. invitations' = [invitations EXCEPT ![t] = [invitations[t] EXCEPT !.status = "expired"]]
  BY DEF Expire, TypeOK
<1>5. \A v \in Tokens : invitations[v] # NoRow =>
          /\ invitations'[v] # NoRow
          /\ invitations'[v].ws = invitations[v].ws /\ invitations'[v].role = invitations[v].role
          /\ invitations'[v].by = invitations[v].by
  BY <1>2, <1>3, <1>4, RowsAreRows DEF TypeOK, Invitation
<1>6. \A v \in Tokens : invitations'[v] # NoRow => invitations[v] # NoRow
  BY <1>2, <1>4, RowsAreRows DEF TypeOK
<1>7. Grows
  BY <1>1, <1>5 DEF Grows, history
<1>8. QED
  BY <1>1, <1>6, <1>7

LEMMA NextFits ==
    ASSUME TypeOK, RequestsFit, Founded, OwnersRecorded, [Next]_vars
    PROVE  RequestsFit'
<1>1. ASSUME NEW r \in Requests, Step(r) PROVE RequestsFit'
  BY <1>1, StepIs, BeginningFits, ReadingFits, ChangingFits, WritingFits
<1>2. ASSUME UNCHANGED <<workspaces, members, request, history>>, Grows PROVE RequestsFit'
  <2> SUFFICES ASSUME NEW r \in Requests, InFlight(r) PROVE Fits(request[r])'
    BY <1>2 DEF RequestsFit, InFlight
  <2>1. request[r] \in Request /\ Fits(request[r]) /\ request' = request
    BY <1>2, RequestTyped DEF RequestsFit
  <2>2. QED
    BY <1>2, <2>1, FitsStable DEF Fits, Rows
<1>3. ASSUME NEW t \in Tokens, Expire(t) PROVE RequestsFit'
  BY <1>2, <1>3, ExpireIs
<1>4. CASE UNCHANGED vars
  BY <1>2, <1>4 DEF vars, tables, history, Grows
<1>5. QED
  BY <1>1, <1>3, <1>4 DEF Next

-----------------------------------------------------------------------------
(* A workspace has its owner's row first                                     *)

LEMMA FoundedStep ==
    ASSUME TypeOK, Founded, Grows, UNCHANGED members,
           \A r \in Requests : At(r, "owner")' => At(r, "owner") /\ request'[r] = request[r],
           \A w \in Workspaces : workspaces'[w] = NoRow => edits'[w] = edits[w],
           \A t \in Tokens : invitations'[t] # NoRow =>
               \/ invitations[t] # NoRow
               \/ /\ invitations'[t].ws \in Workspaces
                  /\ workspaces[invitations'[t].ws] # NoRow /\ Rows(invitations'[t].ws) # {}
    PROVE  Founded'
<1>1. \A w : Rows(w)' = Rows(w)
  BY DEF Rows
<1>2. \A w \in Workspaces : workspaces'[w] = NoRow => Rows(w)' = {} /\ edits'[w] = 0
  BY <1>1 DEF Founded, Grows
<1>3. ASSUME NEW t \in Tokens, invitations'[t] # NoRow
      PROVE  workspaces'[invitations'[t].ws] # NoRow /\ Rows(invitations[t].ws)' # {}
  <2>1. /\ invitations'[t].ws \in Workspaces
        /\ workspaces[invitations'[t].ws] # NoRow /\ Rows(invitations'[t].ws) # {}
    BY <1>3 DEF Founded, Grows, TypeOK, Invitation
  <2>2. QED
    BY <1>1, <2>1 DEF Grows, Rows
<1>4. ASSUME NEW r \in Requests, At(r, "owner")' PROVE Rows(request[r].ws)' = {}
  BY <1>1, <1>4 DEF Founded, Rows
<1>5. \A r, q \in Requests :
          At(r, "owner")' /\ At(q, "owner")' /\ request'[r].ws = request'[q].ws => r = q
  BY DEF Founded
<1>6. QED
  BY <1>2, <1>3, <1>4, <1>5 DEF Founded

LEMMA BeginningFounded ==
    ASSUME TypeOK, RequestsFit, Founded, OwnersRecorded, NEW r \in Requests, Beginning(r)
    PROVE  Founded'
<1>1. /\ request[r] = NoRequest /\ Moves(r)
      /\ UNCHANGED <<preferences, members, invitations, audit, faults, history>>
  BY BeginningIs
<1>2. ASSUME NEW w \in Workspaces, workspaces[w] = NoRow,
             workspaces' = [workspaces EXCEPT ![w] = [active |-> TRUE, version |-> 1]],
             request'[r].ws = w
      PROVE  Founded'
  <2>1. \A v \in Workspaces : workspaces'[v] = NoRow => workspaces[v] = NoRow
    <3>1. [active |-> TRUE, version |-> 1] \in Workspace
      BY DEF Workspace
    <3>2. QED
      BY <1>2, <3>1, RowsAreRows DEF TypeOK
  <2>2. \A v : Rows(v)' = Rows(v)
    BY <1>1 DEF Rows
  <2>3. Rows(w) = {}
    BY <1>2 DEF Founded
  <2>4. \A q \in Requests \ {r} : InFlight(q)' => request'[q] = request[q] /\ request[q].ws # w
    BY <1>1, <1>2 DEF Moves, RequestsFit, Fits, InFlight
  <2>5. \A v \in Workspaces : workspaces'[v] = NoRow => Rows(v)' = {} /\ edits'[v] = 0
    BY <1>1, <2>1, <2>2 DEF Founded, history
  <2>6. ASSUME NEW t \in Tokens, invitations'[t] # NoRow
        PROVE  workspaces'[invitations'[t].ws] # NoRow /\ Rows(invitations[t].ws)' # {}
    BY <1>1, <2>1, <2>6 DEF Founded, TypeOK, Invitation, Rows
  <2>7. ASSUME NEW q \in Requests, At(q, "owner")' PROVE Rows(request[q].ws)' = {}
    BY <1>1, <1>2, <2>3, <2>4, <2>7 DEF Founded, Rows, At, InFlight
  <2>8. ASSUME NEW q \in Requests, NEW p \in Requests, At(q, "owner")', At(p, "owner")',
               request'[q].ws = request'[p].ws
        PROVE  q = p
    BY <1>2, <2>4, <2>8 DEF Founded, At, InFlight
  <2>9. QED
    BY <2>5, <2>6, <2>7, <2>8 DEF Founded
<1>3. CASE UNCHANGED workspaces /\ request'[r].pc \in {"join", "pending", "target", "row", "ensure", "check"}
  <2>1. \A q \in Requests : At(q, "owner")' => At(q, "owner") /\ request'[q] = request[q]
    BY <1>1, <1>3 DEF Moves, At
  <2>2. Grows
    BY <1>1, <1>3 DEF Grows, history
  <2>3. QED
    BY <1>1, <1>3, <2>1, <2>2, FoundedStep DEF history
<1>4. QED
  BY <1>2, <1>3, BeginningIs

LEMMA ReadingFounded ==
    ASSUME TypeOK, RequestsFit, Founded, OwnersRecorded, NEW r \in Requests, Reading(r)
    PROVE  Founded'
<1>1. InFlight(r) /\ UNCHANGED <<tables, history>> /\ Grows /\ Moves(r)
  BY ReadingFits DEF Reading, LookupPending, ReadTarget, CountOwners, ReadGiver, ReadReceiver,
                     ReadVersion, CheckVersion, At, InFlight
<1>2. ~At(r, "owner")'
  <2>1. CASE ReadVersion(r) \/ CheckVersion(r)
    <3>1. CASE Answer(r)
      BY <3>1, AnswerIs DEF InFlight, At
    <3>2. ASSUME NEW v, NEW place \in {"check", "commit"},
                 request' = [request EXCEPT ![r].version = v, ![r].pc = place]
          PROVE  ~At(r, "owner")'
      BY <1>1, <3>2, RequestTyped DEF At, TypeOK, Request
    <3>3. QED
      BY <2>1, <3>1, <3>2 DEF ReadVersion, CheckVersion
  <2>2. CASE LookupPending(r) \/ ReadTarget(r) \/ CountOwners(r) \/ ReadGiver(r) \/ ReadReceiver(r)
    <3>1. Answer(r) \/ \E place \in {"insert", "count", "write", "receiver", "promote"} :
                           Advance(r, place)
      BY <2>2 DEF LookupPending, ReadTarget, CountOwners, ReadGiver, ReadReceiver
    <3>2. {"insert", "count", "write", "receiver", "promote"} \subseteq Places
      BY DEF Places, Decided
    <3>3. QED
      BY <1>1, <3>1, <3>2, AnswerIs, AdvanceIs DEF InFlight, At
  <2>3. QED
    BY <2>1, <2>2 DEF Reading
<1>3. \A q \in Requests : At(q, "owner")' => At(q, "owner") /\ request'[q] = request[q]
  BY <1>1, <1>2 DEF Moves, At
<1>4. QED
  BY <1>1, <1>3, FoundedStep DEF tables, history

LEMMA ChangingFounded ==
    ASSUME TypeOK, RequestsFit, Founded, OwnersRecorded, NEW r \in Requests, Changing(r)
    PROVE  Founded'
<1> DEFINE q == request[r]
<1>1. /\ InFlight(r) /\ Grows /\ Moves(r)
      /\ UNCHANGED <<workspaces, preferences, invitations, audit, received, faults, edits>>
  BY ChangeIs, ChangingFits
<1>2. q \in Request /\ Fits(q)
  BY <1>1, RequestTyped DEF RequestsFit
<1>3. ~At(r, "owner")'
  <2>1. Answer(r) \/ \E place \in {"mark", "audit", "demote"} : Advance(r, place)
    BY ChangeIs
  <2>2. {"mark", "audit", "demote"} \subseteq Places
    BY DEF Places, Decided
  <2>3. QED
    BY <1>1, <2>1, <2>2, AnswerIs, AdvanceIs DEF InFlight, At
<1>4. \A p \in Requests : At(p, "owner")' => At(p, "owner") /\ request'[p] = request[p] /\ p # r
  BY <1>1, <1>3 DEF Moves, At
<1>5. \A w \in Workspaces : w # q.ws => Rows(w)' = Rows(w)
  <2>1. \A w \in Workspaces : w # q.ws => members'[w] = members[w]
    <3>1. CASE UNCHANGED members
      BY <3>1
    <3>2. ASSUME NEW u, NEW m, NEW by, NEW audited, SetMember(r, u, m, by, audited)
          PROVE  \A w \in Workspaces : w # q.ws => members'[w] = members[w]
      BY <3>2 DEF SetMember, TypeOK
    <3>3. QED
      BY <3>1, <3>2, ChangeIs
  <2>2. QED
    BY <2>1 DEF Rows
<1>6. Rows(q.ws) # {} \/ At(r, "owner")
  BY <1>1, <1>2 DEF Fits, Changing, CreateOwner, Join, WriteMember, Promote, Demote, At
<1>7. \A w \in Workspaces : Rows(w) \subseteq Rows(w)'
  BY <1>1 DEF Grows, Rows
<1>8. \A w \in Workspaces : workspaces'[w] = NoRow => Rows(w)' = {} /\ edits'[w] = 0
  BY <1>1, <1>2, <1>5 DEF Founded, Fits
<1>9. \A t \in Tokens : invitations'[t] # NoRow =>
          workspaces'[invitations'[t].ws] # NoRow /\ Rows(invitations[t].ws)' # {}
  <2> SUFFICES ASSUME NEW t \in Tokens, invitations[t] # NoRow
               PROVE  workspaces[invitations[t].ws] # NoRow /\ Rows(invitations[t].ws)' # {}
    BY <1>1 DEF Rows
  <2>1. /\ invitations[t].ws \in Workspaces
        /\ workspaces[invitations[t].ws] # NoRow /\ Rows(invitations[t].ws) # {}
    BY DEF Founded, TypeOK, Invitation
  <2>2. QED
    BY <1>1, <1>7, <2>1 DEF Rows
<1>10. ASSUME NEW p \in Requests, At(p, "owner")' PROVE Rows(request[p].ws)' = {}
  <2>1. /\ At(p, "owner") /\ request'[p] = request[p] /\ p # r
        /\ request[p].ws \in Workspaces /\ Rows(request[p].ws) = {}
    BY <1>4, <1>10, RequestTyped DEF Founded, At, InFlight
  <2>2. request[p].ws # q.ws
    BY <1>6, <2>1 DEF Founded
  <2>3. QED
    BY <1>5, <2>1, <2>2 DEF Rows
<1>11. \A p, o \in Requests :
          At(p, "owner")' /\ At(o, "owner")' /\ request'[p].ws = request'[o].ws => p = o
  BY <1>4 DEF Founded
<1>12. QED
  BY <1>8, <1>9, <1>10, <1>11 DEF Founded

LEMMA WritingFounded ==
    ASSUME TypeOK, RequestsFit, Founded, OwnersRecorded, NEW r \in Requests, Writing(r)
    PROVE  Founded'
<1> DEFINE q == request[r]
<1>1. /\ InFlight(r) /\ Grows /\ Moves(r) /\ UNCHANGED members
  BY WritingFits DEF Writing, InsertInvitation, MarkAccepted, CommitUpdate, GetPreferences,
                     RecordAudit, Fail, At, InFlight, tables
<1>2. q \in Request /\ Fits(q)
  BY <1>1, RequestTyped DEF RequestsFit
<1>3. ~At(r, "owner")'
  <2>1. Answer(r) \/ Advance(r, "audit")
    BY DEF Writing, InsertInvitation, MarkAccepted, CommitUpdate, GetPreferences, RecordAudit, Fail
  <2>2. "audit" \in Places
    BY DEF Places
  <2>3. QED
    BY <1>1, <2>1, <2>2, AnswerIs, AdvanceIs DEF InFlight, At
<1>4. \A p \in Requests : At(p, "owner")' => At(p, "owner") /\ request'[p] = request[p]
  BY <1>1, <1>3 DEF Moves, At
<1>5. \A w \in Workspaces : workspaces'[w] = NoRow => edits'[w] = edits[w]
  <2>1. CASE CommitUpdate(r)
    <3>1. edits' = edits \/ edits' = [edits EXCEPT ![q.ws] = @ + 1]
      BY <2>1 DEF CommitUpdate, history
    <3>2. workspaces'[q.ws] # NoRow
      BY <1>1, <1>2 DEF Grows, Fits, Request
    <3>3. QED
      BY <3>1, <3>2 DEF TypeOK
  <2>2. CASE UNCHANGED edits
    BY <2>2
  <2>3. QED
    BY <2>1, <2>2 DEF Writing, InsertInvitation, MarkAccepted, GetPreferences, RecordAudit, Fail,
                      history
<1>6. ASSUME NEW t \in Tokens, invitations'[t] # NoRow
      PROVE  \/ invitations[t] # NoRow
             \/ /\ invitations'[t].ws \in Workspaces
                /\ workspaces[invitations'[t].ws] # NoRow /\ Rows(invitations'[t].ws) # {}
  <2>1. CASE \E v \in Tokens : InsertInvitation(r, v)
    <3>1. q.ws \in Workspaces /\ workspaces[q.ws] # NoRow /\ Rows(q.ws) # {}
      BY <1>2, <2>1 DEF Fits, Request, InsertInvitation, At
    <3>2. invitations'[t] = invitations[t] \/ invitations'[t].ws = q.ws
      BY <2>1 DEF InsertInvitation, TypeOK
    <3>3. QED
      BY <1>6, <3>1, <3>2
  <2>2. CASE MarkAccepted(r)
    <3>1. q.token \in Tokens /\ invitations[q.token] # NoRow
      BY <1>2, <2>2 DEF MarkAccepted, Fits, At
    <3>2. t # q.token => invitations'[t] = invitations[t]
      BY <2>2 DEF MarkAccepted, TypeOK
    <3>3. QED
      BY <1>6, <3>1, <3>2
  <2>3. CASE UNCHANGED invitations
    BY <1>6, <2>3
  <2>4. QED
    BY <2>1, <2>2, <2>3 DEF Writing, CommitUpdate, GetPreferences, RecordAudit, Fail, tables
<1>7. QED
  BY <1>1, <1>4, <1>5, <1>6, FoundedStep

LEMMA NextFounded ==
    ASSUME TypeOK, RequestsFit, Founded, OwnersRecorded, [Next]_vars
    PROVE  Founded'
<1>1. ASSUME NEW r \in Requests, Step(r) PROVE Founded'
  BY <1>1, StepIs, BeginningFounded, ReadingFounded, ChangingFounded, WritingFounded
<1>2. ASSUME UNCHANGED <<workspaces, members, request, history>>, Grows,
             \A t \in Tokens : invitations'[t] # NoRow => invitations[t] # NoRow
      PROVE  Founded'
  BY <1>2, FoundedStep DEF history, At
<1>3. ASSUME NEW t \in Tokens, Expire(t) PROVE Founded'
  BY <1>2, <1>3, ExpireIs
<1>4. CASE UNCHANGED vars
  BY <1>2, <1>4 DEF vars, tables, history, Grows
<1>5. QED
  BY <1>1, <1>3, <1>4 DEF Next

-----------------------------------------------------------------------------
(* The owner role comes from owners                                          *)

LEMMA QuietMembers ==
    ASSUME TypeOK, NEW r \in Requests, Beginning(r) \/ Reading(r) \/ Writing(r)
    PROVE  /\ UNCHANGED <<members, ever_owner, grantor>>
           /\ crossed \subseteq crossed'
           /\ Writing(r) \/ UNCHANGED <<invitations, history>>
<1>1. CASE Beginning(r) \/ Reading(r)
  BY <1>1, BeginningIs
     DEF Reading, LookupPending, ReadTarget, CountOwners, ReadGiver, ReadReceiver, ReadVersion,
         CheckVersion, tables, history
<1>2. CASE Writing(r)
  BY <1>2 DEF Writing, InsertInvitation, MarkAccepted, CommitUpdate, GetPreferences, RecordAudit,
              Fail, tables, history, Crossing
<1>3. QED
  BY <1>1, <1>2

LEMMA MemberSet ==
    ASSUME TypeOK, NEW r \in Requests, InFlight(r), NEW u \in Users, NEW m \in Member,
           NEW by, NEW audited \in BOOLEAN, SetMember(r, u, m, by, audited)
    PROVE  /\ request[r].ws \in Workspaces
           /\ \A w \in Workspaces, v \in Users :
                 members'[w][v] = IF w = request[r].ws /\ v = u THEN m ELSE members[w][v]
           /\ \A w \in Workspaces, v \in Users :
                 w # request[r].ws \/ v # u => grantor'[w][v] = grantor[w][v]
           /\ \A w \in Workspaces : w # request[r].ws => ever_owner'[w] = ever_owner[w]
           /\ ever_owner[request[r].ws] \subseteq ever_owner'[request[r].ws]
           /\ Owns(m) => u \in ever_owner'[request[r].ws]
           /\ \/ grantor'[request[r].ws][u] = by
              \/ /\ grantor'[request[r].ws][u] = grantor[request[r].ws][u]
                 /\ members[request[r].ws][u] # NoRow
                 /\ m.role = members[request[r].ws][u].role
           /\ crossed \subseteq crossed'
<1> DEFINE w == request[r].ws
<1>1. w \in Workspaces
  BY RequestTyped
<1>2. members \in [Workspaces -> [Users -> Member \cup {NoRow}]]
  BY DEF TypeOK
<1>3. ever_owner \in [Workspaces -> SUBSET Users] /\ grantor \in [Workspaces -> [Users -> Users]]
  BY DEF TypeOK
<1>4. members' = [members EXCEPT ![w][u] = m]
  BY DEF SetMember
<1>5. ever_owner' = [ever_owner EXCEPT ![w] = IF Owns(m) THEN @ \cup {u} ELSE @]
  BY DEF SetMember
<1>6. grantor' = [grantor EXCEPT ![w][u] =
                        IF members[w][u] # NoRow /\ m.role = members[w][u].role THEN @ ELSE by]
  BY DEF SetMember
<1>7. crossed \subseteq crossed'
  BY DEF SetMember, Crossing
<1> HIDE DEF w
<1>8. \A x \in Workspaces, v \in Users :
                 members'[x][v] = IF x = w /\ v = u THEN m ELSE members[x][v]
  BY <1>1, <1>2, <1>4
<1>9. \A x \in Workspaces, v \in Users : x # w \/ v # u => grantor'[x][v] = grantor[x][v]
  BY <1>1, <1>3, <1>6
<1>10. /\ \A x \in Workspaces : x # w => ever_owner'[x] = ever_owner[x]
       /\ ever_owner[w] \subseteq ever_owner'[w]
       /\ Owns(m) => u \in ever_owner'[w]
  BY <1>1, <1>3, <1>5
<1>11. \/ grantor'[w][u] = by
       \/ /\ grantor'[w][u] = grantor[w][u]
          /\ members[w][u] # NoRow /\ m.role = members[w][u].role
  BY <1>1, <1>3, <1>6
<1>12. QED
  BY <1>1, <1>7, <1>8, <1>9, <1>10, <1>11 DEF w

LEMMA MemberSetOwners ==
    ASSUME TypeOK, OwnersRecorded, OwnersComeFromOwners, UNCHANGED invitations,
           NEW r \in Requests, InFlight(r), NEW u \in Users, NEW m \in Member,
           NEW by, NEW audited \in BOOLEAN, SetMember(r, u, m, by, audited),
           m.role = "owner" =>
               \/ members[request[r].ws][u] # NoRow /\ members[request[r].ws][u].role = "owner"
               \/ by \in ever_owner[request[r].ws]
               \/ by = u /\ Owns(m)
    PROVE  OwnersRecorded' /\ OwnersComeFromOwners'
<1> DEFINE w == request[r].ws
<1>1. /\ w \in Workspaces
      /\ \A x \in Workspaces, v \in Users :
            members'[x][v] = IF x = w /\ v = u THEN m ELSE members[x][v]
      /\ \A x \in Workspaces : ever_owner[x] \subseteq ever_owner'[x]
      /\ Owns(m) => u \in ever_owner'[w]
  BY MemberSet
<1>2. ASSUME NEW x \in Workspaces, NEW v \in Users, Owns(members'[x][v])
      PROVE  v \in ever_owner'[x]
  BY <1>1, <1>2 DEF OwnersRecorded, Owners
<1>3. ASSUME NEW x \in Workspaces, NEW v \in Users, members'[x][v] # NoRow,
             members'[x][v].role = "owner"
      PROVE  grantor'[x][v] \in ever_owner'[x]
  <2>1. CASE x = w /\ v = u
    <3>1. CASE grantor'[w][u] = grantor[w][u] /\ members[w][u] # NoRow /\ m.role = members[w][u].role
      BY <1>1, <1>3, <2>1, <3>1 DEF OwnersComeFromOwners
    <3>2. CASE grantor'[w][u] = by
      <4>1. CASE members[w][u] # NoRow /\ members[w][u].role = "owner"
        BY <1>1, <1>3, <2>1, <4>1, MemberSet DEF OwnersComeFromOwners, SetMember, TypeOK
      <4>2. CASE by \in ever_owner[w] \/ (by = u /\ Owns(m))
        BY <1>1, <2>1, <3>2, <4>2
      <4>3. QED
        BY <1>1, <1>3, <2>1, <4>1, <4>2
    <3>3. QED
      BY <3>1, <3>2, MemberSet
  <2>2. CASE x # w \/ v # u
    <3>1. grantor'[x][v] = grantor[x][v] /\ members'[x][v] = members[x][v]
      BY <1>1, <2>2, MemberSet
    <3>2. QED
      BY <1>1, <1>3, <3>1 DEF OwnersComeFromOwners
  <2>3. QED
    BY <2>1, <2>2
<1>4. OwnersComeFromOwners'
  BY <1>3 DEF OwnersComeFromOwners
<1>5. ASSUME NEW t \in Tokens, invitations'[t] # NoRow, invitations'[t].role = "owner"
      PROVE  invitations'[t].by \in ever_owner'[invitations'[t].ws]
  <2>1. invitations[t].ws \in Workspaces
    BY <1>5 DEF TypeOK, Invitation
  <2>2. QED
    BY <1>1, <1>5, <2>1 DEF OwnersRecorded
<1>6. QED
  BY <1>2, <1>4, <1>5 DEF OwnersRecorded, Owners

LEMMA NextOwners ==
    ASSUME TypeOK, RequestsFit, OwnersRecorded, OwnersComeFromOwners, [Next]_vars
    PROVE  OwnersRecorded' /\ OwnersComeFromOwners'
<1>1. ASSUME UNCHANGED <<members, ever_owner, grantor, invitations>>
      PROVE  OwnersRecorded' /\ OwnersComeFromOwners'
  BY <1>1 DEF OwnersRecorded, OwnersComeFromOwners, Owners
<1>2. ASSUME UNCHANGED <<members, ever_owner, grantor>>,
             \A t \in Tokens : invitations'[t] # NoRow =>
                 \/ /\ invitations[t] # NoRow
                    /\ invitations'[t].ws = invitations[t].ws
                    /\ invitations'[t].role = invitations[t].role
                    /\ invitations'[t].by = invitations[t].by
                 \/ invitations'[t].role = "owner" =>
                       invitations'[t].by \in ever_owner[invitations'[t].ws]
      PROVE  OwnersRecorded' /\ OwnersComeFromOwners'
  <2>1. ASSUME NEW t \in Tokens, invitations'[t] # NoRow, invitations'[t].role = "owner"
        PROVE  invitations'[t].by \in ever_owner'[invitations'[t].ws]
    BY <1>2, <2>1 DEF OwnersRecorded
  <2>2. QED
    BY <1>2, <2>1 DEF OwnersRecorded, OwnersComeFromOwners, Owners
<1>3. ASSUME NEW r \in Requests, Changing(r)
      PROVE  OwnersRecorded' /\ OwnersComeFromOwners'
  <2> DEFINE q == request[r]
  <2>1. /\ InFlight(r) /\ UNCHANGED invitations
        /\ q \in Request /\ Fits(q)
    BY <1>3, ChangeIs, RequestTyped DEF RequestsFit
  <2>2. q.ws \in Workspaces /\ q.actor \in Users /\ q.target \in Users /\ q.role \in Roles
    BY <2>1, RequestTyped
  <2>3. \A u \in Rows(q.ws) : members[q.ws][u] \in Member
    BY <2>2 DEF Rows, TypeOK
  <2>4. CASE CreateOwner(r)
    <3>1. /\ [role |-> "owner", status |-> "active"] \in Member
          /\ Owns([role |-> "owner", status |-> "active"])
      BY RowsAreRows DEF Member, Roles, Owns
    <3>2. QED
      BY <2>1, <2>2, <2>4, <3>1, MemberSetOwners DEF CreateOwner
  <2>5. CASE Join(r)
    <3>1. CASE UNCHANGED <<members, history>>
      BY <1>1, <2>1, <3>1 DEF history
    <3>2. CASE SetMember(r, q.actor, [role |-> q.role, status |-> "active"],
                         invitations[q.token].by, TRUE)
      <4>1. /\ q.token \in Tokens /\ invitations[q.token] # NoRow
            /\ invitations[q.token].ws = q.ws /\ invitations[q.token].role = q.role
        BY <2>1, <2>5 DEF Join, At, Fits
      <4>2. q.role = "owner" => invitations[q.token].by \in ever_owner[q.ws]
        BY <4>1 DEF OwnersRecorded
      <4>3. [role |-> q.role, status |-> "active"] \in Member
        BY <2>2 DEF Member
      <4>4. QED
        BY <2>1, <2>2, <3>2, <4>2, <4>3, MemberSetOwners
    <3>3. QED
      BY <2>5, <3>1, <3>2 DEF Join
  <2>6. CASE WriteMember(r)
    <3> DEFINE m == members[q.ws][q.target]
               n == IF q.op = "change_role" THEN [m EXCEPT !.role = q.role]
                                            ELSE [m EXCEPT !.status = "disabled"]
    <3>1. m \in Member /\ m # NoRow
      BY <2>1, <2>3, <2>6 DEF WriteMember, At, Fits, Rows
    <3>2. n \in Member
      BY <2>2, <3>1 DEF Member
    <3>3. n.role = "owner" => m.role = "owner" \/ q.actor \in ever_owner[q.ws]
      <4>1. q.op = "change_role" => n.role = q.role
        BY <3>1 DEF Member
      <4>2. q.op # "change_role" => n.role = m.role
        BY <3>1 DEF Member
      <4>3. q.op = "change_role" /\ q.role = "owner" => q.actor \in ever_owner[q.ws]
        BY <2>1, <2>6 DEF WriteMember, At, Fits
      <4>4. QED
        BY <4>1, <4>2, <4>3
    <3>4. SetMember(r, q.target, n, q.actor, q.op # "leave") /\ (q.op # "leave") \in BOOLEAN
      BY <2>6 DEF WriteMember
    <3> HIDE DEF n
    <3>5. QED
      BY <2>1, <2>2, <3>1, <3>2, <3>3, <3>4, MemberSetOwners
  <2>7. CASE Promote(r)
    <3> DEFINE n == [members[q.ws][q.target] EXCEPT !.role = "owner"]
    <3>1. n \in Member /\ q.actor \in ever_owner[q.ws]
      BY <2>1, <2>3, <2>7 DEF Promote, At, Fits, Rows, Member, Roles
    <3>2. SetMember(r, q.target, n, q.actor, FALSE)
      BY <2>7 DEF Promote
    <3> HIDE DEF n
    <3>3. QED
      BY <2>1, <2>2, <3>1, <3>2, MemberSetOwners
  <2>8. CASE Demote(r)
    <3> DEFINE n == [members[q.ws][q.actor] EXCEPT !.role = "admin"]
    <3>1. n \in Member /\ n.role = "admin"
      BY <2>1, <2>3, <2>8 DEF Demote, At, Fits, Rows, Member, Roles
    <3>2. SetMember(r, q.actor, n, q.actor, TRUE)
      BY <2>8 DEF Demote
    <3> HIDE DEF n
    <3>3. QED
      BY <2>1, <2>2, <3>1, <3>2, MemberSetOwners
  <2>9. QED
    BY <1>3, <2>4, <2>5, <2>6, <2>7, <2>8 DEF Changing
<1>4. ASSUME NEW r \in Requests, Writing(r)
      PROVE  OwnersRecorded' /\ OwnersComeFromOwners'
  <2> DEFINE q == request[r]
  <2>1. Grows /\ UNCHANGED <<members, ever_owner, grantor>>
    BY <1>4, WritingFits, QuietMembers
  <2>2. InFlight(r) => Fits(q) /\ q \in Request
    BY RequestTyped DEF RequestsFit
  <2>3. CASE \E t \in Tokens : InsertInvitation(r, t)
    <3>1. q.role = "owner" => q.actor \in ever_owner[q.ws]
      BY <2>2, <2>3 DEF InsertInvitation, At, InFlight, Fits
    <3>2. PICK t \in Tokens : InsertInvitation(r, t)
      BY <2>3
    <3>3. \/ UNCHANGED invitations
          \/ invitations' = [invitations EXCEPT ![t] =
                     [ws |-> q.ws, email |-> q.target, role |-> q.role, by |-> q.actor,
                      status |-> "open"]]
      BY <3>2 DEF InsertInvitation
    <3>4. CASE UNCHANGED invitations
      BY <1>1, <2>1, <3>4
    <3>5. CASE invitations' = [invitations EXCEPT ![t] =
                     [ws |-> q.ws, email |-> q.target, role |-> q.role, by |-> q.actor,
                      status |-> "open"]]
      <4>1. ASSUME NEW v \in Tokens, invitations'[v] # NoRow
            PROVE  \/ invitations[v] # NoRow /\ invitations'[v] = invitations[v]
                   \/ invitations'[v].role = "owner" =>
                         invitations'[v].by \in ever_owner[invitations'[v].ws]
        BY <3>1, <3>5, <4>1 DEF TypeOK
      <4>2. QED
        BY <1>2, <2>1, <4>1
    <3>6. QED
      BY <3>3, <3>4, <3>5
  <2>4. CASE MarkAccepted(r)
    <3>1. q.token \in Tokens /\ invitations[q.token] # NoRow
      BY <2>2, <2>4 DEF MarkAccepted, At, InFlight, Fits
    <3>2. \A v \in Tokens : v # q.token => invitations'[v] = invitations[v]
      BY <2>4 DEF MarkAccepted, TypeOK
    <3>3. QED
      BY <1>2, <2>1, <3>1, <3>2 DEF Grows
  <2>5. CASE UNCHANGED invitations
    BY <1>1, <2>1, <2>5
  <2>6. QED
    BY <1>4, <2>3, <2>4, <2>5 DEF Writing, CommitUpdate, GetPreferences, RecordAudit, Fail, tables
<1>5. ASSUME NEW t \in Tokens, Expire(t)
      PROVE  OwnersRecorded' /\ OwnersComeFromOwners'
  BY <1>2, <1>5, ExpireIs DEF Grows, history
<1>6. CASE UNCHANGED vars
  BY <1>1, <1>6 DEF vars, tables, history
<1>7. ASSUME NEW r \in Requests, Step(r)
      PROVE  OwnersRecorded' /\ OwnersComeFromOwners'
  <2>1. CASE Beginning(r) \/ Reading(r)
    <3>1. UNCHANGED <<members, ever_owner, grantor, invitations>>
      BY <2>1, QuietMembers, BeginningIs
         DEF Reading, LookupPending, ReadTarget, CountOwners, ReadGiver, ReadReceiver, ReadVersion,
             CheckVersion, tables, history
    <3>2. QED
      BY <1>1, <3>1
  <2>2. QED
    BY <1>3, <1>4, <1>7, <2>1, StepIs
<1>8. QED
  BY <1>5, <1>6, <1>7 DEF Next

-----------------------------------------------------------------------------
(* An owner stays, where no two changes overlapped                           *)

LEMMA SomeOtherOwner ==
    ASSUME NEW w \in Workspaces, NEW u, EnoughOwners(w)
    PROVE  Owners(w) \ {u} # {}
<1> SUFFICES ASSUME Owners(w) \ {u} = {} PROVE FALSE
  OBVIOUS
<1>1. Owners(w) \in SUBSET {u}
  OBVIOUS
<1>2. IsFiniteSet({u}) /\ Cardinality({u}) = 1
  BY FS_Singleton
<1>3. IsFiniteSet(Owners(w)) /\ Cardinality(Owners(w)) <= 1
  BY <1>1, <1>2, FS_Subset
<1>4. Cardinality(Owners(w)) \in Nat
  BY <1>3, FS_CardinalityType
<1>5. QED
  BY <1>3, <1>4 DEF EnoughOwners

(* A step that leaves the members alone                                      *)
LEMMA KeptQuietly ==
    ASSUME AllGrounded, OwnerlessOnlyByRace, UNCHANGED members, crossed \subseteq crossed',
           \A r \in Requests :
               \/ request'[r] = request[r]
               \/ InFlight(r)' => Grounded(request[r])'
    PROVE  AllGrounded' /\ OwnerlessOnlyByRace'
<1>1. OwnerlessOnlyByRace'
  BY DEF OwnerlessOnlyByRace, Owners
<1>2. ASSUME NEW r \in Requests, InFlight(r)', request'[r] = request[r]
      PROVE  Grounded(request[r])'
  <2>1. Grounded(request[r]) /\ (Quiet(request[r].ws)' => Quiet(request[r].ws))
    BY <1>2 DEF AllGrounded, InFlight, Quiet
  <2>2. QED
    BY <1>2, <2>1 DEF Grounded, Quiet, Owners, Active
<1>3. AllGrounded'
  BY <1>2 DEF AllGrounded
<1>4. QED
  BY <1>1, <1>3

LEMMA ReadingKept ==
    ASSUME TypeOK, RequestsFit, AllGrounded, OwnerlessOnlyByRace, NEW r \in Requests, Reading(r),
           Moves(r)
    PROVE  AllGrounded' /\ OwnerlessOnlyByRace'
<1> DEFINE q == request[r]
<1>1. InFlight(r) /\ UNCHANGED <<members, crossed>>
  BY DEF Reading, LookupPending, ReadTarget, CountOwners, ReadGiver, ReadReceiver, ReadVersion,
         CheckVersion, At, InFlight, tables, history
<1>2. q \in Request /\ Fits(q) /\ q.ws \in Workspaces /\ q.target \in Users
  BY <1>1, RequestTyped DEF RequestsFit
<1>3. ASSUME NEW place \in {"insert", "count", "receiver", "write", "promote"}, Advance(r, place),
             Quiet(q.ws) =>
               /\ place = "write" =>
                     (q.op = "change_role" /\ q.role = "owner") \/ Owners(q.ws) \ {q.target} # {}
               /\ place = "promote" => Active(q.ws, q.target)
      PROVE  Grounded(request[r])'
  <2>1. place \in Places
    BY DEF Places, Decided
  <2>2. /\ request'[r].pc = place /\ request'[r].op = q.op /\ request'[r].ws = q.ws
        /\ request'[r].target = q.target /\ request'[r].role = q.role
    BY <1>1, <1>3, <2>1, AdvanceIs
  <2>3. QED
    BY <1>1, <1>3, <2>2 DEF Grounded, Quiet, Owners, Active
<1>4. CASE Answer(r)
  BY <1>1, <1>4, AnswerIs, KeptQuietly DEF Moves
<1>5. CASE LookupPending(r) \/ ReadGiver(r)
  BY <1>1, <1>3, <1>4, <1>5, KeptQuietly DEF LookupPending, ReadGiver, Moves
<1>6. CASE ReadTarget(r)
  <2> DEFINE m == members[q.ws][q.target]
  <2>1. CASE m # NoRow /\ MayManage(q, m) /\ Advance(r, IF Departs(q, m) THEN "count" ELSE "write")
    <3>1. CASE Departs(q, m)
      BY <1>1, <1>3, <2>1, <3>1, KeptQuietly DEF Moves
    <3>2. CASE ~Departs(q, m) /\ m.role # "owner"
      <4>1. Quiet(q.ws) => Owners(q.ws) # {} /\ q.target \notin Owners(q.ws)
        BY <1>2, <2>1, <3>2 DEF OwnerlessOnlyByRace, Quiet, Owners, Owns
      <4>2. QED
        BY <1>1, <1>3, <2>1, <3>2, <4>1, KeptQuietly DEF Moves
    <3>3. CASE ~Departs(q, m) /\ q.op = "change_role" /\ q.role = "owner"
      BY <1>1, <1>3, <2>1, <3>3, KeptQuietly DEF Moves
    <3>4. QED
      BY <3>1, <3>2, <3>3 DEF Departs
  <2>2. QED
    BY <1>4, <1>6, <2>1 DEF ReadTarget
<1>7. CASE CountOwners(r)
  <2>1. CASE EnoughOwners(q.ws) /\ Advance(r, "write")
    BY <1>1, <1>2, <1>3, <2>1, SomeOtherOwner, KeptQuietly DEF Moves
  <2>2. QED
    BY <1>4, <1>7, <2>1 DEF CountOwners
<1>8. CASE ReadReceiver(r)
  BY <1>1, <1>3, <1>4, <1>8, KeptQuietly DEF ReadReceiver, Moves
<1>9. CASE ReadVersion(r) \/ CheckVersion(r)
  <2>1. ASSUME NEW v, NEW place \in {"check", "commit"},
               request' = [request EXCEPT ![r].version = v, ![r].pc = place]
        PROVE  Grounded(request[r])'
    <3>1. request'[r].pc = place
      BY <1>2, <2>1 DEF TypeOK, Request
    <3>2. QED
      BY <3>1 DEF Grounded
  <2>2. QED
    BY <1>1, <1>4, <1>9, <2>1, KeptQuietly DEF ReadVersion, CheckVersion, Moves
<1>10. QED
  BY <1>5, <1>6, <1>7, <1>8, <1>9 DEF Reading

(* A change of one membership: no other request still stands on what it      *)
(* read of that workspace's members.                                         *)
LEMMA MemberSetKept ==
    ASSUME TypeOK, AllGrounded, NEW r \in Requests, InFlight(r), ~At(r, "commit"), Moves(r),
           NEW u \in Users, NEW m \in Member, NEW by, NEW audited \in BOOLEAN,
           SetMember(r, u, m, by, audited),
           InFlight(r)' => Grounded(request[r])'
    PROVE  AllGrounded'
<1> DEFINE w == request[r].ws
<1>1. /\ w \in Workspaces
      /\ \A x \in Workspaces, v \in Users :
            members'[x][v] = IF x = w /\ v = u THEN m ELSE members[x][v]
      /\ crossed \subseteq crossed'
  BY MemberSet
<1> SUFFICES ASSUME NEW q \in Requests, q # r, InFlight(q)'
             PROVE  Grounded(request[q])'
  BY DEF AllGrounded
<1>2. InFlight(q) /\ request'[q] = request[q] /\ request[q].ws \in Workspaces
         /\ request[q].target \in Users /\ Grounded(request[q])
  BY RequestTyped DEF Moves, InFlight, AllGrounded
<1>3. CASE request[q].ws = w /\ request[q].pc \in {"write", "promote", "demote"}
  <2>1. Crossing(r) /\ ~At(q, "commit")
    BY <1>3 DEF SetMember, At
  <2>2. <<"members", w>> \in crossed'
    BY <1>2, <1>3, <2>1 DEF Crossing, Decided
  <2>3. QED
    BY <1>2, <1>3, <2>2 DEF Grounded, Quiet
<1>4. CASE request[q].pc \notin {"write", "promote", "demote"}
  BY <1>2, <1>4 DEF Grounded
<1>5. CASE request[q].ws # w
  <2>1. \A v \in Users : members'[request[q].ws][v] = members[request[q].ws][v]
    BY <1>1, <1>2, <1>5
  <2>2. Owners(request[q].ws)' = {v \in Users : Owns(members'[request[q].ws][v])}
    BY <1>2 DEF Owners
  <2>3. {v \in Users : Owns(members'[request[q].ws][v])} = Owners(request[q].ws)
    BY <2>1 DEF Owners
  <2>4. Quiet(request[q].ws)' => Quiet(request[q].ws)
    BY <1>1, <1>2 DEF Quiet
  <2>5. QED
    BY <1>2, <2>1, <2>2, <2>3, <2>4 DEF Grounded, Active, Quiet
<1>6. QED
  BY <1>3, <1>4, <1>5

LEMMA MemberSetOwned ==
    ASSUME TypeOK, OwnerlessOnlyByRace, NEW r \in Requests, InFlight(r),
           NEW u \in Users, NEW m \in Member, NEW by, NEW audited \in BOOLEAN,
           SetMember(r, u, m, by, audited),
           \/ Owns(m)
           \/ Owners(request[r].ws) \ {u} # {}
           \/ ~Quiet(request[r].ws)
           \/ <<"self", request[r].ws>> \in crossed'
    PROVE  OwnerlessOnlyByRace'
<1>1. PICK w \in Workspaces : w = request[r].ws
  BY RequestTyped
<1>2. /\ \A x \in Workspaces, v \in Users :
            members'[x][v] = IF x = w /\ v = u THEN m ELSE members[x][v]
      /\ crossed \subseteq crossed'
  BY <1>1, MemberSet
<1>3. \/ Owns(m) \/ Owners(w) \ {u} # {} \/ ~Quiet(w) \/ <<"self", w>> \in crossed'
  BY <1>1
<1> SUFFICES ASSUME NEW x \in Workspaces
             PROVE  \/ \A v \in Users : members'[x][v] = NoRow
                    \/ \E v \in Users : Owns(members'[x][v])
                    \/ <<"members", x>> \in crossed' \/ <<"self", x>> \in crossed'
  BY DEF OwnerlessOnlyByRace, Owners
<1>4. CASE x = w
  BY <1>2, <1>3, <1>4 DEF Quiet, Owners
<1>5. CASE x # w
  <2>1. \A v \in Users : members'[x][v] = members[x][v]
    BY <1>2, <1>5
  <2>2. QED
    BY <1>2, <2>1 DEF OwnerlessOnlyByRace, Owners
<1>6. QED
  BY <1>4, <1>5

LEMMA ChangingKept ==
    ASSUME TypeOK, RequestsFit, AllGrounded, OwnerlessOnlyByRace, NEW r \in Requests, Changing(r),
           Moves(r)
    PROVE  AllGrounded' /\ OwnerlessOnlyByRace'
<1> DEFINE q == request[r]
           w == q.ws
<1>1. InFlight(r) /\ ~At(r, "commit")
  BY DEF Changing, CreateOwner, Join, WriteMember, Promote, Demote, At, InFlight
<1>2. q \in Request /\ Fits(q) /\ Grounded(q)
         /\ w \in Workspaces /\ q.target \in Users /\ q.actor \in Users /\ q.role \in Roles
  BY <1>1, RequestTyped DEF RequestsFit, AllGrounded
<1>3. {"mark", "audit", "demote"} \subseteq Places
  BY DEF Places, Decided
<1>4. ASSUME Advance(r, "mark") \/ Advance(r, "audit") \/ Answer(r), InFlight(r)'
      PROVE  Grounded(request[r])'
  BY <1>1, <1>3, <1>4, AdvanceIs, AnswerIs DEF Grounded
<1>5. q.op # "create" => Owners(w) # {} \/ ~Quiet(w)
  BY <1>2 DEF Fits, Rows, OwnerlessOnlyByRace, Quiet
<1>6. \A u \in Rows(w) : members[w][u] \in Member /\ members[w][u] # NoRow
  BY <1>2 DEF Rows, TypeOK
<1>7. CASE CreateOwner(r)
  <2>1. /\ [role |-> "owner", status |-> "active"] \in Member
        /\ Owns([role |-> "owner", status |-> "active"])
    BY RowsAreRows DEF Member, Roles, Owns
  <2>2. QED
    BY <1>1, <1>2, <1>4, <1>7, <2>1, MemberSetKept, MemberSetOwned DEF CreateOwner
<1>8. CASE Join(r)
  <2>1. CASE Answer(r) /\ UNCHANGED <<members, history>>
    BY <2>1, AnswerIs, KeptQuietly DEF Moves, history
  <2>2. CASE /\ members[w][q.actor] = NoRow /\ Advance(r, "mark")
             /\ SetMember(r, q.actor, [role |-> q.role, status |-> "active"],
                          invitations[q.token].by, TRUE)
    <3>1. [role |-> q.role, status |-> "active"] \in Member
      BY <1>2 DEF Member
    <3>2. q.op # "create" /\ q.actor \notin Owners(w)
      BY <1>2, <1>8, <2>2 DEF Join, At, Fits, Owners, Owns
    <3>3. Owners(w) \ {q.actor} # {} \/ ~Quiet(w)
      BY <1>5, <3>2
    <3>4. QED
      BY <1>1, <1>2, <1>4, <2>2, <3>1, <3>3, MemberSetKept, MemberSetOwned
  <2>3. QED
    BY <1>8, <2>1, <2>2 DEF Join
<1>9. CASE WriteMember(r)
  <2> DEFINE m == members[w][q.target]
             n == IF q.op = "change_role" THEN [m EXCEPT !.role = q.role]
                                          ELSE [m EXCEPT !.status = "disabled"]
  <2>1. m \in Member /\ m # NoRow
    BY <1>2, <1>6, <1>9 DEF WriteMember, At, Fits
  <2>2. n \in Member
    BY <1>2, <2>1 DEF Member
  <2>3. q.op = "change_role" /\ q.role = "owner" /\ Owns(m) => Owns(n)
    BY <2>1, <2>2, RowsAreRows DEF Owns, Member
  <2>4. /\ SetMember(r, q.target, n, q.actor, q.op # "leave") /\ (q.op # "leave") \in BOOLEAN
        /\ q.pc = "write" /\ (Advance(r, "audit") \/ Answer(r))
    BY <1>9 DEF WriteMember, At
  <2>5. q.op # "create"
    BY <1>2, <2>4 DEF Fits
  <2>6. q.target \in Owners(w) <=> Owns(m)
    BY <1>2 DEF Owners
  <2> HIDE DEF m, n
  <2>7. Owns(n) \/ Owners(w) \ {q.target} # {} \/ ~Quiet(w)
    BY <1>2, <1>5, <2>3, <2>4, <2>5, <2>6 DEF Grounded
  <2>8. QED
    BY <1>1, <1>2, <1>4, <2>2, <2>4, <2>7, MemberSetKept, MemberSetOwned
<1>10. CASE Promote(r)
  <2> DEFINE m == members[w][q.target]
             n == [m EXCEPT !.role = "owner"]
  <2>1. m \in Member /\ m # NoRow
    BY <1>2, <1>6, <1>10 DEF Promote, At, Fits
  <2>2. n \in Member
    BY <2>1 DEF Member, Roles
  <2>3. SetMember(r, q.target, n, q.actor, FALSE) /\ q.pc = "promote" /\ Advance(r, "demote")
    BY <1>10 DEF Promote, At
  <2>4. Quiet(w) => Owns(n)
    BY <1>2, <2>1, <2>2, <2>3, RowsAreRows DEF Grounded, Active, Owns, Member
  <2>5. Grounded(request[r])'
    <3>1. /\ request'[r].pc = "demote" /\ request'[r].ws = w
          /\ request'[r].target = q.target
      BY <1>1, <1>3, <2>3, AdvanceIs
    <3>2. members' = [members EXCEPT ![w][q.target] = n]
      BY <2>3 DEF SetMember
    <3>3. members'[w][q.target] = n
      BY <1>2, <3>2 DEF TypeOK
    <3>4. crossed \subseteq crossed'
      BY <2>3 DEF SetMember, Crossing
    <3>5. QED
      BY <2>4, <3>1, <3>3, <3>4 DEF Grounded, Quiet
  <2> HIDE DEF m, n
  <2>6. QED
    BY <1>1, <1>2, <2>2, <2>3, <2>4, <2>5, MemberSetKept, MemberSetOwned
<1>11. CASE Demote(r)
  <2> DEFINE m == members[w][q.actor]
             n == [m EXCEPT !.role = "admin"]
  <2>1. m \in Member /\ m # NoRow /\ q.pc = "demote"
    BY <1>2, <1>6, <1>11 DEF Demote, At, Fits
  <2>2. n \in Member
    BY <2>1 DEF Member, Roles
  <2>3. SetMember(r, q.actor, n, q.actor, TRUE) /\ Advance(r, "audit")
    BY <1>11 DEF Demote
  <2>4. q.target = q.actor => <<"self", w>> \in crossed'
    BY <1>1, <2>1, <2>3 DEF SetMember, Crossing, At, InFlight
  <2>5. Quiet(w) => q.target \in Owners(w)
    BY <1>2, <2>1 DEF Grounded, Owners
  <2> HIDE DEF m, n
  <2>6. Owners(w) \ {q.actor} # {} \/ ~Quiet(w) \/ <<"self", w>> \in crossed'
    BY <2>4, <2>5
  <2>7. QED
    BY <1>1, <1>2, <1>4, <2>2, <2>3, <2>6, MemberSetKept, MemberSetOwned
<1>12. QED
  BY <1>7, <1>8, <1>9, <1>10, <1>11 DEF Changing

LEMMA NextKept ==
    ASSUME TypeOK, RequestsFit, OwnersRecorded, AllGrounded, OwnerlessOnlyByRace, [Next]_vars
    PROVE  AllGrounded' /\ OwnerlessOnlyByRace'
<1>1. ASSUME NEW r \in Requests, Beginning(r)
      PROVE  AllGrounded' /\ OwnerlessOnlyByRace'
  <2>1. UNCHANGED members /\ crossed \subseteq crossed' /\ Moves(r)
    BY <1>1, BeginningIs DEF history
  <2>2. Grounded(request[r])'
    BY <1>1, BeginningIs DEF Grounded
  <2>3. QED
    BY <2>1, <2>2, KeptQuietly DEF Moves
<1>2. ASSUME NEW r \in Requests, Writing(r)
      PROVE  AllGrounded' /\ OwnerlessOnlyByRace'
  <2>1. UNCHANGED members /\ crossed \subseteq crossed' /\ Moves(r)
    BY <1>2, WritingFits, QuietMembers
  <2>2. InFlight(r) /\ "audit" \in Places /\ (Answer(r) \/ Advance(r, "audit"))
    BY <1>2 DEF Writing, InsertInvitation, MarkAccepted, CommitUpdate, GetPreferences, RecordAudit,
                Fail, At, InFlight, Places
  <2>3. InFlight(r)' => Grounded(request[r])'
    BY <2>2, AnswerIs, AdvanceIs DEF Grounded
  <2>4. QED
    BY <2>1, <2>3, KeptQuietly DEF Moves
<1>3. CASE (\E t \in Tokens : Expire(t)) \/ UNCHANGED vars
  BY <1>3, KeptQuietly DEF Expire, vars, tables, history
<1>4. ASSUME NEW r \in Requests, Step(r)
      PROVE  AllGrounded' /\ OwnerlessOnlyByRace'
  BY <1>1, <1>2, <1>4, StepIs, ReadingFits, ReadingKept, ChangingFits, ChangingKept
<1>5. QED
  BY <1>3, <1>4 DEF Next

-----------------------------------------------------------------------------
(* The books: every change an audit entry is due for has its entry, a        *)
(* request on its way to write it, or died                                   *)

Audits(q, w) == q # NoRequest /\ q.ws = w /\ q.pc \in {"mark", "audit"}

LEMMA Counted ==
    ASSUME TypeOK, NEW r \in Requests, NEW w \in Workspaces, Moves(r)
    PROVE  /\ Cardinality(Auditors(w)) \in Nat
           /\ Audits(request[r], w) /\ Audits(request'[r], w)
                 => Cardinality(Auditors(w))' = Cardinality(Auditors(w))
           /\ ~Audits(request[r], w) /\ ~Audits(request'[r], w)
                 => Cardinality(Auditors(w))' = Cardinality(Auditors(w))
           /\ ~Audits(request[r], w) /\ Audits(request'[r], w)
                 => Cardinality(Auditors(w))' = Cardinality(Auditors(w)) + 1
           /\ Audits(request[r], w) /\ ~Audits(request'[r], w)
                 => Cardinality(Auditors(w))' = Cardinality(Auditors(w)) - 1
<1>1. Auditors(w) \in SUBSET Requests
  BY DEF Auditors
<1>2. IsFiniteSet(Auditors(w))
  BY <1>1, FS_Subset, TenancyAssumption
<1>3. Cardinality(Auditors(w)) \in Nat
  BY <1>2, FS_CardinalityType
<1>4. r \in Auditors(w) <=> Audits(request[r], w)
  BY DEF Auditors, Audits
<1>5. Audits(request'[r], w) => Auditors(w)' = Auditors(w) \cup {r}
  BY DEF Auditors, Audits, Moves
<1>6. ~Audits(request'[r], w) => Auditors(w)' = Auditors(w) \ {r}
  BY DEF Auditors, Audits, Moves
<1>7. Cardinality(Auditors(w) \cup {r}) =
         IF r \in Auditors(w) THEN Cardinality(Auditors(w)) ELSE Cardinality(Auditors(w)) + 1
  BY <1>2, FS_AddElement
<1>8. Cardinality(Auditors(w) \ {r}) =
         IF r \in Auditors(w) THEN Cardinality(Auditors(w)) - 1 ELSE Cardinality(Auditors(w))
  BY <1>2, FS_RemoveElement
<1>9. /\ Audits(request'[r], w) =>
            Cardinality(Auditors(w)') = Cardinality(Auditors(w) \cup {r})
      /\ ~Audits(request'[r], w) =>
            Cardinality(Auditors(w)') = Cardinality(Auditors(w) \ {r})
  BY <1>5, <1>6
<1>10. QED
  BY <1>3, <1>4, <1>7, <1>8, <1>9

(* The four ways in which a step can leave the books of a workspace          *)
Unbooked(w) == changes'[w] = changes[w] /\ audit'[w] = audit[w] /\ faults' = faults
Changed(w) == changes'[w] = changes[w] + 1 /\ audit'[w] = audit[w] /\ faults' = faults
Recorded(w) == changes'[w] = changes[w] /\ audit'[w] = audit[w] + 1 /\ faults' = faults
Lost(w) == changes'[w] = changes[w] /\ audit'[w] = audit[w] /\ faults' = faults + 1

LEMMA BookedStep ==
    ASSUME TypeOK, Booked, NEW r \in Requests, Moves(r),
           \A w \in Workspaces :
              \/ Unbooked(w) /\ (Audits(request'[r], w) <=> Audits(request[r], w))
              \/ Changed(w) /\ Audits(request'[r], w) /\ ~Audits(request[r], w)
              \/ Recorded(w) /\ ~Audits(request'[r], w) /\ Audits(request[r], w)
              \/ Lost(w) /\ ~Audits(request'[r], w)
    PROVE  Booked'
<1> SUFFICES ASSUME NEW w \in Workspaces
             PROVE  /\ audit'[w] + Cardinality(Auditors(w))' <= changes'[w]
                    /\ changes'[w] <= audit'[w] + Cardinality(Auditors(w))' + faults'
  BY DEF Booked
<1> DEFINE n == Cardinality(Auditors(w))
           k == Cardinality(Auditors(w))'
<1>1. n \in Nat
  BY Counted
<1>2. /\ (Audits(request'[r], w) <=> Audits(request[r], w)) => k = n
      /\ Audits(request'[r], w) /\ ~Audits(request[r], w) => k = n + 1
      /\ ~Audits(request'[r], w) /\ Audits(request[r], w) => k = n - 1
  BY Counted
<1>3. /\ audit[w] + n <= changes[w] /\ changes[w] <= audit[w] + n + faults
      /\ audit[w] \in Nat /\ changes[w] \in Nat /\ faults \in Nat
  BY DEF Booked, TypeOK
<1> HIDE DEF n, k
<1>4. audit'[w] + k <= changes'[w] /\ changes'[w] <= audit'[w] + k + faults'
  <2>1. CASE Unbooked(w) /\ (Audits(request'[r], w) <=> Audits(request[r], w))
    BY <1>1, <1>2, <1>3, <2>1 DEF Unbooked
  <2>2. CASE Changed(w) /\ Audits(request'[r], w) /\ ~Audits(request[r], w)
    BY <1>1, <1>2, <1>3, <2>2 DEF Changed
  <2>3. CASE Recorded(w) /\ ~Audits(request'[r], w) /\ Audits(request[r], w)
    BY <1>1, <1>2, <1>3, <2>3 DEF Recorded
  <2>4. CASE Lost(w) /\ ~Audits(request'[r], w)
    <3>1. k = n \/ k = n - 1
      BY <1>2, <2>4
    <3>2. QED
      BY <1>1, <1>3, <2>4, <3>1 DEF Lost
  <2>5. QED
    BY <2>1, <2>2, <2>3, <2>4
<1>5. QED
  BY <1>4 DEF n, k

LEMMA AuditsAfter ==
    ASSUME TypeOK, NEW r \in Requests, NEW w
    PROVE  /\ Answer(r) => ~Audits(request'[r], w)
           /\ \A place \in Places : InFlight(r) /\ Advance(r, place) =>
                 (Audits(request'[r], w) <=> request[r].ws = w /\ place \in {"mark", "audit"})
           /\ InFlight(r) => (Audits(request[r], w) <=>
                 request[r].ws = w /\ request[r].pc \in {"mark", "audit"})
BY AnswerIs, AdvanceIs DEF Audits, InFlight

(* A step that is no audited change, by a request that has made none         *)
LEMMA QuietBooked ==
    ASSUME TypeOK, Booked, NEW r \in Requests, Moves(r),
           UNCHANGED <<audit, changes, faults>>,
           \A w \in Workspaces : ~Audits(request[r], w) /\ ~Audits(request'[r], w)
    PROVE  Booked'
BY BookedStep DEF Unbooked

(* An audited change of the workspace of the request                         *)
LEMMA ChangedBooked ==
    ASSUME TypeOK, Booked, NEW r \in Requests, Moves(r), InFlight(r),
           request[r].pc \notin {"mark", "audit"},
           Advance(r, "mark") \/ Advance(r, "audit"),
           UNCHANGED <<audit, faults>>,
           changes' = [changes EXCEPT ![request[r].ws] = @ + 1]
    PROVE  Booked'
<1>1. {"mark", "audit"} \subseteq Places
  BY DEF Places
<1>2. ASSUME NEW w \in Workspaces, w = request[r].ws
      PROVE  Changed(w) /\ Audits(request'[r], w) /\ ~Audits(request[r], w)
  <2>1. Changed(w)
    BY <1>2 DEF Changed, TypeOK
  <2>2. QED
    BY <1>1, <1>2, <2>1, AuditsAfter
<1>3. ASSUME NEW w \in Workspaces, w # request[r].ws
      PROVE  Unbooked(w) /\ ~Audits(request'[r], w) /\ ~Audits(request[r], w)
  <2>1. Unbooked(w)
    BY <1>3 DEF Unbooked, TypeOK
  <2>2. QED
    BY <1>1, <1>3, <2>1, AuditsAfter
<1>4. QED
  BY <1>2, <1>3, BookedStep

LEMMA ReadingBooked ==
    ASSUME TypeOK, Booked, NEW r \in Requests, Reading(r), Moves(r)
    PROVE  Booked'
<1>1. /\ InFlight(r) /\ UNCHANGED <<audit, changes, faults>>
      /\ request[r].pc \notin {"mark", "audit"}
  BY DEF Reading, LookupPending, ReadTarget, CountOwners, ReadGiver, ReadReceiver, ReadVersion,
         CheckVersion, At, InFlight, history
<1>2. ASSUME NEW place \in {"insert", "count", "receiver", "write", "promote"}, Advance(r, place)
      PROVE  Booked'
  <2>1. place \in Places /\ place \notin {"mark", "audit"}
    BY DEF Places, Decided
  <2>2. QED
    BY <1>1, <1>2, <2>1, AuditsAfter, QuietBooked
<1>3. CASE Answer(r)
  BY <1>1, <1>3, AuditsAfter, QuietBooked
<1>4. ASSUME NEW v, NEW place \in {"check", "commit"},
             request' = [request EXCEPT ![r].version = v, ![r].pc = place]
      PROVE  Booked'
  <2>1. request'[r].pc = place
    BY <1>1, <1>4, RequestTyped DEF TypeOK, Request
  <2>2. \A w \in Workspaces : ~Audits(request'[r], w)
    BY <2>1 DEF Audits
  <2>3. QED
    BY <1>1, <2>2, AuditsAfter, QuietBooked
<1>5. CASE ReadVersion(r) \/ CheckVersion(r)
  BY <1>3, <1>4, <1>5 DEF ReadVersion, CheckVersion
<1>6. CASE LookupPending(r) \/ ReadTarget(r) \/ CountOwners(r) \/ ReadGiver(r) \/ ReadReceiver(r)
  BY <1>2, <1>3, <1>6 DEF LookupPending, ReadTarget, CountOwners, ReadGiver, ReadReceiver
<1>7. QED
  BY <1>5, <1>6 DEF Reading

LEMMA ChangingBooked ==
    ASSUME TypeOK, RequestsFit, Booked, NEW r \in Requests, Changing(r), Moves(r)
    PROVE  Booked'
<1>1. /\ InFlight(r) /\ UNCHANGED <<audit, faults>>
      /\ request[r].pc \notin {"mark", "audit"}
  BY DEF Changing, CreateOwner, Join, WriteMember, Promote, Demote, At, InFlight
<1>2. ASSUME NEW u, NEW m, NEW by, SetMember(r, u, m, by, TRUE),
             Advance(r, "mark") \/ Advance(r, "audit")
      PROVE  Booked'
  <2>1. changes' = [changes EXCEPT ![request[r].ws] = @ + 1]
    BY <1>2 DEF SetMember
  <2>2. QED
    BY <1>1, <1>2, <2>1, ChangedBooked
<1>3. ASSUME NEW u, NEW m, NEW by, SetMember(r, u, m, by, FALSE),
             Answer(r) \/ Advance(r, "demote")
      PROVE  Booked'
  <2>1. UNCHANGED changes
    BY <1>3 DEF SetMember, TypeOK
  <2>2. "demote" \in Places
    BY DEF Places, Decided
  <2>3. QED
    BY <1>1, <1>3, <2>1, <2>2, AuditsAfter, QuietBooked
<1>4. CASE Answer(r) /\ UNCHANGED history
  BY <1>1, <1>4, AuditsAfter, QuietBooked DEF history
<1>5. CASE CreateOwner(r)
  BY <1>3, <1>5 DEF CreateOwner
<1>6. CASE Join(r)
  BY <1>2, <1>4, <1>6 DEF Join
<1>7. CASE WriteMember(r)
  <2>1. CASE request[r].op = "leave"
    BY <1>3, <1>7, <2>1 DEF WriteMember
  <2>2. CASE request[r].op # "leave"
    BY <1>2, <1>7, <2>2 DEF WriteMember
  <2>3. QED
    BY <2>1, <2>2
<1>8. CASE Promote(r)
  BY <1>3, <1>8 DEF Promote
<1>9. CASE Demote(r)
  BY <1>2, <1>9 DEF Demote
<1>10. QED
  BY <1>5, <1>6, <1>7, <1>8, <1>9 DEF Changing

LEMMA WritingBooked ==
    ASSUME TypeOK, RequestsFit, Booked, NEW r \in Requests, Writing(r), Moves(r)
    PROVE  Booked'
<1>1. InFlight(r) /\ "audit" \in Places
  BY DEF Writing, InsertInvitation, MarkAccepted, CommitUpdate, GetPreferences, RecordAudit, Fail,
         At, InFlight, Places
<1>2. CASE /\ Answer(r) /\ request[r].pc \notin {"mark", "audit"}
           /\ UNCHANGED <<audit, changes, faults>>
  BY <1>1, <1>2, AuditsAfter, QuietBooked
<1>3. CASE /\ Advance(r, "audit") /\ request[r].pc \notin {"mark", "audit"}
           /\ changes' = [changes EXCEPT ![request[r].ws] = @ + 1]
           /\ UNCHANGED <<audit, faults>>
  BY <1>1, <1>3, ChangedBooked
<1>4. CASE \E t \in Tokens : InsertInvitation(r, t)
  BY <1>2, <1>3, <1>4 DEF InsertInvitation, At
<1>5. CASE MarkAccepted(r)
  <2>1. /\ Advance(r, "audit") /\ request[r].pc = "mark" /\ UNCHANGED <<audit, changes, faults>>
    BY <1>5 DEF MarkAccepted, At, history
  <2>2. \A w \in Workspaces : Unbooked(w) /\ (Audits(request'[r], w) <=> Audits(request[r], w))
    BY <1>1, <2>1, AuditsAfter DEF Unbooked
  <2>3. QED
    BY <2>2, BookedStep
<1>6. CASE CommitUpdate(r)
  BY <1>2, <1>3, <1>6 DEF CommitUpdate, At, history
<1>7. CASE GetPreferences(r)
  BY <1>2, <1>7 DEF GetPreferences, At, history
<1>8. CASE RecordAudit(r)
  <2>1. /\ Answer(r) /\ request[r].pc = "audit" /\ UNCHANGED <<changes, faults>>
        /\ audit' = [audit EXCEPT ![request[r].ws] = @ + 1]
    BY <1>8 DEF RecordAudit, At, history
  <2>2. ASSUME NEW w \in Workspaces, w = request[r].ws
        PROVE  Recorded(w) /\ ~Audits(request'[r], w) /\ Audits(request[r], w)
    BY <1>1, <2>1, <2>2, AuditsAfter DEF Recorded, TypeOK
  <2>3. ASSUME NEW w \in Workspaces, w # request[r].ws
        PROVE  Unbooked(w) /\ ~Audits(request'[r], w) /\ ~Audits(request[r], w)
    BY <1>1, <2>1, <2>3, AuditsAfter DEF Unbooked, TypeOK
  <2>4. QED
    BY <2>2, <2>3, BookedStep
<1>9. CASE Fail(r)
  <2>1. Answer(r) /\ faults' = faults + 1 /\ UNCHANGED <<audit, changes>>
    BY <1>9 DEF Fail, history
  <2>2. \A w \in Workspaces : Lost(w) /\ ~Audits(request'[r], w)
    BY <2>1, AuditsAfter DEF Lost
  <2>3. QED
    BY <2>2, BookedStep
<1>10. QED
  BY <1>4, <1>5, <1>6, <1>7, <1>8, <1>9 DEF Writing

LEMMA NextBooked ==
    ASSUME TypeOK, RequestsFit, OwnersRecorded, Booked, [Next]_vars
    PROVE  Booked'
<1>1. ASSUME NEW r \in Requests, Beginning(r) PROVE Booked'
  <2>1. /\ request[r] = NoRequest /\ Moves(r) /\ UNCHANGED <<audit, changes, faults>>
        /\ request'[r].pc \notin {"mark", "audit"}
    BY <1>1, BeginningIs DEF history
  <2>2. QED
    BY <2>1, QuietBooked DEF Audits
<1>2. CASE (\E t \in Tokens : Expire(t)) \/ UNCHANGED vars
  <2>1. UNCHANGED <<audit, changes, faults, request>>
    BY <1>2 DEF Expire, vars, history
  <2>2. \A w : Auditors(w)' = Auditors(w)
    BY <2>1 DEF Auditors
  <2>3. QED
    BY <2>1, <2>2 DEF Booked
<1>3. ASSUME NEW r \in Requests, Step(r) PROVE Booked'
  BY <1>1, <1>3, StepIs, ReadingFits, ReadingBooked, ChangingFits, ChangingBooked,
     WritingFits, WritingBooked
<1>4. QED
  BY <1>2, <1>3 DEF Next

-----------------------------------------------------------------------------
(* The version of a workspace counts its edits, where no two overlapped      *)

LEMMA VersionsQuietly ==
    ASSUME Current, VersionCountsEdits, UNCHANGED <<workspaces, edits>>, crossed \subseteq crossed',
           \A r \in Requests :
               \/ request'[r] = request[r]
               \/ At(r, "commit")' /\ request'[r].op # "preferences" =>
                     request'[r].version = workspaces[request'[r].ws].version
    PROVE  Current' /\ VersionCountsEdits'
<1>1. VersionCountsEdits'
  BY DEF VersionCountsEdits
<1>2. Current'
  BY DEF Current, At
<1>3. QED
  BY <1>1, <1>2

LEMMA BeginningVersions ==
    ASSUME TypeOK, RequestsFit, Founded, Current, VersionCountsEdits, NEW r \in Requests,
           Beginning(r)
    PROVE  Current' /\ VersionCountsEdits'
<1>1. /\ request[r] = NoRequest /\ Moves(r) /\ UNCHANGED <<edits, crossed>>
  BY BeginningIs DEF history
<1>2. ASSUME NEW w \in Workspaces, workspaces[w] = NoRow,
             workspaces' = [workspaces EXCEPT ![w] = [active |-> TRUE, version |-> 1]],
             request'[r].pc = "owner"
      PROVE  Current' /\ VersionCountsEdits'
  <2>1. \A v \in Workspaces : v # w => workspaces'[v] = workspaces[v]
    BY <1>2 DEF TypeOK
  <2>2. workspaces'[w].version = 1 /\ edits[w] = 0
    BY <1>2 DEF TypeOK, Founded
  <2>3. VersionCountsEdits'
    BY <1>1, <2>1, <2>2 DEF VersionCountsEdits
  <2>4. ASSUME NEW q \in Requests, At(q, "commit")', request'[q].op # "preferences",
               <<"rows", request'[q].ws>> \notin crossed'
        PROVE  request'[q].version = workspaces'[request'[q].ws].version
    <3>1. q # r
      BY <1>2, <2>4 DEF At
    <3>2. request'[q] = request[q] /\ InFlight(q) /\ At(q, "commit")
      BY <2>4, <3>1, <1>1 DEF Moves, At, InFlight
    <3>3. request[q].ws \in Workspaces /\ request[q].ws # w
      BY <1>2, <3>2, RequestTyped DEF RequestsFit, Fits
    <3>4. QED
      BY <1>1, <2>1, <2>4, <3>2, <3>3 DEF Current
  <2>5. QED
    BY <2>3, <2>4 DEF Current
<1>3. CASE /\ UNCHANGED workspaces
           /\ request'[r].pc \in {"join", "pending", "target", "row", "ensure", "check"}
  BY <1>1, <1>3, VersionsQuietly DEF Moves, At
<1>4. QED
  BY <1>2, <1>3, BeginningIs

LEMMA ReadingVersions ==
    ASSUME TypeOK, RequestsFit, Current, VersionCountsEdits, NEW r \in Requests, Reading(r), Moves(r)
    PROVE  Current' /\ VersionCountsEdits'
<1> DEFINE q == request[r]
<1>1. InFlight(r) /\ UNCHANGED <<workspaces, edits, crossed>>
  BY DEF Reading, LookupPending, ReadTarget, CountOwners, ReadGiver, ReadReceiver, ReadVersion,
         CheckVersion, At, InFlight, history, tables
<1>2. ASSUME NEW place \in {"insert", "count", "receiver", "write", "promote"}, Advance(r, place)
      PROVE  Current' /\ VersionCountsEdits'
  <2>1. place \in Places /\ place # "commit"
    BY DEF Places, Decided
  <2>2. ~At(r, "commit")'
    BY <1>1, <1>2, <2>1, AdvanceIs DEF At
  <2>3. QED
    BY <1>1, <2>2, VersionsQuietly DEF Moves
<1>3. CASE Answer(r)
  BY <1>1, <1>3, AnswerIs, VersionsQuietly DEF Moves, At, InFlight
<1>4. CASE LookupPending(r) \/ ReadTarget(r) \/ CountOwners(r) \/ ReadGiver(r) \/ ReadReceiver(r)
  BY <1>2, <1>3, <1>4 DEF LookupPending, ReadTarget, CountOwners, ReadGiver, ReadReceiver
<1>5. CASE ReadVersion(r)
  <2>1. request'[r].pc = "check"
    BY <1>1, <1>5, RequestTyped DEF ReadVersion, TypeOK, Request
  <2>2. QED
    BY <1>1, <2>1, VersionsQuietly DEF Moves, At
<1>6. CASE CheckVersion(r)
  <2>1. CASE request' = [request EXCEPT ![r].version = Version(q), ![r].pc = "commit"]
    <3>1. /\ request'[r].version = Version(q) /\ request'[r].op = q.op
          /\ request'[r].ws = q.ws
      BY <1>1, <2>1, RequestTyped DEF TypeOK, Request
    <3>2. QED
      BY <1>1, <3>1, VersionsQuietly DEF Moves, Version
  <2>2. QED
    BY <1>3, <1>6, <2>1 DEF CheckVersion
<1>7. QED
  BY <1>4, <1>5, <1>6 DEF Reading

LEMMA CommitVersions ==
    ASSUME TypeOK, RequestsFit, Current, VersionCountsEdits, NEW r \in Requests, CommitUpdate(r),
           Moves(r), ~At(r, "commit")'
    PROVE  Current' /\ VersionCountsEdits'
<1> DEFINE q == request[r]
           w == q.ws
           next == Effective(q.version) + 1
<1>1. /\ InFlight(r) /\ At(r, "commit") /\ q \in Request /\ Fits(q) /\ w \in Workspaces
      /\ q.version \in Nat /\ crossed \subseteq crossed'
  BY RequestTyped DEF CommitUpdate, At, InFlight, RequestsFit, Crossing, history
<1>2. CASE UNCHANGED <<workspaces, edits>>
  BY <1>1, <1>2, VersionsQuietly DEF Moves
<1>3. CASE /\ q.op # "preferences"
           /\ workspaces' = [workspaces EXCEPT ![w].version = next,
                                               ![w].active = @ /\ q.op # "deactivate"]
           /\ edits' = [edits EXCEPT ![w] = @ + 1]
           /\ Crossing(r)
  <2>1. workspaces[w] \in Workspace /\ workspaces[w] # NoRow
    BY <1>1 DEF TypeOK, Fits
  <2>2. workspaces'[w].version = next
    BY <1>1, <1>3, <2>1 DEF TypeOK, Workspace
  <2>3. \A v \in Workspaces : v # w => workspaces'[v] = workspaces[v] /\ edits'[v] = edits[v]
    BY <1>3 DEF TypeOK
  <2>4. edits'[w] = edits[w] + 1 /\ edits[w] \in Nat
    BY <1>1, <1>3 DEF TypeOK
  <2>5. <<"rows", w>> \notin crossed => q.version = 1 + edits[w]
    BY <1>1, <1>3, <2>1 DEF Current, VersionCountsEdits
  <2> HIDE DEF w
  <2>6. <<"rows", w>> \notin crossed' => workspaces'[w].version = 1 + edits'[w]
    BY <1>1, <2>2, <2>4, <2>5 DEF Effective
  <2>7. VersionCountsEdits'
    <3> SUFFICES ASSUME NEW v \in Workspaces, workspaces'[v] # NoRow, <<"rows", v>> \notin crossed'
                 PROVE  workspaces'[v].version = 1 + edits'[v]
      BY DEF VersionCountsEdits
    <3>1. CASE v = w
      BY <2>6, <3>1
    <3>2. CASE v # w
      BY <1>1, <2>3, <3>2 DEF VersionCountsEdits
    <3>3. QED
      BY <3>1, <3>2
  <2>8. ASSUME NEW p \in Requests, At(p, "commit")', request'[p].op # "preferences",
               <<"rows", request'[p].ws>> \notin crossed'
        PROVE  request'[p].version = workspaces'[request'[p].ws].version
    <3>1. p # r /\ request'[p] = request[p] /\ At(p, "commit") /\ InFlight(p)
      BY <2>8 DEF Moves, At, InFlight
    <3>2. request[p].ws \in Workspaces
      BY <3>1, RequestTyped
    <3>3. request[p].ws # w
      <4> SUFFICES ASSUME request[p].ws = w PROVE <<"rows", w>> \in crossed'
        BY <2>8, <3>1
      <4>1. p \in {o \in Requests \ {r} :
                     /\ InFlight(o)
                     /\ request[o].ws = request[r].ws
                     /\ request[o].pc \in Decided
                     /\ At(o, "commit") <=> At(r, "commit")}
        BY <1>1, <3>1 DEF w, Decided, At
      <4>2. QED
        BY <1>1, <1>3, <4>1 DEF Crossing, w
    <3>4. QED
      BY <1>1, <2>3, <2>8, <3>1, <3>2, <3>3 DEF Current
  <2>9. QED
    BY <2>7, <2>8 DEF Current
<1>4. QED
  BY <1>2, <1>3 DEF CommitUpdate, history

LEMMA NextVersions ==
    ASSUME TypeOK, RequestsFit, Founded, OwnersRecorded, Current, VersionCountsEdits, [Next]_vars
    PROVE  Current' /\ VersionCountsEdits'
<1>1. ASSUME NEW r \in Requests, Changing(r) PROVE Current' /\ VersionCountsEdits'
  <2>1. /\ InFlight(r) /\ Moves(r) /\ UNCHANGED <<workspaces, edits>>
    BY <1>1, ChangeIs, ChangingFits
  <2>2. crossed \subseteq crossed'
    BY <1>1, <2>1, ChangeIs, MemberSet DEF history
  <2>3. Answer(r) \/ \E place \in {"mark", "audit", "demote"} : Advance(r, place)
    BY <1>1, ChangeIs
  <2>4. {"mark", "audit", "demote"} \subseteq Places
    BY DEF Places, Decided
  <2>5. ~At(r, "commit")'
    BY <2>1, <2>3, <2>4, AnswerIs, AdvanceIs DEF At, InFlight
  <2>6. QED
    BY <2>1, <2>2, <2>5, VersionsQuietly DEF Moves
<1>2. ASSUME NEW r \in Requests, Writing(r) PROVE Current' /\ VersionCountsEdits'
  <2>1. Moves(r) /\ crossed \subseteq crossed'
    BY <1>2, WritingFits, QuietMembers
  <2>2. InFlight(r) /\ "audit" \in Places /\ (Answer(r) \/ Advance(r, "audit"))
    BY <1>2 DEF Writing, InsertInvitation, MarkAccepted, CommitUpdate, GetPreferences, RecordAudit,
                Fail, At, InFlight, Places
  <2>3. ~At(r, "commit")'
    BY <2>2, AnswerIs, AdvanceIs DEF At, InFlight
  <2>4. CASE CommitUpdate(r)
    BY <2>1, <2>3, <2>4, CommitVersions
  <2>5. CASE UNCHANGED <<workspaces, edits>>
    BY <2>1, <2>3, <2>5, VersionsQuietly DEF Moves
  <2>6. QED
    BY <1>2, <2>4, <2>5 DEF Writing, InsertInvitation, MarkAccepted, GetPreferences, RecordAudit,
                            Fail, tables, history
<1>3. CASE (\E t \in Tokens : Expire(t)) \/ UNCHANGED vars
  BY <1>3, VersionsQuietly DEF Expire, vars, tables, history
<1>4. ASSUME NEW r \in Requests, Step(r) PROVE Current' /\ VersionCountsEdits'
  BY <1>1, <1>2, <1>4, StepIs, BeginningVersions, ReadingFits, ReadingVersions
<1>5. QED
  BY <1>3, <1>4 DEF Next

-----------------------------------------------------------------------------
(* The theorems                                                              *)

LEMMA InitInv ==
    ASSUME Init
    PROVE  TenancyInv
<1>1. \A r \in Requests : request[r] = NoRequest
  BY DEF Init
<1>2. TypeOK
  <2>1. [active |-> TRUE, version |-> 1] \in Workspace
    BY DEF Workspace
  <2>2. workspaces \in [Workspaces -> Workspace \cup {NoRow}]
    BY <2>1 DEF Init
  <2>3. members \in [Workspaces -> [Users -> Member \cup {NoRow}]]
    BY TenancyAssumption DEF Init
  <2>4. ever_owner \in [Workspaces -> SUBSET Users]
    BY DEF Init, Owners
  <2>5. QED
    BY <2>2, <2>3, <2>4, TenancyAssumption DEF Init, TypeOK
<1>3. RequestsFit /\ AllGrounded /\ Current
  BY <1>1 DEF RequestsFit, AllGrounded, Current, InFlight, At
<1>4. Founded
  <2>1. \A w \in Workspaces : workspaces[w] = NoRow => Rows(w) = {} /\ edits[w] = 0
    <3>1. [active |-> TRUE, version |-> 1] \in Workspace
      BY DEF Workspace
    <3>2. QED
      BY <3>1, RowsAreRows DEF Init, Rows
  <2>2. QED
    BY <1>1, <2>1 DEF Init, Founded, At
<1>5. OwnersRecorded
  BY DEF Init, OwnersRecorded
<1>6. ASSUME NEW w \in Workspaces, NEW u \in Users, members[w][u] # NoRow
      PROVE  /\ members[w][u].role = "owner" => members[w][u].status = "active"
             /\ \E v \in Users : Owns(members[w][v])
  BY <1>6, TenancyAssumption DEF Init
<1>7. OwnersComeFromOwners
  BY <1>6 DEF Init, OwnersComeFromOwners, Owners, Owns
<1>8. OwnerlessOnlyByRace
  BY <1>6 DEF OwnerlessOnlyByRace, Owners
<1>9. Booked
  <2>1. \A w : Auditors(w) = {}
    BY <1>1 DEF Auditors
  <2>2. \A w : Cardinality(Auditors(w)) = 0
    BY <2>1, FS_EmptySet
  <2>3. QED
    BY <2>2 DEF Booked, Init
<1>10. VersionCountsEdits
  BY DEF Init, VersionCountsEdits
<1>11. QED
  BY <1>2, <1>3, <1>4, <1>5, <1>7, <1>8, <1>9, <1>10 DEF TenancyInv

LEMMA NextInv ==
    ASSUME TenancyInv, [Next]_vars
    PROVE  TenancyInv'
BY NextTyped, NextFits, NextFounded, NextOwners, NextKept, NextBooked, NextVersions
   DEF TenancyInv

LEMMA Invariant ==
    Spec => []TenancyInv
BY InitInv, NextInv, PTL DEF Spec

(* The owner role is only ever given by one who has owned the workspace, and *)
(* a workspace loses its last owner only where two changes of its members    *)
(* overlapped or an owner transferred to himself                             *)
(* (tenancy/service.py:129-412).                                             *)
THEOREM WorkspacesAreOwned ==
    Spec => []OwnersHold
<1>1. TenancyInv => OwnersHold
  BY DEF TenancyInv, OwnersHold
<1>2. QED
  BY <1>1, Invariant, PTL

(* Every audited change has its entry, or a request on its way to write it,  *)
(* or died, and the version counts the edits answered with success, unless   *)
(* two overlapped (tenancy/service.py, WorkspaceStore.update).               *)
THEOREM ChangesAreAlwaysCounted ==
    Spec => []ChangesAreCounted
<1>1. TenancyInv => ChangesAreCounted
  <2> SUFFICES ASSUME TenancyInv, NEW w \in Workspaces
               PROVE  /\ audit[w] <= changes[w]
                      /\ changes[w] <= audit[w] + Auditing(w) + faults
    BY DEF TenancyInv, ChangesAreCounted, AuditFollowsChanges
  <2>1. Auditing(w) = Cardinality(Auditors(w))
    BY DEF Auditing, Auditors
  <2>2. Cardinality(Auditors(w)) \in Nat
    <3>1. Auditors(w) \in SUBSET Requests
      BY DEF Auditors
    <3>2. QED
      BY <3>1, FS_Subset, FS_CardinalityType, TenancyAssumption
  <2>3. /\ audit[w] + Cardinality(Auditors(w)) <= changes[w]
        /\ changes[w] <= audit[w] + Cardinality(Auditors(w)) + faults
        /\ audit[w] \in Nat /\ changes[w] \in Nat
    BY DEF TenancyInv, Booked, TypeOK
  <2>4. QED
    BY <2>1, <2>2, <2>3
<1>2. QED
  BY <1>1, Invariant, PTL

LEMMA DisabledStays ==
    ASSUME TenancyInv, NEW r \in Requests, Changing(r), NEW w \in Workspaces, NEW v \in Users,
           members[w][v] # NoRow, members[w][v].status = "disabled"
    PROVE  members'[w][v] # NoRow /\ members'[w][v].status = "disabled"
<1> DEFINE q == request[r]
<1> USE DEF TenancyInv
<1>1. InFlight(r) /\ q \in Request /\ Fits(q) /\ q.ws \in Workspaces /\ q.role \in Roles
         /\ q.actor \in Users /\ q.target \in Users
  BY ChangeIs, RequestTyped DEF RequestsFit
<1>2. \A u \in Rows(q.ws) : members[q.ws][u] \in Member
  BY <1>1 DEF Rows, TypeOK
<1>3. ASSUME NEW u \in Users, NEW m \in Member, NEW by, NEW audited, SetMember(r, u, m, by, audited),
             w = q.ws /\ v = u => m.status = "disabled"
      PROVE  members'[w][v] # NoRow /\ members'[w][v].status = "disabled"
  <2>1. members' = [members EXCEPT ![q.ws][u] = m]
    BY <1>3 DEF SetMember
  <2>2. members'[w][v] = IF w = q.ws /\ v = u THEN m ELSE members[w][v]
    BY <1>1, <2>1 DEF TypeOK
  <2>3. QED
    BY <1>3, <2>2, RowsAreRows
<1>4. CASE CreateOwner(r)
  <2>1. w = q.ws => Rows(w) = {}
    BY <1>4 DEF CreateOwner, Founded
  <2>2. [role |-> "owner", status |-> "active"] \in Member /\ w # q.ws
    BY <2>1 DEF Member, Roles, Rows
  <2>3. QED
    BY <1>1, <1>3, <1>4, <2>2 DEF CreateOwner
<1>5. CASE Join(r)
  <2>1. [role |-> q.role, status |-> "active"] \in Member
    BY <1>1 DEF Member
  <2>2. QED
    BY <1>1, <1>3, <1>5, <2>1 DEF Join
<1>6. CASE WriteMember(r)
  <2> DEFINE m == members[q.ws][q.target]
             n == IF q.op = "change_role" THEN [m EXCEPT !.role = q.role]
                                          ELSE [m EXCEPT !.status = "disabled"]
  <2>1. m \in Member
    BY <1>1, <1>2, <1>6 DEF WriteMember, At, Fits
  <2>2. n \in Member /\ (m.status = "disabled" => n.status = "disabled")
    BY <1>1, <2>1 DEF Member
  <2>3. SetMember(r, q.target, n, q.actor, q.op # "leave")
    BY <1>6 DEF WriteMember
  <2> HIDE DEF n
  <2>4. QED
    BY <1>1, <1>3, <2>2, <2>3
<1>7. CASE Promote(r)
  <2> DEFINE m == members[q.ws][q.target]
             n == [m EXCEPT !.role = "owner"]
  <2>1. m \in Member
    BY <1>1, <1>2, <1>7 DEF Promote, At, Fits
  <2>2. n \in Member /\ (m.status = "disabled" => n.status = "disabled")
    BY <2>1 DEF Member, Roles
  <2>3. SetMember(r, q.target, n, q.actor, FALSE)
    BY <1>7 DEF Promote
  <2> HIDE DEF n
  <2>4. QED
    BY <1>1, <1>3, <2>2, <2>3
<1>8. CASE Demote(r)
  <2> DEFINE m == members[q.ws][q.actor]
             n == [m EXCEPT !.role = "admin"]
  <2>1. m \in Member
    BY <1>1, <1>2, <1>8 DEF Demote, At, Fits
  <2>2. n \in Member /\ (m.status = "disabled" => n.status = "disabled")
    BY <2>1 DEF Member, Roles
  <2>3. SetMember(r, q.actor, n, q.actor, TRUE)
    BY <1>8 DEF Demote
  <2> HIDE DEF n
  <2>4. QED
    BY <1>1, <1>3, <2>2, <2>3
<1>9. QED
  BY <1>4, <1>5, <1>6, <1>7, <1>8 DEF Changing

(* Who was removed or left stays out: no step of any request, invitation or  *)
(* transfer makes a disabled membership active again (tenancy/service.py).   *)
THEOREM WhoLeftStaysOut ==
    Spec => RemovedStaysOut
<1>1. ASSUME TenancyInv, [Next]_vars, NEW w \in Workspaces, NEW u \in Users,
             members[w][u] # NoRow, members[w][u].status = "disabled"
      PROVE  members'[w][u] # NoRow /\ members'[w][u].status = "disabled"
  <2>1. ASSUME NEW r \in Requests, Step(r)
        PROVE  members'[w][u] # NoRow /\ members'[w][u].status = "disabled"
    <3>1. CASE Changing(r)
      BY <1>1, <3>1, DisabledStays
    <3>2. CASE Beginning(r) \/ Reading(r) \/ Writing(r)
      BY <1>1, <3>2, QuietMembers DEF TenancyInv
    <3>3. QED
      BY <2>1, <3>1, <3>2, StepIs
  <2>2. CASE (\E t \in Tokens : Expire(t)) \/ UNCHANGED vars
    BY <1>1, <2>2 DEF Expire, vars, tables
  <2>3. QED
    BY <1>1, <2>1, <2>2 DEF Next
<1>2. TenancyInv /\ [Next]_vars =>
        [\A w \in Workspaces, u \in Users :
           members[w][u] # NoRow /\ members[w][u].status = "disabled"
              => members'[w][u] # NoRow /\ members'[w][u].status = "disabled"]_vars
  BY <1>1
<1>3. QED
  BY <1>2, Invariant, PTL DEF Spec, RemovedStaysOut

=============================================================================
