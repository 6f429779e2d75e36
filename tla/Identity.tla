------------------------------ MODULE Identity ------------------------------
(***************************************************************************)
(* Accounts, sessions and single-use links. A request validates its        *)
(* session or its link, reads the account, decides and writes, each in a   *)
(* transaction of its own; requests interleave between them, and any of    *)
(* them may die there. A password is the number of the change that set it; *)
(* what a request presents is right when it is verified, since a wrong one *)
(* changes nothing. Nothing in the program disables an account             *)
(* (UserStore.set_active has no caller). Audit entries are in Tenancy.     *)
(***************************************************************************)
EXTENDS Integers, FiniteSets

CONSTANTS
    Users, Emails,    \* accounts by id, normalized addresses
    Sessions, Tokens, \* rows by the secret that finds them
    Requests,
    FirstUsers,       \* the accounts there are at first
    NoRow, NoRequest, None,
    MaxRequests, MaxPasswords, MaxFaults

Purposes == {"reset", "verification", "change"}
User == [email : Emails, password : 0..MaxPasswords, outdated : BOOLEAN,
         verified : BOOLEAN, pending : Emails \cup {None}]
\* a dead session is revoked or past its absolute lifetime
Session == [user : Users, status : {"live", "idle", "dead"}]
\* a closed link is revoked or expired
Token == [user : Users, purpose : Purposes, status : {"open", "used", "closed"}]
\* the password a session was opened with, and whether it was no more the account's
Opening == [password : 0..MaxPasswords, late : BOOLEAN]

ASSUME IdentityAssumption ==
    /\ FirstUsers \in [Users -> User \cup {NoRow}]
    /\ NoRow \notin User /\ NoRow \notin Session /\ NoRow \notin Token
    /\ \A u, v \in Users :
          u # v /\ FirstUsers[u] # NoRow /\ FirstUsers[v] # NoRow
              => FirstUsers[u].email # FirstUsers[v].email
    /\ None \notin Emails \cup Users \cup Sessions \cup Tokens /\ None \notin Opening
    /\ MaxRequests \in Nat /\ MaxPasswords \in Nat /\ MaxFaults \in Nat

VARIABLES
    users, sessions, tokens,
    request,     \* what a request has read so far
    received, faults,
    passwords,   \* number of the last password anybody set
    opened,      \* history: password a session was opened with, and if it was current
    kept,        \* history: sessions a change of password left alive
    sent,        \* history: address a link was sent to
    reached,     \* history: addresses whose links an account redeemed
    uses,        \* history: times a link was redeemed
    races        \* history: rows two requests worked on at once, see below

rows == <<users, sessions, tokens>>
history == <<opened, kept, sent, reached, uses, races>>
vars == <<rows, request, received, faults, passwords, history>>

Init ==
    /\ users = FirstUsers
    /\ sessions = [s \in Sessions |-> NoRow]
    /\ tokens = [t \in Tokens |-> NoRow]
    /\ request = [r \in Requests |-> NoRequest]
    /\ received = 0
    /\ faults = 0
    /\ passwords = 0
    /\ opened = [s \in Sessions |-> None]
    /\ kept = {}
    /\ sent = [t \in Tokens |-> None]
    /\ reached = [u \in Users |->
          IF FirstUsers[u] # NoRow /\ FirstUsers[u].verified THEN {FirstUsers[u].email} ELSE {}]
    /\ uses = [t \in Tokens |-> 0]
    /\ races = {}

-----------------------------------------------------------------------------
InFlight(r) == request[r] # NoRequest
At(r, place) == request[r] # NoRequest /\ request[r].pc = place
Advance(r, place) == request' = [request EXCEPT ![r].pc = place]
Answer(r) == request' = [request EXCEPT ![r] = NoRequest]

Blank == [op |-> "login", user |-> None, session |-> None, token |-> None, purpose |-> "reset",
          email |-> None, password |-> 0, pc |-> "open"]
Open(r, fields) ==
    /\ request[r] = NoRequest
    /\ received < MaxRequests
    /\ received' = received + 1
    /\ request' = [request EXCEPT ![r] = fields]

(* History: what another request is doing with the same rows right now *)
Race(what, others) == races' = IF others = {} THEN races ELSE races \cup {what}

Taken(e) == \E u \in Users : users[u] # NoRow /\ users[u].email = e

(* The unique index on the address *)
IndexRefuses(u, e) == \E v \in Users \ {u} : users[v] # NoRow /\ users[v].email = e

-----------------------------------------------------------------------------
(* register *)

ReadFree(r, e) ==
    /\ ~Taken(e)
    /\ Open(r, [Blank EXCEPT !.op = "register", !.email = e, !.purpose = "verification", !.pc = "create"])
    /\ UNCHANGED <<rows, faults, passwords, history>>

CreateUser(r, u) ==
    LET e == request[r].email
    IN /\ At(r, "create")
       /\ users[u] = NoRow
       /\ IF IndexRefuses(u, e) THEN Answer(r) /\ UNCHANGED users
          ELSE /\ users' = [users EXCEPT ![u] = [email |-> e, password |-> 0, outdated |-> FALSE,
                                                 verified |-> FALSE, pending |-> None]]
               /\ request' = [request EXCEPT ![r].user = u, ![r].pc = "supersede"]
       /\ UNCHANGED <<sessions, tokens, received, faults, passwords, history>>

-----------------------------------------------------------------------------
(* login: read and verify, perhaps rehash, open the session *)

VerifyLogin(r, u) ==
    /\ users[u] # NoRow
    /\ Open(r, [Blank EXCEPT !.user = u, !.password = users[u].password,
                             !.pc = IF users[u].outdated THEN "rehash" ELSE "open"])
    /\ UNCHANGED <<rows, faults, passwords, history>>

(* The hash is that of the password which was verified. *)
Rehash(r) ==
    LET q == request[r]
    IN /\ At(r, "rehash")
       /\ users' = [users EXCEPT ![q.user].password = q.password, ![q.user].outdated = FALSE]
       /\ races' = IF users[q.user].password = q.password THEN races
                   ELSE races \cup {<<"password", q.user>>}
       /\ Advance(r, "open")
       /\ UNCHANGED <<sessions, tokens, received, faults, passwords, opened, kept, sent, reached, uses>>

OpenSession(r, s) ==
    LET q == request[r]
    IN /\ At(r, "open")
       /\ sessions[s] = NoRow
       /\ sessions' = [sessions EXCEPT ![s] = [user |-> q.user, status |-> "live"]]
       /\ opened' = [opened EXCEPT ![s] =
              [password |-> q.password, late |-> users[q.user].password # q.password]]
       /\ Answer(r)
       /\ UNCHANGED <<users, tokens, received, faults, passwords, kept, sent, reached, uses, races>>

-----------------------------------------------------------------------------
(* Requests of a signed-in user: validate_session reads, then touches *)

(* Mutant: idle sessions are passed over when all are revoked. *)
AliveUnlessIdle(s) == sessions[s] # NoRow /\ sessions[s].status = "live"
Alive(s) == sessions[s] # NoRow /\ sessions[s].status # "dead"
Valid(s) == sessions[s] # NoRow /\ sessions[s].status = "live"

Signed == {"logout", "logout_all", "change_password", "resend", "email_change"}

Validate(r, s, op, e) ==
    /\ Valid(s)
    /\ op \in Signed
    /\ Open(r, [Blank EXCEPT !.op = op, !.user = sessions[s].user, !.session = s, !.pc = "touch",
                             !.email = IF op = "email_change" THEN e ELSE None])
    /\ UNCHANGED <<rows, faults, passwords, history>>

(* Mutant: the row that was read is written back, not yet revoked. *)
TouchedWhole(s) == [sessions[s] EXCEPT !.status = "live"]
Touched(s) == [sessions[s] EXCEPT !.status = IF @ = "idle" THEN "live" ELSE @]

AfterTouch == [logout |-> "revoke", logout_all |-> "revoke_all", change_password |-> "verify",
               resend |-> "resend", email_change |-> "verify"]

Touch(r) ==
    LET q == request[r]
    IN /\ At(r, "touch")
       /\ sessions' = [sessions EXCEPT ![q.session] = Touched(q.session)]
       /\ Advance(r, AfterTouch[q.op])
       /\ UNCHANGED <<users, tokens, received, faults, passwords, history>>

Revoke(r) ==
    /\ At(r, "revoke")
    /\ sessions' = [sessions EXCEPT ![request[r].session].status = "dead"]
    /\ Answer(r)
    /\ UNCHANGED <<users, tokens, received, faults, passwords, history>>

(* A change of password keeps the session it came through. *)
Keeps(q, s) == q.op = "change_password" /\ s = q.session

RevokeAll(r) ==
    LET q == request[r]
        mine == {s \in Sessions : Alive(s) /\ sessions[s].user = q.user}
    IN /\ At(r, "revoke_all")
       /\ sessions' = [s \in Sessions |->
              IF s \in mine /\ ~Keeps(q, s) THEN [sessions[s] EXCEPT !.status = "dead"] ELSE sessions[s]]
       /\ kept' = kept \cup {s \in mine : Keeps(q, s)}
       /\ Answer(r)
       /\ UNCHANGED <<users, tokens, received, faults, passwords, opened, sent, reached, uses, races>>

-----------------------------------------------------------------------------
(* change_password and request_email_change verify the password first *)

Verify(r) ==
    LET q == request[r]
    IN /\ At(r, "verify")
       /\ \/ q.op = "change_password" /\ Advance(r, "set")
          \/ q.op = "email_change" /\ ~Taken(q.email) /\ Advance(r, "pend")
          \/ Answer(r)
       /\ UNCHANGED <<rows, received, faults, passwords, history>>

SetPassword(r) ==
    LET q == request[r]
    IN /\ At(r, "set")
       /\ passwords < MaxPasswords
       /\ passwords' = passwords + 1
       /\ users' = [users EXCEPT ![q.user].password = passwords + 1, ![q.user].outdated = FALSE]
       /\ Advance(r, "revoke_all")
       /\ UNCHANGED <<sessions, tokens, received, faults, history>>

(* History: links of an account that may be redeemed for an address they   *)
(* were not sent to, from here on                                          *)
Changing(r) == {q \in Requests \ {r} :
    InFlight(q) /\ request[q].user = request[r].user /\ request[q].purpose = "change"}

SetPending(r) ==
    LET q == request[r]
    IN /\ At(r, "pend")
       /\ users' = [users EXCEPT ![q.user].pending = q.email]
       /\ request' = [request EXCEPT ![r].purpose = "change", ![r].pc = "supersede"]
       /\ Race(<<"address", q.user>>, Changing(r))
       /\ UNCHANGED <<sessions, tokens, received, faults, passwords, opened, kept, sent, reached, uses>>

-----------------------------------------------------------------------------
(* Links: a fresh one supersedes those still open *)

Forgot(r, u) ==
    /\ users[u] # NoRow
    /\ Open(r, [Blank EXCEPT !.op = "forgot", !.user = u, !.email = users[u].email, !.pc = "supersede"])
    /\ UNCHANGED <<rows, faults, passwords, history>>

Resend(r) ==
    LET u == request[r].user
    IN /\ At(r, "resend")
       /\ IF users[u].verified THEN Answer(r)
          ELSE request' = [request EXCEPT ![r].purpose = "verification", ![r].pc = "supersede",
                                          ![r].email = users[u].email]
       /\ UNCHANGED <<rows, received, faults, passwords, history>>

(* Mutant: the links of every other purpose are superseded. *)
SupersededOther(t, q) ==
    tokens[t] # NoRow /\ tokens[t].user = q.user /\ tokens[t].purpose # q.purpose
        /\ tokens[t].status = "open"
Superseded(t, q) ==
    tokens[t] # NoRow /\ tokens[t].user = q.user /\ tokens[t].purpose = q.purpose
        /\ tokens[t].status = "open"

Issuing(r) == {q \in Requests \ {r} :
    At(q, "issue") /\ request[q].user = request[r].user /\ request[q].purpose = request[r].purpose}

Supersede(r) ==
    LET q == request[r]
    IN /\ At(r, "supersede")
       /\ tokens' = [t \in Tokens |->
              IF Superseded(t, q) THEN [tokens[t] EXCEPT !.status = "closed"] ELSE tokens[t]]
       /\ Race(<<"link", q.user>>, Issuing(r))
       /\ Advance(r, "issue")
       /\ UNCHANGED <<users, sessions, received, faults, passwords, opened, kept, sent, reached, uses>>

Issue(r, t) ==
    LET q == request[r]
    IN /\ At(r, "issue")
       /\ tokens[t] = NoRow
       /\ tokens' = [tokens EXCEPT ![t] = [user |-> q.user, purpose |-> q.purpose, status |-> "open"]]
       /\ sent' = [sent EXCEPT ![t] = q.email]
       /\ Answer(r)
       /\ UNCHANGED <<users, sessions, received, faults, passwords, opened, kept, reached, uses, races>>

-----------------------------------------------------------------------------
(* Redeeming a link: _consume_token reads, then marks it used *)

Redeem(r, t) ==
    /\ tokens[t] # NoRow /\ tokens[t].status = "open"
    /\ Open(r, [Blank EXCEPT !.op = "redeem", !.user = tokens[t].user, !.token = t,
                             !.purpose = tokens[t].purpose, !.pc = "use"])
    /\ races' = races
         \cup {<<"use", request[q].token>> : q \in {p \in Requests : At(p, "use") /\ request[p].token = t}}
         \cup {<<"address", request[q].user>> : q \in {p \in Requests :
                  /\ InFlight(p) /\ request[p].user = tokens[t].user
                  /\ request[p].purpose = "change" /\ tokens[t].purpose = "change"}}
    /\ UNCHANGED <<rows, faults, passwords, opened, kept, sent, reached, uses>>

AfterUse == [reset |-> "set", verification |-> "mark", change |-> "pending"]

Use(r) ==
    LET q == request[r]
    IN /\ At(r, "use")
       /\ tokens' = [tokens EXCEPT ![q.token].status = "used"]
       /\ uses' = [uses EXCEPT ![q.token] = @ + 1]
       /\ reached' = [reached EXCEPT ![q.user] = @ \cup {sent[q.token]}]
       /\ Advance(r, AfterUse[q.purpose])
       /\ UNCHANGED <<users, sessions, received, faults, passwords, opened, kept, sent, races>>

(* The link is spent before the new password is found too short. *)
TooShort(r) ==
    /\ At(r, "set") /\ request[r].op = "redeem"
    /\ Answer(r)
    /\ UNCHANGED <<rows, received, faults, passwords, history>>

MarkVerified(r) ==
    /\ At(r, "mark")
    /\ users' = [users EXCEPT ![request[r].user].verified = TRUE]
    /\ Answer(r)
    /\ UNCHANGED <<sessions, tokens, received, faults, passwords, history>>

ReadPending(r) ==
    LET q == request[r]
        e == users[q.user].pending
    IN /\ At(r, "pending")
       /\ IF e = None \/ Taken(e) THEN Answer(r)
          ELSE request' = [request EXCEPT ![r].email = e, ![r].pc = "apply"]
       /\ UNCHANGED <<rows, received, faults, passwords, history>>

ApplyChange(r) ==
    LET q == request[r]
    IN /\ At(r, "apply")
       /\ IF IndexRefuses(q.user, q.email) THEN Answer(r) /\ UNCHANGED users
          ELSE /\ users' = [users EXCEPT ![q.user].email = q.email, ![q.user].pending = None,
                                         ![q.user].verified = TRUE]
               /\ Advance(r, "revoke_all")
       /\ UNCHANGED <<sessions, tokens, received, faults, passwords, history>>

-----------------------------------------------------------------------------
(* Time, and requests that die *)

GoIdle(s) ==
    /\ Valid(s)
    /\ sessions' = [sessions EXCEPT ![s].status = "idle"]
    /\ UNCHANGED <<users, tokens, request, received, faults, passwords, history>>

RunOut(s) ==
    /\ Alive(s)
    /\ sessions' = [sessions EXCEPT ![s].status = "dead"]
    /\ UNCHANGED <<users, tokens, request, received, faults, passwords, history>>

Lapse(t) ==
    /\ tokens[t] # NoRow /\ tokens[t].status = "open"
    /\ tokens' = [tokens EXCEPT ![t].status = "closed"]
    /\ UNCHANGED <<users, sessions, request, received, faults, passwords, history>>

Fail(r) ==
    LET q == request[r]
    IN /\ InFlight(r)
       /\ faults < MaxFaults
       /\ faults' = faults + 1
       /\ races' = races
            \cup (IF q.pc = "supersede" /\ q.purpose = "change" THEN {<<"address", q.user>>} ELSE {})
            \cup (IF q.pc = "revoke_all" THEN {<<"sessions", q.user>>} ELSE {})
       /\ Answer(r)
       /\ UNCHANGED <<rows, received, passwords, opened, kept, sent, reached, uses>>

Step(r) ==
    \/ \E e \in Emails : ReadFree(r, e)
    \/ \E u \in Users : CreateUser(r, u) \/ VerifyLogin(r, u) \/ Forgot(r, u)
    \/ \E s \in Sessions :
          \/ OpenSession(r, s)
          \/ \E op \in Signed, e \in Emails : Validate(r, s, op, e)
    \/ \E t \in Tokens : Issue(r, t) \/ Redeem(r, t)
    \/ Rehash(r) \/ Touch(r) \/ Revoke(r) \/ RevokeAll(r)
    \/ Verify(r) \/ SetPassword(r) \/ SetPending(r)
    \/ Resend(r) \/ Supersede(r)
    \/ Use(r) \/ TooShort(r) \/ MarkVerified(r) \/ ReadPending(r) \/ ApplyChange(r)
    \/ Fail(r)

Next ==
    \/ \E r \in Requests : Step(r)
    \/ \E s \in Sessions : GoIdle(s) \/ RunOut(s)
    \/ \E t \in Tokens : Lapse(t)

Spec == Init /\ [][Next]_vars

-----------------------------------------------------------------------------
(* Properties *)

Request == [op : Signed \cup {"register", "login", "forgot", "redeem"}, user : Users \cup {None},
            session : Sessions \cup {None}, token : Tokens \cup {None}, purpose : Purposes,
            email : Emails \cup {None}, password : 0..MaxPasswords,
            pc : {"create", "rehash", "open", "touch", "revoke", "revoke_all", "verify", "set", "pend",
                  "resend", "supersede", "issue", "use", "mark", "pending", "apply"}]

ASSUME RequestAssumption == NoRequest \notin Request

(* The rows and the requests keep their types.                             *)
TypeOK ==
    /\ users \in [Users -> User \cup {NoRow}]
    /\ sessions \in [Sessions -> Session \cup {NoRow}]
    /\ tokens \in [Tokens -> Token \cup {NoRow}]
    /\ request \in [Requests -> Request \cup {NoRequest}]
    /\ received \in 0..MaxRequests /\ faults \in 0..MaxFaults /\ passwords \in 0..MaxPasswords
    /\ opened \in [Sessions -> Opening \cup {None}]
    /\ \A s \in Sessions : opened[s] = None <=> sessions[s] = NoRow
    /\ kept \subseteq Sessions
    /\ sent \in [Tokens -> Emails \cup {None}]
    /\ reached \in [Users -> SUBSET Emails]
    /\ uses \in [Tokens -> Nat]

(* An address signs one account in, whichever registrations and changes of *)
(* address check it at once (the unique index behind create and            *)
(* apply_email_change).                                                    *)
EmailsUnique ==
    \A u, v \in Users :
        u # v /\ users[u] # NoRow /\ users[v] # NoRow => users[u].email # users[v].email

Revoking(u) == \E r \in Requests : At(r, "revoke_all") /\ request[r].user = u

(* A session that was opened with an older password is alive only if it is *)
(* the one its change kept, if the login had verified it before the change *)
(* and opened the session after, while the change is still to revoke, if   *)
(* the change died before revoking, or if a login's rehash put an old hash *)
(* back (change_password, reset_password, login).                          *)
SessionsFollowPassword ==
    \A s \in Sessions :
        LET u == sessions[s].user
        IN Valid(s) =>
            \/ opened[s].password = users[u].password
            \/ s \in kept \/ opened[s].late
            \/ Revoking(u)
            \/ <<"sessions", u>> \in races \/ <<"password", u>> \in races

(* A verified address was reached: the account redeemed a link sent to it, *)
(* unless a change of address died between recording the address and       *)
(* superseding the older links, or ran beside another or beside a          *)
(* redemption (request_email_change, confirm_email_change).                *)
VerifiedWasReached ==
    \A u \in Users :
        users[u] # NoRow /\ users[u].verified
            => users[u].email \in reached[u] \/ <<"address", u>> \in races

(* One link of each purpose is open, and each is redeemed once, except     *)
(* when two requests issue at once or redeem the same link at once         *)
(* (_issue_and_send_token, _consume_token).                                *)
LinksAreSingle ==
    /\ \A u \in Users, p \in Purposes :
          \/ Cardinality({t \in Tokens : tokens[t] # NoRow /\ tokens[t].user = u
                              /\ tokens[t].purpose = p /\ tokens[t].status = "open"}) <= 1
          \/ <<"link", u>> \in races
    /\ \A t \in Tokens : uses[t] <= 1 \/ <<"use", t>> \in races

(* An account belongs to who reads its address: addresses are its own,     *)
(* reached, and proven by links that work once.                            *)
AccountsHold == TypeOK /\ EmailsUnique /\ VerifiedWasReached /\ LinksAreSingle

(* No request that read a session before it was revoked, and touches it    *)
(* after, brings it back (validate_session).                               *)
DeadStaysDead ==
    [][\A s \in Sessions : sessions[s] # NoRow /\ ~Alive(s) => sessions'[s].status = "dead"]_vars

=============================================================================
