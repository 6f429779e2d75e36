-------------------------- MODULE Identity_proofs ---------------------------
(***************************************************************************)
(* What holds of accounts, sessions and links for every number of users,   *)
(* addresses, sessions, links and requests, whatever requests cross and    *)
(* wherever they die.                                                      *)
(***************************************************************************)
EXTENDS Identity, FiniteSetTheorems, TLAPS

-----------------------------------------------------------------------------
(* The inductive invariant                                                   *)

(* What a request has established by the place it has reached                *)
Fits(q) ==
    /\ q.pc = "create" => q.email \in Emails /\ q.purpose = "verification"
    /\ q.pc # "create" => q.user \in Users /\ users[q.user] # NoRow
    /\ q.pc \in {"touch", "revoke"} => q.session \in Sessions /\ sessions[q.session] # NoRow
    /\ q.pc = "touch" => q.op \in Signed
    /\ q.pc \in {"touch", "verify"} /\ q.op = "email_change" => q.email \in Emails
    /\ q.pc = "verify" => q.op \in {"change_password", "email_change"}
    /\ q.pc \in {"pend", "supersede", "issue", "apply"} => q.email \in Emails
    /\ q.pc = "use" =>
          /\ q.token \in Tokens /\ tokens[q.token] # NoRow
          /\ tokens[q.token].user = q.user /\ tokens[q.token].purpose = q.purpose
    /\ q.pc = "mark" => q.purpose = "verification"
    /\ q.pc \in {"pending", "apply"} => q.purpose = "change"
    /\ q.purpose = "change" =>
          q.pc \in {"supersede", "issue", "use", "pending", "apply", "revoke_all"}
RequestsFit == \A r \in Requests : InFlight(r) => Fits(request[r])

(* Sessions and links are of accounts, and links were sent somewhere.        *)
RowsFit ==
    /\ \A s \in Sessions : sessions[s] # NoRow => users[sessions[s].user] # NoRow
    /\ \A t \in Tokens : tokens[t] # NoRow =>
          users[tokens[t].user] # NoRow /\ sent[t] \in Emails

(* Also idle sessions, which a request under way may touch                   *)
AliveFollow ==
    \A s \in Sessions : Alive(s) =>
        LET u == sessions[s].user
        IN  \/ opened[s].password = users[u].password
            \/ s \in kept \/ opened[s].late
            \/ Revoking(u)
            \/ <<"sessions", u>> \in races \/ <<"password", u>> \in races

(* A link to verify an address goes to the address the account has until it  *)
(* is verified.                                                              *)
Verifying ==
    /\ \A t \in Tokens :
          tokens[t] # NoRow /\ tokens[t].purpose = "verification" /\ ~users[tokens[t].user].verified
              => sent[t] = users[tokens[t].user].email
    /\ \A r \in Requests : InFlight(r) =>
          LET q == request[r]
          IN  /\ q.pc \in {"supersede", "issue"} /\ q.purpose = "verification"
                    /\ ~users[q.user].verified => q.email = users[q.user].email
              /\ q.pc = "mark" /\ ~users[q.user].verified
                    => users[q.user].email \in reached[q.user]

(* One request at a time changes the address of an account, and what it      *)
(* applies was reached, unless races says so.                                *)
ChangesAddress(r, u) == InFlight(r) /\ request[r].user = u /\ request[r].purpose = "change"
Readdressing ==
    \A u \in Users : users[u] # NoRow /\ <<"address", u>> \notin races =>
        /\ \A r, q \in Requests : ChangesAddress(r, u) /\ ChangesAddress(q, u) => r = q
        /\ \A t \in Tokens :
              tokens[t] # NoRow /\ tokens[t].user = u /\ tokens[t].purpose = "change"
                    /\ tokens[t].status = "open"
                 => \/ users[u].pending \in {sent[t], None}
                    \/ \E r \in Requests : ChangesAddress(r, u) /\ request[r].pc = "supersede"
        /\ \A r \in Requests : ChangesAddress(r, u) =>
              LET q == request[r]
              IN  /\ q.pc \in {"supersede", "issue"} => q.email = users[u].pending
                  /\ q.pc = "use" => users[u].pending \in {sent[q.token], None}
                  /\ q.pc = "pending" => users[u].pending \in reached[u] \cup {None}
                  /\ q.pc = "apply" => q.email \in reached[u]

(* Who is to issue a link has closed the others.                             *)
OpenLinks(u, p) == {t \in Tokens : tokens[t] # NoRow /\ tokens[t].user = u
                              /\ tokens[t].purpose = p /\ tokens[t].status = "open"}
Issues(r, u, p) == At(r, "issue") /\ request[r].user = u /\ request[r].purpose = p
Linking ==
    \A u \in Users, p \in Purposes : <<"link", u>> \notin races =>
        /\ \A t, v \in OpenLinks(u, p) : t = v
        /\ \A r \in Requests : Issues(r, u, p) => OpenLinks(u, p) = {}
        /\ \A r, q \in Requests : Issues(r, u, p) /\ Issues(q, u, p) => r = q

Uses(r, t) == At(r, "use") /\ request[r].token = t
Using ==
    \A t \in Tokens :
        /\ tokens[t] = NoRow => uses[t] = 0
        /\ <<"use", t>> \notin races =>
            /\ tokens[t] # NoRow /\ tokens[t].status = "open" => uses[t] = 0
            /\ uses[t] <= 1
            /\ \A r \in Requests : Uses(r, t) => uses[t] = 0
            /\ \A r, q \in Requests : Uses(r, t) /\ Uses(q, t) => r = q

IdentityInv ==
    /\ TypeOK /\ RequestsFit /\ RowsFit
    /\ EmailsUnique
    /\ AliveFollow
    /\ Verifying /\ Readdressing /\ VerifiedWasReached
    /\ Linking /\ Using


-----------------------------------------------------------------------------
(* Types                                                                     *)

Places == {"create", "rehash", "open", "touch", "revoke", "revoke_all", "verify", "set", "pend",
           "resend", "supersede", "issue", "use", "mark", "pending", "apply"}
Operations == Signed \cup {"register", "login", "forgot", "redeem"}

LEMMA RowsAreRows ==
    \A x \in User \cup Session \cup Token : x # NoRow
BY IdentityAssumption

LEMMA RequestTyped ==
    ASSUME TypeOK, NEW r \in Requests, InFlight(r)
    PROVE  /\ request[r] \in Request
           /\ request[r].user \in Users \cup {None} /\ request[r].purpose \in Purposes
           /\ request[r].password \in 0..MaxPasswords /\ request[r].pc \in Places
           /\ request[r].email \in Emails \cup {None}
           /\ request[r].token \in Tokens \cup {None}
           /\ request[r].session \in Sessions \cup {None}
           /\ request[r].op \in Operations
BY DEF TypeOK, InFlight, Request, Places, Operations

LEMMA BlankTyped ==
    Blank \in Request
BY IdentityAssumption DEF Blank, Request, Purposes

(* A step that begins a request                                              *)
Beginning(r) ==
    \/ \E e \in Emails : ReadFree(r, e)
    \/ \E u \in Users : VerifyLogin(r, u) \/ Forgot(r, u)
    \/ \E s \in Sessions, op \in Signed, e \in Emails : Validate(r, s, op, e)
    \/ \E t \in Tokens : Redeem(r, t)

(* A step of a request that only reads, and goes on or answers               *)
Deciding(r) == Verify(r) \/ Resend(r) \/ TooShort(r) \/ ReadPending(r)

(* A step of a request that writes an account, a session or links            *)
WritingUser(r) ==
    \/ \E u \in Users : CreateUser(r, u)
    \/ Rehash(r) \/ SetPassword(r) \/ SetPending(r) \/ MarkVerified(r) \/ ApplyChange(r)
WritingSession(r) ==
    (\E s \in Sessions : OpenSession(r, s)) \/ Touch(r) \/ Revoke(r) \/ RevokeAll(r)
WritingLink(r) == Supersede(r) \/ (\E t \in Tokens : Issue(r, t)) \/ Use(r)

LEMMA StepIs ==
    ASSUME NEW r \in Requests, Step(r)
    PROVE  \/ Beginning(r) \/ Deciding(r) \/ Fail(r)
           \/ WritingUser(r) \/ WritingSession(r) \/ WritingLink(r)
<1>1. CASE \E e \in Emails : ReadFree(r, e)
  BY <1>1 DEF Beginning
<1>2. CASE \E u \in Users : CreateUser(r, u) \/ VerifyLogin(r, u) \/ Forgot(r, u)
  BY <1>2 DEF Beginning, WritingUser
<1>3. CASE \E s \in Sessions :
             OpenSession(r, s) \/ \E op \in Signed, e \in Emails : Validate(r, s, op, e)
  BY <1>3 DEF Beginning, WritingSession
<1>4. CASE \E t \in Tokens : Issue(r, t) \/ Redeem(r, t)
  BY <1>4 DEF Beginning, WritingLink
<1>5. QED
  BY <1>1, <1>2, <1>3, <1>4
     DEF Step, Deciding, WritingUser, WritingSession, WritingLink

-----------------------------------------------------------------------------
(* What becomes of a request                                                 *)

Moves(r) == \A q \in Requests \ {r} : request'[q] = request[q]

LEMMA OpenIs ==
    ASSUME TypeOK, NEW r \in Requests, NEW q, Open(r, q)
    PROVE  /\ request[r] = NoRequest /\ request'[r] = q /\ Moves(r)
           /\ received' \in 0..MaxRequests
           /\ q \in Request => request' \in [Requests -> Request \cup {NoRequest}]
BY IdentityAssumption DEF TypeOK, Open, Moves

LEMMA AnswerIs ==
    ASSUME TypeOK, NEW r \in Requests, Answer(r)
    PROVE  /\ request'[r] = NoRequest /\ Moves(r)
           /\ request' \in [Requests -> Request \cup {NoRequest}]
BY DEF TypeOK, Answer, Moves

LEMMA AdvanceIs ==
    ASSUME TypeOK, NEW r \in Requests, InFlight(r), NEW place \in Places, Advance(r, place)
    PROVE  /\ request'[r] = [request[r] EXCEPT !.pc = place] /\ Moves(r)
           /\ request'[r] \in Request
           /\ request' \in [Requests -> Request \cup {NoRequest}]
<1>1. [request[r] EXCEPT !.pc = place] \in Request
  BY RequestTyped DEF Request, Places
<1>2. QED
  BY <1>1 DEF TypeOK, Advance, Moves


-----------------------------------------------------------------------------
(* What each step of a request makes of it                                   *)

Books == <<faults, passwords, opened, kept, sent, reached, uses>>

(* A request as it begins                                                    *)
Begun(r, q) ==
    /\ Open(r, q) /\ q \in Request /\ Fits(q)
    /\ q.pc \in {"create", "rehash", "open", "touch", "supersede", "use"}
    /\ q.pc = "supersede" => q.purpose = "reset"
    /\ UNCHANGED <<rows, Books>>
    /\ \/ UNCHANGED races /\ q.pc # "use" /\ q.purpose # "change"
       \/ q.pc = "use" /\ Redeem(r, q.token)

LEMMA BeginningBegins ==
    ASSUME TypeOK, RowsFit, NEW r \in Requests, Beginning(r)
    PROVE  \E q \in Request : Begun(r, q)
<1>1. ASSUME NEW e \in Emails, ReadFree(r, e) PROVE \E q \in Request : Begun(r, q)
  <2> DEFINE q == [Blank EXCEPT !.op = "register", !.email = e, !.purpose = "verification",
                                !.pc = "create"]
  <2>1. q \in Request /\ q.email = e /\ q.purpose = "verification" /\ q.pc = "create"
    BY BlankTyped DEF Blank, Request, Purposes
  <2>2. Open(r, q) /\ UNCHANGED <<rows, Books, races>>
    BY <1>1 DEF ReadFree, Books, history
  <2> HIDE DEF q
  <2>3. Begun(r, q)
    BY <2>1, <2>2 DEF Begun, Fits
  <2>4. QED
    BY <2>1, <2>3
<1>2. ASSUME NEW u \in Users, VerifyLogin(r, u) PROVE \E q \in Request : Begun(r, q)
  <2> DEFINE q == [Blank EXCEPT !.user = u, !.password = users[u].password,
                                !.pc = IF users[u].outdated THEN "rehash" ELSE "open"]
  <2>1. users[u] \in User /\ users[u] # NoRow
    BY <1>2 DEF VerifyLogin, TypeOK
  <2>2. q \in Request /\ q.user = u /\ q.purpose = "reset" /\ q.pc \in {"rehash", "open"}
    BY <2>1, BlankTyped DEF Blank, Request, Purposes, User
  <2>3. Open(r, q) /\ UNCHANGED <<rows, Books, races>>
    BY <1>2 DEF VerifyLogin, Books, history
  <2> HIDE DEF q
  <2>4. Begun(r, q)
    BY <2>1, <2>2, <2>3 DEF Begun, Fits
  <2>5. QED
    BY <2>2, <2>4
<1>3. ASSUME NEW u \in Users, Forgot(r, u) PROVE \E q \in Request : Begun(r, q)
  <2> DEFINE q == [Blank EXCEPT !.op = "forgot", !.user = u, !.email = users[u].email,
                                !.pc = "supersede"]
  <2>1. users[u] \in User /\ users[u] # NoRow
    BY <1>3 DEF Forgot, TypeOK
  <2>2. q \in Request /\ q.user = u /\ q.purpose = "reset" /\ q.pc = "supersede"
           /\ q.email \in Emails
    BY <2>1, BlankTyped DEF Blank, Request, Purposes, User
  <2>3. Open(r, q) /\ UNCHANGED <<rows, Books, races>>
    BY <1>3 DEF Forgot, Books, history
  <2> HIDE DEF q
  <2>4. Begun(r, q)
    BY <2>1, <2>2, <2>3 DEF Begun, Fits
  <2>5. QED
    BY <2>2, <2>4
<1>4. ASSUME NEW s \in Sessions, NEW op \in Signed, NEW e \in Emails, Validate(r, s, op, e)
      PROVE  \E q \in Request : Begun(r, q)
  <2> DEFINE q == [Blank EXCEPT !.op = op, !.user = sessions[s].user, !.session = s,
                                !.pc = "touch", !.email = IF op = "email_change" THEN e ELSE None]
  <2>1. /\ sessions[s] # NoRow /\ sessions[s].user \in Users
        /\ users[sessions[s].user] # NoRow
    BY <1>4 DEF Validate, Valid, TypeOK, Session, RowsFit
  <2>2. q \in Request /\ q.user = sessions[s].user /\ q.session = s /\ q.purpose = "reset"
           /\ q.pc = "touch" /\ q.op = op /\ (op = "email_change" => q.email \in Emails)
    BY <2>1, BlankTyped DEF Blank, Request, Purposes
  <2>3. Open(r, q) /\ UNCHANGED <<rows, Books, races>>
    BY <1>4 DEF Validate, Books, history
  <2> HIDE DEF q
  <2>4. Begun(r, q)
    BY <2>1, <2>2, <2>3 DEF Begun, Fits
  <2>5. QED
    BY <2>2, <2>4
<1>5. ASSUME NEW t \in Tokens, Redeem(r, t) PROVE \E q \in Request : Begun(r, q)
  <2> DEFINE q == [Blank EXCEPT !.op = "redeem", !.user = tokens[t].user, !.token = t,
                                !.purpose = tokens[t].purpose, !.pc = "use"]
  <2>1. /\ tokens[t] # NoRow /\ tokens[t].user \in Users /\ tokens[t].purpose \in Purposes
        /\ users[tokens[t].user] # NoRow
    BY <1>5 DEF Redeem, TypeOK, Token, RowsFit
  <2>2. q \in Request /\ q.user = tokens[t].user /\ q.token = t /\ q.purpose = tokens[t].purpose
           /\ q.pc = "use"
    BY <2>1, BlankTyped DEF Blank, Request
  <2>3. Open(r, q) /\ UNCHANGED <<rows, Books>>
    BY <1>5 DEF Redeem, Books
  <2> HIDE DEF q
  <2>4. Begun(r, q)
    BY <1>5, <2>1, <2>2, <2>3 DEF Begun, Fits
  <2>5. QED
    BY <2>2, <2>4
<1>6. QED
  BY <1>1, <1>2, <1>3, <1>4, <1>5 DEF Beginning

LEMMA BeginningIs ==
    ASSUME TypeOK, RowsFit, NEW r \in Requests, Beginning(r)
    PROVE  /\ request[r] = NoRequest /\ Moves(r)
           /\ request' \in [Requests -> Request \cup {NoRequest}]
           /\ received' \in 0..MaxRequests
           /\ UNCHANGED <<rows, Books>>
           /\ request'[r] \in Request /\ Fits(request'[r])
           /\ request'[r].pc \in {"create", "rehash", "open", "touch", "supersede", "use"}
           /\ request'[r].pc = "supersede" => request'[r].purpose = "reset"
           /\ \/ UNCHANGED races /\ request'[r].pc # "use" /\ request'[r].purpose # "change"
              \/ request'[r].pc = "use" /\ Redeem(r, request'[r].token)
<1>1. PICK q \in Request : Begun(r, q)
  BY BeginningBegins
<1>2. request[r] = NoRequest /\ request'[r] = q /\ Moves(r)
         /\ received' \in 0..MaxRequests
         /\ request' \in [Requests -> Request \cup {NoRequest}]
  BY <1>1, OpenIs DEF Begun
<1>3. QED
  BY <1>1, <1>2 DEF Begun


LEMMA DecidingIs ==
    ASSUME TypeOK, RequestsFit, NEW r \in Requests, Deciding(r)
    PROVE  /\ InFlight(r) /\ Moves(r) /\ UNCHANGED <<rows, received, Books, races>>
           /\ request' \in [Requests -> Request \cup {NoRequest}]
           /\ request[r].pc \notin {"revoke_all", "supersede", "issue", "use"}
           /\ \/ request'[r] = NoRequest
              \/ /\ request[r].pc = "verify" /\ request[r].op = "change_password"
                 /\ request'[r] = [request[r] EXCEPT !.pc = "set"]
              \/ /\ request[r].pc = "verify" /\ request[r].op = "email_change"
                 /\ request'[r] = [request[r] EXCEPT !.pc = "pend"]
              \/ /\ request[r].pc = "resend" /\ ~users[request[r].user].verified
                 /\ request'[r] = [request[r] EXCEPT !.purpose = "verification", !.pc = "supersede",
                                                     !.email = users[request[r].user].email]
              \/ /\ request[r].pc = "pending" /\ users[request[r].user].pending # None
                 /\ request'[r] = [request[r] EXCEPT !.email = users[request[r].user].pending,
                                                     !.pc = "apply"]
<1> DEFINE q == request[r]
<1>1. /\ InFlight(r) /\ UNCHANGED <<rows, received, Books, races>>
      /\ q.pc \notin {"revoke_all", "supersede", "issue", "use"}
  BY DEF Deciding, Verify, Resend, TooShort, ReadPending, At, InFlight, Books, history
<1>2. q \in Request /\ Fits(q)
  BY <1>1, RequestTyped DEF RequestsFit
<1>3. CASE Answer(r)
  BY <1>1, <1>3, AnswerIs
<1>4. CASE Verify(r)
  <2>1. {"set", "pend"} \subseteq Places
    BY DEF Places
  <2>2. QED
    BY <1>1, <1>3, <1>4, <2>1, AdvanceIs DEF Verify, At
<1>5. CASE Resend(r)
  <2>1. users[q.user] \in User
    BY <1>2, <1>5 DEF Resend, At, Fits, TypeOK
  <2> DEFINE n == [q EXCEPT !.purpose = "verification", !.pc = "supersede",
                            !.email = users[q.user].email]
  <2>2. n \in Request
    BY <1>2, <2>1 DEF Request, Purposes, User
  <2>3. CASE /\ ~users[q.user].verified
             /\ request' = [request EXCEPT ![r].purpose = "verification", ![r].pc = "supersede",
                                           ![r].email = users[q.user].email]
    <3>1. request' = [request EXCEPT ![r] = n]
      BY <2>3
    <3> HIDE DEF n
    <3>2. request'[r] = n /\ Moves(r) /\ request' \in [Requests -> Request \cup {NoRequest}]
      BY <2>2, <3>1 DEF TypeOK, Moves
    <3>3. QED
      BY <1>1, <1>5, <2>3, <3>2 DEF Resend, At, n
  <2>4. QED
    BY <1>3, <1>5, <2>3 DEF Resend
<1>6. CASE ReadPending(r)
  <2>1. users[q.user] \in User
    BY <1>2, <1>6 DEF ReadPending, At, Fits, TypeOK
  <2> DEFINE n == [q EXCEPT !.email = users[q.user].pending, !.pc = "apply"]
  <2>2. n \in Request
    BY <1>2, <2>1 DEF Request, User
  <2>3. CASE /\ users[q.user].pending # None
             /\ request' = [request EXCEPT ![r].email = users[q.user].pending, ![r].pc = "apply"]
    <3>1. request' = [request EXCEPT ![r] = n]
      BY <2>3
    <3> HIDE DEF n
    <3>2. request'[r] = n /\ Moves(r) /\ request' \in [Requests -> Request \cup {NoRequest}]
      BY <2>2, <3>1 DEF TypeOK, Moves
    <3>3. QED
      BY <1>1, <1>6, <2>3, <3>2 DEF ReadPending, At, n
  <2>4. QED
    BY <1>3, <1>6, <2>3 DEF ReadPending
<1>7. QED
  BY <1>3, <1>4, <1>5, <1>6 DEF Deciding, TooShort

(* What an account is given                                                  *)
SetUser(u, row) == u \in Users /\ row \in User /\ users' = [users EXCEPT ![u] = row]

LEMMA UserIs ==
    ASSUME TypeOK, RequestsFit, NEW r \in Requests, WritingUser(r)
    PROVE  /\ InFlight(r) /\ Moves(r) /\ passwords' \in 0..MaxPasswords
           /\ UNCHANGED <<sessions, tokens, received, faults, opened, kept, sent, reached, uses>>
           /\ request' \in [Requests -> Request \cup {NoRequest}]
           /\ users' \in [Users -> User \cup {NoRow}]
           /\ request[r].pc \notin {"revoke_all", "supersede", "issue", "use"}
           /\ \/ request'[r] = NoRequest /\ UNCHANGED <<users, races>>
              \/ /\ request[r].pc = "create" /\ ~IndexRefuses(request'[r].user, request[r].email)
                 /\ request'[r].user \in Users /\ users[request'[r].user] = NoRow
                 /\ SetUser(request'[r].user,
                       [email |-> request[r].email, password |-> 0, outdated |-> FALSE,
                        verified |-> FALSE, pending |-> None])
                 /\ request'[r] = [request[r] EXCEPT !.user = request'[r].user, !.pc = "supersede"]
                 /\ UNCHANGED races
              \/ /\ request[r].pc = "rehash" /\ request'[r] = [request[r] EXCEPT !.pc = "open"]
                 /\ SetUser(request[r].user, [users[request[r].user] EXCEPT
                       !.password = request[r].password, !.outdated = FALSE])
                 /\ \/ users[request[r].user].password = request[r].password /\ UNCHANGED races
                    \/ races' = races \cup {<<"password", request[r].user>>}
              \/ /\ request[r].pc = "set" /\ request'[r] = [request[r] EXCEPT !.pc = "revoke_all"]
                 /\ SetUser(request[r].user, [users[request[r].user] EXCEPT
                       !.password = passwords + 1, !.outdated = FALSE])
                 /\ UNCHANGED races
              \/ /\ request[r].pc = "pend"
                 /\ request'[r] = [request[r] EXCEPT !.purpose = "change", !.pc = "supersede"]
                 /\ SetUser(request[r].user, [users[request[r].user] EXCEPT !.pending = request[r].email])
                 /\ Race(<<"address", request[r].user>>, Changing(r))
              \/ /\ request[r].pc = "mark" /\ request'[r] = NoRequest
                 /\ SetUser(request[r].user, [users[request[r].user] EXCEPT !.verified = TRUE])
                 /\ UNCHANGED races
              \/ /\ request[r].pc = "apply" /\ request'[r] = [request[r] EXCEPT !.pc = "revoke_all"]
                 /\ ~IndexRefuses(request[r].user, request[r].email)
                 /\ SetUser(request[r].user, [users[request[r].user] EXCEPT
                       !.email = request[r].email, !.pending = None, !.verified = TRUE])
                 /\ UNCHANGED races
<1> DEFINE q == request[r]
           x == users[q.user]
<1>1. /\ InFlight(r)
      /\ UNCHANGED <<sessions, tokens, received, faults, opened, kept, sent, reached, uses>>
      /\ q.pc \notin {"revoke_all", "supersede", "issue", "use"}
  BY DEF WritingUser, CreateUser, Rehash, SetPassword, SetPending, MarkVerified, ApplyChange,
         At, InFlight, history
<1>2. q \in Request /\ Fits(q)
  BY <1>1, RequestTyped DEF RequestsFit
<1>3. {"open", "revoke_all"} \subseteq Places
  BY DEF Places
<1>4. passwords \in 0..MaxPasswords /\ MaxPasswords \in Nat
  BY IdentityAssumption DEF TypeOK
<1>5. q.pc # "create" => q.user \in Users /\ x \in User
  BY <1>2 DEF Fits, TypeOK
<1>6. CASE \E u \in Users : CreateUser(r, u)
  <2> PICK u \in Users : CreateUser(r, u)
    BY <1>6
  <2> DEFINE new == [email |-> q.email, password |-> 0, outdated |-> FALSE,
                     verified |-> FALSE, pending |-> None]
             n == [q EXCEPT !.user = u, !.pc = "supersede"]
  <2>1. q.pc = "create" /\ users[u] = NoRow /\ UNCHANGED <<passwords, races>>
    BY DEF CreateUser, At, history
  <2>2. new \in User
    BY <1>2, <1>4, <2>1 DEF Fits, User
  <2>3. n \in Request /\ n.user = u
    BY <1>2 DEF Request
  <2>4. CASE Answer(r) /\ UNCHANGED users
    BY <1>1, <1>4, <2>1, <2>4, AnswerIs DEF TypeOK
  <2>5. CASE /\ ~IndexRefuses(u, q.email) /\ users' = [users EXCEPT ![u] = new]
             /\ request' = [request EXCEPT ![r].user = u, ![r].pc = "supersede"]
    <3>1. request' = [request EXCEPT ![r] = n]
      BY <2>5
    <3> HIDE DEF n, new
    <3>2. request'[r] = n /\ Moves(r) /\ request' \in [Requests -> Request \cup {NoRequest}]
      BY <2>3, <3>1 DEF TypeOK, Moves
    <3>3. users' \in [Users -> User \cup {NoRow}]
      BY <2>2, <2>5 DEF TypeOK
    <3>4. QED
      BY <1>1, <1>4, <2>1, <2>2, <2>3, <2>5, <3>2, <3>3 DEF SetUser, n, new
  <2>6. QED
    BY <2>4, <2>5 DEF CreateUser
<1>7. CASE Rehash(r)
  <2>1. [x EXCEPT !.password = q.password, !.outdated = FALSE] \in User
    BY <1>2, <1>5, <1>7 DEF Rehash, At, User, Request
  <2>2. SetUser(q.user, [x EXCEPT !.password = q.password, !.outdated = FALSE])
    BY <1>5, <1>7, <2>1 DEF Rehash, At, SetUser
  <2>3. users' \in [Users -> User \cup {NoRow}]
    BY <2>1, <2>2 DEF SetUser, TypeOK
  <2>4. QED
    BY <1>1, <1>3, <1>4, <1>7, <2>2, <2>3, AdvanceIs DEF Rehash, At
<1>8. CASE SetPassword(r)
  <2>1. passwords + 1 \in 0..MaxPasswords /\ passwords' = passwords + 1
    BY <1>4, <1>8 DEF SetPassword
  <2>2. [x EXCEPT !.password = passwords + 1, !.outdated = FALSE] \in User
    BY <1>5, <1>8, <2>1 DEF SetPassword, At, User
  <2>3. SetUser(q.user, [x EXCEPT !.password = passwords + 1, !.outdated = FALSE])
    BY <1>5, <1>8, <2>2 DEF SetPassword, At, SetUser
  <2>4. users' \in [Users -> User \cup {NoRow}]
    BY <2>2, <2>3 DEF SetUser, TypeOK
  <2>5. QED
    BY <1>1, <1>3, <1>8, <2>1, <2>3, <2>4, AdvanceIs DEF SetPassword, At, history
<1>9. CASE SetPending(r)
  <2> DEFINE n == [q EXCEPT !.purpose = "change", !.pc = "supersede"]
  <2>1. [x EXCEPT !.pending = q.email] \in User
    BY <1>2, <1>5, <1>9 DEF SetPending, At, User, Fits
  <2>2. SetUser(q.user, [x EXCEPT !.pending = q.email])
    BY <1>5, <1>9, <2>1 DEF SetPending, At, SetUser
  <2>3. users' \in [Users -> User \cup {NoRow}]
    BY <2>1, <2>2 DEF SetUser, TypeOK
  <2>4. n \in Request /\ request' = [request EXCEPT ![r] = n]
    BY <1>2, <1>9 DEF SetPending, Request, Purposes
  <2> HIDE DEF n
  <2>5. request'[r] = n /\ Moves(r) /\ request' \in [Requests -> Request \cup {NoRequest}]
    BY <2>4 DEF TypeOK, Moves
  <2>6. QED
    BY <1>1, <1>4, <1>9, <2>2, <2>3, <2>5 DEF SetPending, At, n
<1>10. CASE MarkVerified(r)
  <2>1. [x EXCEPT !.verified = TRUE] \in User
    BY <1>5, <1>10 DEF MarkVerified, At, User
  <2>2. SetUser(q.user, [x EXCEPT !.verified = TRUE])
    BY <1>5, <1>10, <2>1 DEF MarkVerified, At, SetUser
  <2>3. users' \in [Users -> User \cup {NoRow}]
    BY <2>1, <2>2 DEF SetUser, TypeOK
  <2>4. QED
    BY <1>1, <1>4, <1>10, <2>2, <2>3, AnswerIs DEF MarkVerified, At, history
<1>11. CASE ApplyChange(r)
  <2> DEFINE new == [x EXCEPT !.email = q.email, !.pending = None, !.verified = TRUE]
  <2>1. new \in User
    BY <1>2, <1>5, <1>11 DEF ApplyChange, At, User, Fits
  <2>2. CASE Answer(r) /\ UNCHANGED users
    BY <1>1, <1>4, <1>11, <2>2, AnswerIs DEF TypeOK, ApplyChange, history
  <2>3. CASE ~IndexRefuses(q.user, q.email) /\ SetUser(q.user, new) /\ Advance(r, "revoke_all")
    <3>1. users' \in [Users -> User \cup {NoRow}]
      BY <2>1, <2>3 DEF SetUser, TypeOK
    <3>2. QED
      BY <1>1, <1>3, <1>4, <1>11, <2>3, <3>1, AdvanceIs DEF ApplyChange, At, history
  <2>4. QED
    BY <1>5, <1>11, <2>1, <2>2, <2>3 DEF ApplyChange, At, SetUser
<1>12. QED
  BY <1>6, <1>7, <1>8, <1>9, <1>10, <1>11 DEF WritingUser


LEMMA SessionIs ==
    ASSUME TypeOK, RequestsFit, NEW r \in Requests, WritingSession(r)
    PROVE  /\ InFlight(r) /\ Moves(r)
           /\ UNCHANGED <<users, tokens, received, faults, passwords, sent, reached, uses, races>>
           /\ request' \in [Requests -> Request \cup {NoRequest}]
           /\ sessions' \in [Sessions -> Session \cup {NoRow}]
           /\ request[r].pc \notin {"supersede", "issue", "use"}
           /\ \/ /\ \E s \in Sessions : OpenSession(r, s)
                 /\ request[r].pc = "open" /\ request'[r] = NoRequest
              \/ /\ request[r].pc = "touch" /\ UNCHANGED <<opened, kept>>
                 /\ request'[r] = [request[r] EXCEPT !.pc = AfterTouch[request[r].op]]
                 /\ sessions' = [sessions EXCEPT ![request[r].session] = Touched(request[r].session)]
              \/ /\ request[r].pc = "revoke" /\ UNCHANGED <<opened, kept>>
                 /\ request'[r] = NoRequest
                 /\ sessions' = [sessions EXCEPT ![request[r].session].status = "dead"]
              \/ /\ RevokeAll(r)
                 /\ request[r].pc = "revoke_all" /\ UNCHANGED opened /\ request'[r] = NoRequest
<1> DEFINE q == request[r]
<1>1. /\ InFlight(r)
      /\ UNCHANGED <<users, tokens, received, faults, passwords, sent, reached, uses, races>>
      /\ q.pc \notin {"supersede", "issue", "use"}
  BY DEF WritingSession, OpenSession, Touch, Revoke, RevokeAll, At, InFlight, history
<1>2. q \in Request /\ Fits(q)
  BY <1>1, RequestTyped DEF RequestsFit
<1>3. CASE \E s \in Sessions : OpenSession(r, s)
  <2> PICK s \in Sessions : OpenSession(r, s)
    BY <1>3
  <2>1. [user |-> q.user, status |-> "live"] \in Session
    BY <1>2 DEF OpenSession, At, Fits, Session
  <2>2. sessions' \in [Sessions -> Session \cup {NoRow}]
    BY <2>1 DEF OpenSession, TypeOK
  <2>3. QED
    BY <1>1, <2>2, AnswerIs DEF OpenSession, At
<1>4. CASE Touch(r)
  <2>1. q.session \in Sessions /\ sessions[q.session] \in Session
    BY <1>2, <1>4 DEF Touch, At, Fits, TypeOK
  <2>2. Touched(q.session) \in Session
    BY <2>1 DEF Touched, Session
  <2>3. sessions' = [sessions EXCEPT ![q.session] = Touched(q.session)]
    BY <1>4 DEF Touch
  <2>4. sessions' \in [Sessions -> Session \cup {NoRow}]
    BY <2>2, <2>3 DEF TypeOK
  <2>5. q.op \in Signed
    BY <1>2, <1>4 DEF Touch, At, Fits
  <2>6. AfterTouch[q.op] \in Places
    BY <2>5 DEF AfterTouch, Signed, Places
  <2>7. QED
    BY <1>1, <1>4, <2>3, <2>4, <2>6, AdvanceIs DEF Touch, At, history
<1>5. CASE Revoke(r)
  <2>1. q.session \in Sessions /\ sessions[q.session] \in Session
    BY <1>2, <1>5 DEF Revoke, At, Fits, TypeOK
  <2>2. sessions' \in [Sessions -> Session \cup {NoRow}]
    BY <1>5, <2>1 DEF Revoke, TypeOK, Session
  <2>3. QED
    BY <1>1, <1>5, <2>2, AnswerIs DEF Revoke, At, history
<1>6. CASE RevokeAll(r)
  <2>1. \A s \in Sessions : Alive(s) => [sessions[s] EXCEPT !.status = "dead"] \in Session
    BY DEF Alive, TypeOK, Session
  <2>2. sessions' \in [Sessions -> Session \cup {NoRow}]
    <3>1. \A s \in Sessions : sessions'[s] \in Session \cup {NoRow}
      BY <1>6, <2>1 DEF RevokeAll, TypeOK
    <3>2. QED
      BY <1>6, <3>1 DEF RevokeAll
  <2>3. QED
    BY <1>1, <1>6, <2>2, AnswerIs DEF RevokeAll, At
<1>7. QED
  BY <1>3, <1>4, <1>5, <1>6 DEF WritingSession

LEMMA LinkIs ==
    ASSUME TypeOK, RequestsFit, RowsFit, NEW r \in Requests, WritingLink(r)
    PROVE  /\ InFlight(r) /\ Moves(r)
           /\ UNCHANGED <<users, sessions, received, faults, passwords, opened, kept>>
           /\ request' \in [Requests -> Request \cup {NoRequest}]
           /\ tokens' \in [Tokens -> Token \cup {NoRow}]
           /\ sent' \in [Tokens -> Emails \cup {None}]
           /\ reached' \in [Users -> SUBSET Emails]
           /\ uses' \in [Tokens -> Nat]
           /\ request[r].pc # "revoke_all"
           /\ \/ /\ Supersede(r) /\ request[r].pc = "supersede" /\ UNCHANGED <<sent, reached, uses>>
                 /\ request'[r] = [request[r] EXCEPT !.pc = "issue"]
                 /\ Race(<<"link", request[r].user>>, Issuing(r))
              \/ /\ \E t \in Tokens : Issue(r, t)
                 /\ request[r].pc = "issue" /\ request'[r] = NoRequest
                 /\ UNCHANGED <<reached, uses, races>>
              \/ /\ request[r].pc = "use" /\ UNCHANGED <<sent, races>>
                 /\ request'[r] = [request[r] EXCEPT !.pc = AfterUse[request[r].purpose]]
                 /\ tokens' = [tokens EXCEPT ![request[r].token].status = "used"]
                 /\ uses' = [uses EXCEPT ![request[r].token] = @ + 1]
                 /\ reached' = [reached EXCEPT ![request[r].user] = @ \cup {sent[request[r].token]}]
<1> DEFINE q == request[r]
<1>1. /\ InFlight(r)
      /\ UNCHANGED <<users, sessions, received, faults, passwords, opened, kept>>
      /\ q.pc # "revoke_all"
  BY DEF WritingLink, Supersede, Issue, Use, At, InFlight
<1>2. q \in Request /\ Fits(q)
  BY <1>1, RequestTyped DEF RequestsFit
<1>3. CASE Supersede(r)
  <2>1. \A t \in Tokens : Superseded(t, q) => [tokens[t] EXCEPT !.status = "closed"] \in Token
    BY DEF Superseded, TypeOK, Token
  <2>2. tokens' \in [Tokens -> Token \cup {NoRow}]
    <3>1. \A t \in Tokens : tokens'[t] \in Token \cup {NoRow}
      BY <1>3, <2>1 DEF Supersede, TypeOK
    <3>2. QED
      BY <1>3, <3>1 DEF Supersede
  <2>3. "issue" \in Places
    BY DEF Places
  <2>4. QED
    BY <1>1, <1>3, <2>2, <2>3, AdvanceIs DEF Supersede, At, TypeOK
<1>4. CASE \E t \in Tokens : Issue(r, t)
  <2> PICK t \in Tokens : Issue(r, t)
    BY <1>4
  <2>1. [user |-> q.user, purpose |-> q.purpose, status |-> "open"] \in Token /\ q.email \in Emails
    BY <1>2 DEF Issue, At, Fits, Token, Request
  <2>2. tokens' \in [Tokens -> Token \cup {NoRow}] /\ sent' \in [Tokens -> Emails \cup {None}]
    BY <2>1 DEF Issue, TypeOK
  <2>3. QED
    BY <1>1, <2>2, AnswerIs DEF Issue, At, TypeOK
<1>5. CASE Use(r)
  <2>1. /\ q.token \in Tokens /\ tokens[q.token] \in Token /\ q.user \in Users
        /\ sent[q.token] \in Emails
    BY <1>2, <1>5 DEF Use, At, Fits, TypeOK, RowsFit
  <2>2. tokens' \in [Tokens -> Token \cup {NoRow}]
    BY <1>5, <2>1 DEF Use, TypeOK, Token
  <2>3. reached' \in [Users -> SUBSET Emails]
    BY <1>5, <2>1 DEF Use, TypeOK
  <2>4. uses' \in [Tokens -> Nat]
    BY <1>5, <2>1 DEF Use, TypeOK
  <2>5. AfterUse[q.purpose] \in Places
    BY <1>2 DEF AfterUse, Request, Purposes, Places
  <2>6. QED
    BY <1>1, <1>5, <2>2, <2>3, <2>4, <2>5, AdvanceIs DEF Use, At, TypeOK
<1>6. QED
  BY <1>3, <1>4, <1>5 DEF WritingLink

LEMMA FailIs ==
    ASSUME TypeOK, NEW r \in Requests, Fail(r)
    PROVE  /\ InFlight(r) /\ Moves(r) /\ request'[r] = NoRequest
           /\ request' \in [Requests -> Request \cup {NoRequest}]
           /\ faults' \in 0..MaxFaults
           /\ UNCHANGED <<rows, received, passwords, opened, kept, sent, reached, uses>>
           /\ races \subseteq races'
           /\ request[r].pc = "supersede" /\ request[r].purpose = "change"
                 => <<"address", request[r].user>> \in races'
           /\ request[r].pc = "revoke_all" => <<"sessions", request[r].user>> \in races'
<1>1. faults' \in 0..MaxFaults
  BY IdentityAssumption DEF Fail, TypeOK
<1>2. QED
  BY <1>1, AnswerIs DEF Fail

-----------------------------------------------------------------------------
(* Types                                                                     *)

LEMMA StepTyped ==
    ASSUME TypeOK, RequestsFit, RowsFit, NEW r \in Requests, Step(r)
    PROVE  TypeOK'
<1>1. CASE Beginning(r)
  BY <1>1, BeginningIs DEF TypeOK, rows, Books
<1>2. CASE Deciding(r)
  BY <1>2, DecidingIs DEF TypeOK, rows, Books
<1>3. CASE Fail(r)
  BY <1>3, FailIs DEF TypeOK, rows
<1>4. CASE WritingUser(r)
  BY <1>4, UserIs DEF TypeOK
<1>5. CASE WritingLink(r)
  BY <1>5, LinkIs DEF TypeOK
<1>6. CASE WritingSession(r)
  <2> DEFINE q == request[r]
  <2>1. q \in Request /\ Fits(q)
    BY <1>6, SessionIs, RequestTyped DEF RequestsFit
  <2>2. /\ opened' \in [Sessions -> Opening \cup {None}]
        /\ \A s \in Sessions : opened'[s] = None <=> sessions'[s] = NoRow
        /\ kept' \subseteq Sessions
    <3>1. ASSUME NEW s \in Sessions, OpenSession(r, s)
          PROVE  /\ opened' \in [Sessions -> Opening \cup {None}]
                 /\ \A z \in Sessions : opened'[z] = None <=> sessions'[z] = NoRow
                 /\ kept' \subseteq Sessions
      <4> DEFINE o == [password |-> q.password, late |-> users[q.user].password # q.password]
                 n == [user |-> q.user, status |-> "live"]
      <4>1. o \in Opening /\ n \in Session
        BY <2>1, <3>1 DEF Opening, Request, OpenSession, At, Fits, Session
      <4>2. o # None /\ n # NoRow
        BY <4>1, IdentityAssumption
      <4>3. opened' = [opened EXCEPT ![s] = o] /\ sessions' = [sessions EXCEPT ![s] = n]
               /\ UNCHANGED kept
        BY <3>1 DEF OpenSession
      <4> HIDE DEF o, n
      <4>4. QED
        BY <4>1, <4>2, <4>3 DEF TypeOK
    <3>2. CASE UNCHANGED <<opened, kept>>
      <4>1. q.pc \in {"touch", "revoke"} /\ UNCHANGED <<opened, kept>>
               => q.session \in Sessions /\ sessions[q.session] \in Session
        BY <2>1 DEF Fits, TypeOK
      <4>2. \A s \in Sessions : sessions'[s] = NoRow <=> sessions[s] = NoRow
        <5>1. ASSUME NEW z, sessions' = [sessions EXCEPT ![q.session] = z], z \in Session,
                     q.pc \in {"touch", "revoke"}
              PROVE  \A s \in Sessions : sessions'[s] = NoRow <=> sessions[s] = NoRow
          BY <3>2, <4>1, <5>1, RowsAreRows DEF TypeOK
        <5>2. q.pc \in {"touch", "revoke"}
                 => Touched(q.session) \in Session
                    /\ [sessions[q.session] EXCEPT !.status = "dead"] \in Session
          BY <3>2, <4>1 DEF Touched, Session
        <5>3. RevokeAll(r) => \A s \in Sessions : sessions'[s] = NoRow <=> sessions[s] = NoRow
          <6> SUFFICES ASSUME RevokeAll(r), NEW s \in Sessions
                       PROVE  sessions'[s] = NoRow <=> sessions[s] = NoRow
            OBVIOUS
          <6>1. Alive(s) => sessions[s] \in Session /\ [sessions[s] EXCEPT !.status = "dead"] \in Session
            BY DEF Alive, TypeOK, Session
          <6>2. QED
            BY <6>1, RowsAreRows DEF RevokeAll
        <5>4. ASSUME NEW s \in Sessions, OpenSession(r, s) PROVE FALSE
          <6>1. opened'[s] # None
            <7>1. [password |-> q.password, late |-> users[q.user].password # q.password] \in Opening
              BY <2>1 DEF Opening, Request
            <7>2. opened'[s] = [password |-> q.password, late |-> users[q.user].password # q.password]
              BY <5>4 DEF OpenSession, TypeOK
            <7>3. QED
              BY <7>1, <7>2, IdentityAssumption
          <6>2. sessions[s] = NoRow
            BY <5>4 DEF OpenSession
          <6>3. QED
            BY <3>2, <6>1, <6>2 DEF TypeOK
        <5>5. QED
          BY <1>6, <5>1, <5>2, <5>3, <5>4, SessionIs
      <4>3. QED
        BY <3>2, <4>2 DEF TypeOK
    <3>3. CASE RevokeAll(r)
      <4>1. kept' \subseteq Sessions
        BY <3>3 DEF RevokeAll, TypeOK
      <4>2. \A s \in Sessions : sessions'[s] = NoRow <=> sessions[s] = NoRow
        <5> SUFFICES ASSUME NEW s \in Sessions
                     PROVE  sessions'[s] = NoRow <=> sessions[s] = NoRow
          OBVIOUS
        <5>1. Alive(s) => sessions[s] \in Session /\ [sessions[s] EXCEPT !.status = "dead"] \in Session
          BY DEF Alive, TypeOK, Session
        <5>2. QED
          BY <3>3, <5>1, RowsAreRows DEF RevokeAll
      <4>3. QED
        BY <3>3, <4>1, <4>2 DEF TypeOK, RevokeAll
    <3>4. QED
      BY <1>6, <3>1, <3>2, <3>3, SessionIs
  <2>3. QED
    BY <1>6, <2>2, SessionIs DEF TypeOK
<1>7. QED
  BY <1>1, <1>2, <1>3, <1>4, <1>5, <1>6, StepIs

(* Time moves a row's status and nothing else.                               *)
Timing == (\E s \in Sessions : GoIdle(s) \/ RunOut(s)) \/ (\E t \in Tokens : Lapse(t))

LEMMA TimingIs ==
    ASSUME TypeOK, Timing
    PROVE  /\ UNCHANGED <<users, request, received, Books, races>>
           /\ \/ /\ UNCHANGED tokens
                 /\ \E s \in Sessions : \E x \in {"idle", "dead"} :
                       /\ sessions[s] \in Session /\ Alive(s)
                       /\ sessions' = [sessions EXCEPT ![s] = [sessions[s] EXCEPT !.status = x]]
              \/ /\ UNCHANGED sessions
                 /\ \E t \in Tokens :
                       /\ tokens[t] \in Token
                       /\ tokens' = [tokens EXCEPT ![t] = [tokens[t] EXCEPT !.status = "closed"]]
<1>1. UNCHANGED <<users, request, received, Books, races>>
  BY DEF Timing, GoIdle, RunOut, Lapse, Books, history
<1>2. ASSUME NEW s \in Sessions, GoIdle(s) \/ RunOut(s)
      PROVE  /\ UNCHANGED tokens /\ sessions[s] \in Session /\ Alive(s)
             /\ \E x \in {"idle", "dead"} :
                   sessions' = [sessions EXCEPT ![s] = [sessions[s] EXCEPT !.status = x]]
  BY <1>2 DEF GoIdle, RunOut, Valid, Alive, TypeOK
<1>3. ASSUME NEW t \in Tokens, Lapse(t)
      PROVE  /\ UNCHANGED sessions /\ tokens[t] \in Token
             /\ tokens' = [tokens EXCEPT ![t] = [tokens[t] EXCEPT !.status = "closed"]]
  BY <1>3 DEF Lapse, TypeOK
<1>4. QED
  BY <1>1, <1>2, <1>3 DEF Timing

LEMMA TimingTyped ==
    ASSUME TypeOK, Timing
    PROVE  TypeOK'
<1>1. ASSUME NEW s \in Sessions, NEW x \in {"idle", "dead"}, sessions[s] \in Session,
             sessions' = [sessions EXCEPT ![s] = [sessions[s] EXCEPT !.status = x]]
      PROVE  /\ sessions' \in [Sessions -> Session \cup {NoRow}]
             /\ \A z \in Sessions : sessions'[z] = NoRow <=> sessions[z] = NoRow
  <2>1. [sessions[s] EXCEPT !.status = x] \in Session
    BY <1>1 DEF Session
  <2>2. QED
    BY <1>1, <2>1, RowsAreRows DEF TypeOK
<1>2. ASSUME NEW t \in Tokens, tokens[t] \in Token,
             tokens' = [tokens EXCEPT ![t] = [tokens[t] EXCEPT !.status = "closed"]]
      PROVE  tokens' \in [Tokens -> Token \cup {NoRow}]
  <2>1. [tokens[t] EXCEPT !.status = "closed"] \in Token
    BY <1>2 DEF Token
  <2>2. QED
    BY <1>2, <2>1 DEF TypeOK
<1>3. /\ sessions' \in [Sessions -> Session \cup {NoRow}]
      /\ \A z \in Sessions : sessions'[z] = NoRow <=> sessions[z] = NoRow
      /\ tokens' \in [Tokens -> Token \cup {NoRow}]
  BY <1>1, <1>2, TimingIs DEF TypeOK
<1>4. QED
  BY <1>3, TimingIs DEF TypeOK, Books

LEMMA NextIs ==
    ASSUME [Next]_vars
    PROVE  (\E r \in Requests : Step(r)) \/ Timing \/ UNCHANGED vars
BY DEF Next, Timing

LEMMA NextTyped ==
    ASSUME TypeOK, RequestsFit, RowsFit, [Next]_vars
    PROVE  TypeOK'
<1>1. CASE UNCHANGED vars
  BY <1>1 DEF vars, rows, history, TypeOK
<1>2. QED
  BY <1>1, NextIs, StepTyped, TimingTyped


-----------------------------------------------------------------------------
(* Accounts, sessions and links stay, and stay whose they are.               *)

Grows ==
    /\ \A u \in Users : users[u] # NoRow => users'[u] # NoRow
    /\ \A s \in Sessions : sessions[s] # NoRow =>
          sessions'[s] # NoRow /\ sessions'[s].user = sessions[s].user
    /\ \A t \in Tokens : tokens[t] # NoRow =>
          /\ tokens'[t] # NoRow /\ sent'[t] = sent[t]
          /\ tokens'[t].user = tokens[t].user /\ tokens'[t].purpose = tokens[t].purpose

LEMMA FitsStable ==
    ASSUME Grows, NEW q \in Request, Fits(q)
    PROVE  Fits(q)'
BY DEF Grows, Fits

LEMMA FitsOthers ==
    ASSUME TypeOK, RequestsFit, Grows, NEW r \in Requests, Moves(r),
           InFlight(r)' => Fits(request[r])'
    PROVE  RequestsFit'
<1> SUFFICES ASSUME NEW q \in Requests, InFlight(q)'
             PROVE  Fits(request[q])'
  BY DEF RequestsFit
<1>1. CASE q = r
  BY <1>1
<1>2. CASE q # r
  <2>1. request'[q] = request[q] /\ InFlight(q)
    BY <1>2 DEF Moves, InFlight
  <2>2. request[q] \in Request /\ Fits(request[q])
    BY <2>1, RequestTyped DEF RequestsFit
  <2>3. QED
    BY <2>1, <2>2, FitsStable DEF Fits
<1>3. QED
  BY <1>1, <1>2

LEMMA UserGrows ==
    ASSUME TypeOK, RequestsFit, NEW r \in Requests, WritingUser(r)
    PROVE  Grows
<1>1. UNCHANGED <<sessions, tokens, sent>>
  BY UserIs
<1>2. ASSUME NEW u, NEW row, SetUser(u, row)
      PROVE  Grows
  BY <1>1, <1>2, RowsAreRows DEF Grows, SetUser, TypeOK
<1>3. CASE UNCHANGED users
  BY <1>1, <1>3 DEF Grows
<1>4. QED
  BY <1>2, <1>3, UserIs

LEMMA UserFits ==
    ASSUME TypeOK, RequestsFit, NEW r \in Requests, WritingUser(r)
    PROVE  RequestsFit'
<1> DEFINE q == request[r]
<1>1. Grows /\ InFlight(r) /\ Moves(r)
  BY UserGrows, UserIs
<1>2. Fits(q) /\ q \in Request
  BY <1>1, RequestTyped DEF RequestsFit
<1>3. InFlight(r)' => request'[r] \in Request
  BY UserIs DEF InFlight
<1>4. ASSUME InFlight(r)' PROVE Fits(request[r])'
  <2>1. CASE q.pc = "create"
    <3>1. /\ request'[r].user \in Users
          /\ SetUser(request'[r].user, users'[request'[r].user])
          /\ request'[r].pc = "supersede" /\ request'[r].email = q.email
          /\ request'[r].purpose = q.purpose
      BY <1>2, <1>4, <2>1, UserIs DEF InFlight, SetUser, TypeOK, Request
    <3>2. users'[request'[r].user] # NoRow
      BY <3>1, RowsAreRows DEF SetUser
    <3>3. QED
      BY <1>2, <2>1, <3>1, <3>2 DEF Fits
  <2>2. CASE q.pc \in {"rehash", "set", "apply"}
    <3>1. /\ request'[r].user = q.user /\ request'[r].purpose = q.purpose
          /\ request'[r].pc \in {"open", "revoke_all"} /\ request'[r].email = q.email
          /\ request'[r].pc = "open" => q.pc = "rehash"
      BY <1>2, <1>4, <2>2, UserIs DEF InFlight, Request
    <3>2. users'[q.user] # NoRow /\ q.user \in Users
      BY <1>1, <1>2, <2>2 DEF Fits, Grows
    <3>3. QED
      BY <1>2, <2>2, <3>1, <3>2 DEF Fits
  <2>3. CASE q.pc = "pend"
    <3>1. /\ request'[r].user = q.user /\ request'[r].purpose = "change"
          /\ request'[r].pc = "supersede" /\ request'[r].email = q.email
      BY <1>2, <1>4, <2>3, UserIs DEF InFlight, Request
    <3>2. users'[q.user] # NoRow /\ q.user \in Users /\ q.email \in Emails
      BY <1>1, <1>2, <2>3 DEF Fits, Grows
    <3>3. QED
      BY <3>1, <3>2 DEF Fits
  <2>4. QED
    BY <1>4, <2>1, <2>2, <2>3, UserIs DEF InFlight
<1>5. QED
  BY <1>1, <1>4, FitsOthers

LEMMA SessionGrows ==
    ASSUME TypeOK, RequestsFit, NEW r \in Requests, WritingSession(r)
    PROVE  Grows
<1> DEFINE q == request[r]
<1>1. UNCHANGED <<users, tokens, sent>> /\ InFlight(r)
  BY SessionIs
<1>2. Fits(q) /\ q \in Request
  BY <1>1, RequestTyped DEF RequestsFit
<1>3. SUFFICES ASSUME NEW s \in Sessions, sessions[s] # NoRow
               PROVE  sessions'[s] # NoRow /\ sessions'[s].user = sessions[s].user
  BY <1>1 DEF Grows
<1>4. sessions[s] \in Session /\ \A x \in {"idle", "dead", "live"} :
         /\ [sessions[s] EXCEPT !.status = x] # NoRow
         /\ [sessions[s] EXCEPT !.status = x].user = sessions[s].user
  <2>1. sessions[s] \in Session
    BY <1>3 DEF TypeOK
  <2>2. \A x \in {"idle", "dead", "live"} : [sessions[s] EXCEPT !.status = x] \in Session
    BY <2>1 DEF Session
  <2>3. QED
    BY <2>1, <2>2, RowsAreRows DEF Session
<1>5. CASE \E z \in Sessions : OpenSession(r, z)
  BY <1>3, <1>5 DEF OpenSession, TypeOK
<1>6. CASE q.pc = "touch" /\ sessions' = [sessions EXCEPT ![q.session] = Touched(q.session)]
  <2>1. Touched(s) = [sessions[s] EXCEPT !.status = IF sessions[s].status = "idle"
                                                       THEN "live" ELSE sessions[s].status]
           /\ sessions[s].status \in {"idle", "dead", "live"}
    BY <1>4 DEF Touched, Session
  <2>2. Touched(s) # NoRow /\ Touched(s).user = sessions[s].user
    BY <1>4, <2>1
  <2>3. q.session \in Sessions
    BY <1>2, <1>6 DEF Fits
  <2>4. QED
    BY <1>3, <1>6, <2>2, <2>3 DEF TypeOK
<1>7. CASE q.pc = "revoke" /\ sessions' = [sessions EXCEPT ![q.session].status = "dead"]
  <2>1. q.session \in Sessions
    BY <1>2, <1>7 DEF Fits
  <2>2. QED
    BY <1>3, <1>4, <1>7, <2>1 DEF TypeOK
<1>8. CASE RevokeAll(r)
  BY <1>3, <1>4, <1>8 DEF RevokeAll
<1>9. QED
  BY <1>5, <1>6, <1>7, <1>8, SessionIs

LEMMA SessionFits ==
    ASSUME TypeOK, RequestsFit, NEW r \in Requests, WritingSession(r)
    PROVE  RequestsFit'
<1> DEFINE q == request[r]
<1>1. Grows /\ InFlight(r) /\ Moves(r) /\ UNCHANGED users
  BY SessionGrows, SessionIs
<1>2. Fits(q) /\ q \in Request
  BY <1>1, RequestTyped DEF RequestsFit
<1>3. ASSUME InFlight(r)' PROVE Fits(request[r])'
  <2>1. q.pc = "touch" /\ request'[r] = [q EXCEPT !.pc = AfterTouch[q.op]]
    BY <1>3, SessionIs DEF InFlight
  <2>2. /\ q.op \in Signed /\ q.purpose # "change"
        /\ q.session \in Sessions /\ q.user \in Users
        /\ users'[q.user] # NoRow /\ sessions'[q.session] # NoRow
    BY <1>1, <1>2, <2>1 DEF Fits, Grows
  <2>3. /\ q.op = "logout" => AfterTouch[q.op] = "revoke"
        /\ q.op = "logout_all" => AfterTouch[q.op] = "revoke_all"
        /\ q.op = "change_password" => AfterTouch[q.op] = "verify"
        /\ q.op = "resend" => AfterTouch[q.op] = "resend"
        /\ q.op = "email_change" => AfterTouch[q.op] = "verify"
    BY DEF AfterTouch
  <2>4. /\ request'[r].user = q.user /\ request'[r].op = q.op /\ request'[r].email = q.email
        /\ request'[r].session = q.session /\ request'[r].purpose = q.purpose
        /\ request'[r].pc = AfterTouch[q.op]
    BY <1>2, <2>1 DEF Request
  <2>5. QED
    BY <1>2, <2>1, <2>2, <2>3, <2>4 DEF Fits, Signed
<1>4. QED
  BY <1>1, <1>3, FitsOthers

LEMMA LinkGrows ==
    ASSUME TypeOK, RequestsFit, RowsFit, NEW r \in Requests, WritingLink(r)
    PROVE  Grows
<1> DEFINE q == request[r]
<1>1. UNCHANGED <<users, sessions>> /\ InFlight(r)
  BY LinkIs
<1>2. Fits(q) /\ q \in Request
  BY <1>1, RequestTyped DEF RequestsFit
<1>3. SUFFICES ASSUME NEW t \in Tokens, tokens[t] # NoRow
               PROVE  /\ tokens'[t] # NoRow /\ sent'[t] = sent[t]
                      /\ tokens'[t].user = tokens[t].user /\ tokens'[t].purpose = tokens[t].purpose
  BY <1>1 DEF Grows
<1>4. tokens[t] \in Token /\ \A x \in {"open", "used", "closed"} :
         /\ [tokens[t] EXCEPT !.status = x] # NoRow
         /\ [tokens[t] EXCEPT !.status = x].user = tokens[t].user
         /\ [tokens[t] EXCEPT !.status = x].purpose = tokens[t].purpose
  <2>1. tokens[t] \in Token
    BY <1>3 DEF TypeOK
  <2>2. \A x \in {"open", "used", "closed"} : [tokens[t] EXCEPT !.status = x] \in Token
    BY <2>1 DEF Token
  <2>3. QED
    BY <2>1, <2>2, RowsAreRows DEF Token
<1>5. CASE Supersede(r) /\ UNCHANGED sent
  BY <1>3, <1>4, <1>5 DEF Supersede
<1>6. CASE \E z \in Tokens : Issue(r, z)
  BY <1>3, <1>6 DEF Issue, TypeOK
<1>7. CASE q.pc = "use" /\ tokens' = [tokens EXCEPT ![q.token].status = "used"] /\ UNCHANGED sent
  <2>1. q.token \in Tokens
    BY <1>2, <1>7 DEF Fits
  <2>2. QED
    BY <1>3, <1>4, <1>7, <2>1 DEF TypeOK
<1>8. QED
  BY <1>5, <1>6, <1>7, LinkIs

LEMMA LinkFits ==
    ASSUME TypeOK, RequestsFit, RowsFit, NEW r \in Requests, WritingLink(r)
    PROVE  RequestsFit'
<1> DEFINE q == request[r]
<1>1. Grows /\ InFlight(r) /\ Moves(r) /\ UNCHANGED users
  BY LinkGrows, LinkIs
<1>2. Fits(q) /\ q \in Request
  BY <1>1, RequestTyped DEF RequestsFit
<1>3. ASSUME InFlight(r)' PROVE Fits(request[r])'
  <2>1. CASE q.pc = "supersede" /\ request'[r] = [q EXCEPT !.pc = "issue"]
    <3>1. /\ request'[r].user = q.user /\ request'[r].email = q.email
          /\ request'[r].purpose = q.purpose /\ request'[r].pc = "issue"
      BY <1>2, <2>1 DEF Request
    <3>2. QED
      BY <1>1, <1>2, <2>1, <3>1 DEF Fits
  <2>2. CASE q.pc = "use" /\ request'[r] = [q EXCEPT !.pc = AfterUse[q.purpose]]
    <3>1. /\ q.purpose = "reset" => AfterUse[q.purpose] = "set"
          /\ q.purpose = "verification" => AfterUse[q.purpose] = "mark"
          /\ q.purpose = "change" => AfterUse[q.purpose] = "pending"
          /\ q.purpose \in Purposes
      BY <1>2 DEF AfterUse, Request
    <3>2. /\ request'[r].user = q.user /\ request'[r].email = q.email
          /\ request'[r].purpose = q.purpose /\ request'[r].pc = AfterUse[q.purpose]
      BY <1>2, <2>2 DEF Request
    <3>3. QED
      BY <1>1, <1>2, <2>2, <3>1, <3>2 DEF Fits, Purposes
  <2>3. QED
    BY <1>3, <2>1, <2>2, LinkIs DEF InFlight
<1>4. QED
  BY <1>1, <1>3, FitsOthers

LEMMA BeginningFits ==
    ASSUME TypeOK, RequestsFit, RowsFit, NEW r \in Requests, Beginning(r)
    PROVE  Grows /\ RequestsFit'
<1>1. Grows /\ Moves(r)
  BY BeginningIs DEF Grows, rows, Books
<1>2. Fits(request[r])'
  BY BeginningIs DEF Fits, rows
<1>3. QED
  BY <1>1, <1>2, FitsOthers

LEMMA DecidingFits ==
    ASSUME TypeOK, RequestsFit, NEW r \in Requests, Deciding(r)
    PROVE  Grows /\ RequestsFit'
<1> DEFINE q == request[r]
<1>1. Grows /\ Moves(r) /\ InFlight(r) /\ UNCHANGED users
  BY DecidingIs DEF Grows, rows, Books
<1>2. Fits(q) /\ q \in Request /\ (q.pc # "create" => users[q.user] \in User /\ q.user \in Users)
  BY <1>1, RequestTyped DEF RequestsFit, Fits, TypeOK
<1>3. ASSUME InFlight(r)' PROVE Fits(request[r])'
  <2>1. CASE q.pc = "verify" /\ request'[r] = [q EXCEPT !.pc = "set"]
    <3>1. /\ request'[r].user = q.user /\ request'[r].email = q.email
          /\ request'[r].purpose = q.purpose /\ request'[r].pc = "set"
      BY <1>2, <2>1 DEF Request
    <3>2. QED
      BY <1>1, <1>2, <2>1, <3>1 DEF Fits
  <2>2. CASE q.pc = "verify" /\ q.op = "email_change" /\ request'[r] = [q EXCEPT !.pc = "pend"]
    <3>1. /\ request'[r].user = q.user /\ request'[r].email = q.email
          /\ request'[r].purpose = q.purpose /\ request'[r].pc = "pend"
      BY <1>2, <2>2 DEF Request
    <3>2. QED
      BY <1>1, <1>2, <2>2, <3>1 DEF Fits
  <2>3. CASE /\ q.pc = "resend"
             /\ request'[r] = [q EXCEPT !.purpose = "verification", !.pc = "supersede",
                                        !.email = users[q.user].email]
    <3>1. /\ request'[r].user = q.user /\ request'[r].email \in Emails
          /\ request'[r].purpose = "verification" /\ request'[r].pc = "supersede"
      BY <1>2, <2>3 DEF Request, User
    <3>2. QED
      BY <1>1, <1>2, <2>3, <3>1 DEF Fits
  <2>4. CASE /\ q.pc = "pending" /\ users[q.user].pending # None
             /\ request'[r] = [q EXCEPT !.email = users[q.user].pending, !.pc = "apply"]
    <3>1. /\ request'[r].user = q.user /\ request'[r].email \in Emails
          /\ request'[r].purpose = q.purpose /\ request'[r].pc = "apply"
      BY <1>2, <2>4 DEF Request, User
    <3>2. QED
      BY <1>1, <1>2, <2>4, <3>1 DEF Fits
  <2>5. QED
    BY <1>3, <2>1, <2>2, <2>3, <2>4, DecidingIs DEF InFlight
<1>4. QED
  BY <1>1, <1>3, FitsOthers

LEMMA FailFits ==
    ASSUME TypeOK, RequestsFit, NEW r \in Requests, Fail(r)
    PROVE  Grows /\ RequestsFit'
<1>1. Grows /\ Moves(r)
  BY FailIs DEF Grows, rows
<1>2. ~InFlight(r)'
  BY FailIs DEF InFlight
<1>3. QED
  BY <1>1, <1>2, FitsOthers

LEMMA TimingFits ==
    ASSUME TypeOK, RequestsFit, Timing
    PROVE  Grows /\ RequestsFit'
<1>1. Grows
  <2>1. ASSUME NEW s \in Sessions, NEW x \in {"idle", "dead"}, sessions[s] \in Session,
               sessions' = [sessions EXCEPT ![s] = [sessions[s] EXCEPT !.status = x]]
        PROVE  \A z \in Sessions : sessions[z] # NoRow =>
                  sessions'[z] # NoRow /\ sessions'[z].user = sessions[z].user
    <3>1. [sessions[s] EXCEPT !.status = x] \in Session
             /\ [sessions[s] EXCEPT !.status = x].user = sessions[s].user
      BY <2>1 DEF Session
    <3>2. QED
      BY <2>1, <3>1, RowsAreRows DEF TypeOK
  <2>2. ASSUME NEW t \in Tokens, tokens[t] \in Token,
               tokens' = [tokens EXCEPT ![t] = [tokens[t] EXCEPT !.status = "closed"]]
        PROVE  \A z \in Tokens : tokens[z] # NoRow =>
                  /\ tokens'[z] # NoRow
                  /\ tokens'[z].user = tokens[z].user /\ tokens'[z].purpose = tokens[z].purpose
    <3> DEFINE n == [tokens[t] EXCEPT !.status = "closed"]
    <3>1. n \in Token /\ n.user = tokens[t].user /\ n.purpose = tokens[t].purpose
      BY <2>2 DEF Token
    <3> HIDE DEF n
    <3>2. tokens' = [tokens EXCEPT ![t] = n]
      BY <2>2 DEF n
    <3>3. QED
      BY <3>1, <3>2, RowsAreRows DEF TypeOK
  <2>3. QED
    BY <2>1, <2>2, TimingIs DEF Grows, Books
<1>2. UNCHANGED request
  BY TimingIs
<1>3. QED
  <2> SUFFICES ASSUME NEW q \in Requests, InFlight(q)'
               PROVE  Fits(request[q])'
    BY <1>1 DEF RequestsFit
  <2>1. request'[q] = request[q] /\ InFlight(q)
    BY <1>2 DEF InFlight
  <2>2. request[q] \in Request /\ Fits(request[q])
    BY <2>1, RequestTyped DEF RequestsFit
  <2>3. QED
    BY <1>1, <2>1, <2>2, FitsStable DEF Fits

LEMMA StepFits ==
    ASSUME TypeOK, RequestsFit, RowsFit, NEW r \in Requests, Step(r)
    PROVE  Grows /\ RequestsFit' /\ Moves(r)
BY StepIs, BeginningFits, DecidingFits, FailFits, UserFits, UserGrows, SessionFits, SessionGrows,
   LinkFits, LinkGrows, BeginningIs, DecidingIs, FailIs, UserIs, SessionIs, LinkIs

LEMMA NextFits ==
    ASSUME TypeOK, RequestsFit, RowsFit, [Next]_vars
    PROVE  Grows /\ RequestsFit'
<1>1. CASE UNCHANGED vars
  BY <1>1 DEF vars, rows, history, Grows, RequestsFit, Fits, InFlight
<1>2. QED
  BY <1>1, NextIs, StepFits, TimingFits


LEMMA StepRows ==
    ASSUME TypeOK, RequestsFit, RowsFit, NEW r \in Requests, Step(r)
    PROVE  RowsFit'
<1> DEFINE q == request[r]
<1>1. Grows
  BY StepFits
<1>2. ASSUME NEW s \in Sessions, sessions'[s] # NoRow
      PROVE  users'[sessions'[s].user] # NoRow
  <2>1. CASE sessions[s] # NoRow
    <3>1. sessions'[s].user = sessions[s].user /\ sessions[s].user \in Users
             /\ users[sessions[s].user] # NoRow
      BY <1>1, <2>1 DEF Grows, TypeOK, Session, RowsFit
    <3>2. QED
      BY <1>1, <3>1 DEF Grows
  <2>2. CASE sessions[s] = NoRow /\ \E z \in Sessions : OpenSession(r, z)
    <3>1. sessions' = [sessions EXCEPT ![s] = [user |-> q.user, status |-> "live"]]
      BY <1>2, <2>2 DEF OpenSession, TypeOK
    <3>2. At(r, "open") /\ UNCHANGED users
      BY <2>2 DEF OpenSession
    <3>3. q.user \in Users /\ users[q.user] # NoRow
      BY <3>2 DEF RequestsFit, InFlight, At, Fits
    <3>4. QED
      BY <3>1, <3>2, <3>3 DEF TypeOK
  <2>3. CASE sessions[s] = NoRow /\ ~\E z \in Sessions : OpenSession(r, z)
    <3>1. CASE WritingSession(r)
      <4>1. InFlight(r) /\ Fits(q)
        BY <3>1, SessionIs DEF RequestsFit
      <4>2. q.pc \in {"touch", "revoke"} => q.session # s
        BY <2>3, <4>1 DEF Fits
      <4>3. ~Alive(s)
        BY <2>3 DEF Alive
      <4>4. sessions'[s] = sessions[s]
        BY <2>3, <3>1, <4>2, <4>3, SessionIs DEF RevokeAll, TypeOK
      <4>5. QED
        BY <1>2, <2>3, <4>4
    <3>2. CASE ~WritingSession(r)
      <4>1. UNCHANGED sessions
        BY <3>2, StepIs, BeginningIs, DecidingIs, FailIs, UserIs, LinkIs DEF rows
      <4>2. QED
        BY <1>2, <2>3, <4>1
    <3>3. QED
      BY <3>1, <3>2
  <2>4. QED
    BY <2>1, <2>2, <2>3
<1>3. ASSUME NEW t \in Tokens, tokens'[t] # NoRow
      PROVE  users'[tokens'[t].user] # NoRow /\ sent'[t] \in Emails
  <2>1. CASE tokens[t] # NoRow
    <3>1. tokens'[t].user = tokens[t].user /\ tokens[t].user \in Users
             /\ users[tokens[t].user] # NoRow /\ sent'[t] = sent[t] /\ sent[t] \in Emails
      BY <1>1, <2>1 DEF Grows, TypeOK, Token, RowsFit
    <3>2. QED
      BY <1>1, <3>1 DEF Grows
  <2>2. CASE tokens[t] = NoRow /\ \E z \in Tokens : Issue(r, z)
    <3>1. /\ tokens' = [tokens EXCEPT ![t] =
                          [user |-> q.user, purpose |-> q.purpose, status |-> "open"]]
          /\ sent' = [sent EXCEPT ![t] = q.email]
      BY <1>3, <2>2 DEF Issue, TypeOK
    <3>2. At(r, "issue") /\ UNCHANGED users
      BY <2>2 DEF Issue
    <3>3. q.user \in Users /\ users[q.user] # NoRow /\ q.email \in Emails
      BY <3>2 DEF RequestsFit, InFlight, At, Fits
    <3>4. QED
      BY <3>1, <3>2, <3>3 DEF TypeOK
  <2>3. CASE tokens[t] = NoRow /\ ~\E z \in Tokens : Issue(r, z)
    <3>1. CASE WritingLink(r)
      <4>1. InFlight(r) /\ Fits(q)
        BY <3>1, LinkIs DEF RequestsFit
      <4>2. q.pc = "use" => q.token # t
        BY <2>3, <4>1 DEF Fits
      <4>3. ~Superseded(t, q)
        BY <2>3 DEF Superseded
      <4>4. tokens'[t] = tokens[t]
        <5>1. Supersede(r) => tokens'[t] = tokens[t]
          BY <4>3 DEF Supersede
        <5>2. q.pc = "use" /\ tokens' = [tokens EXCEPT ![q.token].status = "used"]
                 => tokens'[t] = tokens[t]
          BY <4>2 DEF TypeOK
        <5>3. QED
          BY <2>3, <3>1, <5>1, <5>2, LinkIs
      <4>5. QED
        BY <1>3, <2>3, <4>4
    <3>2. CASE ~WritingLink(r)
      <4>1. UNCHANGED tokens
        BY <3>2, StepIs, BeginningIs, DecidingIs, FailIs, UserIs, SessionIs DEF rows
      <4>2. QED
        BY <1>3, <2>3, <4>1
    <3>3. QED
      BY <3>1, <3>2
  <2>4. QED
    BY <2>1, <2>2, <2>3
<1>4. QED
  BY <1>2, <1>3 DEF RowsFit

LEMMA NextRows ==
    ASSUME TypeOK, RequestsFit, RowsFit, [Next]_vars
    PROVE  RowsFit'
<1>1. CASE UNCHANGED vars
  BY <1>1 DEF vars, rows, history, RowsFit
<1>2. CASE Timing
  <2>1. Grows /\ UNCHANGED <<users, sent>>
    BY <1>2, TimingFits, TimingIs DEF Books
  <2>2. \A s \in Sessions : sessions'[s] # NoRow => sessions[s] # NoRow
    BY <1>2, TimingIs, RowsAreRows DEF TypeOK
  <2>3. \A t \in Tokens : tokens'[t] # NoRow => tokens[t] # NoRow
    BY <1>2, TimingIs, RowsAreRows DEF TypeOK
  <2>4. QED
    BY <2>1, <2>2, <2>3 DEF Grows, RowsFit
<1>3. QED
  BY <1>1, <1>2, NextIs, StepRows

-----------------------------------------------------------------------------
(* Addresses                                                                 *)

LEMMA NextEmails ==
    ASSUME TypeOK, RequestsFit, RowsFit, EmailsUnique, [Next]_vars
    PROVE  EmailsUnique'
<1>1. CASE UNCHANGED users
  BY <1>1 DEF EmailsUnique
<1>2. ASSUME NEW r \in Requests, WritingUser(r)
      PROVE  EmailsUnique'
  <2> DEFINE q == request[r]
  <2>1. Fits(q) /\ q \in Request
    BY <1>2, UserIs, RequestTyped DEF RequestsFit
  <2>2. ASSUME NEW u, NEW row, SetUser(u, row),
               \A v \in Users \ {u} : users[v] # NoRow => users[v].email # row.email
        PROVE  EmailsUnique'
    BY <2>2 DEF SetUser, EmailsUnique, TypeOK
  <2>3. ASSUME NEW u, NEW row, SetUser(u, row), users[u] # NoRow, row.email = users[u].email
        PROVE  EmailsUnique'
    BY <2>3 DEF SetUser, EmailsUnique, TypeOK
  <2>4. q.pc # "create" => q.user \in Users /\ users[q.user] \in User /\ users[q.user] # NoRow
    BY <2>1 DEF Fits, TypeOK
  <2>5. CASE q.pc = "create"
    BY <1>1, <1>2, <2>2, <2>5, UserIs DEF IndexRefuses
  <2>6. CASE q.pc = "rehash"
    <3>1. [users[q.user] EXCEPT !.password = q.password, !.outdated = FALSE].email = users[q.user].email
      BY <2>4, <2>6 DEF User
    <3>2. QED
      BY <1>1, <1>2, <2>3, <2>4, <2>6, <3>1, UserIs
  <2>7. CASE q.pc = "set"
    <3>1. [users[q.user] EXCEPT !.password = passwords + 1, !.outdated = FALSE].email = users[q.user].email
      BY <2>4, <2>7 DEF User
    <3>2. QED
      BY <1>1, <1>2, <2>3, <2>4, <2>7, <3>1, UserIs
  <2>8. CASE q.pc = "pend"
    <3>1. [users[q.user] EXCEPT !.pending = q.email].email = users[q.user].email
      BY <2>4, <2>8 DEF User
    <3>2. QED
      BY <1>1, <1>2, <2>3, <2>4, <2>8, <3>1, UserIs
  <2>9. CASE q.pc = "mark"
    <3>1. [users[q.user] EXCEPT !.verified = TRUE].email = users[q.user].email
      BY <2>4, <2>9 DEF User
    <3>2. QED
      BY <1>1, <1>2, <2>3, <2>4, <2>9, <3>1, UserIs
  <2>10. CASE q.pc = "apply"
    <3>1. [users[q.user] EXCEPT !.email = q.email, !.pending = None, !.verified = TRUE].email = q.email
      BY <2>4, <2>10 DEF User
    <3>2. \/ UNCHANGED users
          \/ /\ ~IndexRefuses(q.user, q.email)
             /\ SetUser(q.user, [users[q.user] EXCEPT
                       !.email = q.email, !.pending = None, !.verified = TRUE])
      BY <1>2, <2>10, UserIs
    <3>3. ~IndexRefuses(q.user, q.email)
             => \A v \in Users \ {q.user} : users[v] # NoRow => users[v].email # q.email
      BY DEF IndexRefuses
    <3>4. QED
      BY <1>1, <2>2, <3>1, <3>2, <3>3
  <2>11. QED
    BY <1>1, <1>2, <2>5, <2>6, <2>7, <2>8, <2>9, <2>10, UserIs
<1>3. ASSUME NEW r \in Requests, Step(r), ~WritingUser(r)
      PROVE  UNCHANGED users
  BY <1>3, StepIs, BeginningIs, DecidingIs, FailIs, SessionIs, LinkIs DEF rows
<1>4. QED
  BY <1>1, <1>2, <1>3, NextIs, TimingIs DEF vars, rows


-----------------------------------------------------------------------------
(* Sessions                                                                  *)

LEMMA RacesGrow ==
    ASSUME TypeOK, RequestsFit, RowsFit, NEW r \in Requests, Step(r)
    PROVE  races \subseteq races'
<1>1. CASE Beginning(r)
  BY <1>1, BeginningIs DEF Redeem
<1>2. CASE WritingUser(r)
  BY <1>2, UserIs DEF Race
<1>3. CASE WritingLink(r)
  BY <1>3, LinkIs DEF Race
<1>4. QED
  BY <1>1, <1>2, <1>3, StepIs, DecidingIs, FailIs, SessionIs

LEMMA RevokingStays ==
    ASSUME TypeOK, RequestsFit, RowsFit, NEW r \in Requests, Step(r), NEW u \in Users, Revoking(u)
    PROVE  \/ Revoking(u)' \/ <<"sessions", u>> \in races'
           \/ RevokeAll(r) /\ u = request[r].user
<1>1. PICK p \in Requests : At(p, "revoke_all") /\ request[p].user = u
  BY DEF Revoking
<1>2. CASE p # r
  <2>1. request'[p] = request[p]
    BY <1>2, StepFits DEF Moves
  <2>2. QED
    BY <1>1, <2>1 DEF Revoking, At
<1>3. CASE p = r
  <2>1. request[r] # NoRequest /\ request[r].pc = "revoke_all" /\ request[r].user = u
    BY <1>1, <1>3 DEF At
  <2>2. Fail(r) \/ WritingSession(r)
    BY <2>1, StepIs, BeginningIs, DecidingIs, UserIs, LinkIs
  <2>3. WritingSession(r) => RevokeAll(r)
    BY <2>1, SessionIs
  <2>4. QED
    BY <2>1, <2>2, <2>3, FailIs
<1>4. QED
  BY <1>2, <1>3

Follows(s) ==
    LET u == sessions[s].user
    IN  \/ opened[s].password = users[u].password
        \/ s \in kept \/ opened[s].late
        \/ Revoking(u)
        \/ <<"sessions", u>> \in races \/ <<"password", u>> \in races

LEMMA AllFollow ==
    AliveFollow <=> \A s \in Sessions : Alive(s) => Follows(s)
BY DEF AliveFollow, Follows

(* A session goes on following where only the place of requests moved.       *)
LEMMA FollowsStable ==
    ASSUME NEW s \in Sessions, Follows(s), sessions'[s].user = sessions[s].user,
           users'[sessions[s].user].password = users[sessions[s].user].password,
           opened'[s] = opened[s], kept \subseteq kept', races \subseteq races',
           Revoking(sessions[s].user)
              => \/ Revoking(sessions[s].user)' /\ UNCHANGED sessions
                 \/ \E p \in Requests : /\ request'[p] # NoRequest
                                        /\ request'[p].pc = "revoke_all"
                                        /\ request'[p].user = sessions[s].user
                 \/ <<"sessions", sessions[s].user>> \in races'
    PROVE  Follows(s)'
BY DEF Follows, Revoking, At

LEMMA StepFollows ==
    ASSUME TypeOK, RequestsFit, RowsFit, AliveFollow, NEW r \in Requests, Step(r)
    PROVE  AliveFollow'
<1> DEFINE q == request[r]
<1> SUFFICES ASSUME NEW s \in Sessions, Alive(s)'
             PROVE  Follows(s)'
  BY DEF AliveFollow, Follows, Alive
<1>1. races \subseteq races'
  BY RacesGrow
<1>2. sessions'[s] \in Session /\ sessions'[s] # NoRow
  BY StepTyped DEF Alive, TypeOK
<1>3. CASE \E z \in Sessions : OpenSession(r, z) /\ z = s
  <2>1. OpenSession(r, s)
    BY <1>3
  <2>2. q \in Request /\ Fits(q)
    BY <2>1, RequestTyped DEF OpenSession, At, InFlight, RequestsFit
  <2>3. /\ sessions'[s] = [user |-> q.user, status |-> "live"]
        /\ opened'[s] = [password |-> q.password, late |-> users[q.user].password # q.password]
        /\ UNCHANGED users
    BY <2>1 DEF OpenSession, TypeOK
  <2>4. sessions'[s].user = q.user /\ opened'[s].password = q.password
    BY <2>3
  <2>5. CASE users[q.user].password = q.password
    BY <2>3, <2>4, <2>5 DEF Follows
  <2>6. CASE users[q.user].password # q.password
    <3>1. (users[q.user].password # q.password) = TRUE
      BY <2>6
    <3>2. opened'[s] = [password |-> q.password, late |-> TRUE]
      BY <2>3, <3>1
    <3>3. QED
      BY <3>2 DEF Follows
  <2>7. QED
    BY <2>5, <2>6
<1>4. CASE ~(\E z \in Sessions : OpenSession(r, z) /\ z = s)
  <2>1. /\ Alive(s) /\ sessions'[s].user = sessions[s].user /\ opened'[s] = opened[s]
        /\ kept \subseteq kept'
        /\ RevokeAll(r) /\ sessions[s].user = q.user => s \in kept'
    <3>1. CASE ~WritingSession(r)
      <4>1. UNCHANGED <<sessions, opened, kept>>
        BY <3>1, StepIs, BeginningIs, DecidingIs, FailIs, UserIs, LinkIs DEF rows, Books
      <4>2. ~RevokeAll(r)
        BY <3>1 DEF WritingSession
      <4>3. QED
        BY <4>1, <4>2 DEF Alive
    <3>2. CASE WritingSession(r)
      <4>1. q \in Request /\ Fits(q)
        BY <3>2, SessionIs, RequestTyped DEF RequestsFit
      <4>2. CASE \E z \in Sessions : OpenSession(r, z)
        <5>1. sessions'[s] = sessions[s] /\ opened'[s] = opened[s] /\ UNCHANGED kept
          BY <1>4, <4>2 DEF OpenSession, TypeOK
        <5>2. ~RevokeAll(r)
          BY <4>2 DEF OpenSession, RevokeAll, At
        <5>3. QED
          BY <5>1, <5>2 DEF Alive
      <4>3. CASE /\ q.pc = "touch" /\ UNCHANGED <<opened, kept>>
                 /\ sessions' = [sessions EXCEPT ![q.session] = Touched(q.session)]
        <5>1. q.session \in Sessions /\ sessions[q.session] \in Session
                 /\ sessions[q.session] # NoRow
          BY <4>1, <4>3 DEF Fits, TypeOK
        <5>2. /\ Touched(q.session).user = sessions[q.session].user
              /\ Touched(q.session).status = "dead" <=> sessions[q.session].status = "dead"
          BY <5>1 DEF Touched, Session
        <5>3. ~RevokeAll(r)
          BY <4>3 DEF RevokeAll, At
        <5>4. CASE s = q.session
          <6>1. sessions'[s] = Touched(q.session)
            BY <4>3, <5>4 DEF TypeOK
          <6>2. QED
            BY <4>3, <5>1, <5>2, <5>3, <5>4, <6>1 DEF Alive
        <5>5. CASE s # q.session
          <6>1. sessions'[s] = sessions[s]
            BY <4>3, <5>5 DEF TypeOK
          <6>2. QED
            BY <4>3, <5>3, <6>1 DEF Alive
        <5>6. QED
          BY <5>4, <5>5
      <4>4. CASE /\ q.pc = "revoke" /\ UNCHANGED <<opened, kept>>
                 /\ sessions' = [sessions EXCEPT ![q.session].status = "dead"]
        <5>1. q.session \in Sessions /\ sessions[q.session] \in Session
          BY <4>1, <4>4 DEF Fits, TypeOK
        <5>2. s # q.session
          <6> SUFFICES ASSUME s = q.session PROVE FALSE
            OBVIOUS
          <6>1. sessions'[s].status = "dead"
            BY <4>4, <5>1 DEF TypeOK, Session
          <6>2. QED
            BY <6>1 DEF Alive
        <5>3. sessions'[s] = sessions[s] /\ ~RevokeAll(r)
          BY <4>4, <5>2 DEF TypeOK, RevokeAll, At
        <5>4. QED
          BY <4>4, <5>3 DEF Alive
      <4>5. CASE RevokeAll(r) /\ UNCHANGED opened
        <5> DEFINE dies == Alive(s) /\ sessions[s].user = q.user /\ ~Keeps(q, s)
        <5>1. sessions'[s] = IF dies THEN [sessions[s] EXCEPT !.status = "dead"] ELSE sessions[s]
          BY <4>5 DEF RevokeAll
        <5>2. ~dies
          <6> SUFFICES ASSUME dies PROVE FALSE
            OBVIOUS
          <6>1. sessions[s] \in Session
            BY DEF Alive, TypeOK
          <6>2. sessions'[s].status = "dead"
            BY <5>1, <6>1 DEF Session
          <6>3. QED
            BY <6>2 DEF Alive
        <5>3. sessions'[s] = sessions[s] /\ Alive(s)
          BY <5>1, <5>2 DEF Alive
        <5>4. kept \subseteq kept' /\ (sessions[s].user = q.user => s \in kept')
          BY <4>5, <5>2, <5>3 DEF RevokeAll
        <5>5. QED
          BY <4>5, <5>3, <5>4
      <4>6. QED
        BY <3>2, <4>2, <4>3, <4>4, <4>5, SessionIs
    <3>3. QED
      BY <3>1, <3>2
  <2>2. Follows(s) /\ sessions[s].user \in Users /\ users[sessions[s].user] # NoRow
    BY <2>1, AllFollow DEF Alive, TypeOK, Session, RowsFit
  <2> DEFINE u == sessions[s].user
  <2>3. \/ users'[u].password = users[u].password
        \/ <<"password", u>> \in races'
        \/ /\ request'[r] # NoRequest /\ request'[r].pc = "revoke_all"
           /\ request'[r].user = u
    <3>1. CASE UNCHANGED users
      BY <3>1
    <3>2. CASE WritingUser(r)
      <4>1. q \in Request /\ Fits(q) /\ InFlight(r)
        BY <3>2, UserIs, RequestTyped DEF RequestsFit
      <4>2. request'[r] # NoRequest /\ q.pc = "set" => request'[r].user = q.user
                /\ request'[r].pc = "revoke_all"
        BY <3>2, <4>1, UserIs DEF Request
      <4>3. ASSUME NEW v, NEW row, SetUser(v, row), v # u \/ row.password = users[u].password
            PROVE  users'[u].password = users[u].password
        BY <2>2, <4>3 DEF SetUser, TypeOK
      <4>4. users[u] \in User
        BY <2>2 DEF TypeOK
      <4>5. CASE q.pc = "create"
        <5>1. UNCHANGED users \/ \E v, row : SetUser(v, row) /\ users[v] = NoRow
          BY <3>2, <4>5, UserIs
        <5>2. QED
          BY <2>2, <4>3, <5>1
      <4>6. CASE q.pc = "rehash" /\ q.user = u
        <5>1. users'[u] = [users[u] EXCEPT !.password = q.password, !.outdated = FALSE]
                 \/ UNCHANGED users
          <6>1. SetUser(q.user, [users[q.user] EXCEPT !.password = q.password, !.outdated = FALSE])
                   \/ UNCHANGED users
            BY <3>2, <4>6, UserIs
          <6>2. QED
            BY <2>2, <4>6, <6>1 DEF SetUser, TypeOK
        <5>2. users[u].password = q.password \/ <<"password", u>> \in races' \/ UNCHANGED users
          BY <3>2, <4>6, UserIs
        <5>3. QED
          BY <4>4, <5>1, <5>2 DEF User
      <4>7. CASE q.pc = "set"
        <5>1. request'[r] # NoRequest \/ UNCHANGED users
          <6>1. [q EXCEPT !.pc = "revoke_all"] \in Request
            BY <4>1 DEF Request
          <6>2. QED
            BY <3>2, <4>7, <6>1, RequestAssumption, UserIs
        <5>2. CASE q.user # u
          BY <3>2, <4>3, <4>7, <5>2, UserIs
        <5>3. QED
          BY <4>2, <4>7, <5>1, <5>2
      <4>8. CASE q.pc = "pend" /\ q.user = u
        <5>1. [users[u] EXCEPT !.pending = q.email].password = users[u].password
          BY <4>4 DEF User
        <5>2. QED
          BY <3>2, <4>3, <4>8, <5>1, UserIs
      <4>9. CASE q.pc = "mark" /\ q.user = u
        <5>1. [users[u] EXCEPT !.verified = TRUE].password = users[u].password
          BY <4>4 DEF User
        <5>2. QED
          BY <3>2, <4>3, <4>9, <5>1, UserIs
      <4>10. CASE q.pc = "apply" /\ q.user = u
        <5>1. [users[u] EXCEPT !.email = q.email, !.pending = None, !.verified = TRUE].password
                 = users[u].password
          BY <4>4 DEF User
        <5>2. QED
          BY <3>2, <4>3, <4>10, <5>1, UserIs
      <4>11. CASE q.user # u /\ q.pc # "create"
        <5>1. UNCHANGED users \/ \E row : SetUser(q.user, row)
          BY <3>2, <4>11, UserIs
        <5>2. QED
          BY <4>3, <4>11, <5>1
      <4>12. QED
        BY <3>1, <3>2, <4>5, <4>6, <4>7, <4>8, <4>9, <4>10, <4>11, UserIs
    <3>3. QED
      BY <3>1, <3>2, StepIs, BeginningIs, DecidingIs, FailIs, SessionIs, LinkIs DEF rows
  <2>4. CASE <<"password", u>> \in races' \/ s \in kept'
    BY <2>1, <2>4 DEF Follows
  <2>5. CASE /\ request'[r] # NoRequest /\ request'[r].pc = "revoke_all"
             /\ request'[r].user = u
    BY <2>1, <2>5 DEF Follows, Revoking, At
  <2>6. CASE users'[u].password = users[u].password /\ s \notin kept'
    <3>1. Revoking(u) => \/ \E p \in Requests : /\ request'[p] # NoRequest
                                                /\ request'[p].pc = "revoke_all"
                                                /\ request'[p].user = u
                         \/ <<"sessions", u>> \in races'
      BY <2>1, <2>2, <2>6, RevokingStays DEF Revoking, At
    <3>2. QED
      BY <1>1, <2>1, <2>2, <2>6, <3>1, FollowsStable
  <2>7. QED
    BY <2>3, <2>4, <2>5, <2>6
<1>5. QED
  BY <1>3, <1>4

LEMMA NextFollows ==
    ASSUME TypeOK, RequestsFit, RowsFit, AliveFollow, [Next]_vars
    PROVE  AliveFollow'
<1>1. CASE UNCHANGED vars
  BY <1>1 DEF vars, rows, history, AliveFollow, Alive, Revoking, At
<1>2. CASE Timing
  <2> SUFFICES ASSUME NEW s \in Sessions, Alive(s)'
               PROVE  Follows(s)'
    BY DEF AliveFollow, Follows, Alive
  <2>1. UNCHANGED <<users, request, opened, kept, races>>
    BY <1>2, TimingIs DEF Books
  <2>2. Alive(s) /\ sessions'[s].user = sessions[s].user
    <3>1. UNCHANGED sessions \/ \E z \in Sessions : \E x \in {"idle", "dead"} :
             /\ sessions[z] \in Session /\ Alive(z)
             /\ sessions' = [sessions EXCEPT ![z] = [sessions[z] EXCEPT !.status = x]]
      BY <1>2, TimingIs
    <3>2. QED
      BY <3>1 DEF Alive, TypeOK, Session
  <2>3. QED
    BY <2>1, <2>2, AllFollow DEF Follows, Revoking, At
<1>3. QED
  BY <1>1, <1>2, NextIs, StepFollows


-----------------------------------------------------------------------------
(* What a step may do to one account, one link and its own request           *)

LEMMA AccountIs ==
    ASSUME TypeOK, RequestsFit, RowsFit, NEW r \in Requests, Step(r),
           NEW u \in Users, users[u] # NoRow
    PROVE  /\ users[u] \in User /\ users'[u] \in User /\ reached[u] \subseteq reached'[u]
           /\ ~users'[u].verified => ~users[u].verified /\ users'[u].email = users[u].email
           /\ \/ users'[u].email = users[u].email /\ (users'[u].verified => users[u].verified)
              \/ /\ request[r] # NoRequest /\ request[r].pc = "mark" /\ request[r].user = u
                 /\ users'[u].email = users[u].email
              \/ /\ request[r] # NoRequest /\ request[r].pc = "apply" /\ request[r].user = u
                 /\ users'[u].email = request[r].email
           /\ \/ users'[u].pending = users[u].pending
              \/ /\ request[r] # NoRequest /\ request[r].pc = "pend" /\ request[r].user = u
                 /\ users'[u].pending = request[r].email
                 /\ request'[r] = [request[r] EXCEPT !.purpose = "change", !.pc = "supersede"]
                 /\ Race(<<"address", u>>, Changing(r))
              \/ /\ request[r] # NoRequest /\ request[r].pc = "apply" /\ request[r].user = u
                 /\ users'[u].pending = None
<1> DEFINE q == request[r]
<1>1. users[u] \in User /\ users'[u] \in User
  <2>1. users'[u] \in User \cup {NoRow} /\ users'[u] # NoRow
    BY StepTyped, StepFits DEF TypeOK, Grows
  <2>2. QED
    BY <2>1 DEF TypeOK
<1>2. reached[u] \subseteq reached'[u]
  <2>1. reached \in [Users -> SUBSET Emails]
    BY DEF TypeOK
  <2>2. ASSUME NEW v, NEW x, reached' = [reached EXCEPT ![v] = @ \cup x]
        PROVE  reached[u] \subseteq reached'[u]
    BY <2>1, <2>2
  <2>3. UNCHANGED reached \/ \E v, x : reached' = [reached EXCEPT ![v] = @ \cup x]
    BY StepIs, BeginningIs, DecidingIs, FailIs, UserIs, SessionIs, LinkIs DEF Books
  <2>4. QED
    BY <2>2, <2>3
<1>3. CASE UNCHANGED users
  BY <1>1, <1>2, <1>3
<1>4. CASE WritingUser(r)
  <2>1. q \in Request /\ Fits(q) /\ InFlight(r) /\ q # NoRequest
    BY <1>4, UserIs, RequestTyped DEF RequestsFit, InFlight
  <2>2. ASSUME NEW v, NEW row, SetUser(v, row), v # u
        PROVE  users'[u] = users[u]
    BY <2>2 DEF SetUser, TypeOK
  <2>3. ASSUME NEW row, SetUser(u, row)
        PROVE  users'[u] = row
    BY <2>3 DEF SetUser, TypeOK
  <2>4. CASE users'[u] = users[u]
    BY <1>1, <1>2, <2>4
  <2>5. CASE q.pc = "create"
    <3>1. UNCHANGED users \/ \E v, row : SetUser(v, row) /\ users[v] = NoRow
      BY <1>4, <2>5, UserIs
    <3>2. QED
      BY <2>2, <2>4, <3>1
  <2>6. CASE q.pc # "create" /\ q.user # u
    <3>1. UNCHANGED users \/ \E row : SetUser(q.user, row)
      BY <1>4, <2>6, UserIs
    <3>2. QED
      BY <2>2, <2>4, <2>6, <3>1
  <2>7. CASE q.user = u /\ q.pc = "rehash"
    <3>1. UNCHANGED users
             \/ users'[u] = [users[u] EXCEPT !.password = q.password, !.outdated = FALSE]
      BY <1>4, <2>3, <2>7, UserIs
    <3>2. QED
      BY <1>1, <1>2, <1>3, <3>1 DEF User
  <2>8. CASE q.user = u /\ q.pc = "set"
    <3>1. UNCHANGED users
             \/ users'[u] = [users[u] EXCEPT !.password = passwords + 1, !.outdated = FALSE]
      BY <1>4, <2>3, <2>8, UserIs
    <3>2. QED
      BY <1>1, <1>2, <1>3, <3>1 DEF User
  <2>9. CASE q.user = u /\ q.pc = "pend"
    <3>1. \/ UNCHANGED users
          \/ /\ users'[u] = [users[u] EXCEPT !.pending = q.email]
             /\ request'[r] = [q EXCEPT !.purpose = "change", !.pc = "supersede"]
             /\ Race(<<"address", u>>, Changing(r))
      BY <1>4, <2>3, <2>9, UserIs
    <3>2. [users[u] EXCEPT !.pending = q.email].pending = q.email
             /\ [users[u] EXCEPT !.pending = q.email].email = users[u].email
             /\ [users[u] EXCEPT !.pending = q.email].verified = users[u].verified
      BY <1>1 DEF User
    <3>3. QED
      BY <1>1, <1>2, <1>3, <2>1, <2>9, <3>1, <3>2
  <2>10. CASE q.user = u /\ q.pc = "mark"
    <3>1. UNCHANGED users \/ users'[u] = [users[u] EXCEPT !.verified = TRUE]
      BY <1>4, <2>3, <2>10, UserIs
    <3>2. QED
      BY <1>1, <1>2, <1>3, <2>1, <2>10, <3>1 DEF User
  <2>11. CASE q.user = u /\ q.pc = "apply"
    <3>1. UNCHANGED users
             \/ users'[u] = [users[u] EXCEPT !.email = q.email, !.pending = None, !.verified = TRUE]
      BY <1>4, <2>3, <2>11, UserIs
    <3>2. QED
      BY <1>1, <1>2, <1>3, <2>1, <2>11, <3>1 DEF User
  <2>12. QED
    BY <1>3, <1>4, <2>5, <2>6, <2>7, <2>8, <2>9, <2>10, <2>11, UserIs
<1>5. QED
  BY <1>3, <1>4, StepIs, BeginningIs, DecidingIs, FailIs, SessionIs, LinkIs DEF rows

LEMMA NewAccountIs ==
    ASSUME TypeOK, RequestsFit, RowsFit, NEW r \in Requests, Step(r),
           NEW u \in Users, users[u] = NoRow, users'[u] # NoRow
    PROVE  /\ ~users'[u].verified /\ request[r] # NoRequest /\ request[r].pc = "create"
           /\ request'[r].user = u /\ users'[u].email = request[r].email
           /\ UNCHANGED <<sessions, tokens>>
<1> DEFINE q == request[r]
<1>1. WritingUser(r)
  BY StepIs, BeginningIs, DecidingIs, FailIs, SessionIs, LinkIs DEF rows
<1>2. InFlight(r) /\ Fits(q)
  BY <1>1, UserIs DEF RequestsFit
<1>3. ASSUME NEW v, NEW row, SetUser(v, row)
      PROVE  v = u /\ users'[u] = row
  BY <1>3 DEF SetUser, TypeOK
<1>4. CASE q.pc = "create"
  <2>1. SetUser(request'[r].user,
            [email |-> request[r].email, password |-> 0, outdated |-> FALSE,
             verified |-> FALSE, pending |-> None])
    BY <1>1, <1>4, UserIs
  <2>2. request'[r].user = u
           /\ users'[u] = [email |-> request[r].email, password |-> 0, outdated |-> FALSE,
                           verified |-> FALSE, pending |-> None]
    BY <1>3, <2>1
  <2>3. UNCHANGED <<sessions, tokens>>
    BY <1>1, UserIs
  <2>4. ~users'[u].verified /\ users'[u].email = request[r].email
    BY <2>2
  <2>5. QED
    BY <1>2, <1>4, <2>2, <2>3, <2>4 DEF InFlight
<1>5. CASE q.pc # "create"
  <2>1. users[q.user] # NoRow /\ \E row : SetUser(q.user, row)
    BY <1>1, <1>2, <1>5, UserIs DEF Fits
  <2>2. QED
    BY <1>3, <2>1
<1>6. QED
  BY <1>4, <1>5

LEMMA TokenIs ==
    ASSUME TypeOK, RequestsFit, RowsFit, NEW r \in Requests, Step(r),
           NEW t \in Tokens, tokens'[t] # NoRow
    PROVE  \/ /\ tokens[t] # NoRow /\ sent'[t] = sent[t]
              /\ tokens'[t].user = tokens[t].user /\ tokens'[t].purpose = tokens[t].purpose
              /\ tokens'[t].status = "open" => tokens[t].status = "open"
           \/ /\ tokens[t] = NoRow /\ request[r] # NoRequest
              /\ request[r].pc = "issue" /\ request'[r] = NoRequest
              /\ tokens' = [tokens EXCEPT ![t] = [user |-> request[r].user,
                              purpose |-> request[r].purpose, status |-> "open"]]
              /\ tokens'[t].user = request[r].user /\ tokens'[t].purpose = request[r].purpose
              /\ sent'[t] = request[r].email /\ UNCHANGED <<users, reached, races>>
<1> DEFINE q == request[r]
<1>1. CASE UNCHANGED <<tokens, sent>>
  BY <1>1
<1>2. CASE WritingLink(r)
  <2>1. q \in Request /\ Fits(q) /\ InFlight(r) /\ q # NoRequest
    BY <1>2, LinkIs, RequestTyped DEF RequestsFit, InFlight
  <2>2. ASSUME NEW z \in Tokens, Issue(r, z)
        PROVE  /\ tokens[z] = NoRow /\ q.pc = "issue" /\ request'[r] = NoRequest
               /\ tokens' = [tokens EXCEPT ![z] =
                               [user |-> q.user, purpose |-> q.purpose, status |-> "open"]]
               /\ sent' = [sent EXCEPT ![z] = q.email] /\ UNCHANGED <<users, reached, races>>
    BY <2>2, AnswerIs DEF Issue, At
  <2>3. CASE \E z \in Tokens : Issue(r, z)
    <3> PICK z \in Tokens : Issue(r, z)
      BY <2>3
    <3>1. CASE z = t
      <4>1. tokens'[t] = [user |-> q.user, purpose |-> q.purpose, status |-> "open"]
               /\ sent'[t] = q.email
        BY <2>2, <3>1 DEF TypeOK
      <4>2. tokens'[t].user = q.user /\ tokens'[t].purpose = q.purpose
        BY <4>1
      <4>3. QED
        BY <2>1, <2>2, <3>1, <4>1, <4>2
    <3>2. CASE z # t
      BY <2>2, <3>2 DEF TypeOK
    <3>3. QED
      BY <3>1, <3>2
  <2>4. CASE Supersede(r)
    <3>1. sent'[t] = sent[t]
      BY <1>2, <2>4 DEF Supersede
    <3>2. tokens'[t] = IF Superseded(t, q) THEN [tokens[t] EXCEPT !.status = "closed"] ELSE tokens[t]
      BY <2>4 DEF Supersede
    <3>3. CASE Superseded(t, q)
      <4>1. tokens[t] \in Token /\ tokens[t] # NoRow
        BY <3>3 DEF Superseded, TypeOK
      <4>2. QED
        BY <3>1, <3>2, <3>3, <4>1 DEF Token
    <3>4. QED
      BY <3>1, <3>2, <3>3
  <2>5. CASE q.pc = "use" /\ tokens' = [tokens EXCEPT ![q.token].status = "used"] /\ UNCHANGED sent
    <3>1. q.token \in Tokens /\ tokens[q.token] \in Token /\ tokens[q.token] # NoRow
      BY <2>1, <2>5 DEF Fits, TypeOK
    <3>2. QED
      BY <2>5, <3>1 DEF TypeOK, Token
  <2>6. QED
    BY <1>2, <2>3, <2>4, <2>5, LinkIs
<1>3. QED
  BY <1>1, <1>2, StepIs, BeginningIs, DecidingIs, FailIs, UserIs, SessionIs DEF rows, Books


(* Where a request that carries a link of a purpose comes from               *)
LEMMA CarrierIs ==
    ASSUME TypeOK, RequestsFit, RowsFit, NEW r \in Requests, Step(r), request'[r] # NoRequest
    PROVE  LET q == request[r]
               n == request'[r]
           IN  /\ n.purpose = "change" =>
                   /\ n.user \in Users /\ users[n.user] # NoRow
                   /\ \/ n.pc = "use" /\ Redeem(r, n.token)
                      \/ /\ n.pc = "supersede" /\ q # NoRequest /\ q.pc = "pend"
                         /\ n.user = q.user /\ n.email = users'[n.user].pending
                         /\ Race(<<"address", n.user>>, Changing(r))
                      \/ /\ n.pc = "issue" /\ q # NoRequest /\ q.pc = "supersede"
                         /\ q.purpose = "change" /\ n.user = q.user /\ n.email = q.email
                         /\ Supersede(r) /\ UNCHANGED users
                      \/ /\ n.pc = "pending" /\ q # NoRequest /\ q.pc = "use"
                         /\ q.purpose = "change" /\ n.user = q.user /\ UNCHANGED users
                         /\ sent[q.token] \in reached'[n.user]
                      \/ /\ n.pc = "apply" /\ q # NoRequest /\ q.pc = "pending"
                         /\ q.purpose = "change" /\ n.user = q.user
                         /\ users[n.user].pending # None /\ n.email = users[n.user].pending
                      \/ /\ n.pc = "revoke_all" /\ q # NoRequest /\ q.pc = "apply"
                         /\ q.purpose = "change" /\ n.user = q.user
               /\ n.purpose = "verification" /\ n.pc = "supersede" =>
                     users'[n.user] # NoRow /\ n.email = users'[n.user].email
               /\ n.purpose = "verification" /\ n.pc = "issue" =>
                   /\ q # NoRequest /\ q.pc = "supersede" /\ q.purpose = "verification"
                   /\ n.user = q.user /\ n.email = q.email
               /\ n.pc = "mark" =>
                   /\ q # NoRequest /\ q.pc = "use" /\ q.purpose = "verification"
                   /\ n.user = q.user /\ sent[q.token] \in reached'[n.user]
<1> DEFINE q == request[r]
           n == request'[r]
<1>1. CASE Beginning(r)
  BY <1>1, BeginningIs DEF Fits
<1>2. CASE ~Beginning(r)
  <2>1. InFlight(r)
    BY <1>2, StepIs, DecidingIs, FailIs, UserIs, SessionIs, LinkIs
  <2>2. q \in Request /\ q # NoRequest /\ Fits(q)
    BY <2>1, RequestTyped DEF RequestsFit, InFlight
  <2>3. q.pc # "create" => q.user \in Users /\ users[q.user] \in User /\ users[q.user] # NoRow
    BY <2>2 DEF Fits, TypeOK
  <2>4. CASE Deciding(r)
    <3>1. CASE q.pc = "verify" /\ n = [q EXCEPT !.pc = "set"]
      <4>1. n.pc = "set" /\ n.purpose = q.purpose
        BY <2>2, <3>1 DEF Request
      <4>2. QED
        BY <2>2, <3>1, <4>1 DEF Fits
    <3>2. CASE q.pc = "verify" /\ n = [q EXCEPT !.pc = "pend"]
      <4>1. n.pc = "pend" /\ n.purpose = q.purpose
        BY <2>2, <3>2 DEF Request
      <4>2. QED
        BY <2>2, <3>2, <4>1 DEF Fits
    <3>3. CASE /\ q.pc = "resend"
               /\ n = [q EXCEPT !.purpose = "verification", !.pc = "supersede",
                                !.email = users[q.user].email]
      <4>1. n.pc = "supersede" /\ n.purpose = "verification" /\ n.user = q.user
               /\ n.email = users[q.user].email
        BY <2>2, <3>3 DEF Request
      <4>2. UNCHANGED users
        BY <2>4, DecidingIs DEF rows
      <4>3. QED
        BY <2>3, <3>3, <4>1, <4>2
    <3>4. CASE /\ q.pc = "pending" /\ users[q.user].pending # None
               /\ n = [q EXCEPT !.email = users[q.user].pending, !.pc = "apply"]
      <4>1. n.pc = "apply" /\ n.purpose = q.purpose /\ n.user = q.user
               /\ n.email = users[q.user].pending
        BY <2>2, <3>4 DEF Request
      <4>2. QED
        BY <2>2, <2>3, <3>4, <4>1 DEF Fits
    <3>5. QED
      BY <2>4, <3>1, <3>2, <3>3, <3>4, DecidingIs
  <2>5. CASE WritingUser(r)
    <3>1. CASE q.pc = "create"
      <4>1. /\ n = [q EXCEPT !.user = n.user, !.pc = "supersede"] /\ n.user \in Users
            /\ SetUser(n.user, [email |-> q.email, password |-> 0, outdated |-> FALSE,
                                verified |-> FALSE, pending |-> None])
        BY <2>5, <3>1, UserIs
      <4>2. n.pc = "supersede" /\ n.purpose = q.purpose /\ n.email = q.email
        BY <2>2, <4>1 DEF Request
      <4>3. users'[n.user] = [email |-> q.email, password |-> 0, outdated |-> FALSE,
                              verified |-> FALSE, pending |-> None]
               /\ users'[n.user] # NoRow
        BY <4>1, RowsAreRows DEF SetUser, TypeOK
      <4>4. users'[n.user].email = q.email /\ q.purpose = "verification"
        BY <2>2, <3>1, <4>3 DEF Fits
      <4>5. QED
        BY <4>2, <4>3, <4>4
    <3>2. CASE q.pc \in {"rehash", "set", "apply"}
      <4>1. n.pc \in {"open", "revoke_all"} /\ n.purpose = q.purpose /\ n.user = q.user
        BY <2>2, <2>5, <3>2, UserIs DEF Request
      <4>2. q.purpose = "change" => q.pc = "apply"
        BY <2>2, <3>2 DEF Fits
      <4>3. q.pc = "apply" => n = [q EXCEPT !.pc = "revoke_all"]
        BY <2>5, <3>2, UserIs
      <4>4. q.pc = "apply" => n.pc = "revoke_all"
        BY <2>2, <4>3 DEF Request
      <4>5. QED
        BY <2>2, <2>3, <3>2, <4>1, <4>2, <4>4
    <3>3. CASE q.pc = "pend"
      <4>1. n = [q EXCEPT !.purpose = "change", !.pc = "supersede"]
               /\ SetUser(q.user, [users[q.user] EXCEPT !.pending = q.email])
               /\ Race(<<"address", q.user>>, Changing(r))
        BY <2>5, <3>3, UserIs
      <4>2. n.pc = "supersede" /\ n.purpose = "change" /\ n.user = q.user /\ n.email = q.email
        BY <2>2, <4>1 DEF Request
      <4>3. users'[q.user].pending = q.email
        BY <2>3, <3>3, <4>1 DEF SetUser, TypeOK, User
      <4>4. QED
        BY <2>2, <2>3, <3>3, <4>1, <4>2, <4>3
    <3>4. QED
      BY <2>5, <3>1, <3>2, <3>3, UserIs
  <2>6. CASE WritingSession(r)
    <3>1. q.pc = "touch" /\ n = [q EXCEPT !.pc = AfterTouch[q.op]]
      BY <2>6, SessionIs
    <3>2. AfterTouch[q.op] \notin {"supersede", "issue", "mark"}
      BY <2>2, <3>1 DEF Fits, AfterTouch, Signed
    <3>3. n.pc = AfterTouch[q.op] /\ n.purpose = q.purpose /\ q.purpose # "change"
      BY <2>2, <3>1 DEF Request, Fits
    <3>4. QED
      BY <3>2, <3>3
  <2>7. CASE WritingLink(r)
    <3>1. CASE Supersede(r) /\ q.pc = "supersede" /\ n = [q EXCEPT !.pc = "issue"]
      <4>1. n.pc = "issue" /\ n.purpose = q.purpose /\ n.user = q.user /\ n.email = q.email
        BY <2>2, <3>1 DEF Request
      <4>2. UNCHANGED users
        BY <2>7, LinkIs
      <4>3. QED
        BY <2>2, <2>3, <3>1, <4>1, <4>2
    <3>2. CASE /\ q.pc = "use" /\ n = [q EXCEPT !.pc = AfterUse[q.purpose]]
               /\ reached' = [reached EXCEPT ![q.user] = @ \cup {sent[q.token]}]
      <4>1. /\ q.purpose = "reset" => AfterUse[q.purpose] = "set"
            /\ q.purpose = "verification" => AfterUse[q.purpose] = "mark"
            /\ q.purpose = "change" => AfterUse[q.purpose] = "pending"
            /\ q.purpose \in Purposes
        BY <2>2 DEF AfterUse, Request
      <4>2. n.pc = AfterUse[q.purpose] /\ n.purpose = q.purpose /\ n.user = q.user
        BY <2>2, <3>2 DEF Request
      <4>3. sent[q.token] \in reached'[q.user]
        BY <2>3, <3>2 DEF TypeOK
      <4>4. UNCHANGED users
        BY <2>7, LinkIs
      <4>5. QED
        BY <2>2, <2>3, <3>2, <4>1, <4>2, <4>3, <4>4 DEF Purposes
    <3>3. QED
      BY <2>7, <3>1, <3>2, LinkIs
  <2>8. QED
    BY <1>2, <2>4, <2>5, <2>6, <2>7, StepIs, FailIs
<1>3. QED
  BY <1>1, <1>2


-----------------------------------------------------------------------------
(* Verified addresses                                                        *)

LEMMA StepVerifying ==
    ASSUME TypeOK, RequestsFit, RowsFit, Verifying, NEW r \in Requests, Step(r)
    PROVE  Verifying'
<1> DEFINE q == request[r]
<1>1. ASSUME NEW t \in Tokens, tokens'[t] # NoRow, tokens'[t].purpose = "verification",
             ~users'[tokens'[t].user].verified
      PROVE  sent'[t] = users'[tokens'[t].user].email
  <2>1. CASE /\ tokens[t] # NoRow /\ sent'[t] = sent[t]
             /\ tokens'[t].user = tokens[t].user /\ tokens'[t].purpose = tokens[t].purpose
    <3>1. tokens[t].user \in Users /\ users[tokens[t].user] # NoRow
      BY <2>1 DEF TypeOK, Token, RowsFit
    <3>2. ~users[tokens[t].user].verified
             /\ users'[tokens[t].user].email = users[tokens[t].user].email
      BY <1>1, <2>1, <3>1, AccountIs
    <3>3. QED
      BY <1>1, <2>1, <3>2 DEF Verifying
  <2>2. CASE /\ q # NoRequest /\ q.pc = "issue"
             /\ tokens'[t].user = q.user /\ tokens'[t].purpose = q.purpose
             /\ sent'[t] = q.email /\ UNCHANGED users
    BY <1>1, <2>2 DEF Verifying, InFlight
  <2>3. QED
    BY <1>1, <2>1, <2>2, TokenIs
<1>2. ASSUME NEW p \in Requests, p # r, request'[p] # NoRequest,
             ~users'[request'[p].user].verified,
             \/ request'[p].pc \in {"supersede", "issue"} /\ request'[p].purpose = "verification"
             \/ request'[p].pc = "mark"
      PROVE  /\ request'[p].pc \in {"supersede", "issue"}
                   => request'[p].email = users'[request'[p].user].email
             /\ request'[p].pc = "mark"
                   => users'[request'[p].user].email \in reached'[request'[p].user]
  <2> DEFINE u == request[p].user
  <2>1. request'[p] = request[p]
    BY <1>2, StepFits DEF Moves
  <2>2. u \in Users /\ users[u] # NoRow
    BY <1>2, <2>1 DEF RequestsFit, InFlight, Fits
  <2>3. ~users[u].verified /\ users'[u].email = users[u].email /\ reached[u] \subseteq reached'[u]
    BY <1>2, <2>1, <2>2, AccountIs
  <2>4. QED
    BY <1>2, <2>1, <2>3 DEF Verifying, InFlight
<1>3. ASSUME request'[r] # NoRequest, ~users'[request'[r].user].verified
      PROVE  /\ request'[r].pc \in {"supersede", "issue"} /\ request'[r].purpose = "verification"
                   => request'[r].email = users'[request'[r].user].email
             /\ request'[r].pc = "mark"
                   => users'[request'[r].user].email \in reached'[request'[r].user]
  <2> DEFINE n == request'[r]
  <2>1. CASE n.pc = "supersede" /\ n.purpose = "verification"
    BY <1>3, <2>1, CarrierIs
  <2>2. CASE n.pc = "issue" /\ n.purpose = "verification"
    <3>1. /\ q # NoRequest /\ q.pc = "supersede" /\ q.purpose = "verification"
          /\ n.user = q.user /\ n.email = q.email
      BY <1>3, <2>2, CarrierIs
    <3>2. q.user \in Users /\ users[q.user] # NoRow
      BY <3>1 DEF RequestsFit, InFlight, Fits
    <3>3. ~users[q.user].verified /\ users'[q.user].email = users[q.user].email
      BY <1>3, <3>1, <3>2, AccountIs
    <3>4. QED
      BY <2>2, <3>1, <3>3 DEF Verifying, InFlight
  <2>3. CASE n.pc = "mark"
    <3>1. /\ q # NoRequest /\ q.pc = "use" /\ q.purpose = "verification"
          /\ n.user = q.user /\ sent[q.token] \in reached'[n.user]
      BY <1>3, <2>3, CarrierIs
    <3>2. /\ q.user \in Users /\ users[q.user] # NoRow /\ q.token \in Tokens
          /\ tokens[q.token] # NoRow /\ tokens[q.token].user = q.user
          /\ tokens[q.token].purpose = "verification"
      BY <3>1 DEF RequestsFit, InFlight, Fits
    <3>3. ~users[q.user].verified /\ users'[q.user].email = users[q.user].email
      BY <1>3, <3>1, <3>2, AccountIs
    <3>4. QED
      BY <2>3, <3>1, <3>2, <3>3 DEF Verifying
  <2>4. QED
    BY <2>1, <2>2, <2>3
<1>4. QED
  BY <1>1, <1>2, <1>3 DEF Verifying, InFlight

(* A request of an account that changes its address moves no other along.    *)
LEMMA StepReaddressing ==
    ASSUME TypeOK, RequestsFit, RowsFit, Readdressing, NEW r \in Requests, Step(r)
    PROVE  Readdressing'
<1> DEFINE q == request[r]
           n == request'[r]
<1> SUFFICES ASSUME NEW u \in Users, users'[u] # NoRow, <<"address", u>> \notin races'
    PROVE  /\ \A p, o \in Requests : ChangesAddress(p, u)' /\ ChangesAddress(o, u)' => p = o
           /\ \A t \in Tokens :
                 tokens'[t] # NoRow /\ tokens'[t].user = u /\ tokens'[t].purpose = "change"
                       /\ tokens'[t].status = "open"
                    => \/ users'[u].pending \in {sent'[t], None}
                       \/ \E p \in Requests : ChangesAddress(p, u)' /\ request'[p].pc = "supersede"
           /\ \A p \in Requests : ChangesAddress(p, u)' =>
                 /\ request'[p].pc \in {"supersede", "issue"} => request'[p].email = users'[u].pending
                 /\ request'[p].pc = "use" => users'[u].pending \in {sent'[request'[p].token], None}
                 /\ request'[p].pc = "pending" => users'[u].pending \in reached'[u] \cup {None}
                 /\ request'[p].pc = "apply" => request'[p].email \in reached'[u]
  BY DEF Readdressing
<1>1. races \subseteq races' /\ <<"address", u>> \notin races
  BY RacesGrow
<1>2. \A p \in Requests : p # r => request'[p] = request[p]
  BY StepFits DEF Moves
<1>3. CASE users[u] = NoRow
  <2>1. \A p \in Requests : p # r => ~ChangesAddress(p, u)'
    BY <1>2, <1>3 DEF ChangesAddress, InFlight, RequestsFit, Fits
  <2>2. ~ChangesAddress(r, u)'
    BY <1>3, CarrierIs DEF ChangesAddress, InFlight
  <2>3. \A t \in Tokens : tokens'[t] # NoRow => tokens'[t].user # u
    <3>1. UNCHANGED tokens
      BY <1>3, NewAccountIs
    <3>2. QED
      BY <1>3, <3>1 DEF RowsFit
  <2>4. QED
    BY <2>1, <2>2, <2>3
<1>4. CASE users[u] # NoRow
  <2>1. /\ \A p, o \in Requests : ChangesAddress(p, u) /\ ChangesAddress(o, u) => p = o
        /\ \A t \in Tokens :
              tokens[t] # NoRow /\ tokens[t].user = u /\ tokens[t].purpose = "change"
                    /\ tokens[t].status = "open"
                 => \/ users[u].pending \in {sent[t], None}
                    \/ \E p \in Requests : ChangesAddress(p, u) /\ request[p].pc = "supersede"
        /\ \A p \in Requests : ChangesAddress(p, u) =>
              /\ request[p].pc \in {"supersede", "issue"} => request[p].email = users[u].pending
              /\ request[p].pc = "use" => users[u].pending \in {sent[request[p].token], None}
              /\ request[p].pc = "pending" => users[u].pending \in reached[u] \cup {None}
              /\ request[p].pc = "apply" => request[p].email \in reached[u]
    BY <1>1, <1>4 DEF Readdressing
  (* No other request carries a change of the address where this one enters. *)
  <2>2. ChangesAddress(r, u)' /\ n.pc \in {"use", "supersede"}
           => \A p \in Requests : p # r => ~ChangesAddress(p, u)
    <3>1. CASE n.purpose = "change" /\ n.user = u /\ n # NoRequest /\ n.pc = "use"
      <4>1. Redeem(r, n.token) /\ Begun(r, n)
        <5>1. Redeem(r, n.token)
          BY <3>1, CarrierIs
        <5>2. Beginning(r)
          <6>1. q = NoRequest
            BY <5>1 DEF Redeem, Open
          <6>2. QED
            BY <6>1, StepIs, DecidingIs, FailIs, UserIs, SessionIs, LinkIs DEF InFlight
        <5>3. \E p \in Request : Begun(r, p)
          BY <5>2, BeginningBegins
        <5>4. QED
          BY <5>1, <5>3, OpenIs DEF Begun
      <4>2. /\ n.token \in Tokens /\ tokens[n.token].user = u /\ tokens[n.token].purpose = "change"
            /\ q = NoRequest
        BY <3>1, <4>1, OpenIs DEF Begun, Fits
      <4>3. \A p \in Requests : ChangesAddress(p, u) => <<"address", u>> \in races'
        BY <4>1, <4>2 DEF Redeem, ChangesAddress
      <4>4. QED
        BY <4>3
    <3>2. CASE n.purpose = "change" /\ n.user = u /\ n # NoRequest /\ n.pc = "supersede"
      <4>1. Race(<<"address", u>>, Changing(r)) /\ q.user = u
        BY <3>2, CarrierIs
      <4>2. Changing(r) = {}
        BY <4>1 DEF Race
      <4>3. QED
        BY <4>1, <4>2 DEF Changing, ChangesAddress
    <3>3. QED
      BY <3>1, <3>2 DEF ChangesAddress, InFlight
  <2>3. ChangesAddress(r, u)' /\ n.pc \notin {"use", "supersede"} => ChangesAddress(r, u)
    BY CarrierIs DEF ChangesAddress, InFlight
  <2>4. \A p, o \in Requests : ChangesAddress(p, u)' /\ ChangesAddress(o, u)' => p = o
    <3>1. \A p \in Requests : p # r /\ ChangesAddress(p, u)' => ChangesAddress(p, u)
      BY <1>2 DEF ChangesAddress, InFlight
    <3>2. QED
      BY <2>1, <2>2, <2>3, <3>1
  <2>5. /\ reached[u] \subseteq reached'[u]
        /\ \/ users'[u].pending = users[u].pending
           \/ /\ q # NoRequest /\ q.pc = "pend" /\ q.user = u /\ ChangesAddress(r, u)'
              /\ n.pc = "supersede"
           \/ q # NoRequest /\ q.pc = "apply" /\ q.user = u /\ users'[u].pending = None
    <3>1. CASE /\ q # NoRequest /\ q.pc = "pend" /\ q.user = u
               /\ n = [q EXCEPT !.purpose = "change", !.pc = "supersede"]
      <4>1. q \in Request
        BY <3>1, RequestTyped DEF InFlight
      <4>2. n.purpose = "change" /\ n.pc = "supersede" /\ n.user = u
        BY <3>1, <4>1 DEF Request
      <4>3. n \in Request
        BY <3>1, <4>1 DEF Request, Purposes
      <4>4. ChangesAddress(r, u)'
        BY <4>2, <4>3, RequestAssumption DEF ChangesAddress, InFlight
      <4>5. QED
        BY <1>4, <3>1, <4>2, <4>4, AccountIs
    <3>2. QED
      BY <1>4, <3>1, AccountIs
  <2>6. ASSUME NEW t \in Tokens, tokens'[t] # NoRow, tokens'[t].user = u,
               tokens'[t].purpose = "change", tokens'[t].status = "open"
        PROVE  \/ users'[u].pending \in {sent'[t], None}
               \/ \E p \in Requests : ChangesAddress(p, u)' /\ request'[p].pc = "supersede"
    <3>1. CASE users'[u].pending # users[u].pending
      BY <2>5, <3>1
    <3>2. CASE users'[u].pending = users[u].pending
      <4>1. CASE /\ tokens[t] # NoRow /\ sent'[t] = sent[t]
                 /\ tokens'[t].user = tokens[t].user /\ tokens'[t].purpose = tokens[t].purpose
                 /\ tokens'[t].status = "open" => tokens[t].status = "open"
        <5>1. CASE users[u].pending \in {sent[t], None}
          BY <3>2, <4>1, <5>1
        <5>2. CASE \E p \in Requests : ChangesAddress(p, u) /\ request[p].pc = "supersede"
          <6> PICK p \in Requests : ChangesAddress(p, u) /\ request[p].pc = "supersede"
            BY <5>2
          <6>1. CASE p # r
            <7>1. ChangesAddress(p, u)' /\ request'[p].pc = "supersede"
              BY <1>2, <6>1 DEF ChangesAddress, InFlight
            <7>2. QED
              BY <7>1
          <6>2. CASE p = r
            <7>1. q.pc = "supersede" /\ q.purpose = "change" /\ q.user = u
              BY <6>2 DEF ChangesAddress
            <7>2. ~Fail(r)
              BY <7>1, FailIs
            <7>3. Supersede(r)
              BY <6>2, <7>1, <7>2, StepIs, BeginningIs, DecidingIs, UserIs, SessionIs, LinkIs
                 DEF ChangesAddress, InFlight
            <7>4. Superseded(t, q)
              BY <2>6, <4>1, <7>1 DEF Superseded
            <7>5. tokens'[t].status = "closed"
              BY <7>3, <7>4 DEF Supersede, TypeOK, Token, Superseded
            <7>6. QED
              BY <2>6, <7>5
          <6>3. QED
            BY <6>1, <6>2
        <5>3. QED
          BY <2>1, <2>6, <4>1, <5>1, <5>2
      <4>2. CASE /\ q # NoRequest /\ q.pc = "issue"
                 /\ tokens'[t].user = q.user /\ tokens'[t].purpose = q.purpose
                 /\ sent'[t] = q.email
        <5>1. ChangesAddress(r, u)
          BY <2>6, <4>2 DEF ChangesAddress, InFlight
        <5>2. QED
          BY <2>1, <3>2, <4>2, <5>1
      <4>3. QED
        BY <2>6, <4>1, <4>2, TokenIs
    <3>3. QED
      BY <3>1, <3>2
  <2>7. ASSUME NEW p \in Requests, p # r, ChangesAddress(p, u)'
        PROVE  /\ request'[p].pc \in {"supersede", "issue"} => request'[p].email = users'[u].pending
               /\ request'[p].pc = "use" => users'[u].pending \in {sent'[request'[p].token], None}
               /\ request'[p].pc = "pending" => users'[u].pending \in reached'[u] \cup {None}
               /\ request'[p].pc = "apply" => request'[p].email \in reached'[u]
    <3>1. request'[p] = request[p] /\ ChangesAddress(p, u)
      BY <1>2, <2>7 DEF ChangesAddress, InFlight
    <3>2. users'[u].pending = users[u].pending
      <4>1. ~(q # NoRequest /\ q.pc = "apply" /\ q.user = u)
        <5>1. q # NoRequest /\ q.pc = "apply" => q.purpose = "change"
          BY DEF RequestsFit, InFlight, Fits
        <5>2. QED
          BY <2>1, <2>7, <3>1, <5>1 DEF ChangesAddress, InFlight
      <4>2. ~(ChangesAddress(r, u)')
        BY <2>4, <2>7
      <4>3. QED
        BY <2>5, <4>1, <4>2
    <3>3. request[p].pc = "use" => sent'[request[p].token] = sent[request[p].token]
      BY <3>1, StepFits DEF ChangesAddress, InFlight, RequestsFit, Fits, Grows
    <3>4. QED
      BY <2>1, <2>5, <3>1, <3>2, <3>3
  <2>8. ASSUME ChangesAddress(r, u)'
        PROVE  /\ n.pc \in {"supersede", "issue"} => n.email = users'[u].pending
               /\ n.pc = "use" => users'[u].pending \in {sent'[n.token], None}
               /\ n.pc = "pending" => users'[u].pending \in reached'[u] \cup {None}
               /\ n.pc = "apply" => n.email \in reached'[u]
    <3>1. n # NoRequest /\ n.purpose = "change" /\ n.user = u
      BY <2>8 DEF ChangesAddress, InFlight
    <3>2. CASE n.pc = "supersede"
      BY <3>1, <3>2, CarrierIs
    <3>3. CASE n.pc = "issue"
      <4>1. /\ q # NoRequest /\ q.pc = "supersede" /\ q.purpose = "change" /\ u = q.user
            /\ n.email = q.email /\ UNCHANGED users
        BY <3>1, <3>3, CarrierIs
      <4>2. ChangesAddress(r, u)
        BY <4>1 DEF ChangesAddress, InFlight
      <4>3. QED
        BY <2>1, <3>3, <4>1, <4>2
    <3>4. CASE n.pc = "use"
      <4>1. Redeem(r, n.token) /\ Beginning(r)
        <5>1. Redeem(r, n.token)
          BY <3>1, <3>4, CarrierIs
        <5>2. q = NoRequest
          BY <5>1 DEF Redeem, Open
        <5>3. QED
          BY <5>1, <5>2, StepIs, DecidingIs, FailIs, UserIs, SessionIs, LinkIs DEF InFlight
      <4>2. /\ n.token \in Tokens /\ tokens[n.token] # NoRow /\ tokens[n.token].user = u
            /\ tokens[n.token].purpose = "change" /\ tokens[n.token].status = "open"
            /\ UNCHANGED <<users, sent>> /\ q = NoRequest
        BY <3>1, <3>4, <4>1, BeginningIs DEF Redeem, Fits, rows, Books
      <4>3. ~\E p \in Requests : ChangesAddress(p, u)
        BY <2>2, <2>8, <3>4, <4>2 DEF ChangesAddress, InFlight
      <4>4. QED
        BY <2>1, <3>4, <4>2, <4>3
    <3>5. CASE n.pc = "pending"
      <4>1. /\ q # NoRequest /\ q.pc = "use" /\ q.purpose = "change" /\ u = q.user
            /\ UNCHANGED users /\ sent[q.token] \in reached'[u]
        BY <3>1, <3>5, CarrierIs
      <4>2. ChangesAddress(r, u)
        BY <4>1 DEF ChangesAddress, InFlight
      <4>3. QED
        BY <2>1, <3>5, <4>1, <4>2
    <3>6. CASE n.pc = "apply"
      <4>1. /\ q # NoRequest /\ q.pc = "pending" /\ q.purpose = "change" /\ u = q.user
            /\ users[u].pending # None /\ n.email = users[u].pending
        BY <3>1, <3>6, CarrierIs
      <4>2. ChangesAddress(r, u)
        BY <4>1 DEF ChangesAddress, InFlight
      <4>3. QED
        BY <2>1, <2>5, <3>6, <4>1, <4>2
    <3>7. QED
      BY <3>2, <3>3, <3>4, <3>5, <3>6
  <2>9. QED
    BY <2>4, <2>6, <2>7, <2>8
<1>5. QED
  BY <1>3, <1>4

LEMMA StepReached ==
    ASSUME TypeOK, RequestsFit, RowsFit, Verifying, Readdressing, VerifiedWasReached,
           NEW r \in Requests, Step(r)
    PROVE  VerifiedWasReached'
<1> DEFINE q == request[r]
<1> SUFFICES ASSUME NEW u \in Users, users'[u] # NoRow, users'[u].verified,
                    <<"address", u>> \notin races'
             PROVE  users'[u].email \in reached'[u]
  BY DEF VerifiedWasReached
<1>1. <<"address", u>> \notin races
  BY RacesGrow
<1>2. users[u] # NoRow
  BY NewAccountIs
<1>3. CASE users'[u].email = users[u].email /\ users[u].verified
  BY <1>1, <1>2, <1>3, AccountIs DEF VerifiedWasReached
<1>4. CASE q # NoRequest /\ q.pc = "mark" /\ q.user = u /\ users'[u].email = users[u].email
  <2>1. users[u].verified \/ users[u].email \in reached[u]
    BY <1>4 DEF Verifying, InFlight
  <2>2. QED
    BY <1>1, <1>2, <1>4, <2>1, AccountIs DEF VerifiedWasReached
<1>5. CASE q # NoRequest /\ q.pc = "apply" /\ q.user = u /\ users'[u].email = q.email
  <2>1. ChangesAddress(r, u)
    BY <1>5 DEF RequestsFit, Fits, ChangesAddress, InFlight
  <2>2. q.email \in reached[u]
    BY <1>1, <1>2, <1>5, <2>1 DEF Readdressing
  <2>3. QED
    BY <1>2, <1>5, <2>2, AccountIs
<1>6. QED
  BY <1>2, <1>3, <1>4, <1>5, AccountIs


-----------------------------------------------------------------------------
(* Links                                                                     *)

LEMMA NewIssue ==
    ASSUME TypeOK, RequestsFit, RowsFit, NEW r \in Requests, Step(r), At(r, "issue")'
    PROVE  /\ Supersede(r) /\ At(r, "supersede") /\ UNCHANGED uses
           /\ request'[r].user = request[r].user /\ request'[r].purpose = request[r].purpose
           /\ Race(<<"link", request[r].user>>, Issuing(r))
<1> DEFINE q == request[r]
           n == request'[r]
<1>1. n # NoRequest /\ n.pc = "issue"
  BY DEF At
<1>2. ~Beginning(r) /\ ~Fail(r)
  BY <1>1, BeginningIs, FailIs
<1>3. InFlight(r)
  BY <1>2, StepIs, DecidingIs, UserIs, SessionIs, LinkIs
<1>4. q \in Request /\ Fits(q)
  BY <1>3, RequestTyped DEF RequestsFit
<1>5. ~Deciding(r)
  <2> SUFFICES ASSUME Deciding(r) PROVE FALSE
    OBVIOUS
  <2>1. \/ n = [q EXCEPT !.pc = "set"] \/ n = [q EXCEPT !.pc = "pend"]
        \/ n = [q EXCEPT !.purpose = "verification", !.pc = "supersede", !.email = users[q.user].email]
        \/ n = [q EXCEPT !.email = users[q.user].pending, !.pc = "apply"]
    BY <1>1, DecidingIs
  <2>2. QED
    BY <1>1, <1>4, <2>1 DEF Request
<1>6. ~WritingUser(r)
  <2> SUFFICES ASSUME WritingUser(r) PROVE FALSE
    OBVIOUS
  <2>1. \/ n = [q EXCEPT !.user = n.user, !.pc = "supersede"]
        \/ n = [q EXCEPT !.pc = "open"] \/ n = [q EXCEPT !.pc = "revoke_all"]
        \/ n = [q EXCEPT !.purpose = "change", !.pc = "supersede"]
    BY <1>1, UserIs
  <2>2. QED
    BY <1>1, <1>4, <2>1 DEF Request
<1>7. ~WritingSession(r)
  <2> SUFFICES ASSUME WritingSession(r) PROVE FALSE
    OBVIOUS
  <2>1. q.pc = "touch" /\ n = [q EXCEPT !.pc = AfterTouch[q.op]]
    BY <1>1, SessionIs
  <2>2. AfterTouch[q.op] # "issue"
    BY <1>4, <2>1 DEF Fits, AfterTouch, Signed
  <2>3. QED
    BY <1>1, <1>4, <2>1, <2>2 DEF Request
<1>8. WritingLink(r)
  BY <1>2, <1>5, <1>6, <1>7, StepIs
<1>9. ~(q.pc = "use" /\ n = [q EXCEPT !.pc = AfterUse[q.purpose]])
  BY <1>1, <1>4 DEF Request, AfterUse, Purposes
<1>10. /\ Supersede(r) /\ q.pc = "supersede" /\ n = [q EXCEPT !.pc = "issue"] /\ UNCHANGED uses
       /\ Race(<<"link", request[r].user>>, Issuing(r))
  BY <1>1, <1>8, <1>9, LinkIs
<1>11. QED
  BY <1>3, <1>4, <1>10 DEF Request, At, InFlight

LEMMA NewUse ==
    ASSUME TypeOK, RequestsFit, RowsFit, NEW r \in Requests, Step(r), At(r, "use")'
    PROVE  /\ request[r] = NoRequest /\ request'[r].token \in Tokens
           /\ Redeem(r, request'[r].token) /\ UNCHANGED <<tokens, uses>>
<1> DEFINE q == request[r]
           n == request'[r]
<1>1. n # NoRequest /\ n.pc = "use"
  BY DEF At
<1>2. CASE Beginning(r)
  BY <1>1, <1>2, BeginningIs DEF Fits, rows, Books
<1>3. CASE ~Beginning(r)
  <2>1. InFlight(r) /\ ~Fail(r)
    BY <1>1, <1>3, StepIs, DecidingIs, FailIs, UserIs, SessionIs, LinkIs
  <2>2. q \in Request /\ Fits(q)
    BY <2>1, RequestTyped DEF RequestsFit
  <2>3. CASE Deciding(r)
    <3>1. \/ n = [q EXCEPT !.pc = "set"] \/ n = [q EXCEPT !.pc = "pend"]
          \/ n = [q EXCEPT !.purpose = "verification", !.pc = "supersede", !.email = users[q.user].email]
          \/ n = [q EXCEPT !.email = users[q.user].pending, !.pc = "apply"]
      BY <1>1, <2>3, DecidingIs
    <3>2. QED
      BY <1>1, <2>2, <3>1 DEF Request
  <2>4. CASE WritingUser(r)
    <3>1. \/ n = [q EXCEPT !.user = n.user, !.pc = "supersede"]
          \/ n = [q EXCEPT !.pc = "open"] \/ n = [q EXCEPT !.pc = "revoke_all"]
          \/ n = [q EXCEPT !.purpose = "change", !.pc = "supersede"]
      BY <1>1, <2>4, UserIs
    <3>2. QED
      BY <1>1, <2>2, <3>1 DEF Request
  <2>5. CASE WritingSession(r)
    <3>1. q.pc = "touch" /\ n = [q EXCEPT !.pc = AfterTouch[q.op]]
      BY <1>1, <2>5, SessionIs
    <3>2. AfterTouch[q.op] # "use"
      BY <2>2, <3>1 DEF Fits, AfterTouch, Signed
    <3>3. QED
      BY <1>1, <2>2, <3>1, <3>2 DEF Request
  <2>6. CASE WritingLink(r)
    <3>1. n = [q EXCEPT !.pc = "issue"] \/ n = [q EXCEPT !.pc = AfterUse[q.purpose]]
      BY <1>1, <2>6, LinkIs
    <3>2. AfterUse[q.purpose] # "use"
      BY <2>2 DEF Request, AfterUse, Purposes
    <3>3. QED
      BY <1>1, <2>2, <3>1, <3>2 DEF Request
  <2>7. QED
    BY <1>3, <2>1, <2>3, <2>4, <2>5, <2>6, StepIs
<1>4. QED
  BY <1>2, <1>3

LEMMA StepLinking ==
    ASSUME TypeOK, RequestsFit, RowsFit, Linking, NEW r \in Requests, Step(r)
    PROVE  Linking'
<1> DEFINE q == request[r]
<1> SUFFICES ASSUME NEW u \in Users, NEW k \in Purposes, <<"link", u>> \notin races'
             PROVE  /\ \A t, v \in OpenLinks(u, k)' : t = v
                    /\ \A p \in Requests : Issues(p, u, k)' => OpenLinks(u, k)' = {}
                    /\ \A p, o \in Requests : Issues(p, u, k)' /\ Issues(o, u, k)' => p = o
  BY DEF Linking
<1>1. <<"link", u>> \notin races
  BY RacesGrow
<1>2. /\ \A t, v \in OpenLinks(u, k) : t = v
      /\ \A p \in Requests : Issues(p, u, k) => OpenLinks(u, k) = {}
      /\ \A p, o \in Requests : Issues(p, u, k) /\ Issues(o, u, k) => p = o
  BY <1>1 DEF Linking
<1>3. \A p \in Requests : p # r /\ Issues(p, u, k)' => Issues(p, u, k)
  BY StepFits DEF Moves, Issues, At
<1>4. CASE Issues(r, u, k)'
  <2>1. /\ Supersede(r) /\ q.user = u /\ q.purpose = k
        /\ Race(<<"link", u>>, Issuing(r))
    BY <1>4, NewIssue DEF Issues
  <2>2. OpenLinks(u, k)' = {}
    <3> SUFFICES ASSUME NEW t \in Tokens, tokens'[t] # NoRow, tokens'[t].user = u,
                        tokens'[t].purpose = k, tokens'[t].status = "open"
                 PROVE  FALSE
      BY DEF OpenLinks
    <3>1. tokens'[t] = IF Superseded(t, q) THEN [tokens[t] EXCEPT !.status = "closed"] ELSE tokens[t]
      BY <2>1 DEF Supersede
    <3>2. CASE Superseded(t, q)
      BY <3>1, <3>2 DEF Superseded, TypeOK, Token
    <3>3. CASE ~Superseded(t, q)
      BY <2>1, <3>1, <3>3 DEF Superseded
    <3>4. QED
      BY <3>2, <3>3
  <2>3. \A p \in Requests : p # r => ~Issues(p, u, k)
    <3>1. Issuing(r) = {}
      BY <2>1 DEF Race
    <3>2. QED
      BY <2>1, <3>1 DEF Issuing, Issues
  <2>4. QED
    BY <1>3, <2>2, <2>3
<1>5. CASE ~(Issues(r, u, k)')
  <2>1. \A p \in Requests : Issues(p, u, k)' => p # r /\ Issues(p, u, k)
    BY <1>3, <1>5
  <2>2. CASE OpenLinks(u, k)' \subseteq OpenLinks(u, k)
    BY <1>2, <2>1, <2>2
  <2>3. CASE \E t \in Tokens : t \in OpenLinks(u, k)' /\ t \notin OpenLinks(u, k)
    <3> PICK t \in Tokens : t \in OpenLinks(u, k)' /\ t \notin OpenLinks(u, k)
      BY <2>3
    <3>1. /\ tokens'[t] # NoRow /\ tokens'[t].user = u
          /\ tokens'[t].purpose = k /\ tokens'[t].status = "open"
      BY DEF OpenLinks
    <3>2. /\ tokens[t] = NoRow /\ q # NoRequest /\ q.pc = "issue"
          /\ tokens' = [tokens EXCEPT ![t] =
                          [user |-> q.user, purpose |-> q.purpose, status |-> "open"]]
          /\ q.user = u /\ q.purpose = k
      BY <3>1, TokenIs DEF OpenLinks
    <3>3. Issues(r, u, k) /\ OpenLinks(u, k) = {}
      BY <1>2, <3>2 DEF Issues, At
    <3>4. \A v \in OpenLinks(u, k)' : v = t
      <4> SUFFICES ASSUME NEW v \in Tokens, v # t, v \in OpenLinks(u, k)'
                   PROVE  v \in OpenLinks(u, k)
        BY <3>3 DEF OpenLinks
      <4>1. tokens'[v] = tokens[v]
        BY <3>2 DEF TypeOK
      <4>2. QED
        BY <4>1 DEF OpenLinks
    <3>5. \A p \in Requests : ~(Issues(p, u, k)')
      BY <1>2, <2>1, <3>3
    <3>6. QED
      BY <3>4, <3>5
  <2>4. QED
    BY <2>2, <2>3 DEF OpenLinks
<1>6. QED
  BY <1>4, <1>5

LEMMA StepUsing ==
    ASSUME TypeOK, RequestsFit, RowsFit, Using, NEW r \in Requests, Step(r)
    PROVE  Using'
<1> DEFINE q == request[r]
<1> SUFFICES ASSUME NEW t \in Tokens
             PROVE  /\ tokens'[t] = NoRow => uses'[t] = 0
                    /\ <<"use", t>> \notin races' =>
                        /\ tokens'[t] # NoRow /\ tokens'[t].status = "open" => uses'[t] = 0
                        /\ uses'[t] <= 1
                        /\ \A p \in Requests : Uses(p, t)' => uses'[t] = 0
                        /\ \A p, o \in Requests : Uses(p, t)' /\ Uses(o, t)' => p = o
  BY DEF Using
<1>1. uses[t] \in Nat /\ (tokens[t] = NoRow => uses[t] = 0)
  BY DEF TypeOK, Using
<1>2. \A p \in Requests : p # r /\ Uses(p, t)' => Uses(p, t)
  BY StepFits DEF Moves, Uses, At
<1>3. \/ uses'[t] = uses[t]
      \/ /\ Uses(r, t) /\ uses'[t] = uses[t] + 1 /\ tokens[t] # NoRow /\ tokens'[t] # NoRow
         /\ tokens'[t].status = "used"
  <2>1. CASE UNCHANGED uses
    BY <2>1
  <2>2. CASE /\ WritingLink(r) /\ q.pc = "use"
             /\ uses' = [uses EXCEPT ![q.token] = @ + 1]
             /\ tokens' = [tokens EXCEPT ![q.token].status = "used"]
    <3>1. q # NoRequest /\ Fits(q)
      BY <2>2, LinkIs DEF RequestsFit, InFlight
    <3>2. q.token \in Tokens /\ tokens[q.token] \in Token /\ tokens[q.token] # NoRow
      BY <2>2, <3>1 DEF Fits, TypeOK
    <3>3. CASE q.token = t
      <4>1. tokens'[t] # NoRow /\ tokens'[t].status = "used"
        BY <2>2, <3>2, <3>3, StepFits DEF TypeOK, Token, Grows
      <4>2. uses'[t] = uses[t] + 1
        BY <2>2, <3>3 DEF TypeOK
      <4>3. QED
        BY <2>2, <3>1, <3>2, <3>3, <4>1, <4>2 DEF Uses, At
    <3>4. CASE q.token # t
      BY <2>2, <3>4 DEF TypeOK
    <3>5. QED
      BY <3>3, <3>4
  <2>3. QED
    BY <2>1, <2>2, StepIs, BeginningIs, DecidingIs, FailIs, UserIs, SessionIs, LinkIs DEF Books
<1>4. ASSUME <<"use", t>> \notin races'
      PROVE  /\ tokens'[t] # NoRow /\ tokens'[t].status = "open" => uses'[t] = 0
             /\ uses'[t] <= 1
             /\ \A p \in Requests : Uses(p, t)' => uses'[t] = 0
             /\ \A p, o \in Requests : Uses(p, t)' /\ Uses(o, t)' => p = o
  <2>1. <<"use", t>> \notin races
    BY <1>4, RacesGrow
  <2>2. /\ tokens[t] # NoRow /\ tokens[t].status = "open" => uses[t] = 0
        /\ uses[t] <= 1
        /\ \A p \in Requests : Uses(p, t) => uses[t] = 0
        /\ \A p, o \in Requests : Uses(p, t) /\ Uses(o, t) => p = o
    BY <2>1 DEF Using
  <2>3. tokens'[t] # NoRow /\ tokens'[t].status = "open" => uses'[t] = 0
    BY <1>1, <1>3, <2>2, TokenIs
  <2>4. uses'[t] <= 1
    BY <1>1, <1>3, <2>2
  <2>5. CASE Uses(r, t)'
    <3>1. /\ q = NoRequest /\ Redeem(r, t) /\ UNCHANGED <<tokens, uses>>
      BY <2>5, NewUse DEF Uses
    <3>2. uses'[t] = 0
      BY <2>2, <3>1 DEF Redeem
    <3>3. \A p \in Requests : ~Uses(p, t)
      <4> SUFFICES ASSUME NEW p \in Requests, Uses(p, t)
                   PROVE  <<"use", t>> \in races'
        BY <1>4
      <4>1. races' = races
              \cup {<<"use", request[o].token>> :
                       o \in {z \in Requests : At(z, "use") /\ request[z].token = t}}
              \cup {<<"address", request[o].user>> : o \in {z \in Requests :
                       /\ InFlight(z) /\ request[z].user = tokens[t].user
                       /\ request[z].purpose = "change" /\ tokens[t].purpose = "change"}}
        BY <3>1 DEF Redeem
      <4>2. QED
        BY <4>1 DEF Uses
    <3>4. QED
      BY <1>2, <2>3, <2>4, <3>2, <3>3
  <2>6. CASE ~(Uses(r, t)')
    <3>1. \A p \in Requests : Uses(p, t)' => p # r /\ Uses(p, t)
      BY <1>2, <2>6
    <3>2. QED
      BY <1>3, <2>2, <2>3, <2>4, <3>1
  <2>7. QED
    BY <2>5, <2>6
<1>5. tokens'[t] = NoRow => uses'[t] = 0
  <2>1. tokens'[t] = NoRow => tokens[t] = NoRow
    BY StepFits DEF Grows
  <2>2. QED
    BY <1>1, <1>3, <2>1
<1>6. QED
  BY <1>4, <1>5


-----------------------------------------------------------------------------
(* Time only closes what is open.                                            *)

LEMMA LapseIs ==
    ASSUME TypeOK, RequestsFit, Timing, NEW t \in Tokens
    PROVE  /\ tokens'[t] # NoRow <=> tokens[t] # NoRow
           /\ tokens[t] # NoRow =>
                 /\ tokens'[t].user = tokens[t].user /\ tokens'[t].purpose = tokens[t].purpose
                 /\ tokens'[t].status = "open" => tokens[t].status = "open"
<1>1. tokens'[t] # NoRow => tokens[t] # NoRow
  BY TimingIs, RowsAreRows DEF TypeOK
<1>2. tokens[t] # NoRow => /\ tokens'[t] # NoRow /\ tokens'[t].user = tokens[t].user
                           /\ tokens'[t].purpose = tokens[t].purpose
  BY TimingFits DEF Grows
<1>3. tokens[t] # NoRow /\ tokens'[t].status = "open" => tokens[t].status = "open"
  <2>1. UNCHANGED tokens \/ \E z \in Tokens :
           /\ tokens[z] \in Token
           /\ tokens' = [tokens EXCEPT ![z] = [tokens[z] EXCEPT !.status = "closed"]]
    BY TimingIs
  <2>2. QED
    BY <2>1 DEF TypeOK, Token
<1>4. QED
  BY <1>1, <1>2, <1>3

LEMMA TimingKeeps ==
    ASSUME TypeOK, RequestsFit, RowsFit, Timing
    PROVE  /\ Verifying => Verifying'
           /\ Readdressing => Readdressing'
           /\ VerifiedWasReached => VerifiedWasReached'
           /\ Linking => Linking'
           /\ Using => Using'
<1>1. UNCHANGED <<users, request, sent, reached, uses, races>>
  BY TimingIs DEF Books
<1>2. Verifying => Verifying'
  BY <1>1, LapseIs DEF Verifying, InFlight
<1>3. Readdressing => Readdressing'
  BY <1>1, LapseIs DEF Readdressing, ChangesAddress, InFlight
<1>4. VerifiedWasReached => VerifiedWasReached'
  BY <1>1 DEF VerifiedWasReached
<1>5. Linking => Linking'
  <2>1. \A u \in Users, k \in Purposes : OpenLinks(u, k)' \subseteq OpenLinks(u, k)
    BY LapseIs DEF OpenLinks
  <2>2. ASSUME Linking, NEW u \in Users, NEW k \in Purposes, <<"link", u>> \notin races'
        PROVE  /\ \A t, v \in OpenLinks(u, k)' : t = v
               /\ \A p \in Requests : Issues(p, u, k)' => OpenLinks(u, k)' = {}
               /\ \A p, o \in Requests : Issues(p, u, k)' /\ Issues(o, u, k)' => p = o
    <3>1. /\ \A t, v \in OpenLinks(u, k) : t = v
          /\ \A p \in Requests : Issues(p, u, k) => OpenLinks(u, k) = {}
          /\ \A p, o \in Requests : Issues(p, u, k) /\ Issues(o, u, k) => p = o
      BY <1>1, <2>2 DEF Linking
    <3>2. \A p \in Requests : Issues(p, u, k)' <=> Issues(p, u, k)
      BY <1>1 DEF Issues, At
    <3>3. QED
      BY <2>1, <3>1, <3>2
  <2>3. QED
    BY <2>2 DEF Linking
<1>6. Using => Using'
  BY <1>1, LapseIs DEF Using, Uses, At
<1>7. QED
  BY <1>2, <1>3, <1>4, <1>5, <1>6

-----------------------------------------------------------------------------
(* The invariant                                                             *)

LEMMA InitInv ==
    ASSUME Init
    PROVE  IdentityInv
<1> USE DEF Init
<1>1. FirstUsers \in [Users -> User \cup {NoRow}]
  BY IdentityAssumption
<1>2. TypeOK
  <2>1. reached \in [Users -> SUBSET Emails]
    BY <1>1 DEF User
  <2>2. QED
    BY <1>1, <2>1, IdentityAssumption DEF TypeOK
<1>3. RequestsFit /\ RowsFit /\ AliveFollow /\ Verifying /\ Using
  BY DEF RequestsFit, RowsFit, AliveFollow, Verifying, Using, Uses, At, Alive, InFlight
<1>4. EmailsUnique
  BY IdentityAssumption DEF EmailsUnique
<1>5. Readdressing
  BY DEF Readdressing, ChangesAddress, InFlight
<1>6. VerifiedWasReached
  BY <1>1 DEF VerifiedWasReached
<1>7. Linking
  BY DEF Linking, OpenLinks, Issues, At
<1>8. QED
  BY <1>2, <1>3, <1>4, <1>5, <1>6, <1>7 DEF IdentityInv

LEMMA NextInv ==
    ASSUME IdentityInv, [Next]_vars
    PROVE  IdentityInv'
<1> USE DEF IdentityInv
<1>1. TypeOK' /\ RequestsFit' /\ RowsFit' /\ EmailsUnique' /\ AliveFollow'
  BY NextTyped, NextFits, NextRows, NextEmails, NextFollows
<1>2. Verifying' /\ Readdressing' /\ VerifiedWasReached' /\ Linking' /\ Using'
  <2>1. CASE UNCHANGED vars
    <3> USE DEF vars, rows, history
    <3>1. Verifying' /\ VerifiedWasReached'
      BY <2>1 DEF Verifying, VerifiedWasReached, InFlight
    <3>2. Readdressing'
      BY <2>1 DEF Readdressing, ChangesAddress, InFlight
    <3>3. Linking'
      BY <2>1 DEF Linking, OpenLinks, Issues, At
    <3>4. Using'
      BY <2>1 DEF Using, Uses, At
    <3>5. QED
      BY <3>1, <3>2, <3>3, <3>4
  <2>2. QED
    BY <2>1, NextIs, TimingKeeps, StepVerifying, StepReaddressing, StepReached, StepLinking,
       StepUsing
<1>3. QED
  BY <1>1, <1>2

LEMMA Invariant ==
    Spec => []IdentityInv
BY InitInv, NextInv, PTL DEF Spec

(* Whatever registrations, changes of address, redemptions and deaths of     *)
(* requests cross: an address signs one account in, a verified address was   *)
(* reached, and one link of a purpose is open and is redeemed once, but for  *)
(* the overlaps named (identity/service.py, tokens and users of store.py).   *)
THEOREM AccountsAlwaysHold ==
    Spec => []AccountsHold
<1>1. IdentityInv => AccountsHold
  <2> SUFFICES ASSUME IdentityInv PROVE LinksAreSingle
    BY DEF IdentityInv, AccountsHold
  <2>1. ASSUME NEW u \in Users, NEW p \in Purposes, <<"link", u>> \notin races
        PROVE  Cardinality(OpenLinks(u, p)) <= 1
    <3>1. \A t, v \in OpenLinks(u, p) : t = v
      BY <2>1 DEF IdentityInv, Linking
    <3>2. OpenLinks(u, p) = {} \/ \E t \in OpenLinks(u, p) : OpenLinks(u, p) = {t}
      BY <3>1
    <3>3. Cardinality(OpenLinks(u, p)) \in {0, 1}
      BY <3>2, FS_EmptySet, FS_Singleton, Zenon
    <3>4. QED
      BY <3>3
  <2>2. \A t \in Tokens : uses[t] <= 1 \/ <<"use", t>> \in races
    BY DEF IdentityInv, Using
  <2>3. QED
    BY <2>1, <2>2 DEF LinksAreSingle, OpenLinks
<1>2. QED
  BY <1>1, Invariant, PTL

(* No session opened with an older password outlives its change, but for the *)
(* one the change kept, a login that crossed it, a change still to revoke or *)
(* one that died before revoking, and a rehash that put the old hash back    *)
(* (change_password, reset_password, login of identity/service.py).          *)
THEOREM SessionsAlwaysFollow ==
    Spec => []SessionsFollowPassword
<1>1. IdentityInv => SessionsFollowPassword
  BY DEF IdentityInv, AliveFollow, SessionsFollowPassword, Alive, Valid
<1>2. QED
  BY <1>1, Invariant, PTL

(* What a request read of a session before it was revoked never brings it    *)
(* back: touching it only wakes an idle one (validate_session).              *)
THEOREM NoSessionRises ==
    Spec => DeadStaysDead
<1>1. ASSUME IdentityInv, [Next]_vars, NEW s \in Sessions, sessions[s] # NoRow, ~Alive(s)
      PROVE  sessions'[s].status = "dead"
  <2> USE DEF IdentityInv
  <2>1. sessions[s] \in Session /\ sessions[s].status = "dead"
    BY <1>1 DEF Alive, TypeOK
  <2>2. CASE UNCHANGED sessions
    BY <2>1, <2>2
  <2>3. CASE Timing
    BY <1>1, <2>1, <2>3, TimingIs DEF TypeOK, Alive
  <2>4. ASSUME NEW r \in Requests, WritingSession(r)
        PROVE  sessions'[s].status = "dead"
    <3> DEFINE q == request[r]
    <3>1. Fits(q)
      BY <1>1, <2>4, SessionIs DEF RequestsFit
    <3>2. CASE \E z \in Sessions : OpenSession(r, z)
      BY <1>1, <2>1, <3>2 DEF OpenSession, TypeOK
    <3>3. CASE q.pc = "touch" /\ sessions' = [sessions EXCEPT ![q.session] = Touched(q.session)]
      <4>1. CASE s = q.session
        <5>1. sessions'[s] = [sessions[s] EXCEPT !.status =
                                IF sessions[s].status = "idle" THEN "live" ELSE sessions[s].status]
          BY <1>1, <3>3, <4>1 DEF Touched, TypeOK
        <5>2. QED
          BY <2>1, <5>1 DEF Session
      <4>2. CASE s # q.session
        BY <1>1, <2>1, <3>3, <4>2 DEF TypeOK
      <4>3. QED
        BY <4>1, <4>2
    <3>4. CASE q.pc = "revoke" /\ sessions' = [sessions EXCEPT ![q.session].status = "dead"]
      BY <1>1, <2>1, <3>4 DEF TypeOK, Session
    <3>5. CASE RevokeAll(r)
      BY <1>1, <2>1, <3>5 DEF RevokeAll
    <3>6. QED
      BY <1>1, <2>4, <3>2, <3>3, <3>4, <3>5, SessionIs
  <2>5. ASSUME NEW r \in Requests, Step(r), ~WritingSession(r)
        PROVE  UNCHANGED sessions
    BY <1>1, <2>5, StepIs, BeginningIs, DecidingIs, FailIs, UserIs, LinkIs DEF rows
  <2>6. QED
    BY <1>1, <2>2, <2>3, <2>4, <2>5, NextIs DEF vars, rows
<1>2. IdentityInv /\ [Next]_vars =>
        [\A s \in Sessions : sessions[s] # NoRow /\ ~Alive(s) => sessions'[s].status = "dead"]_vars
  BY <1>1
<1>3. QED
  BY <1>2, Invariant, PTL DEF Spec, DeadStaysDead

=============================================================================
