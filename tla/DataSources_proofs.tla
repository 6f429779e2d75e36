-------------------------- MODULE DataSources_proofs -------------------------
(***************************************************************************)
(* Proofs about DataSources: for every number of requests, runs, columns   *)
(* and versions, a deleted source stays deleted, the pool serves what the  *)
(* row of the source says, and what a run is served was vouched for.       *)
(* And about Decisions: what memory answers a run and keeps of completed   *)
(* ones, what a batch of delegated requests brings back, and the events    *)
(* and the output of a history of tool calls, to every question that may   *)
(* be put to them.                                                         *)
(***************************************************************************)
EXTENDS DataSources, Decisions, SequenceTheorems, FunctionTheorems, FiniteSetTheorems,
        WellFoundedInduction, TLAPS

-----------------------------------------------------------------------------
(* Types *)

(* What a request that is about to write has decided on: only activation   *)
(* makes a source active, only a verification marks it verified, and a     *)
(* change, which resets the status it read, counts up from a version that  *)
(* a change before it has set.                                             *)
Decided(q) ==
    /\ q.status = "active" => q.op = "activate"
    /\ q.status = "verified_read_only" => q.op = "verify"
    /\ q.op \in Edits => q.status \in {"pending", "kept"} /\ q.version <= changes

(* A table is approved by who has read it, the lifecycle writes a status at *)
(* its end, and what is written to was read.                               *)
Sound(q) ==
    /\ q.pc = "approve" => table # NoRow
    /\ q.pc \in {"tables", "status"} => q.op \in DOMAIN NewStatus
    /\ q.pc = "flush" => row # NoRow /\ Decided(q)
Asked == \A r \in Requests : request[r] # NoRequest => Sound(request[r])

(* Versions are counted by the changes.                                    *)
Counting == row # NoRow => row.version <= changes + 1

(* A run has the settings of its connection until it has a runtime, and    *)
(* versions only grow until two changes overlap.                           *)
Raced == <<"version">> \in races
Before == {"lookup", "password", "build"}
Over == {"refused", "done"}
Serving ==
    \A n \in Runs : run[n] # NoRun =>
        /\ row # NoRow
        /\ run[n].version <= row.version \/ Raced
        /\ run[n].pc \in Before => run[n].settings \in Connection /\ run[n].engine = NoRow
        /\ run[n].pc \in Over => run[n].engine = NoRow
        /\ run[n].pc \notin Before \cup Over =>
              run[n].engine \in Runs /\ engines[run[n].engine] # NoRow

Shape == TypeOK /\ Asked /\ Counting /\ Serving

LEMMA InitShape == Init => Shape
<1> SUFFICES ASSUME Init PROVE Shape
  OBVIOUS
<1>1. MaxVersion \in Nat \ {0} /\ MaxWork \in Nat
  BY DataSourcesAssumption
<1>2. Suggested \in Catalog
  BY DEF Suggested, Catalog
<1>3. /\ row \in Row \cup {NoRow} /\ table \in Table \cup {NoRow}
      /\ Counting
  <2>1. CASE Fresh
    BY <2>1 DEF Fresh, Counting
  <2>2. CASE Onboarded
    <3>1. 1 \in Versions
      BY <1>1 DEF Versions
    <3>2. row \in Row /\ row.version = 1
      BY <2>2, <3>1 DEF Onboarded, Row, Statuses
    <3>3. table \in Table
      BY <2>2, <1>2 DEF Onboarded, Table
    <3>4. QED
      BY <3>2, <3>3 DEF Init, Counting
  <2>3. QED
    BY <2>1, <2>2 DEF Init
<1>4. /\ joins \in [Joins -> {"none", "pending", "approved", "rejected"}]
      /\ live \subseteq Columns
      /\ pool \in [Versions -> Runs \cup {NoRow}]
      /\ engines \in [Runs -> Engine \cup {NoRow}]
      /\ request \in [Requests -> Request \cup {NoRequest}]
      /\ received \in 0..MaxWork
      /\ run \in [Runs -> RunState \cup {NoRun}]
      /\ changes \in 0..(MaxVersion - 1)
      /\ blessed \subseteq Joins
  BY <1>1 DEF Init
<1>5. Asked /\ Serving
  BY DEF Init, Asked, Serving
<1>6. QED
  BY <1>3, <1>4, <1>5 DEF Shape, TypeOK

-----------------------------------------------------------------------------
(* What a request does to its own record *)

LEMMA BlankType == Blank \in Request /\ Blank # NoRequest
BY DataSourcesAssumption, MarkerAssumption
DEF Blank, Request, NewStatus, Versions, Catalog, Edits, Statuses

LEMMA AdmitType ==
    ASSUME TypeOK, NEW r \in Requests, Admit(r)
    PROVE  received' \in 0..MaxWork
BY DataSourcesAssumption DEF Admit, Begin, TypeOK

(* A request keeps its own record, and no step loses the row, the table or *)
(* the count of the changes.                                               *)
RecordOf(r) ==
    /\ request' \in [Requests -> Request \cup {NoRequest}]
    /\ \A o \in Requests \ {r} : request'[o] = request[o]
    /\ request'[r] # NoRequest => Sound(request[r])'
NothingLost ==
    /\ table # NoRow => table' # NoRow
    /\ row # NoRow => row' # NoRow
    /\ changes' \in Int /\ changes <= changes'

LEMMA NothingIsLost ==
    ASSUME Shape, UNCHANGED <<row, table, changes>>
    PROVE  NothingLost
<1>1. changes \in Int
  BY DEF Shape, TypeOK
<1>2. QED
  BY <1>1 DEF NothingLost

(* What the record of a request is set to *)
Sets(r, x) == request' = [request EXCEPT ![r] = x]
LEMMA SetRecord ==
    ASSUME Shape, NEW r \in Requests, NEW x, Sets(r, x), x \in Request \/ x = NoRequest
    PROVE  /\ request'[r] = x
           /\ (x # NoRequest => Sound(request[r])') => RecordOf(r)
<1>1. /\ request' \in [Requests -> Request \cup {NoRequest}]
      /\ request'[r] = x
      /\ \A o \in Requests \ {r} : request'[o] = request[o]
  BY DEF Shape, TypeOK, Sets
<1>2. QED
  BY <1>1 DEF RecordOf

LEMMA RecordType ==
    ASSUME Shape, NEW r \in Requests, RecordOf(r), NothingLost
    PROVE  request' \in [Requests -> Request \cup {NoRequest}] /\ Asked'
<1>1. /\ request' \in [Requests -> Request \cup {NoRequest}]
      /\ request'[r] # NoRequest => Sound(request[r])'
      /\ \A o \in Requests \ {r} : request'[o] = request[o]
      /\ table # NoRow => table' # NoRow
      /\ row # NoRow => row' # NoRow
      /\ changes' \in Int /\ changes <= changes'
  BY DEF RecordOf, NothingLost
<1>2. ASSUME NEW o \in Requests, o # r, request[o] # NoRequest
      PROVE  Sound(request[o])'
  <2>1. Sound(request[o]) /\ request'[o] = request[o] /\ request[o] \in Request
    BY <1>1, <1>2 DEF Shape, TypeOK, Asked
  <2>2. request[o].version \in Int /\ changes \in Int
    BY <2>1 DEF Request, Versions, Shape, TypeOK
  <2>3. Decided(request[o]) => Decided(request[o])'
    BY <1>1, <2>1, <2>2 DEF Decided
  <2>4. QED
    BY <1>1, <2>1, <2>3 DEF Sound
<1>3. QED
  BY <1>1, <1>2 DEF Asked

LEMMA BeginType ==
    ASSUME Shape, NEW r \in Requests, request[r] # NoRequest,
           NEW op, op \in DOMAIN NewStatus \cup {"probe", "verify"},
           NEW status, status \in Statuses,
           status = "active" => op = "activate",
           status = "verified_read_only" => op = "verify",
           BeginWrite(r, op, status), UNCHANGED <<row, table, changes>>
    PROVE  request' \in [Requests -> Request \cup {NoRequest}] /\ Asked'
<1>1. request[r] \in Request /\ changes \in Int
  BY DEF Shape, TypeOK
<1>2. Changed(status) \in Statuses \cup {"kept"} /\ (Changed(status) # "kept" => Changed(status) = status)
  BY DEF Changed
<1>3. op \in DOMAIN NewStatus \cup Edits \cup {"probe", "verify", "edit", "approve"}
  OBVIOUS
<1>4. CASE Exists
  <2>1. PICK x : x = [request[r] EXCEPT !.op = op, !.pc = "flush", !.status = Changed(status)]
    OBVIOUS
  <2>2. Sets(r, x)
    BY <1>4, <2>1 DEF BeginWrite, Sets, Shape, TypeOK
  <2>3. x \in Request /\ x.op = op /\ x.pc = "flush" /\ x.status = Changed(status)
    BY <1>1, <1>2, <1>3, <2>1 DEF Request
  <2>4. request'[r] = x /\ ((x # NoRequest => Sound(request[r])') => RecordOf(r))
    BY <2>2, <2>3, SetRecord
  <2>5. row' # NoRow
    BY <1>4 DEF Exists
  <2>6. op \notin Edits
    BY DEF Edits, NewStatus
  <2>7. Decided(request[r])'
    BY <1>2, <2>3, <2>4, <2>6 DEF Decided
  <2>8. Sound(request[r])'
    BY <2>3, <2>4, <2>5, <2>7 DEF Sound
  <2>9. QED
    BY <2>4, <2>8, RecordType, NothingIsLost
<1>5. CASE ~Exists
  <2>1. Sets(r, NoRequest)
    BY <1>5 DEF BeginWrite, Sets
  <2>2. RecordOf(r)
    BY <2>1, SetRecord
  <2>3. QED
    BY <2>2, RecordType, NothingIsLost
<1>6. QED
  BY <1>4, <1>5

(* Requests that read, decide and begin to write *)
Proceeds(r) ==
    \/ ReadConnection(r) \/ ReadPassword(r) \/ ReadTable(r) \/ CheckTables(r)
    \/ Refuse(r) \/ Test(r) \/ Verify(r) \/ ChangeStatus(r)
    \/ \E op \in DOMAIN NewStatus : ReadStatus(r, op)
    \/ \E what \in Edits : Reconfigure(r, what)

LEMMA AskFrame ==
    ASSUME Shape, NEW r \in Requests, Proceeds(r)
    PROVE  /\ UNCHANGED <<row, table, joins, live, pool, engines, run, proof, reviewed,
                          blessed, races>>
           /\ ~At(r, "invalidate") /\ \A q \in Requests \ {r} : request'[q] = request[q]
           /\ received' \in 0..MaxWork
           /\ changes' \in 0..(MaxVersion - 1) /\ changes <= changes'
<1>1. UNCHANGED <<row, table, joins, live, pool, engines, run, proof, reviewed, blessed, races>>
  BY DEF Proceeds, ReadConnection, ReadPassword, ReadTable, CheckTables, ReadStatus, Refuse, Test,
     Verify, ChangeStatus, Reconfigure, catalog, runtime, history
<1>2. ~At(r, "invalidate")
  BY DEF Proceeds, ReadConnection, ReadPassword, ReadTable, CheckTables, ReadStatus, Refuse, Test,
     Verify, ChangeStatus, Reconfigure, Admit, At
<1>3. \A q \in Requests \ {r} : request'[q] = request[q]
  BY DEF Proceeds, ReadConnection, ReadPassword, ReadTable, CheckTables, ReadStatus, Refuse, Test,
     Verify, ChangeStatus, Reconfigure, BeginWrite, Advance, Answer, Shape, TypeOK
<1>4. received' \in 0..MaxWork
  <2>1. Admit(r) \/ UNCHANGED received
    BY DEF Proceeds, ReadConnection, ReadPassword, ReadTable, CheckTables, ReadStatus, Refuse, Test,
       Verify, ChangeStatus, Reconfigure
  <2>2. QED
    BY <2>1, AdmitType DEF Shape, TypeOK
<1>5. changes' = changes \/ (changes' = changes + 1 /\ changes + 1 < MaxVersion)
  BY DEF Proceeds, ReadConnection, ReadPassword, ReadTable, CheckTables, ReadStatus, Refuse, Test,
     Verify, ChangeStatus, Reconfigure, history
<1>6. changes' \in 0..(MaxVersion - 1) /\ changes <= changes'
  <2>1. changes \in 0..(MaxVersion - 1) /\ MaxVersion \in Nat
    BY DataSourcesAssumption DEF Shape, TypeOK
  <2>2. QED
    BY <1>5, <2>1
<1>7. QED
  BY <1>1, <1>2, <1>3, <1>4, <1>6

LEMMA AskType ==
    ASSUME Shape, NEW r \in Requests, Proceeds(r)
    PROVE  Shape'
<1>1. /\ UNCHANGED <<row, table, joins, live, pool, engines, run, proof, reviewed, blessed, races>>
      /\ received' \in 0..MaxWork
      /\ changes' \in 0..(MaxVersion - 1) /\ changes <= changes'
  BY AskFrame
<1>2. changes \in Int /\ changes' \in Int
  BY <1>1 DEF Shape, TypeOK
<1> DEFINE Goal == request' \in [Requests -> Request \cup {NoRequest}] /\ Asked'
<1>3. NothingLost
  BY <1>1, <1>2 DEF NothingLost
<1>4. ASSUME NEW x, Sets(r, x), x \in Request \/ x = NoRequest,
             x # NoRequest =>
                /\ x.pc \in {"tables", "status"} => x.op \in DOMAIN NewStatus
                /\ x.pc = "approve" => table # NoRow
                /\ x.pc # "flush"
      PROVE  Goal
  <2>1. request'[r] = x /\ ((x # NoRequest => Sound(request[r])') => RecordOf(r))
    BY <1>4, SetRecord
  <2>2. x # NoRequest => Sound(request[r])'
    BY <1>1, <1>4, <2>1 DEF Sound
  <2>3. QED
    BY <1>3, <2>1, <2>2, RecordType
<1>5. ASSUME Answer(r) PROVE Goal
  BY <1>4, <1>5 DEF Answer, Sets
<1> HIDE DEF Goal
<1>6. ASSUME ReadConnection(r) PROVE Goal
  <2>1. PICK x : x = [Blank EXCEPT !.op = "probe", !.pc = "password", !.config = row.config]
    OBVIOUS
  <2>2. row \in Row /\ Sets(r, x)
    BY <1>6, <2>1 DEF ReadConnection, Sets, Exists, Shape, TypeOK
  <2>3. x \in Request /\ x.pc = "password"
    BY <2>1, <2>2, BlankType DEF Request, Row, Blank
  <2>4. QED
    BY <1>4, <2>2, <2>3
<1>7. ASSUME ReadPassword(r) PROVE Goal
  <2>1. request[r] \in Request
    BY <1>7 DEF ReadPassword, At, Shape, TypeOK
  <2>2. CASE Exists
    <3>1. PICK x : x = [request[r] EXCEPT !.pc = "probe", !.password = row.password]
      OBVIOUS
    <3>2. row \in Row /\ Sets(r, x)
      BY <1>7, <2>2, <3>1 DEF ReadPassword, Sets, Exists, Shape, TypeOK
    <3>3. x \in Request /\ x.pc = "probe"
      BY <2>1, <3>1, <3>2 DEF Request, Row
    <3>4. QED
      BY <1>4, <3>2, <3>3
  <2>3. CASE ~Exists
    BY <1>7, <1>5, <2>3 DEF ReadPassword
  <2>4. QED
    BY <2>2, <2>3
<1>8. ASSUME ReadTable(r) PROVE Goal
  <2>1. PICK x : x = [Blank EXCEPT !.op = "approve", !.pc = "approve", !.columns = table.columns]
    OBVIOUS
  <2>2. table \in Table /\ table # NoRow /\ Sets(r, x)
    BY <1>8, <2>1 DEF ReadTable, Sets, Shape, TypeOK
  <2>3. x \in Request /\ x.pc = "approve"
    BY <2>1, <2>2, BlankType DEF Request, Table, Blank
  <2>4. QED
    BY <1>4, <2>2, <2>3
<1>9. ASSUME CheckTables(r) PROVE Goal
  <2>1. request[r] \in Request /\ request[r].op \in DOMAIN NewStatus
    BY <1>9 DEF CheckTables, At, Shape, TypeOK, Asked, Sound
  <2>2. CASE Advance(r, "status")
    <3>1. PICK x : x = [request[r] EXCEPT !.pc = "status"]
      OBVIOUS
    <3>2. Sets(r, x)
      BY <2>2, <3>1 DEF Advance, Sets, Shape, TypeOK
    <3>3. x \in Request /\ x.pc = "status" /\ x.op = request[r].op
      BY <2>1, <3>1 DEF Request
    <3>4. QED
      BY <1>4, <2>1, <3>2, <3>3
  <2>3. CASE Answer(r)
    BY <1>5, <2>3
  <2>4. QED
    BY <1>9, <2>2, <2>3 DEF CheckTables
<1>10. ASSUME NEW op \in DOMAIN NewStatus, ReadStatus(r, op)
      PROVE  Goal
  <2>1. PICK x : x = [Blank EXCEPT !.op = op, !.pc =
                         IF op = "activate" THEN "tables" ELSE "status"]
    OBVIOUS
  <2>2. Sets(r, x)
    BY <1>10, <2>1 DEF ReadStatus, Sets
  <2>3. x \in Request /\ x.pc \in {"tables", "status"} /\ x.op = op
    BY <2>1, BlankType DEF Request, Blank
  <2>4. QED
    BY <1>4, <2>2, <2>3
<1>11. ASSUME Refuse(r) \/ Test(r) \/ Verify(r) PROVE Goal
  <2>1. request[r] # NoRequest
    BY <1>11 DEF Refuse, Test, Verify, At
  <2>2. UNCHANGED <<row, table, changes>>
    BY <1>1, <1>11 DEF Refuse, Test, Verify, history
  <2>3. ASSUME NEW op \in {"probe", "verify"}, NEW status \in {"testing", "failed"},
               BeginWrite(r, op, status)
        PROVE  Goal
    <3>1. op \in DOMAIN NewStatus \cup {"probe", "verify"} /\ status \in Statuses
          /\ status # "active" /\ status # "verified_read_only"
      BY DEF Statuses
    <3>2. QED
      BY <2>1, <2>2, <2>3, <3>1, BeginType DEF Goal
  <2>4. CASE BeginWrite(r, "verify", "verified_read_only")
    <3>1. "verify" \in DOMAIN NewStatus \cup {"probe", "verify"} /\ "verified_read_only" \in Statuses
      BY DEF Statuses
    <3>2. QED
      BY <2>1, <2>2, <2>4, <3>1, BeginType DEF Goal
  <2>5. QED
    BY <1>11, <2>3, <2>4 DEF Refuse, Test, Verify
<1>12. ASSUME ChangeStatus(r) PROVE Goal
  <2>1. request[r] # NoRequest /\ request[r].op \in DOMAIN NewStatus
    BY <1>12 DEF ChangeStatus, At, Shape, Asked, Sound
  <2>2. BeginWrite(r, request[r].op, NewStatus[request[r].op])
    BY <1>12 DEF ChangeStatus
  <2>3. /\ NewStatus[request[r].op] \in Statuses
        /\ NewStatus[request[r].op] = "active" => request[r].op = "activate"
        /\ NewStatus[request[r].op] # "verified_read_only"
    BY <2>1 DEF NewStatus, Statuses
  <2>4. changes' = changes
    BY <1>12 DEF ChangeStatus, history
  <2>5. QED
    <3>1. request[r].op \in DOMAIN NewStatus \cup {"probe", "verify"} /\ UNCHANGED <<row, table, changes>>
      BY <1>1, <2>1, <2>4
    <3>2. QED
      BY <2>1, <2>2, <2>3, <3>1, BeginType DEF Goal
<1>13. ASSUME NEW what \in Edits, Reconfigure(r, what)
       PROVE  Goal
  <2>1. PICK x : x = [Blank EXCEPT !.op = what, !.pc = "flush", !.status = Changed("pending"),
                                   !.version = row.version, !.config = changes + 2]
    OBVIOUS
  <2>2. row \in Row /\ row # NoRow /\ changes' = changes + 1 /\ changes + 1 < MaxVersion
        /\ Sets(r, x)
    BY <1>13, <2>1 DEF Reconfigure, Sets, Exists, Shape, TypeOK
  <2>3. changes + 2 \in Versions /\ row.version \in Versions /\ row.version <= changes'
    BY <2>2, DataSourcesAssumption DEF Versions, Row, Shape, TypeOK, Counting
  <2>4. Changed("pending") \in {"pending", "kept"}
    BY DEF Changed
  <2>5. /\ x \in Request /\ x.pc = "flush" /\ x.status \in {"pending", "kept"} /\ x.op = what
        /\ x.version = row.version
    BY <2>1, <2>3, <2>4, BlankType DEF Request, Blank, Statuses
  <2>6. request'[r] = x /\ ((x # NoRequest => Sound(request[r])') => RecordOf(r))
    BY <2>2, <2>5, SetRecord
  <2>7. Sound(request[r])'
    BY <1>1, <2>2, <2>3, <2>5, <2>6 DEF Sound, Decided
  <2>8. QED
    BY <1>3, <2>6, <2>7, RecordType DEF Goal
<1>14. Goal
  <2>1. CASE \/ ReadConnection(r) \/ ReadPassword(r) \/ ReadTable(r) \/ CheckTables(r)
             \/ Refuse(r) \/ Test(r) \/ Verify(r) \/ ChangeStatus(r)
    BY <2>1, <1>6, <1>7, <1>8, <1>9, <1>11, <1>12
  <2>2. QED
    BY <2>1, <1>10, <1>13 DEF Proceeds
<1>15. Counting'
  <2>1. row \in Row \cup {NoRow}
    BY DEF Shape, TypeOK
  <2>2. row # NoRow => row.version \in Int
    BY <2>1 DEF Row, Versions
  <2>3. QED
    BY <1>1, <1>2, <2>2 DEF Shape, Counting
<1>16. TypeOK'
  BY <1>1, <1>14 DEF Shape, TypeOK, Goal
<1>17. QED
  BY <1>1, <1>14, <1>15, <1>16 DEF Shape, Serving, Raced, Goal

(* What a request writes into the catalog, and its answer *)
Catalogues(r) ==
    \/ Profile(r) \/ SetTableActive(r) \/ ApproveTable(r) \/ Inspect(r)
    \/ \E j \in Joins :
          \/ Discover(r, j)
          \/ \E status \in {"approved", "rejected"} : SetRelationshipApproval(r, j, status)
    \/ \E c \in Columns, mark \in {"open", "excluded"} : Correct(r, c, mark)

LEMMA CatalogType ==
    ASSUME Shape, NEW r \in Requests, Catalogues(r)
    PROVE  Shape'
<1>1. received' \in 0..MaxWork
  <2>1. Admit(r) \/ UNCHANGED received
    BY DEF Catalogues, Profile, SetTableActive, ApproveTable, Inspect, Discover,
       SetRelationshipApproval, Correct
  <2>2. QED
    BY <2>1, AdmitType DEF Shape, TypeOK
<1>2. table' \in Table \cup {NoRow} /\ (table # NoRow => table' # NoRow)
  <2>1. NoRow \notin Table /\ Suggested \in Catalog
    BY DataSourcesAssumption DEF Suggested, Catalog
  <2>2. \A columns \in Catalog : Upsert(columns) =>
          table' \in Table \cup {NoRow} /\ (table # NoRow => table' # NoRow)
    <3>1. TAKE columns \in Catalog
    <3>2. HAVE Upsert(columns)
    <3>3. CASE ~Exists
      BY <3>2, <3>3 DEF Upsert, Shape, TypeOK
    <3>4. CASE Exists /\ table = NoRow
      BY <2>1, <3>2, <3>4 DEF Upsert, Table
    <3>5. CASE Exists /\ table # NoRow
      <4>1. table \in Table
        BY <3>5 DEF Shape, TypeOK
      <4>2. [table EXCEPT !.columns = columns, !.approved = FALSE] \in Table
        BY <4>1 DEF Table
      <4>3. QED
        BY <2>1, <3>2, <3>5, <4>2 DEF Upsert
    <3>6. QED
      BY <3>3, <3>4, <3>5
  <2>3. CASE Profile(r)
    BY <2>1, <2>2, <2>3 DEF Profile
  <2>4. CASE SetTableActive(r)
    BY <2>1, <2>4 DEF SetTableActive, Shape, TypeOK, Table
  <2>5. CASE ApproveTable(r)
    <3>1. table \in Table
      BY <2>5 DEF ApproveTable, At, Shape, TypeOK, Asked, Sound
    <3>2. [table EXCEPT !.approved = TRUE] \in Table
      BY <3>1 DEF Table
    <3>3. table' \in {table, [table EXCEPT !.approved = TRUE]}
      BY <2>5 DEF ApproveTable
    <3>4. QED
      BY <2>1, <3>1, <3>2, <3>3
  <2>6. ASSUME NEW c \in Columns, NEW mark \in {"open", "excluded"}, Correct(r, c, mark)
        PROVE  table' \in Table \cup {NoRow} /\ (table # NoRow => table' # NoRow)
    <3>1. [table.columns EXCEPT ![c] = mark] \in Catalog
      BY <2>6 DEF Correct, Shape, TypeOK, Table, Catalog
    <3>2. QED
      BY <2>2, <2>6, <3>1 DEF Correct
  <2>7. CASE Inspect(r) \/ \E j \in Joins :
                 \/ Discover(r, j)
                 \/ \E status \in {"approved", "rejected"} : SetRelationshipApproval(r, j, status)
    BY <2>7 DEF Inspect, Discover, SetRelationshipApproval, catalog, Shape, TypeOK
  <2>8. QED
    BY <2>3, <2>4, <2>5, <2>6, <2>7 DEF Catalogues
<1>3. joins' \in [Joins -> {"none", "pending", "approved", "rejected"}] /\ blessed' \subseteq Joins
  BY DEF Catalogues, Profile, SetTableActive, ApproveTable, Inspect, Discover,
     SetRelationshipApproval, Correct, Candidate, catalog, history, Shape, TypeOK
<1>4. UNCHANGED <<row, live, pool, engines, run, changes>>
  BY DEF Catalogues, Profile, SetTableActive, ApproveTable, Inspect, Discover,
     SetRelationshipApproval, Correct, runtime, history
<1>5. races' = races \/ races' = races \cup {<<"review">>}
  BY DEF Catalogues, Profile, SetTableActive, ApproveTable, Inspect, Discover,
     SetRelationshipApproval, Correct, history
<1>6. request' \in [Requests -> Request \cup {NoRequest}] /\ Asked'
  <2>1. NothingLost
    BY <1>2, <1>4 DEF Shape, TypeOK, NothingLost
  <2>2. CASE Answer(r)
    <3>1. Sets(r, NoRequest)
      BY <2>2 DEF Answer, Sets
    <3>2. RecordOf(r)
      BY <3>1, SetRecord
    <3>3. QED
      BY <2>1, <3>2, RecordType
  <2>3. CASE UNCHANGED request
    <3>1. Asked'
      <4>1. ASSUME NEW o \in Requests, request[o] # NoRequest
            PROVE  Sound(request[o])'
        BY <1>2, <1>4, <2>3, <4>1 DEF Shape, Asked, Sound, Decided
      <4>2. QED
        BY <2>3, <4>1 DEF Asked
    <3>2. QED
      BY <2>3, <3>1 DEF Shape, TypeOK
  <2>4. QED
    BY <2>2, <2>3 DEF Catalogues, Profile, SetTableActive, ApproveTable, Inspect, Discover,
       SetRelationshipApproval, Correct
<1>7. TypeOK' /\ Counting'
  BY <1>1, <1>2, <1>3, <1>4, <1>6 DEF Shape, TypeOK, Counting
<1>8. Serving'
  BY <1>4, <1>5 DEF Shape, Serving, Raced
<1>9. QED
  BY <1>6, <1>7, <1>8 DEF Shape

(* A step leaves the row what it was but for its status and deletion, or   *)
(* is an edit of configuration or password, which is a new version to be   *)
(* invalidated unless it overlaps another, or creates the row.             *)
Pending == \E r \in Requests : At(r, "invalidate")
SameSettings ==
    row'.version = row.version /\ row'.config = row.config /\ row'.password = row.password
RowMoves ==
    \/ row' = row
    \/ /\ row # NoRow /\ row' \in Row
       /\ SameSettings
       /\ row'.deleted = row.deleted \/ Pending'
    \/ /\ row # NoRow /\ row' \in Row
       /\ row'.version = row.version + 1 \/ Raced'
       /\ Pending'
    \/ row = NoRow /\ row' \in Row

LEMMA CreateType ==
    ASSUME Shape, NEW r \in Requests, Create(r)
    PROVE  /\ RowMoves /\ Asked' /\ Counting'
           /\ received' \in 0..MaxWork
           /\ UNCHANGED <<request, table, joins, live, pool, engines, run, changes, blessed, races>>
<1>1. 1 \in Versions
  BY DataSourcesAssumption DEF Versions
<1>2. row = NoRow /\ row' \in Row /\ row'.version = 1
  BY <1>1 DEF Create, Row, Statuses
<1>3. UNCHANGED <<request, table, joins, live, pool, engines, run, changes, blessed, races>>
  BY DEF Create, catalog, runtime, history
<1>4. received' \in 0..MaxWork
  BY AdmitType DEF Create, Shape
<1>5. Counting' /\ RowMoves
  BY <1>2, <1>3 DEF Counting, RowMoves, Shape, TypeOK
<1>6. ASSUME NEW o \in Requests, request[o] # NoRequest
      PROVE  Sound(request[o])'
  BY <1>2, <1>3, <1>6 DEF Shape, Asked, Sound, Decided
<1>7. QED
  BY <1>3, <1>4, <1>5, <1>6 DEF Asked

(* What is flushed into the row *)
LEMMA FlushWrites ==
    ASSUME Shape, NEW r \in Requests, FlushRow(r)
    PROVE  /\ row \in Row /\ row # NoRow /\ row' \in Row
           /\ request[r] \in Request /\ Decided(request[r]) /\ row' = Written(request[r])
           /\ row'.status = StatusAfter(request[r])
           /\ row.deleted => row'.deleted
           /\ request[r].op \notin Edits =>
                 SameSettings /\ (request[r].op # "delete" => row'.deleted = row.deleted)
           /\ request[r].op \in Edits =>
                 /\ row'.version = request[r].version + 1 /\ row'.version <= changes + 1
                 /\ row'.deleted = row.deleted
<1> DEFINE q == request[r]
<1>1. /\ q \in Request /\ row # NoRow /\ row \in Row /\ Decided(q)
      /\ row' = Written(q)
  BY DEF FlushRow, At, Shape, TypeOK, Asked, Sound
<1>2. /\ q.status \in Statuses \cup {"kept"} /\ q.version \in Versions /\ q.config \in Versions
      /\ row.status \in Statuses /\ row.deleted \in BOOLEAN
      /\ row.version \in Versions /\ row.config \in Versions /\ row.password \in Versions
  BY <1>1 DEF Request, Row
<1>3. StatusAfter(q) \in Statuses
  BY <1>2 DEF StatusAfter
<1>4. CASE q.op \notin Edits
  <2> DEFINE gone == row.deleted \/ q.op = "delete"
  <2>1. gone \in BOOLEAN
    OBVIOUS
  <2>2. row' = [row EXCEPT !.status = StatusAfter(q), !.deleted = gone]
    BY <1>1, <1>4 DEF Written
  <2>3. row.deleted => gone
    BY <1>2
  <2>4. q.op # "delete" => gone = row.deleted
    BY <1>2
  <2> HIDE DEF gone, q
  <2>5. /\ row' \in Row /\ row'.status = StatusAfter(q) /\ row'.deleted = gone
        /\ row'.version = row.version /\ row'.config = row.config /\ row'.password = row.password
    BY <1>1, <1>2, <1>3, <2>1, <2>2 DEF Row
  <2>6. QED
    BY <1>1, <1>4, <2>3, <2>4, <2>5 DEF q, SameSettings
<1>5. CASE q.op \in Edits
  <2> DEFINE config == IF q.op = "config" THEN q.config ELSE row.config
             password == IF q.op = "password" THEN q.config ELSE row.password
  <2>1. config \in Versions /\ password \in Versions
    BY <1>2
  <2>2. q.version <= changes /\ q.version + 1 \in Versions /\ q.version + 1 <= changes + 1
    BY <1>1, <1>2, <1>5, DataSourcesAssumption DEF Decided, Versions, Shape, TypeOK
  <2>3. row' = [row EXCEPT !.status = StatusAfter(q), !.version = q.version + 1,
                           !.config = config, !.password = password]
    BY <1>1, <1>5 DEF Written, Edited
  <2> HIDE DEF config, password, q
  <2>4. /\ row' \in Row /\ row'.status = StatusAfter(q) /\ row'.deleted = row.deleted
        /\ row'.version = q.version + 1
    BY <1>1, <1>2, <1>3, <2>1, <2>2, <2>3 DEF Row
  <2>5. QED
    BY <1>1, <1>5, <2>2, <2>4 DEF q
<1>6. QED
  BY <1>4, <1>5

LEMMA FlushType ==
    ASSUME Shape, NEW r \in Requests, FlushRow(r)
    PROVE  /\ RowMoves /\ Asked' /\ Counting'
           /\ request' \in [Requests -> Request \cup {NoRequest}]
           /\ \A q \in Requests \ {r} : request'[q] = request[q]
           /\ ~At(r, "invalidate")
           /\ races \subseteq races'
           /\ UNCHANGED <<table, joins, live, pool, engines, received, run, changes, blessed>>
<1> DEFINE q == request[r]
<1>1. PICK x : x = IF q.op \in {"disable", "delete"} \cup Edits THEN Blank ELSE NoRequest
  OBVIOUS
<1>2. /\ ~At(r, "invalidate") /\ Sets(r, x)
      /\ races' = races \cup Misfits(q)
      /\ UNCHANGED <<table, joins, live, pool, engines, received, run, changes, blessed>>
  BY <1>1 DEF FlushRow, Sets, At, catalog, runtime
<1>3. row \in Row /\ row # NoRow /\ row' \in Row /\ row' # NoRow /\ changes \in Int
  BY FlushWrites, DataSourcesAssumption DEF Shape, TypeOK
<1>4. request' \in [Requests -> Request \cup {NoRequest}] /\ Asked'
  <2>1. (x \in Request \/ x = NoRequest) /\ (x # NoRequest => x = Blank)
    BY <1>1, BlankType
  <2>2. request'[r] = x /\ ((x # NoRequest => Sound(request[r])') => RecordOf(r))
    BY <1>2, <2>1, SetRecord
  <2>3. x # NoRequest => Sound(request[r])'
    BY <2>1, <2>2 DEF Sound, Blank
  <2>4. NothingLost
    BY <1>2, <1>3 DEF NothingLost
  <2>5. QED
    BY <2>2, <2>3, <2>4, RecordType
<1>5. \A o \in Requests \ {r} : request'[o] = request[o]
  BY <1>2 DEF Sets, Shape, TypeOK
<1>6. Counting'
  BY <1>2, <1>3, FlushWrites DEF Shape, TypeOK, Counting, SameSettings
<1>7. q.op \in {"disable", "delete"} \cup Edits => Pending'
  BY <1>1, <1>2, BlankType DEF Sets, Pending, At, Blank, Shape, TypeOK
<1>8. RowMoves
  <2>1. CASE q.op \notin Edits
    BY <1>3, <1>7, <2>1, FlushWrites DEF RowMoves
  <2>2. CASE q.op \in Edits
    <3>1. q.version # row.version => <<"version">> \in Misfits(q)
      BY <2>2 DEF Misfits
    <3>2. row'.version = row.version + 1 \/ Raced'
      BY <1>2, <2>2, <3>1, FlushWrites DEF Raced
    <3>3. QED
      BY <1>3, <1>7, <2>2, <3>2 DEF RowMoves
  <2>3. QED
    BY <2>1, <2>2
<1>9. QED
  BY <1>2, <1>4, <1>5, <1>6, <1>8

(* What happens to the row leaves the runs what they know of it.           *)
LEMMA RowShape ==
    ASSUME Shape, RowMoves, races \subseteq races', UNCHANGED <<engines, run>>
    PROVE  Serving'
<1>1. Raced => Raced'
  BY DEF Raced
<1>2. ASSUME NEW n \in Runs, run[n] # NoRun
      PROVE  row # NoRow /\ row' # NoRow /\ (run[n].version <= row'.version \/ Raced')
  <2>1. row # NoRow /\ (run[n].version <= row.version \/ Raced)
    BY <1>2 DEF Shape, Serving
  <2>2. row \in Row /\ run[n] \in RunState /\ NoRow \notin Row
    BY <1>2, <2>1, DataSourcesAssumption DEF Shape, TypeOK
  <2>3. run[n].version \in Int /\ row.version \in Int
    BY <2>2 DEF RunState, Row, Versions
  <2>4. QED
    BY <1>1, <2>1, <2>2, <2>3 DEF RowMoves, SameSettings
<1>3. QED
  BY <1>2 DEF Shape, Serving

LEMMA RowStepShape ==
    ASSUME Shape, NEW r \in Requests, Create(r) \/ FlushRow(r)
    PROVE  Shape' /\ RowMoves /\ races \subseteq races'
<1>1. /\ RowMoves /\ Asked' /\ Counting' /\ races \subseteq races'
      /\ request' \in [Requests -> Request \cup {NoRequest}]
      /\ received' \in 0..MaxWork
      /\ UNCHANGED <<table, joins, live, pool, engines, run, changes, blessed>>
  BY CreateType, FlushType DEF Shape, TypeOK
<1>2. row' \in Row \cup {NoRow}
  BY <1>1 DEF RowMoves, Shape, TypeOK
<1>3. TypeOK'
  BY <1>1, <1>2 DEF Shape, TypeOK
<1>4. QED
  BY <1>1, <1>3, RowShape DEF Shape

LEMMA EndShape ==
    ASSUME Shape, NEW r \in Requests, Invalidate(r) \/ Die(r)
    PROVE  Shape'
<1>1. /\ request' = [request EXCEPT ![r] = NoRequest]
      /\ races \subseteq races'
      /\ UNCHANGED <<row, table, joins, live, engines, received, run, changes, blessed>>
  BY DEF Invalidate, Die, Answer, catalog, runtime
<1>2. pool' \in [Versions -> Runs \cup {NoRow}]
  BY DEF Invalidate, Die, runtime, Shape, TypeOK
<1>3. request' \in [Requests -> Request \cup {NoRequest}] /\ Asked'
  <2>1. RecordOf(r)
    BY <1>1, SetRecord DEF Sets
  <2>2. QED
    BY <1>1, <2>1, NothingIsLost, RecordType
<1>4. TypeOK' /\ Counting'
  BY <1>1, <1>2, <1>3 DEF Shape, TypeOK, Counting
<1>5. Serving'
  BY <1>1 DEF Shape, Serving, Raced
<1>6. QED
  BY <1>3, <1>4, <1>5 DEF Shape

(* A run keeps its own record, and the row of the source but for a status. *)
LEMMA RunShape ==
    ASSUME Shape, NEW n \in Runs,
           row # NoRow, row' \in Row, SameSettings,
           pool' \in [Versions -> Runs \cup {NoRow}],
           engines' \in [Runs -> Engine \cup {NoRow}],
           \A e \in Runs : engines[e] # NoRow => engines'[e] # NoRow,
           NEW q \in RunState, run' = [run EXCEPT ![n] = q],
           q.version <= row.version \/ Raced,
           q.pc \in Before => q.settings \in Connection /\ q.engine = NoRow,
           q.pc \in Over => q.engine = NoRow,
           q.pc \notin Before \cup Over => q.engine \in Runs /\ engines'[q.engine] # NoRow,
           received' \in 0..MaxWork,
           UNCHANGED <<table, joins, live, request, changes, blessed, races>>
    PROVE  Shape'
<1>1. TypeOK'
  BY DEF Shape, TypeOK
<1>2. row' # NoRow
  BY DataSourcesAssumption
<1>3. Asked' /\ Counting'
  BY <1>2 DEF Shape, Asked, Sound, Decided, Counting, SameSettings
<1>4. Serving'
  <2>1. ASSUME NEW m \in Runs, m # n, run[m] # NoRun
        PROVE  /\ run'[m] = run[m] /\ run[m] \in RunState
               /\ run[m].version <= row'.version \/ Raced'
    BY <2>1 DEF Shape, TypeOK, SameSettings, Serving, Raced
  <2>2. (q.version <= row'.version \/ Raced') /\ run'[n] = q
    BY DEF Shape, TypeOK, SameSettings, Raced
  <2>3. QED
    BY <1>2, <2>1, <2>2 DEF Shape, Serving
<1>5. QED
  BY <1>1, <1>3, <1>4 DEF Shape

-----------------------------------------------------------------------------
(* The inductive invariant *)

Pooled ==
    \A v \in Versions : pool[v] # NoRow =>
        row # NoRow /\ (v <= row.version \/ Raced) /\ engines[pool[v]] # NoRow
BuiltOnce ==
    \A n \in Runs : engines[n] # NoRow => run[n] # NoRun /\ run[n].pc \notin Before

(* A run that is to build a runtime of the row's version has its settings. *)
Listed ==
    \A n \in Runs : Building(n) /\ run[n].version = row.version /\ ~Raced =>
        /\ run[n].settings.config = row.config
        /\ run[n].pc = "build" => run[n].settings.password = row.password

(* What is built for a version that is gone will be invalidated, or was    *)
(* missed by an invalidation.                                              *)
Missed == <<"pool">> \in races
Retiring ==
    \A n \in Runs : Building(n) /\ (run[n].version # row.version \/ ~Exists) =>
        Pending \/ Missed
OldGo ==
    \A v \in Versions : pool[v] # NoRow /\ (v # row.version \/ ~Exists) =>
        Pending \/ Missed

(* A run has the entry of its version, or that was evicted.                *)
Shared ==
    \A n \in Runs : run[n] # NoRun /\ run[n].engine # NoRow =>
        pool[run[n].version] = run[n].engine \/ <<"evicted", run[n].version>> \in races

Inv ==
    /\ Shape /\ Pooled /\ BuiltOnce /\ Listed /\ Retiring /\ OldGo /\ Shared
    /\ PoolServesCurrent

LEMMA InitInv == Init => Inv
<1>1. Init => Pooled /\ BuiltOnce /\ Listed /\ Retiring /\ OldGo /\ Shared
  BY DEF Init, Pooled, BuiltOnce, Listed, Building, Retiring, OldGo, Shared
<1>2. Init => PoolServesCurrent
  <2>1. Init => Shape
    BY InitShape
  <2>2. Shape /\ row # NoRow => row.version \in Versions
    BY DEF Shape, TypeOK, Row
  <2>3. QED
    BY <2>1, <2>2 DEF Init, PoolServesCurrent
<1>3. QED
  BY <1>1, <1>2, InitShape DEF Inv

(* Requests move the row, and let runs and pool be until they invalidate.  *)
LEMMA ServeInv ==
    ASSUME Inv, Shape', RowMoves, UNCHANGED <<pool, engines, run>>,
           races \subseteq races', Pending => Pending' \/ Missed'
    PROVE  Inv'
<1>1. Missed => Missed'
  BY DEF Missed
<1>2. Raced => Raced'
  BY DEF Raced
<1>3. ASSUME row # NoRow
      PROVE  /\ row' # NoRow /\ row.version \in Int /\ row'.version \in Int
             /\ row'.version >= row.version \/ Raced'
             /\ row'.version = row.version /\ ~Raced' => Settings' = Settings
             /\ row'.version # row.version => Pending'
             /\ Exists /\ ~Exists' => Pending'
  <2>1. NoRow \notin Row /\ row \in Row
    BY <1>3, DataSourcesAssumption DEF Inv, Shape, TypeOK
  <2>2. \A x \in Row : x.version \in Int
    BY DEF Row, Versions
  <2>3. CASE row' = row
    BY <1>3, <2>1, <2>2, <2>3 DEF Settings, Exists
  <2>4. CASE row' \in Row /\ SameSettings /\ (row'.deleted = row.deleted \/ Pending')
    BY <1>3, <2>1, <2>2, <2>4 DEF Settings, Exists, SameSettings
  <2>5. CASE row' \in Row /\ (row'.version = row.version + 1 \/ Raced') /\ Pending'
    BY <2>1, <2>2, <2>5
  <2>6. QED
    BY <1>3, <2>3, <2>4, <2>5 DEF RowMoves
<1>4. row = NoRow => (\A v \in Versions : pool[v] = NoRow) /\ (\A n \in Runs : run[n] = NoRun)
  BY DEF Inv, Pooled, Shape, Serving
<1>5. \A n \in Runs : run[n] # NoRun =>
        run[n].version \in Int /\ (run[n].version <= row.version \/ Raced)
  BY DEF Inv, Shape, Serving, TypeOK, RunState, Versions
<1>6. \A v \in Versions : v \in Int
  BY DEF Versions
<1>7. Pooled'
  BY <1>2, <1>3, <1>4, <1>6 DEF Inv, Pooled
<1>8. BuiltOnce' /\ Shared'
  BY DEF Inv, BuiltOnce, Shared
<1>9. Listed'
  <2>1. ASSUME NEW n \in Runs, Building(n), run[n].version = row'.version, ~Raced'
        PROVE  /\ run[n].settings.config = row'.config
               /\ run[n].pc = "build" => run[n].settings.password = row'.password
    <3>1. row # NoRow /\ run[n].version <= row.version /\ ~Raced
      BY <1>2, <1>4, <1>5, <2>1 DEF Building
    <3>2. row'.version = row.version
      BY <1>3, <1>5, <2>1, <3>1 DEF Building
    <3>3. Settings' = Settings
      BY <1>3, <2>1, <3>1, <3>2
    <3>4. row'.config = row.config /\ row'.password = row.password
      BY <3>3 DEF Settings
    <3>5. QED
      BY <2>1, <3>1, <3>2, <3>4 DEF Inv, Listed
  <2>2. QED
    BY <2>1 DEF Listed, Building
<1>10. Retiring'
  BY <1>1, <1>3, <1>4 DEF Inv, Retiring, Building
<1>11. OldGo'
  BY <1>1, <1>3, <1>4 DEF Inv, OldGo
<1>12. PoolServesCurrent'
  <2>1. CASE row = NoRow
    <3>1. row' # NoRow => row'.version \in Versions
      BY DEF Shape, TypeOK, Row
    <3>2. QED
      BY <2>1, <1>4, <3>1 DEF PoolServesCurrent
  <2>2. CASE row # NoRow /\ row'.version = row.version
    BY <2>2, <1>2, <1>3 DEF Inv, PoolServesCurrent, Raced
  <2>3. CASE row # NoRow /\ row'.version # row.version /\ ~Raced'
    <3>1. row'.version \in Versions /\ row'.version > row.version /\ row.version \in Int
      BY <2>3, <1>3 DEF Shape, TypeOK, Row
    <3>2. pool[row'.version] = NoRow
      BY <3>1, <2>3, <1>2, <1>6 DEF Inv, Pooled
    <3>3. QED
      BY <3>2 DEF PoolServesCurrent
  <2>4. CASE Raced'
    BY <2>4 DEF PoolServesCurrent, Raced
  <2>5. QED
    BY <2>1, <2>2, <2>3, <2>4
<1>13. QED
  BY <1>7, <1>8, <1>9, <1>10, <1>11, <1>12 DEF Inv

(* A request that ends or goes on at another place was not to invalidate.  *)
LEMMA PendingStays ==
    ASSUME Shape, NEW r \in Requests, ~At(r, "invalidate"),
           \A q \in Requests \ {r} : request'[q] = request[q]
    PROVE  Pending => Pending'
BY DEF Pending, At

LEMMA InvalidateInv ==
    ASSUME Inv, NEW r \in Requests, Invalidate(r)
    PROVE  Inv'
<1>1. Shape'
  BY EndShape DEF Inv
<1>2. /\ UNCHANGED <<row, run, engines>>
      /\ pool' = [v \in Versions |-> NoRow]
      /\ races \subseteq races'
      /\ \A v \in Versions : pool[v] # NoRow => <<"evicted", v>> \in races'
      /\ (\E n \in Runs : Building(n)) => <<"pool">> \in races'
  BY DEF Invalidate, Evicted
<1>3. Pooled' /\ BuiltOnce' /\ Listed' /\ OldGo'
  BY <1>2 DEF Inv, Pooled, BuiltOnce, Listed, Building, OldGo, Raced
<1>4. Retiring'
  BY <1>2 DEF Retiring, Missed, Building
<1>5. Shared'
  <2>1. ASSUME NEW n \in Runs, run[n] # NoRun, run[n].engine # NoRow
        PROVE  <<"evicted", run[n].version>> \in races'
    <3>1. run[n].version \in Versions
      BY <2>1 DEF Inv, Shape, TypeOK, RunState
    <3>2. QED
      BY <1>2, <2>1, <3>1 DEF Inv, Shared
  <2>2. QED
    BY <1>2, <2>1 DEF Shared
<1>6. PoolServesCurrent'
  <2>1. row # NoRow => row.version \in Versions
    BY DEF Inv, Shape, TypeOK, Row
  <2>2. QED
    BY <1>2, <2>1 DEF PoolServesCurrent
<1>7. QED
  BY <1>1, <1>3, <1>4, <1>5, <1>6 DEF Inv

LEMMA RequestInv ==
    ASSUME Inv, NEW r \in Requests, Serve(r)
    PROVE  Inv'
<1>1. CASE Proceeds(r)
  <2>1. Shape' /\ UNCHANGED <<row, pool, engines, run, races>>
    BY <1>1, AskType, AskFrame DEF Inv
  <2>2. ~At(r, "invalidate") /\ \A q \in Requests \ {r} : request'[q] = request[q]
    BY <1>1, AskFrame DEF Inv
  <2>3. QED
    BY <2>1, <2>2, PendingStays, ServeInv DEF RowMoves, Inv
<1>2. CASE Catalogues(r)
  <2>1. Shape'
    BY <1>2, CatalogType DEF Inv
  <2>2. UNCHANGED <<row, pool, engines, run>> /\ races \subseteq races'
    BY <1>2 DEF Catalogues, Profile, SetTableActive, ApproveTable, Inspect, Discover,
       SetRelationshipApproval, Correct, runtime, history
  <2>3. ~At(r, "invalidate") /\ \A q \in Requests \ {r} : request'[q] = request[q]
    BY <1>2 DEF Catalogues, Profile, SetTableActive, ApproveTable, Inspect, Discover,
       SetRelationshipApproval, Correct, Admit, Answer, At, Inv, Shape, TypeOK
  <2>4. QED
    BY <2>1, <2>2, <2>3, PendingStays, ServeInv DEF RowMoves, Inv
<1>3. CASE Create(r) \/ FlushRow(r)
  <2>1. Shape' /\ RowMoves /\ races \subseteq races'
    BY <1>3, RowStepShape DEF Inv
  <2>2. UNCHANGED <<pool, engines, run>>
    BY <1>3 DEF Create, FlushRow, runtime
  <2>3. Pending => Pending'
    <3>1. CASE Create(r)
      BY <3>1 DEF Create, Pending, At
    <3>2. CASE FlushRow(r)
      BY <3>2, FlushType, PendingStays DEF Inv
    <3>3. QED
      BY <1>3, <3>1, <3>2
  <2>4. QED
    BY <2>1, <2>2, <2>3, ServeInv
<1>4. CASE Die(r)
  <2>1. Shape' /\ UNCHANGED <<row, pool, engines, run>> /\ races \subseteq races'
    BY <1>4, EndShape DEF Inv, Die, runtime
  <2>2. Pending => Pending' \/ Missed'
    <3>1. CASE At(r, "invalidate")
      BY <1>4, <3>1 DEF Die, Missed
    <3>2. CASE ~At(r, "invalidate")
      <4>1. \A q \in Requests \ {r} : request'[q] = request[q]
        BY <1>4 DEF Die, Answer, Inv, Shape, TypeOK
      <4>2. QED
        BY <3>2, <4>1, PendingStays DEF Inv
    <3>3. QED
      BY <3>1, <3>2
  <2>3. QED
    BY <2>1, <2>2, ServeInv DEF RowMoves
<1>5. QED
  BY <1>1, <1>2, <1>3, <1>4, InvalidateInv DEF Serve, Proceeds, Catalogues

-----------------------------------------------------------------------------
(* What a run does *)

LEMMA Distinct ==
    ASSUME Shape, NEW n \in Runs, run[n] # NoRun
    PROVE  /\ run[n] \in RunState /\ row \in Row /\ row # NoRow
           /\ run[n].version \in Versions /\ (run[n].version <= row.version \/ Raced)
           /\ row.version \in Versions
BY DEF Shape, TypeOK, Serving, RunState, Row

(* A step that only moves the run's own record on, and builds nothing.     *)
LEMMA MoveInv ==
    ASSUME Inv, NEW n \in Runs, run[n] # NoRun,
           row' \in Row, SameSettings, row'.deleted = row.deleted, Shape',
           pool' = pool,
           \A e \in Runs : engines'[e] = NoRow <=> engines[e] = NoRow,
           \A e \in Runs : engines[e] # NoRow => engines'[e].settings = engines[e].settings,
           NEW q \in RunState, run' = [run EXCEPT ![n] = q], q # NoRun,
           races' = races, request' = request,
           q.pc \in Before =>
              /\ run[n].pc \in Before /\ q.version = run[n].version
              /\ q.settings.config = run[n].settings.config
              /\ q.pc = "build" => q.settings.password = row.password,
           q.engine # NoRow => /\ q.version = run[n].version
                               /\ q.engine = run[n].engine \/ pool[q.version] = q.engine
    PROVE  Inv'
<1>1. /\ \A m \in Runs \ {n} : run'[m] = run[m]
      /\ run'[n] = q
  BY DEF Inv, Shape, TypeOK
<1>2. row # NoRow /\ row' # NoRow /\ row.version \in Versions
  BY Distinct, DataSourcesAssumption DEF Inv
<1>3. row.version = row'.version /\ Settings' = Settings /\ (Exists <=> Exists')
      /\ (Raced <=> Raced')
  BY <1>2 DEF Settings, Exists, SameSettings, Raced
<1>4. Pooled' /\ OldGo'
  <2>1. \A v \in Versions : pool[v] # NoRow => pool[v] \in Runs
    BY DEF Inv, Shape, TypeOK
  <2>2. QED
    BY <1>2, <1>3, <2>1 DEF Inv, Pooled, OldGo, Pending, Missed, At
<1>5. BuiltOnce'
  <2>1. ASSUME NEW m \in Runs, engines'[m] # NoRow
        PROVE  run'[m] # NoRun /\ run'[m].pc \notin Before
    <3>1. run[m] # NoRun /\ run[m].pc \notin Before
      BY <2>1 DEF Inv, BuiltOnce
    <3>2. CASE m = n
      BY <1>1, <3>1, <3>2
    <3>3. CASE m # n
      BY <1>1, <3>1, <3>3
    <3>4. QED
      BY <3>2, <3>3
  <2>2. QED
    BY <2>1 DEF BuiltOnce
<1>6. \A m \in Runs : Building(m)' =>
        /\ Building(m) /\ run'[m].version = run[m].version
        /\ m # n => run'[m] = run[m]
  <2>1. ASSUME NEW m \in Runs, Building(m)'
        PROVE  /\ Building(m) /\ run'[m].version = run[m].version
               /\ m # n => run'[m] = run[m]
    <3>1. run'[m] # NoRun /\ run'[m].pc \in Before
      BY <2>1 DEF Building, Before
    <3>2. CASE m = n
      BY <1>1, <3>1, <3>2 DEF Building, Before
    <3>3. CASE m # n
      BY <1>1, <3>1, <3>3 DEF Building, Before
    <3>4. QED
      BY <3>2, <3>3
  <2>2. QED
    BY <2>1
<1>7. Listed' /\ Retiring'
  <2>1. \A m \in Runs : Building(m)' /\ run'[m].version = row'.version /\ ~Raced' =>
          /\ run'[m].settings.config = row'.config
          /\ run'[m].pc = "build" => run'[m].settings.password = row'.password
    <3>1. TAKE m \in Runs
    <3>2. HAVE Building(m)' /\ run'[m].version = row'.version /\ ~Raced'
    <3>3. /\ Building(m) /\ run[m].version = row.version /\ ~Raced
          /\ row'.config = row.config /\ row'.password = row.password
      BY <1>3, <1>6, <3>2 DEF Settings
    <3>4. /\ run[m].settings.config = row.config
          /\ run[m].pc = "build" => run[m].settings.password = row.password
      BY <3>3 DEF Inv, Listed
    <3>5. CASE m = n
      BY <1>1, <3>2, <3>3, <3>4, <3>5 DEF Building, Before
    <3>6. CASE m # n
      BY <1>1, <3>3, <3>4, <3>6
    <3>7. QED
      BY <3>5, <3>6
  <2>2. Pending <=> Pending'
    BY DEF Pending, At
  <2>3. Missed <=> Missed'
    BY DEF Missed
  <2>4. Retiring'
    BY <1>3, <1>6, <2>2, <2>3 DEF Inv, Retiring
  <2>5. QED
    BY <2>1, <2>4 DEF Listed
<1>8. Shared'
  BY <1>1 DEF Inv, Shared
<1>9. PoolServesCurrent'
  <2>1. pool[row.version] # NoRow => pool[row.version] \in Runs /\ engines[pool[row.version]] # NoRow
    BY <1>2 DEF Inv, Pooled, Shape, TypeOK
  <2>2. QED
    BY <1>2, <1>3, <2>1 DEF Inv, PoolServesCurrent
<1>10. QED
  BY <1>4, <1>5, <1>7, <1>8, <1>9 DEF Inv

LEMMA ListInv ==
    ASSUME Inv, NEW n \in Runs, ListActive(n)
    PROVE  Inv'
<1> DEFINE q == [Idle EXCEPT !.pc = "lookup", !.version = row.version, !.settings = Settings]
<1>1. /\ run[n] = NoRun /\ Exists /\ run' = [run EXCEPT ![n] = q]
      /\ received' \in 0..MaxWork
      /\ UNCHANGED <<row, table, joins, live, pool, engines, request, changes, proof, reviewed,
                     blessed, races>>
  BY DataSourcesAssumption DEF ListActive, Begin, Inv, Shape, TypeOK, catalog, runtime, history
<1>2. row \in Row /\ row # NoRow
  BY <1>1 DEF Exists, Inv, Shape, TypeOK
<1>3. q \in RunState /\ q.settings = Settings /\ q.version = row.version /\ q.pc = "lookup"
      /\ q.engine = NoRow /\ Settings \in Connection
  BY <1>2 DEF Idle, RunState, Settings, Connection, Row
<1>4. q # NoRun
  BY <1>3, MarkerAssumption
<1>5. Shape'
  <2>1. q.version <= row.version
    BY <1>2, <1>3 DEF Row, Versions
  <2>2. QED
    BY <1>1, <1>2, <1>3, <2>1, RunShape DEF Inv, Before, Over, SameSettings, Shape, TypeOK
<1>6. /\ \A m \in Runs \ {n} : run'[m] = run[m]
      /\ run'[n] = q
  BY <1>1 DEF Inv, Shape, TypeOK
<1>7. engines[n] = NoRow
  BY <1>1 DEF Inv, BuiltOnce
<1>8. Pooled' /\ BuiltOnce' /\ OldGo' /\ PoolServesCurrent'
  BY <1>1, <1>6, <1>7
  DEF Inv, Pooled, BuiltOnce, OldGo, Exists, Pending, Missed, Raced, At, PoolServesCurrent, Settings
<1>9. Listed' /\ Retiring' /\ Shared'
  BY <1>1, <1>3, <1>4, <1>6
  DEF Inv, Listed, Retiring, Shared, Building, Exists, Pending, Missed, Raced, At, Settings
<1>10. QED
  BY <1>5, <1>8, <1>9 DEF Inv

(* The runtime that is built is the row's, if its version is.              *)
LEMMA BuildInv ==
    ASSUME Inv, NEW n \in Runs, RunAt(n, "build"), pool[run[n].version] = NoRow, Built(n),
           UNCHANGED <<row, catalog, live, request, received, history>>
    PROVE  Inv'
<1> DEFINE v == run[n].version
           q == [run[n] EXCEPT !.engine = n, !.settings = NoRow, !.pc = "tables"]
           e == [settings |-> run[n].settings, described |-> Unknown]
<1>1. /\ run[n] # NoRun /\ run[n].pc = "build"
      /\ run[n] \in RunState /\ v \in Versions /\ (v <= row.version \/ Raced)
      /\ row \in Row /\ row # NoRow /\ row.version \in Versions
      /\ run[n].settings \in Connection /\ run[n].engine = NoRow
  BY Distinct DEF RunAt, Inv, Shape, Serving, Before
<1>2. /\ pool' = [pool EXCEPT ![v] = n]
      /\ engines' = [engines EXCEPT ![n] = e]
      /\ run' = [run EXCEPT ![n] = q]
      /\ UNCHANGED <<table, joins, changes, races, blessed>>
  BY DEF Built, Take, catalog, history, Inv, Shape, TypeOK
<1>3. e \in Engine /\ e # NoRow /\ n # NoRow
  BY <1>1, DataSourcesAssumption DEF Engine
<1>4. q \in RunState /\ q # NoRun /\ q.pc = "tables" /\ q.engine = n /\ q.version = v
  BY <1>1, MarkerAssumption DEF RunState
<1>5. /\ \A m \in Runs \ {n} : run'[m] = run[m] /\ engines'[m] = engines[m]
      /\ run'[n] = q /\ engines'[n] = e
      /\ pool'[v] = n /\ \A w \in Versions \ {v} : pool'[w] = pool[w]
  BY <1>1, <1>2 DEF Inv, Shape, TypeOK
<1>6. engines[n] = NoRow
  BY <1>1 DEF Inv, BuiltOnce, Before
<1>7. Shape'
  <2>1. /\ pool' \in [Versions -> Runs \cup {NoRow}]
        /\ engines' \in [Runs -> Engine \cup {NoRow}]
        /\ received' \in 0..MaxWork
    BY <1>2, <1>3 DEF Inv, Shape, TypeOK
  <2>2. QED
    BY <1>1, <1>2, <1>3, <1>4, <1>5, <1>6, <2>1, RunShape DEF Inv, Before, Over, SameSettings
<1>8. \A w \in Versions : pool[w] # n
  BY <1>3, <1>6 DEF Inv, Pooled
<1>9. Pooled' /\ BuiltOnce'
  <2>1. Pooled'
    <3>1. ASSUME NEW w \in Versions, w # v, pool'[w] # NoRow
          PROVE  row # NoRow /\ (w <= row.version \/ Raced) /\ engines'[pool'[w]] # NoRow
      <4>1. pool'[w] = pool[w] /\ pool[w] \in Runs /\ pool[w] # n
        BY <1>5, <1>8, <3>1 DEF Inv, Shape, TypeOK
      <4>2. row # NoRow /\ (w <= row.version \/ Raced) /\ engines[pool[w]] # NoRow
        BY <3>1, <4>1 DEF Inv, Pooled
      <4>3. QED
        BY <1>5, <4>1, <4>2
    <3>2. row # NoRow /\ (v <= row.version \/ Raced) /\ engines'[pool'[v]] # NoRow
      BY <1>1, <1>3, <1>5
    <3>3. QED
      BY <1>2, <3>1, <3>2 DEF Pooled, Raced
  <2>2. BuiltOnce'
    <3>1. ASSUME NEW m \in Runs, engines'[m] # NoRow
          PROVE  run'[m] # NoRun /\ run'[m].pc \notin Before
      <4>1. CASE m = n
        BY <1>4, <1>5, <4>1 DEF Before
      <4>2. CASE m # n
        BY <1>5, <3>1, <4>2 DEF Inv, BuiltOnce
      <4>3. QED
        BY <4>1, <4>2
    <3>2. QED
      BY <3>1 DEF BuiltOnce
  <2>3. QED
    BY <2>1, <2>2
<1>10. Listed' /\ Retiring'
  <2>1. \A m \in Runs : Building(m)' => m # n /\ Building(m) /\ run'[m] = run[m]
    BY <1>4, <1>5 DEF Building
  <2>2. QED
    BY <2>1, <1>2 DEF Inv, Listed, Retiring, Exists, Pending, Missed, Raced, At
<1>11. OldGo'
  <2>1. v # row.version \/ ~Exists => Pending \/ Missed
    BY <1>1 DEF Inv, Retiring, Building
  <2>2. QED
    BY <1>2, <1>5, <2>1 DEF Inv, OldGo, Exists, Pending, Missed, At
<1>12. Shared'
  <2>1. ASSUME NEW m \in Runs, m # n, run[m] # NoRun, run[m].engine # NoRow
        PROVE  pool'[run[m].version] = run[m].engine \/ <<"evicted", run[m].version>> \in races
    <3>1. run[m].version \in Versions
      BY <2>1 DEF Inv, Shape, TypeOK, RunState
    <3>2. pool[run[m].version] = run[m].engine \/ <<"evicted", run[m].version>> \in races
      BY <2>1 DEF Inv, Shared
    <3>3. QED
      BY <1>5, <2>1, <3>1, <3>2
  <2>2. pool'[q.version] = q.engine
    BY <1>4, <1>5
  <2>3. ASSUME NEW m \in Runs, run'[m] # NoRun, run'[m].engine # NoRow
        PROVE  pool'[run'[m].version] = run'[m].engine \/ <<"evicted", run'[m].version>> \in races'
    <3>1. CASE m = n
      BY <1>5, <2>2, <3>1
    <3>2. CASE m # n
      BY <1>2, <1>5, <2>1, <2>3, <3>2
    <3>3. QED
      BY <3>1, <3>2
  <2>4. QED
    BY <2>3 DEF Shared
<1>13. PoolServesCurrent'
  <2>1. CASE v = row.version /\ ~Raced
    <3>1. run[n].settings.config = row.config /\ run[n].settings.password = row.password
      BY <1>1, <2>1 DEF Inv, Listed, Building
    <3>2. run[n].settings = Settings
      BY <1>1, <3>1 DEF Settings, Connection
    <3>3. engines'[pool'[row.version]].settings = Settings
      BY <1>5, <2>1, <3>2
    <3>4. QED
      BY <3>3 DEF PoolServesCurrent, Settings
  <2>2. CASE v # row.version
    <3>1. pool'[row.version] = pool[row.version]
      BY <1>1, <1>5, <2>2
    <3>2. pool[row.version] # NoRow =>
            engines'[pool[row.version]].settings = engines[pool[row.version]].settings
      BY <1>1, <1>5, <1>8 DEF Inv, Shape, TypeOK
    <3>3. QED
      BY <1>1, <1>2, <3>1, <3>2 DEF Inv, PoolServesCurrent, Settings
  <2>3. CASE Raced
    BY <1>2, <2>3 DEF PoolServesCurrent, Raced
  <2>4. QED
    BY <2>1, <2>2, <2>3
<1>14. QED
  BY <1>7, <1>9, <1>10, <1>11, <1>12, <1>13 DEF Inv

-----------------------------------------------------------------------------
(* A run's own step is a move, whose hypotheses are what Shape asks of it. *)
LEMMA StepInv ==
    ASSUME Inv, NEW n \in Runs, run[n] # NoRun,
           row' \in Row, SameSettings, row'.deleted = row.deleted,
           engines' \in [Runs -> Engine \cup {NoRow}],
           \A e \in Runs : engines'[e] = NoRow <=> engines[e] = NoRow,
           \A e \in Runs : engines[e] # NoRow => engines'[e].settings = engines[e].settings,
           NEW q \in RunState, run' = [run EXCEPT ![n] = q],
           UNCHANGED <<table, joins, live, pool, request, received, changes, blessed, races>>,
           q.version = run[n].version \/ q.version = 1,
           q.pc \in Before =>
              /\ run[n].pc \in Before /\ q.version = run[n].version
              /\ q.settings \in Connection /\ q.engine = NoRow
              /\ q.settings.config = run[n].settings.config
              /\ q.pc = "build" => q.settings.password = row.password,
           q.pc \in Over => q.engine = NoRow,
           q.pc \notin Before \cup Over => q.engine \in Runs /\ engines[q.engine] # NoRow,
           q.engine # NoRow => /\ q.version = run[n].version
                               /\ q.engine = run[n].engine \/ pool[q.version] = q.engine
    PROVE  Inv'
<1>1. /\ row # NoRow /\ row \in Row /\ (q.version <= row.version \/ Raced)
      /\ row.version \in Versions
  BY Distinct, DataSourcesAssumption DEF Inv, Versions
<1>2. q # NoRun
  BY MarkerAssumption
<1>3. pool' \in [Versions -> Runs \cup {NoRow}] /\ received' \in 0..MaxWork
  BY DEF Inv, Shape, TypeOK
<1>4. Shape'
  BY <1>1, <1>3, RunShape DEF Inv
<1>5. QED
  BY <1>2, <1>4, MoveInv

LEMMA IdleType ==
    /\ Idle \in RunState /\ Idle.pc = "done" /\ Idle.engine = NoRow /\ Idle.version = 1
    /\ Idle.pc \notin Before
BY DataSourcesAssumption DEF Idle, RunState, Versions, Before

(* The steps that only read: everything but the run's record stays         *)
LEMMA ReadInv ==
    ASSUME Inv, NEW n \in Runs, run[n] # NoRun,
           NEW q \in RunState, run' = [run EXCEPT ![n] = q],
           UNCHANGED <<row, catalog, live, runtime, request, received, history>>,
           q.version = run[n].version \/ q.version = 1,
           q.pc \in Before =>
              /\ run[n].pc \in Before /\ q.version = run[n].version
              /\ q.settings \in Connection /\ q.engine = NoRow
              /\ q.settings.config = run[n].settings.config
              /\ q.pc = "build" => q.settings.password = row.password,
           q.pc \in Over => q.engine = NoRow,
           q.pc \notin Before \cup Over => q.engine \in Runs /\ engines[q.engine] # NoRow,
           q.engine # NoRow => /\ q.version = run[n].version
                               /\ q.engine = run[n].engine \/ pool[q.version] = q.engine
    PROVE  Inv'
<1>1. UNCHANGED <<row, table, joins, live, pool, engines, request, received, changes, blessed,
                races>>
  BY DEF catalog, runtime, history
<1>2. row' \in Row /\ SameSettings /\ row'.deleted = row.deleted
  BY <1>1, Distinct DEF Inv, SameSettings
<1>3. engines' \in [Runs -> Engine \cup {NoRow}]
  BY <1>1 DEF Inv, Shape, TypeOK
<1>4. QED
  BY <1>1, <1>2, <1>3, StepInv

LEMMA WorkInv ==
    ASSUME Inv, NEW n \in Runs, Work(n)
    PROVE  Inv'
<1> DEFINE s == run[n]
<1>1. ASSUME s # NoRun
      PROVE  /\ s \in RunState /\ row \in Row /\ row # NoRow
             /\ s.version \in Versions
             /\ run \in [Runs -> RunState \cup {NoRun}]
  BY <1>1, Distinct DEF Inv, Shape, TypeOK
<1>2. ASSUME s # NoRun, s.pc \in Before
      PROVE  s.settings \in Connection /\ s.engine = NoRow
  BY <1>2 DEF Inv, Shape, Serving
<1>3. ASSUME s # NoRun, s.pc \notin Before \cup Over
      PROVE  s.engine \in Runs /\ engines[s.engine] # NoRow
  BY <1>3 DEF Inv, Shape, Serving
<1>4. ASSUME NEW entry \in Runs, s # NoRun, s.pc \in Before, pool[s.version] = entry, Take(n, entry),
             UNCHANGED <<row, catalog, live, runtime, request, received, history>>
      PROVE  Inv'
  <2> DEFINE q == [s EXCEPT !.engine = entry, !.settings = NoRow, !.pc = "tables"]
  <2>1. s \in RunState /\ s.version \in Versions
    BY <1>1, <1>4
  <2>2. entry # NoRow /\ engines[entry] # NoRow
    BY <1>4, <2>1, DataSourcesAssumption DEF Inv, Pooled
  <2>3. q \in RunState /\ q.version = s.version /\ q.pc = "tables" /\ q.engine = entry
    BY <2>1 DEF RunState
  <2>4. run' = [run EXCEPT ![n] = q]
    BY <1>1, <1>4 DEF Take
  <2>5. QED
    BY <1>4, <2>2, <2>3, <2>4, ReadInv DEF Before, Over
<1>5. CASE Lookup(n)
  <2>1. s # NoRun /\ s.pc = "lookup" /\ s.pc \in Before
    BY <1>5 DEF Lookup, RunAt, Before, Over
  <2>2. CASE pool[s.version] = NoRow
    <3> DEFINE q == [s EXCEPT !.pc = "password"]
    <3>1. /\ q \in RunState /\ q.version = s.version /\ q.pc = "password" /\ q.engine = s.engine
          /\ q.settings = s.settings
      BY <1>1, <2>1 DEF RunState
    <3>2. run' = [run EXCEPT ![n] = q]
      BY <1>1, <1>5, <2>1, <2>2 DEF Lookup, RunTo
    <3>3. UNCHANGED <<row, catalog, live, runtime, request, received, history>>
      BY <1>5 DEF Lookup
    <3>4. QED
      BY <1>2, <2>1, <3>1, <3>2, <3>3, ReadInv DEF Before, Over
  <2>3. CASE pool[s.version] # NoRow
    <3>1. pool[s.version] \in Runs
      BY <1>1, <2>1, <2>3 DEF Inv, Shape, TypeOK
    <3>2. QED
      BY <1>4, <1>5, <2>1, <2>3, <3>1 DEF Lookup
  <2>4. QED
    BY <2>2, <2>3
<1>6. CASE ResolvePassword(n)
  <2>1. s # NoRun /\ s.pc = "password" /\ s.pc \in Before
    BY <1>6 DEF ResolvePassword, RunAt, Before, Over
  <2>2. UNCHANGED <<row, catalog, live, runtime, request, received, history>>
    BY <1>6 DEF ResolvePassword
  <2>3. CASE Exists
    <3> DEFINE settings == [s.settings EXCEPT !.password = row.password]
               q == [s EXCEPT !.settings = settings, !.pc = "build"]
    <3>1. settings \in Connection /\ settings.config = s.settings.config
          /\ settings.password = row.password
      BY <1>1, <1>2, <2>1 DEF Connection, Row
    <3>2. /\ q \in RunState /\ q.version = s.version /\ q.pc = "build" /\ q.engine = s.engine
          /\ q.settings = settings
      BY <1>1, <2>1, <3>1 DEF RunState
    <3>3. run' = [run EXCEPT ![n] = q]
      BY <1>1, <1>6, <2>1, <2>3 DEF ResolvePassword
    <3>4. QED
      BY <1>2, <2>1, <2>2, <3>1, <3>2, <3>3, ReadInv DEF Before, Over
  <2>4. CASE ~Exists
    <3>1. run' = [run EXCEPT ![n] = Idle]
      BY <1>6, <2>4 DEF ResolvePassword
    <3>2. QED
      BY <2>1, <2>2, <3>1, IdleType, ReadInv DEF Over
  <2>5. QED
    BY <2>3, <2>4
<1>7. CASE RefuseRun(n)
  <2> DEFINE q == [Idle EXCEPT !.pc = "refused"]
  <2>1. s # NoRun /\ (run' = [run EXCEPT ![n] = Idle] \/ run' = [run EXCEPT ![n] = q])
        /\ UNCHANGED <<row, catalog, live, runtime, request, received, history>>
    BY <1>7 DEF RefuseRun, RunAt
  <2>2. q \in RunState /\ q.pc = "refused" /\ q.engine = NoRow /\ q.version = 1
    BY IdleType DEF RunState
  <2> HIDE DEF q
  <2>3. CASE run' = [run EXCEPT ![n] = Idle]
    BY <2>1, <2>3, IdleType, ReadInv DEF Over
  <2>4. CASE run' = [run EXCEPT ![n] = q]
    BY <2>1, <2>2, <2>4, ReadInv DEF Before, Over
  <2>5. QED
    BY <2>1, <2>3, <2>4
<1>8. CASE Insert(n)
  <2>1. RunAt(n, "build") /\ s # NoRun /\ s.pc \in Before
    BY <1>8 DEF Insert, RunAt, Before, Over
  <2>2. CASE pool[s.version] = NoRow
    BY <1>8, <2>1, <2>2, BuildInv DEF Insert
  <2>3. CASE pool[s.version] # NoRow
    <3>1. pool[s.version] \in Runs
      BY <1>1, <2>1, <2>3 DEF Inv, Shape, TypeOK
    <3>2. QED
      BY <1>4, <1>8, <2>1, <2>3, <3>1 DEF Insert
  <2>4. QED
    BY <2>2, <2>3
<1>9. CASE ReadTables(n)
  <2> DEFINE columns == IF Exists /\ table # NoRow /\ table.active THEN table.columns ELSE NoRow
             q == [s EXCEPT !.pc = "joins", !.columns = columns]
  <2>1. s # NoRun /\ s.pc = "tables" /\ s.pc \notin Before \cup Over
    BY <1>9 DEF ReadTables, RunAt, Before, Over
  <2>2. columns \in Catalog \cup {NoRow}
    BY DEF Inv, Shape, TypeOK, Table
  <2>3. q \in RunState /\ q.version = s.version /\ q.pc = "joins" /\ q.engine = s.engine
    BY <1>1, <2>1, <2>2 DEF RunState
  <2>4. run' = [run EXCEPT ![n] = q]
    BY <1>1, <1>9, <2>1 DEF ReadTables
  <2>5. UNCHANGED <<row, catalog, live, runtime, request, received, history>>
    BY <1>9 DEF ReadTables
  <2>6. QED
    BY <1>3, <2>1, <2>3, <2>4, <2>5, ReadInv DEF Before, Over
<1>10. CASE ReadJoins(n)
  <2> DEFINE approved == IF Exists THEN {j \in Joins : joins[j] = "approved"} ELSE {}
             q == [s EXCEPT !.pc = "describe", !.joins = approved]
  <2>1. s # NoRun /\ s.pc = "joins" /\ s.pc \notin Before \cup Over
    BY <1>10 DEF ReadJoins, RunAt, Before, Over
  <2>2. approved \in SUBSET Joins
    OBVIOUS
  <2>3. q \in RunState /\ q.version = s.version /\ q.pc = "describe" /\ q.engine = s.engine
    BY <1>1, <2>1, <2>2 DEF RunState
  <2>4. run' = [run EXCEPT ![n] = q]
    BY <1>1, <1>10, <2>1 DEF ReadJoins
  <2>5. UNCHANGED <<row, catalog, live, runtime, request, received, history>>
    BY <1>10 DEF ReadJoins
  <2>6. QED
    BY <1>3, <2>1, <2>3, <2>4, <2>5, ReadInv DEF Before, Over
<1>11. CASE Describe(n)
  <2> DEFINE e == s.engine
             described == IF engines[e].described = Unknown THEN live ELSE engines[e].described
             q == [s EXCEPT !.blocked = Blocked(described, s.columns), !.known = live,
                            !.described = IF described = live THEN "now" ELSE "before",
                            !.pc = "query"]
  <2>1. s # NoRun /\ s.pc = "describe" /\ s.pc \notin Before \cup Over
    BY <1>11 DEF Describe, RunAt, Before, Over
  <2>2. e \in Runs /\ engines[e] # NoRow /\ engines[e] \in Engine
    BY <1>3, <2>1 DEF Inv, Shape, TypeOK
  <2>3. live \subseteq Columns /\ described \subseteq Columns
    BY <2>2 DEF Inv, Shape, TypeOK, Engine
  <2>4. Blocked(described, s.columns) \subseteq Columns
    BY <2>3 DEF Blocked
  <2>5. q \in RunState /\ q.version = s.version /\ q.pc = "query" /\ q.engine = s.engine
    BY <1>1, <2>1, <2>3, <2>4 DEF RunState
  <2>6. /\ run' = [run EXCEPT ![n] = q]
        /\ engines' = [engines EXCEPT ![e] = [@ EXCEPT !.described = described]]
        /\ UNCHANGED <<row, table, joins, live, pool, request, received, changes, blessed,
                      races>>
    BY <1>1, <1>11, <2>1 DEF Describe, catalog, history
  <2>7. /\ [engines[e] EXCEPT !.described = described] \in Engine
        /\ [engines[e] EXCEPT !.described = described].settings = engines[e].settings
    BY <2>2, <2>3 DEF Engine
  <2>8. /\ engines' \in [Runs -> Engine \cup {NoRow}]
        /\ \A m \in Runs : engines'[m] = NoRow <=> engines[m] = NoRow
        /\ \A m \in Runs : engines[m] # NoRow => engines'[m].settings = engines[m].settings
    BY <2>2, <2>6, <2>7, DataSourcesAssumption DEF Inv, Shape, TypeOK
  <2>9. row' \in Row /\ SameSettings /\ row'.deleted = row.deleted
    BY <1>1, <2>1, <2>6 DEF SameSettings
  <2>10. QED
    BY <2>1, <2>2, <2>5, <2>6, <2>8, <2>9, StepInv DEF Before, Over
<1>12. CASE DescribeFails(n)
  <2> DEFINE q == [s EXCEPT !.known = live, !.pc = "query"]
  <2>1. s # NoRun /\ s.pc = "describe" /\ s.pc \notin Before \cup Over
    BY <1>12 DEF DescribeFails, RunAt, Before, Over
  <2>2. q \in RunState /\ q.version = s.version /\ q.pc = "query" /\ q.engine = s.engine
    BY <1>1, <2>1 DEF RunState, Inv, Shape, TypeOK
  <2>3. run' = [run EXCEPT ![n] = q]
    BY <1>1, <1>12, <2>1 DEF DescribeFails
  <2>4. UNCHANGED <<row, catalog, live, runtime, request, received, history>>
    BY <1>12 DEF DescribeFails
  <2>5. QED
    BY <1>3, <2>1, <2>2, <2>3, <2>4, ReadInv DEF Before, Over
<1>13. CASE EndRun(n)
  <2>1. s # NoRun /\ run' = [run EXCEPT ![n] = Idle]
        /\ UNCHANGED <<row, catalog, live, runtime, request, received, history>>
    BY <1>13 DEF EndRun, RunAt
  <2>2. QED
    BY <2>1, IdleType, ReadInv DEF Over
<1>14. CASE ExpireCache(n)
  <2>1. /\ engines[n] # NoRow /\ engines' = [engines EXCEPT ![n] = [@ EXCEPT !.described = Unknown]]
        /\ UNCHANGED <<row, table, joins, live, pool, request, received, run, changes,
                      blessed, races>>
    BY <1>14 DEF ExpireCache, catalog, history, Inv, Shape, TypeOK
  <2>2. s # NoRun /\ s.pc \notin Before
    BY <2>1 DEF Inv, BuiltOnce
  <2>3. engines[n] \in Engine
    BY <2>1 DEF Inv, Shape, TypeOK
  <2>4. /\ [engines[n] EXCEPT !.described = Unknown] \in Engine
        /\ [engines[n] EXCEPT !.described = Unknown].settings = engines[n].settings
    BY <2>3 DEF Engine
  <2>5. /\ engines' \in [Runs -> Engine \cup {NoRow}]
        /\ \A m \in Runs : engines'[m] = NoRow <=> engines[m] = NoRow
        /\ \A m \in Runs : engines[m] # NoRow => engines'[m].settings = engines[m].settings
    BY <2>1, <2>4, DataSourcesAssumption DEF Inv, Shape, TypeOK
  <2>6. /\ run' = [run EXCEPT ![n] = s] /\ s \in RunState
        /\ row' \in Row /\ SameSettings /\ row'.deleted = row.deleted
    BY <1>1, <2>1, <2>2 DEF SameSettings
  <2>7. /\ s.pc \in Over => s.engine = NoRow
        /\ s.pc \notin Over => s.engine \in Runs /\ engines[s.engine] # NoRow
    BY <1>3, <2>2 DEF Inv, Shape, Serving
  <2>8. QED
    BY <2>1, <2>2, <2>5, <2>6, <2>7, StepInv
<1>15. CASE FlushRefusal(n)
  <2>1. s # NoRun /\ run' = [run EXCEPT ![n] = Idle] /\ row' = [row EXCEPT !.status = "failed"]
        /\ UNCHANGED <<table, joins, live, pool, engines, request, received, changes, blessed, races>>
    BY <1>15 DEF FlushRefusal, RunAt, catalog, runtime, history
  <2>2. row \in Row
    BY <1>1, <2>1
  <2>3. row' \in Row /\ SameSettings /\ row'.deleted = row.deleted
    BY <2>1, <2>2 DEF Row, Statuses, SameSettings
  <2>4. engines' \in [Runs -> Engine \cup {NoRow}]
    BY <2>1 DEF Inv, Shape, TypeOK
  <2>5. QED
    BY <2>1, <2>3, <2>4, IdleType, StepInv DEF Over
<1>16. QED
  BY <1>5, <1>6, <1>7, <1>8, <1>9, <1>10, <1>11, <1>12, <1>13, <1>14, <1>15, ListInv DEF Work

LEMMA Preserved ==
    ASSUME Inv, [Next]_vars
    PROVE  Inv'
<1>1. ASSUME UNCHANGED <<row, pool, engines, run, request, races>>, Shape'
      PROVE  Inv'
  BY <1>1, ServeInv DEF RowMoves, Pending, At
<1>2. ASSUME NEW c \in Columns, AddColumn(c)
      PROVE  Inv'
  <2>1. live' \subseteq Columns
        /\ UNCHANGED <<row, table, joins, pool, engines, request, received, run, changes,
                    blessed, races>>
    BY <1>2 DEF AddColumn, catalog, runtime, history, Inv, Shape, TypeOK
  <2>2. Shape'
    BY <2>1 DEF Inv, Shape, TypeOK, Asked, Sound, Decided, Counting, Serving, Raced
  <2>3. QED
    BY <1>1, <2>1, <2>2
<1>3. CASE UNCHANGED vars
  <2>1. UNCHANGED <<row, table, joins, live, pool, engines, request, received, run, changes,
                    blessed, races>>
    BY <1>3 DEF vars, catalog, runtime, history
  <2>2. Shape'
    BY <2>1 DEF Inv, Shape, TypeOK, Asked, Sound, Decided, Counting, Serving, Raced
  <2>3. QED
    BY <1>1, <2>1, <2>2
<1>4. QED
  BY <1>2, <1>3, RequestInv, WorkInv DEF Next

(* The deletion is never undone: what a request or a run had decided on    *)
(* before may still change the status, and nothing begins on the source.   *)
THEOREM DeletedAlwaysStaysDeleted == Spec => DeletedStaysDeleted
<1>1. ASSUME Inv, [Next]_vars, row # NoRow, row.deleted
      PROVE  row'.deleted /\ received' = received
  <2>1. ~Exists /\ row \in Row
    BY <1>1 DEF Exists, Inv, Shape, TypeOK
  <2>2. CASE UNCHANGED vars
    BY <1>1, <2>2 DEF vars
  <2>3. ASSUME NEW r \in Requests, Serve(r)
        PROVE  row'.deleted /\ received' = received
    <3>1. CASE FlushRow(r)
      <4>1. row'.deleted
        BY <1>1, <3>1, FlushWrites DEF Inv
      <4>2. QED
        BY <3>1, <4>1 DEF FlushRow
    <3>2. CASE ~FlushRow(r)
      BY <1>1, <2>1, <2>3, <3>2
      DEF Serve, Create, ReadConnection, ReadPassword, Refuse, Test, Verify, Profile, Inspect,
          Discover, SetRelationshipApproval, Correct, SetTableActive, ReadTable, ApproveTable,
          ReadStatus, CheckTables, ChangeStatus, Reconfigure, Invalidate, Die
    <3>3. QED
      BY <3>1, <3>2
  <2>4. ASSUME NEW n \in Runs, Work(n)
        PROVE  row'.deleted /\ received' = received
    <3>1. CASE FlushRefusal(n)
      BY <1>1, <2>1, <3>1 DEF FlushRefusal, Row
    <3>2. CASE ~FlushRefusal(n)
      BY <1>1, <2>1, <2>4, <3>2
      DEF Work, ListActive, Lookup, ResolvePassword, RefuseRun, Insert, ReadTables, ReadJoins,
          Describe, DescribeFails, EndRun, ExpireCache
    <3>3. QED
      BY <3>1, <3>2
  <2>5. ASSUME NEW c \in Columns, AddColumn(c)
        PROVE  row'.deleted /\ received' = received
    BY <1>1, <2>5 DEF AddColumn
  <2>6. QED
    BY <1>1, <2>2, <2>3, <2>4, <2>5 DEF Next
<1>2. Inv /\ [Next]_vars => [row # NoRow /\ row.deleted => row'.deleted /\ received' = received]_vars
  BY <1>1
<1>3. QED
  BY <1>2, InitInv, Preserved, PTL DEF Spec, DeletedStaysDeleted

(* What the pool serves is what the row says: the entry of the version the *)
(* row has was built with its configuration and password unless two        *)
(* changes overlapped, older ones go but for the races named, and the runs *)
(* of a version share one (store.py:339-372, pool.py:53-100).              *)
THEOREM PoolIsAlwaysCurrent == Spec => []PoolIsCurrent
<1>1. Spec => []Inv
  BY InitInv, Preserved, PTL DEF Spec
<1>2. Inv => PoolIsCurrent
  <2> SUFFICES ASSUME Inv PROVE PoolIsCurrent
    OBVIOUS
  <2>1. TypeOK /\ PoolServesCurrent
    BY DEF Inv, Shape
  <2>2. OldRuntimesGo
    BY DEF Inv, OldGo, OldRuntimesGo, Pending, Missed
  <2>3. RunsShareRuntimes
    BY DEF Inv, Shared, RunsShareRuntimes
  <2>4. QED
    BY <2>1, <2>2, <2>3 DEF PoolIsCurrent
<1>3. QED
  BY <1>1, <1>2, PTL


-----------------------------------------------------------------------------
(* What a run is served: the inductive invariant of VouchedFor *)

(* A source is marked verified, before it is active, for what the probe     *)
(* connected with.                                                          *)
Verified ==
    row # NoRow /\ row.status \in {"verified_read_only", "active"} =>
        proof = Settings \/ {<<"verify">>, <<"activate">>, <<"change">>} \cap races # {}

(* Only a person approves a join, and runs keep what they were told.        *)
Told ==
    /\ \A j \in Joins : joins[j] = "approved" => j \in blessed
    /\ JoinsWereApproved

(* A run that described its table blocked what the catalog does not open.   *)
Shut(s) == s.columns # NoRow => \A c \in s.known : s.columns[c] = "open" \/ c \in s.blocked
Opened ==
    \A n \in Runs : run[n] # NoRun /\ run[n].described = "now" =>
        run[n].pc = "query" /\ Shut(run[n])

Vouched == Inv /\ Verified /\ Told /\ Opened /\ ApprovedWasReviewed

(* Races and approvals of joins are on record for good.                     *)
LEMMA HistoryGrows ==
    ASSUME [Next]_vars
    PROVE  races \subseteq races' /\ blessed \subseteq blessed'
<1>1. CASE \E r \in Requests : Serve(r)
  BY <1>1
  DEF Serve, Create, ReadConnection, ReadPassword, Refuse, Test, Verify, Profile, Inspect,
      Discover, SetRelationshipApproval, Correct, SetTableActive, ReadTable, ApproveTable,
      ReadStatus, CheckTables, ChangeStatus, FlushRow, Reconfigure, Invalidate, Die, history
<1>2. CASE \E n \in Runs : Work(n)
  BY <1>2
  DEF Work, ListActive, Lookup, ResolvePassword, RefuseRun, FlushRefusal, Insert, ReadTables, ReadJoins,
      Describe, DescribeFails, EndRun, ExpireCache, history
<1>3. CASE (\E c \in Columns : AddColumn(c)) \/ UNCHANGED vars
  BY <1>3 DEF AddColumn, vars, history
<1>4. QED
  BY <1>1, <1>2, <1>3 DEF Next

(* Only activation makes a source active, only a verification marks it      *)
(* verified, and a change that is flushed to a row that is not pending      *)
(* resets its status, or had read another.                                  *)
LEMMA VerifiedFlush ==
    ASSUME Inv, Verified, NEW r \in Requests, FlushRow(r)
    PROVE  Verified'
<1> DEFINE q == request[r]
           seen == [config |-> q.config, password |-> q.password]
<1>1. /\ row \in Row /\ row # NoRow /\ row' \in Row /\ Decided(q) /\ q \in Request
      /\ row'.status = StatusAfter(q)
  BY FlushWrites DEF Inv
<1>2. /\ races' = races \cup Misfits(q)
      /\ proof' = IF q.op = "verify" THEN seen ELSE proof
  BY DEF FlushRow
<1>3. CASE row'.status \notin {"verified_read_only", "active"}
  BY <1>3 DEF Verified
<1>4. CASE row'.status \in {"verified_read_only", "active"} /\ q.op \in Edits
  <2>1. q.status = "kept" /\ row.status = row'.status
    BY <1>1, <1>4 DEF Decided, StatusAfter
  <2>2. <<"change">> \in Misfits(q)
    BY <1>4, <2>1 DEF Misfits
  <2>3. QED
    BY <1>2, <2>2 DEF Verified
<1>5. CASE row'.status \in {"verified_read_only", "active"} /\ q.op \notin Edits
  <2>1. Settings' = Settings
    BY <1>5, FlushWrites DEF Inv, SameSettings, Settings
  <2>2. CASE q.op = "verify"
    <3>1. seen # Settings => <<"verify">> \in Misfits(q)
      BY <2>2 DEF Misfits
    <3>2. proof' = seen
      BY <1>2, <2>2
    <3> HIDE DEF seen
    <3>3. CASE seen = Settings
      BY <2>1, <3>2, <3>3 DEF Verified
    <3>4. CASE seen # Settings
      BY <1>2, <3>1, <3>4 DEF Verified
    <3>5. QED
      BY <3>3, <3>4
  <2>3. CASE q.op # "verify"
    <3>1. proof' = proof
      BY <1>2, <2>3
    <3>2. CASE row.status \in {"verified_read_only", "active"}
      BY <1>1, <1>2, <2>1, <3>1, <3>2 DEF Verified
    <3>3. CASE row.status \notin {"verified_read_only", "active"}
      <4>1. q.status = row'.status
        BY <1>1, <1>5, <3>3 DEF StatusAfter
      <4>2. q.status = "active"
        BY <1>1, <1>5, <2>3, <4>1 DEF Decided
      <4>3. <<"activate">> \in Misfits(q)
        BY <3>3, <4>2 DEF Misfits
      <4>4. QED
        BY <1>2, <4>3 DEF Verified
    <3>4. QED
      BY <3>2, <3>3
  <2>4. QED
    BY <2>2, <2>3
<1>6. QED
  BY <1>3, <1>4, <1>5

LEMMA VerifiedStep ==
    ASSUME Inv, Verified, [Next]_vars
    PROVE  Verified'
<1>1. races \subseteq races'
  BY HistoryGrows
<1>2. CASE UNCHANGED <<row, proof>>
  BY <1>1, <1>2 DEF Verified, Settings
<1>3. ASSUME NEW r \in Requests, Serve(r)
      PROVE  Verified'
  <2>1. CASE Create(r)
    BY <2>1 DEF Create, Verified
  <2>2. CASE FlushRow(r)
    BY <2>2, VerifiedFlush
  <2>3. QED
    BY <1>2, <1>3, <2>1, <2>2
    DEF Serve, ReadConnection, ReadPassword, Refuse, Test, Verify, Profile, Inspect, Discover,
        SetRelationshipApproval, Correct, SetTableActive, ReadTable, ApproveTable, ReadStatus,
        CheckTables, ChangeStatus, Reconfigure, Invalidate, Die, history
<1>4. ASSUME NEW n \in Runs, Work(n)
      PROVE  Verified'
  <2>1. CASE FlushRefusal(n)
    <3>1. row \in Row
      BY <2>1, Distinct DEF FlushRefusal, RunAt, Inv
    <3>2. row'.status = "failed"
      BY <2>1, <3>1 DEF FlushRefusal, Row
    <3>3. QED
      BY <3>2 DEF Verified
  <2>2. QED
    BY <1>2, <1>4, <2>1
    DEF Work, ListActive, Lookup, ResolvePassword, RefuseRun, Insert, ReadTables, ReadJoins,
        Describe, DescribeFails, EndRun, ExpireCache, history
<1>5. QED
  BY <1>2, <1>3, <1>4 DEF Next, AddColumn, vars, history

(* Joins are approved by requests, and read by runs.                        *)
LEMMA JoinsStep ==
    ASSUME Inv, Told, [Next]_vars
    PROVE  \A j \in Joins : joins'[j] = "approved" => j \in blessed'
<1>1. blessed \subseteq blessed' /\ \A j \in Joins : joins[j] = "approved" => j \in blessed
  BY HistoryGrows DEF Told
<1>2. joins \in [Joins -> {"none", "pending", "approved", "rejected"}]
  BY DEF Inv, Shape, TypeOK
<1>3. CASE UNCHANGED joins
  BY <1>1, <1>3
<1>4. CASE \E r \in Requests, j \in Joins : Discover(r, j)
  BY <1>1, <1>2, <1>4 DEF Discover, Candidate
<1>5. CASE \E r \in Requests, j \in Joins, status \in {"approved", "rejected"} :
              SetRelationshipApproval(r, j, status)
  BY <1>1, <1>2, <1>5 DEF SetRelationshipApproval
<1>6. \/ UNCHANGED joins
      \/ \E r \in Requests, j \in Joins : Discover(r, j)
      \/ \E r \in Requests, j \in Joins, status \in {"approved", "rejected"} :
              SetRelationshipApproval(r, j, status)
  BY DEF Next, vars, catalog, AddColumn, Serve, Create, ReadConnection, ReadPassword, Refuse,
     Test, Verify, Profile, Inspect, Correct, SetTableActive, ReadTable, ApproveTable, ReadStatus,
     CheckTables, ChangeStatus, FlushRow, Reconfigure, Invalidate, Die, Work, ListActive, Lookup,
     ResolvePassword, RefuseRun, FlushRefusal, Insert, ReadTables, ReadJoins, Describe, DescribeFails, EndRun,
     ExpireCache
<1>7. QED
  BY <1>3, <1>4, <1>5, <1>6

(* What a run may be told and may read, told of one run.                    *)
Served(s) ==
    /\ s.joins \subseteq blessed
    /\ s.described = "now" => s.pc = "query" /\ Shut(s)

LEMMA RunServed ==
    ASSUME Vouched, NEW n \in Runs, Work(n)
    PROVE  /\ \A m \in Runs \ {n} : run'[m] = run[m]
           /\ run'[n] # NoRun => Served(run'[n])
<1>1. run \in [Runs -> RunState \cup {NoRun}]
  BY DEF Vouched, Inv, Shape, TypeOK
<1>2. run[n] # NoRun => run[n] \in RunState /\ Served(run[n])
  BY <1>1 DEF Vouched, Told, JoinsWereApproved, Opened, Served
<1>3. Served(Idle)
  BY DEF Served, Idle
<1>4. CASE ListActive(n)
  <2> DEFINE next == [Idle EXCEPT !.pc = "lookup", !.version = row.version, !.settings = Settings]
  <2>1. next.joins = {} /\ next.described = "no"
    BY DEF Idle
  <2>2. run' = [run EXCEPT ![n] = next]
    BY <1>4 DEF ListActive
  <2> HIDE DEF next
  <2>3. QED
    BY <2>1, <2>2, <1>1 DEF Served
<1>5. CASE Lookup(n) \/ ResolvePassword(n) \/ Insert(n) \/ ReadTables(n)
  <2>1. run[n] # NoRun /\ run[n].pc \in {"lookup", "password", "build", "tables"}
    BY <1>5 DEF Lookup, ResolvePassword, Insert, ReadTables, RunAt
  <2>2. run[n].described # "now"
    BY <2>1, <1>2 DEF Served
  <2>3. /\ \A m \in Runs \ {n} : run'[m] = run[m]
        /\ \/ run'[n] = Idle
           \/ run'[n].joins = run[n].joins /\ run'[n].described = run[n].described
    <3>1. run[n] \in RunState
      BY <1>2, <2>1
    <3>2. ASSUME NEW entry, Take(n, entry)
          PROVE  /\ \A m \in Runs \ {n} : run'[m] = run[m]
                 /\ run'[n].joins = run[n].joins /\ run'[n].described = run[n].described
      BY <1>1, <3>1, <3>2 DEF Take, RunState
    <3>3. CASE Lookup(n)
      <4>1. CASE RunTo(n, "password")
        BY <1>1, <3>1, <4>1 DEF RunTo, RunState
      <4>2. QED
        BY <3>2, <3>3, <4>1 DEF Lookup
    <3>4. CASE ResolvePassword(n)
      <4>1. \/ run' = [run EXCEPT ![n] = Idle]
            \/ run' = [run EXCEPT ![n] = [run[n] EXCEPT !.settings.password = row.password,
                                                       !.pc = "build"]]
        BY <1>1, <3>4 DEF ResolvePassword
      <4>2. QED
        BY <1>1, <3>1, <4>1 DEF RunState
    <3>5. CASE Insert(n)
      BY <3>2, <3>5 DEF Insert, Built
    <3>6. CASE ReadTables(n)
      BY <1>1, <3>1, <3>6 DEF ReadTables, RunState
    <3>7. QED
      BY <1>5, <3>3, <3>4, <3>5, <3>6
  <2>4. QED
    BY <1>2, <1>3, <2>1, <2>2, <2>3 DEF Served
<1>6. CASE ReadJoins(n)
  <2>1. run[n] # NoRun /\ run[n].described # "now"
    BY <1>2, <1>6 DEF ReadJoins, RunAt, Served
  <2>2. /\ \A m \in Runs \ {n} : run'[m] = run[m]
        /\ run'[n].described = run[n].described
        /\ run'[n].joins \subseteq {j \in Joins : joins[j] = "approved"}
    BY <1>1, <1>2, <1>6, <2>1 DEF ReadJoins, RunState
  <2>3. {j \in Joins : joins[j] = "approved"} \subseteq blessed
    BY DEF Vouched, Told
  <2>4. QED
    BY <2>1, <2>2, <2>3 DEF Served
<1>7. CASE Describe(n)
  <2> DEFINE e == run[n].engine
             cached == engines[e].described
             described == IF cached = Unknown THEN live ELSE cached
             when == IF described = live THEN "now" ELSE "before"
             next == [run[n] EXCEPT !.blocked = Blocked(described, run[n].columns),
                                    !.known = live, !.described = when, !.pc = "query"]
  <2>1. run[n] \in RunState /\ Served(run[n]) /\ run' = [run EXCEPT ![n] = next]
    BY <1>1, <1>2, <1>7 DEF Describe, RunAt
  <2>2. /\ next.joins = run[n].joins /\ next.columns = run[n].columns
        /\ next.known = live /\ next.described = when /\ next.pc = "query"
        /\ next.blocked = Blocked(described, run[n].columns)
    BY <2>1 DEF RunState
  <2>3. when = "now" => described = live
    OBVIOUS
  <2> HIDE DEF next, when, described
  <2>4. Served(next)
    BY <2>1, <2>2, <2>3 DEF Served, Shut, Blocked
  <2>5. QED
    BY <2>1, <2>4, <1>1
<1>8. CASE DescribeFails(n)
  <2>1. run[n] \in RunState /\ Served(run[n]) /\ run[n].pc = "describe"
    BY <1>1, <1>2, <1>8 DEF DescribeFails, RunAt
  <2>2. run[n].described # "now"
    BY <2>1 DEF Served
  <2>3. /\ \A m \in Runs \ {n} : run'[m] = run[m]
        /\ run'[n].joins = run[n].joins /\ run'[n].described = run[n].described
    BY <1>1, <1>8, <2>1 DEF DescribeFails, RunState
  <2>4. QED
    BY <2>1, <2>2, <2>3 DEF Served
<1>9. CASE RefuseRun(n) \/ FlushRefusal(n) \/ EndRun(n)
  <2> DEFINE next == [Idle EXCEPT !.pc = "refused"]
  <2>1. next.joins = {} /\ next.described = "no"
    BY DEF Idle
  <2>2. run' = [run EXCEPT ![n] = Idle] \/ run' = [run EXCEPT ![n] = next]
    BY <1>9 DEF RefuseRun, FlushRefusal, EndRun
  <2> HIDE DEF next
  <2>3. Served(next)
    BY <2>1 DEF Served
  <2>4. QED
    BY <1>1, <1>3, <2>2, <2>3
<1>10. CASE ExpireCache(n)
  BY <1>2, <1>10 DEF ExpireCache
<1>11. QED
  BY <1>4, <1>5, <1>6, <1>7, <1>8, <1>9, <1>10 DEF Work

LEMMA ServedStep ==
    ASSUME Vouched, [Next]_vars
    PROVE  JoinsWereApproved' /\ Opened'
<1>1. blessed \subseteq blessed'
  BY HistoryGrows
<1>2. \A n \in Runs : run[n] # NoRun => Served(run[n])
  BY DEF Vouched, Told, JoinsWereApproved, Opened, Served
<1>3. CASE UNCHANGED run
  BY <1>1, <1>3 DEF Vouched, Told, JoinsWereApproved, Opened
<1>4. ASSUME NEW n \in Runs, Work(n)
      PROVE  JoinsWereApproved' /\ Opened'
  <2>1. \A m \in Runs : run'[m] # NoRun => Served(run'[m])
    BY <1>2, <1>4, RunServed
  <2>2. QED
    BY <2>1, <1>1 DEF Served, JoinsWereApproved, Opened
<1>5. QED
  BY <1>3, <1>4 DEF Next, vars, AddColumn, Serve, Create, ReadConnection, ReadPassword, Refuse,
     Test, Verify, Profile, Inspect, Discover, SetRelationshipApproval, Correct, SetTableActive,
     ReadTable, ApproveTable, ReadStatus, CheckTables, ChangeStatus, FlushRow, Reconfigure,
     Invalidate, Die

(* Columns that are replaced take their approval with them.                 *)
LEMMA ReviewStep ==
    ASSUME Inv, ApprovedWasReviewed, [Next]_vars
    PROVE  ApprovedWasReviewed'
<1>1. races \subseteq races'
  BY HistoryGrows
<1>2. table \in Table \cup {NoRow} /\ NoRow \notin Table
  BY DataSourcesAssumption DEF Inv, Shape, TypeOK
<1>3. CASE UNCHANGED <<table, reviewed>>
  BY <1>1, <1>3 DEF ApprovedWasReviewed
<1>4. ASSUME NEW columns, Upsert(columns), UNCHANGED reviewed
      PROVE  ApprovedWasReviewed'
  <2>1. CASE table' = table
    BY <2>1, <1>3, <1>4
  <2>2. CASE table' = [columns |-> columns, active |-> TRUE, approved |-> FALSE]
    BY <2>2 DEF ApprovedWasReviewed
  <2>3. CASE table # NoRow /\ table' = [table EXCEPT !.columns = columns, !.approved = FALSE]
    <3>1. table'.approved = FALSE
      BY <2>3, <1>2 DEF Table
    <3>2. QED
      BY <3>1 DEF ApprovedWasReviewed
  <2>4. QED
    BY <1>4, <2>1, <2>2, <2>3 DEF Upsert
<1>5. ASSUME NEW r \in Requests, Serve(r)
      PROVE  ApprovedWasReviewed'
  <2>1. CASE Profile(r)
    BY <2>1, <1>4 DEF Profile, history
  <2>2. CASE \E c \in Columns, mark \in {"open", "excluded"} : Correct(r, c, mark)
    BY <2>2, <1>4 DEF Correct, history
  <2>3. CASE SetTableActive(r)
    <3>1. table \in Table /\ table' = [table EXCEPT !.active = ~@] /\ reviewed' = reviewed
      BY <2>3, <1>2 DEF SetTableActive, history
    <3>2. table'.columns = table.columns /\ table'.approved = table.approved
      BY <3>1 DEF Table
    <3>3. QED
      BY <3>1, <3>2, <1>1, <1>2 DEF ApprovedWasReviewed
  <2>4. CASE ApproveTable(r)
    <3>1. table # NoRow
      BY <2>4 DEF ApproveTable, At, Inv, Shape, Asked, Sound
    <3>2. CASE Exists
      <4>1. /\ table \in Table /\ table' = [table EXCEPT !.approved = TRUE]
            /\ reviewed' = request[r].columns
            /\ request[r].columns # table.columns => <<"review">> \in races'
        BY <2>4, <3>1, <3>2, <1>2 DEF ApproveTable
      <4>2. table'.columns = table.columns
        BY <4>1 DEF Table
      <4>3. QED
        BY <4>1, <4>2 DEF ApprovedWasReviewed
    <3>3. CASE ~Exists
      BY <2>4, <3>3, <1>3 DEF ApproveTable
    <3>4. QED
      BY <3>2, <3>3
  <2>5. QED
    BY <1>3, <1>5, <2>1, <2>2, <2>3, <2>4
    DEF Serve, Create, ReadConnection, ReadPassword, Refuse, Test, Verify, Inspect, Discover,
        SetRelationshipApproval, ReadTable, ReadStatus, CheckTables, ChangeStatus, FlushRow, Reconfigure,
        Invalidate, Die, catalog, history
<1>6. ASSUME NEW n \in Runs, Work(n)
      PROVE  ApprovedWasReviewed'
  BY <1>3, <1>6
  DEF Work, ListActive, Lookup, ResolvePassword, RefuseRun, FlushRefusal, Insert, ReadTables, ReadJoins,
      Describe, DescribeFails, EndRun, ExpireCache, catalog, history
<1>7. QED
  BY <1>3, <1>5, <1>6 DEF Next, AddColumn, vars, catalog, history

LEMMA VouchedInvariant == Spec => []Vouched
<1>1. Init => Vouched
  <2> SUFFICES ASSUME Init PROVE Vouched
    OBVIOUS
  <2>1. Verified
    BY DEF Init, Fresh, Onboarded, Verified, Settings
  <2>2. Told /\ Opened
    BY DEF Init, Told, JoinsWereApproved, Opened
  <2>3. ApprovedWasReviewed
    BY DEF Init, Fresh, Onboarded, ApprovedWasReviewed
  <2>4. QED
    BY <2>1, <2>2, <2>3, InitInv DEF Vouched
<1>2. ASSUME Vouched, [Next]_vars PROVE Vouched'
  <2>1. Inv' /\ Verified' /\ ApprovedWasReviewed'
    BY <1>2, Preserved, VerifiedStep, ReviewStep DEF Vouched
  <2>2. Told' /\ Opened'
    BY <1>2, JoinsStep, ServedStep DEF Vouched, Told
  <2>3. QED
    BY <2>1, <2>2 DEF Vouched
<1>3. QED
  BY <1>1, <1>2, PTL DEF Spec

(* An active source was verified with the settings it has, an approved      *)
(* table has the columns its reviewer read, and a run is told of joins a    *)
(* person approved and may name, of what its description showed, only what  *)
(* the catalog opens, whether or not the table is approved; but for the     *)
(* overlaps the history names (datasources/service.py, store.py, pool.py    *)
(* and tool_integration.py).                                                *)
THEOREM WhatIsServedIsVouchedFor == Spec => []VouchedFor
<1>1. ASSUME Vouched PROVE VouchedFor
  <2>1. ActiveWasVerified
    BY <1>1 DEF Vouched, Verified, ActiveWasVerified
  <2>2. ReadableWasOpen
    BY <1>1 DEF Vouched, Opened, Shut, ReadableWasOpen, Readable
  <2>3. QED
    BY <1>1, <2>1, <2>2 DEF Vouched, Told, VouchedFor
<1>2. QED
  BY <1>1, VouchedInvariant, PTL

-----------------------------------------------------------------------------
(* Natural numbers                                                           *)

LEMMA LeastOf ==
    ASSUME NEW T \in SUBSET Nat, T # {}
    PROVE  \E n \in T : \A m \in T : n <= m
<1> DEFINE R == OpToRel(<, Nat)
<1>1. \A x, y \in Nat : <<x, y>> \in R <=> x < y
  BY DEF OpToRel
<1>2. IsWellFoundedOn(R, Nat)
  BY NatLessThanWellFounded
<1> HIDE DEF R
<1>3. PICK n \in T : \A m \in T : ~(<<m, n>> \in R)
  BY <1>2, WFMin
<1>4. \A m \in T : n <= m
  <2> TAKE m \in T
  <2>1. ~(m < n)
    BY <1>1, <1>3
  <2>2. QED
    BY <2>1
<1>5. QED
  BY <1>4

(* What holds of 0, and of n + 1 whenever it holds of n                      *)
LEMMA Induction ==
    ASSUME NEW S, 0 \in S, \A n \in Nat : n \in S => n + 1 \in S
    PROVE  \A n \in Nat : n \in S
<1> DEFINE T == {n \in Nat : n \notin S}
<1> SUFFICES ASSUME T # {} PROVE FALSE
  OBVIOUS
<1>1. PICK n \in T : \A m \in T : n <= m
  <2>1. T \in SUBSET Nat
    OBVIOUS
  <2> HIDE DEF T
  <2>2. QED
    BY <2>1, LeastOf
<1>2. n # 0 /\ n - 1 \in Nat /\ n - 1 \notin T
  BY <1>1
<1>3. QED
  BY <1>1, <1>2


LEMMA LeastIs ==
    ASSUME NEW T \in SUBSET Nat, T # {}
    PROVE  Min(T) \in T /\ \A m \in T : Min(T) <= m
BY LeastOf DEF Min

LEMMA LesserOfTwo ==
    ASSUME NEW a \in Nat, NEW b \in Nat
    PROVE  Min({a, b}) = IF a <= b THEN a ELSE b
<1> DEFINE Least2(x) == x \in {a, b} /\ \A y \in {a, b} : x <= y
           lesser == IF a <= b THEN a ELSE b
<1>1. Min({a, b}) = CHOOSE x : Least2(x)
  BY DEF Min
<1>2. \A x : Least2(x) <=> x = lesser
  OBVIOUS
<1> HIDE DEF Least2, lesser
<1>3. (CHOOSE x : Least2(x)) = lesser
  BY <1>2
<1>4. QED
  BY <1>1, <1>3 DEF lesser

LEMMA MaxOfTwo ==
    ASSUME NEW a \in Nat, NEW b \in Nat
    PROVE  Max({a, b}) = IF a <= b THEN b ELSE a
<1> DEFINE Greatest(x) == x \in {a, b} /\ \A y \in {a, b} : x >= y
           greater == IF a <= b THEN b ELSE a
<1>1. Max({a, b}) = CHOOSE x : Greatest(x)
  BY DEF Max
<1>2. \A x : Greatest(x) <=> x = greater
  OBVIOUS
<1> HIDE DEF Greatest, greater
<1>3. (CHOOSE x : Greatest(x)) = greater
  BY <1>2
<1>4. QED
  BY <1>1, <1>3 DEF greater

(* A function that starts at a and takes a step for each of 1..n *)
Steps(f, a, step, n) == f[0] = a /\ \A i \in 1..n : f[i] = step[i][f[i - 1]]

LEMMA StepsExist ==
    ASSUME NEW X, NEW a \in X, NEW n \in Nat, NEW step \in [1..n -> [X -> X]]
    PROVE  \E f \in [0..n -> X] : Steps(f, a, step, n)
<1> USE DEF Steps
<1> DEFINE Goes(f, m) == f[0] = a /\ \A i \in 1..m : f[i] = step[i][f[i - 1]]
           Good(m) == \E f \in [0..m -> X] : Goes(f, m)
           T == {m \in Nat : m <= n => Good(m)}
<1>1. 0 \in T
  <2>1. PICK f : f = [i \in 0..0 |-> a]
    OBVIOUS
  <2>2. f \in [0..0 -> X] /\ Goes(f, 0)
    BY <2>1
  <2>3. QED
    BY <2>2
<1>2. ASSUME NEW m \in Nat, m \in T PROVE m + 1 \in T
  <2> SUFFICES ASSUME m + 1 <= n PROVE Good(m + 1)
    OBVIOUS
  <2>1. PICK f \in [0..m -> X] : Goes(f, m)
    BY <1>2
  <2> DEFINE last == step[m + 1][f[m]]
             g == [i \in 0..(m + 1) |-> IF i = m + 1 THEN last ELSE f[i]]
  <2>2. f[m] \in X /\ m + 1 \in 1..n
    OBVIOUS
  <2>3. last \in X
    BY <2>2
  <2>4. g \in [0..(m + 1) -> X]
    <3> HIDE DEF last
    <3>1. QED
      BY <2>3
  <2>5. /\ \A i \in 0..m : g[i] = f[i]
        /\ g[m + 1] = last
    <3> HIDE DEF last
    <3>1. QED
      OBVIOUS
  <2> HIDE DEF g
  <2>6. Goes(g, m + 1)
    <3>1. g[0] = a
      BY <2>1, <2>5
    <3>2. ASSUME NEW i \in 1..(m + 1) PROVE g[i] = step[i][g[i - 1]]
      <4>1. i - 1 \in 0..m /\ g[i - 1] = f[i - 1]
        BY <2>5
      <4>2. CASE i = m + 1
        <5>1. g[i] = last /\ i - 1 = m
          BY <2>5, <4>2
        <5>2. QED
          BY <4>1, <4>2, <5>1
      <4>3. CASE i # m + 1
        <5>1. i \in 1..m /\ i \in 0..m
          BY <4>3
        <5>2. QED
          BY <2>1, <2>5, <4>1, <5>1
      <4>4. QED
        BY <4>2, <4>3
    <3>3. QED
      BY <3>1, <3>2
  <2>7. QED
    BY <2>4, <2>6
<1> HIDE DEF Good
<1>3. \A m \in Nat : m \in T
  <2> HIDE DEF T
  <2>1. QED
    BY <1>1, <1>2, Induction
<1>4. QED
  BY <1>3 DEF Good

(* Two recursive definitions with the same steps are of one function.        *)
SameSteps(f, h, n) == f[0] = h[0] /\ \A i \in 1..n : f[i - 1] = h[i - 1] => f[i] = h[i]

LEMMA Agree ==
    ASSUME NEW n \in Nat, NEW f, NEW h, SameSteps(f, h, n)
    PROVE  \A i \in 0..n : f[i] = h[i]
<1> USE DEF SameSteps
<1> DEFINE T == {i \in Nat : i \in 0..n => f[i] = h[i]}
<1>1. 0 \in T
  OBVIOUS
<1>2. ASSUME NEW i \in Nat, i \in T PROVE i + 1 \in T
  <2> SUFFICES ASSUME i + 1 \in 0..n PROVE f[i + 1] = h[i + 1]
    OBVIOUS
  <2>1. i + 1 \in 1..n /\ (i + 1) - 1 = i /\ i \in 0..n
    OBVIOUS
  <2>2. f[i] = h[i]
    BY <1>2, <2>1
  <2>3. f[(i + 1) - 1] = h[(i + 1) - 1] => f[i + 1] = h[i + 1]
    BY <2>1
  <2>4. QED
    BY <2>1, <2>2, <2>3
<1>3. \A i \in Nat : i \in T
  <2> HIDE DEF T
  <2>1. QED
    BY <1>1, <1>2, Induction
<1>4. QED
  BY <1>3

-----------------------------------------------------------------------------
(* Questions                                                                 *)

(* A question has the parts its topic asks for, taken from the instance.     *)
Put(q) ==
    /\ q.of = "recall" => q.store \in Stores /\ q.request \in RecallRequests
    /\ q.of = "memory" => q.runs \in RunHistories
    /\ q.of = "delegate" => q.batch \in RequestBatches
    /\ q.of = "trace" => q.calls \in CallHistories
    /\ q.of = "output" => q.output \in Outputs

LEMMA PutFirst == QuestionInit => Put(asked)
BY DEF QuestionInit, Nothing, Put

LEMMA PutNext == ASSUME [QuestionNext]_questionVars, Put(asked) PROVE Put(asked)'
<1>1. CASE AskSchedule BY <1>1 DEF AskSchedule, Put
<1>2. CASE AskPeriod BY <1>2 DEF AskPeriod, Put
<1>3. CASE AskOrders BY <1>3 DEF AskOrders, Put
<1>4. CASE AskAttainment BY <1>4 DEF AskAttainment, Put
<1>5. CASE AskOthers BY <1>5 DEF AskOthers, Put
<1>6. CASE AskCompile BY <1>6 DEF AskCompile, Put
<1>7. CASE AskExecute BY <1>7 DEF AskExecute, Put
<1>8. CASE AskLayout BY <1>8 DEF AskLayout, Put
<1>9. CASE AskDocument BY <1>9 DEF AskDocument, Put
<1>10. CASE AskGuard BY <1>10 DEF AskGuard, Put
<1>11. CASE AskFiles BY <1>11 DEF AskFiles, Put
<1>12. CASE AskCapture BY <1>12 DEF AskCapture, Put
<1>13. CASE AskRecall BY <1>13 DEF AskRecall, Put
<1>14. CASE AskMemory BY <1>14 DEF AskMemory, Put
<1>15. CASE AskDelegate BY <1>15 DEF AskDelegate, Put
<1>16. CASE AskPrice BY <1>16 DEF AskPrice, Put
<1>17. CASE AskContext BY <1>17 DEF AskContext, Put
<1>18. CASE AskCall BY <1>18 DEF AskCall, CallsOf, Put
<1>19. CASE AskAttempts BY <1>19 DEF AskAttempts, Put
<1>20. CASE AskProcess BY <1>20 DEF AskProcess, Put
<1>21. CASE AskCatalog BY <1>21 DEF AskCatalog, Put
<1>22. CASE AskJoins BY <1>22 DEF AskJoins, Put
<1>23. CASE AskTrace BY <1>23 DEF AskTrace, Put
<1>24. CASE AskOutput BY <1>24 DEF AskOutput, Put
<1>25. CASE Answered BY <1>25 DEF Answered, Nothing, Put
<1>26. CASE UNCHANGED questionVars BY <1>26 DEF questionVars
<1>27. QED
  BY <1>1, <1>2, <1>3, <1>4, <1>5, <1>6, <1>7, <1>8, <1>9, <1>10, <1>11, <1>12, <1>13,
     <1>14, <1>15, <1>16, <1>17, <1>18, <1>19, <1>20, <1>21, <1>22, <1>23, <1>24, <1>25, <1>26
     DEF QuestionNext

(* Every question of a behaviour is such a question.                         *)
LEMMA AlwaysPut == QuestionSpec => []Put(asked)
BY PutFirst, PutNext, PTL DEF QuestionSpec

-----------------------------------------------------------------------------
(* What memory keeps of completed runs *)

(* A value occurs in a sequence. *)
Kept(s, x) == \E i \in DOMAIN s : s[i] = x

LEMMA KeptAppend ==
    ASSUME NEW S, NEW s \in Seq(S), NEW e \in S, NEW x
    PROVE  Kept(Append(s, e), x) <=> Kept(s, x) \/ e = x
<1>1. Len(s) \in Nat /\ DOMAIN s = 1..Len(s)
  BY LenProperties
<1>2. /\ Append(s, e) \in Seq(S) /\ Len(Append(s, e)) = Len(s) + 1
      /\ \A i \in 1..Len(s) : Append(s, e)[i] = s[i]
      /\ Append(s, e)[Len(s) + 1] = e
  BY AppendProperties
<1>3. DOMAIN Append(s, e) = 1..(Len(s) + 1)
  BY <1>2, LenProperties
<1>4. \A i : i \in 1..(Len(s) + 1) <=> i \in 1..Len(s) \/ i = Len(s) + 1
  BY <1>1
<1>5. QED
  BY <1>1, <1>2, <1>3, <1>4 DEF Kept

(* The chosen of the first i elements, for every i *)
Choosing(f, s, indices, n) ==
    \A i \in 0..n : f[i] = IF i = 0 THEN <<>> ELSE IF i \in indices THEN Append(f[i - 1], s[i]) ELSE f[i - 1]

LEMMA ChoosingExist ==
    ASSUME NEW S, NEW s, NEW n \in Nat, \A i \in 1..n : s[i] \in S, NEW indices
    PROVE  \E f \in [0..n -> Seq(S)] : Choosing(f, s, indices, n)
<1> DEFINE Good(m) == \E f \in [0..m -> Seq(S)] : Choosing(f, s, indices, m)
           T == {m \in Nat : m <= n => Good(m)}
<1>1. 0 \in T
  <2>1. PICK f : f = [i \in 0..0 |-> <<>>]
    OBVIOUS
  <2>2. f \in [0..0 -> Seq(S)] /\ Choosing(f, s, indices, 0)
    BY <2>1 DEF Choosing
  <2>3. QED
    BY <2>2
<1>2. ASSUME NEW m \in Nat, m \in T PROVE m + 1 \in T
  <2> SUFFICES ASSUME m + 1 <= n PROVE Good(m + 1)
    OBVIOUS
  <2>1. PICK f \in [0..m -> Seq(S)] : Choosing(f, s, indices, m)
    BY <1>2
  <2>2. f[m] \in Seq(S) /\ s[m + 1] \in S
    OBVIOUS
  <2> DEFINE last == IF m + 1 \in indices THEN Append(f[m], s[m + 1]) ELSE f[m]
             g == [i \in 0..(m + 1) |-> IF i = m + 1 THEN last ELSE f[i]]
  <2>3. last \in Seq(S)
    BY <2>2, AppendProperties
  <2>4. g \in [0..(m + 1) -> Seq(S)]
    <3> HIDE DEF last
    <3>1. QED
      BY <2>3
  <2>5. Choosing(g, s, indices, m + 1)
    <3> SUFFICES ASSUME NEW i \in 0..(m + 1)
                 PROVE  g[i] = IF i = 0 THEN <<>> ELSE IF i \in indices THEN Append(g[i - 1], s[i]) ELSE g[i - 1]
      BY DEF Choosing
    <3>1. CASE i = m + 1
      <4>1. g[m] = f[m] /\ i # 0 /\ i - 1 = m
        BY <3>1
      <4>2. QED
        BY <3>1, <4>1
    <3>2. CASE i # m + 1
      <4>1. i \in 0..m /\ g[i] = f[i] /\ (i # 0 => g[i - 1] = f[i - 1])
        BY <3>2
      <4>2. QED
        BY <2>1, <4>1 DEF Choosing
    <3>3. QED
      BY <3>1, <3>2
  <2>6. QED
    BY <2>4, <2>5
<1> HIDE DEF Good
<1>3. \A m \in Nat : m \in T
  <2> HIDE DEF T
  <2>1. QED
    BY <1>1, <1>2, Induction
<1>4. QED
  BY <1>3 DEF Good

(* The first n elements and the indices among them are the same *)
SameChoice(s, t, I, J, n) == \A i \in 1..n : (i \in I <=> i \in J) /\ s[i] = t[i]

LEMMA ChoosingAgree ==
    ASSUME NEW f, NEW g, NEW s, NEW t, NEW I, NEW J, NEW n \in Nat,
           Choosing(f, s, I, n), Choosing(g, t, J, n), SameChoice(s, t, I, J, n)
    PROVE  \A i \in 0..n : f[i] = g[i]
<1> USE DEF SameChoice
<1> DEFINE T == {i \in Nat : i \in 0..n => f[i] = g[i]}
<1>1. 0 \in T
  BY DEF Choosing
<1>2. ASSUME NEW i \in Nat, i \in T PROVE i + 1 \in T
  <2> SUFFICES ASSUME i + 1 \in 0..n PROVE f[i + 1] = g[i + 1]
    OBVIOUS
  <2>1. f[i] = g[i] /\ i + 1 # 0 /\ (i + 1) - 1 = i /\ i + 1 \in 1..n
    BY <1>2
  <2>2. f[i + 1] = IF i + 1 \in I THEN Append(f[i], s[i + 1]) ELSE f[i]
    BY <2>1 DEF Choosing
  <2>3. g[i + 1] = IF i + 1 \in J THEN Append(g[i], t[i + 1]) ELSE g[i]
    BY <2>1 DEF Choosing
  <2>4. QED
    BY <2>1, <2>2, <2>3
<1>3. \A i \in Nat : i \in T
  <2> HIDE DEF T
  <2>1. QED
    BY <1>1, <1>2, Induction
<1>4. QED
  BY <1>3

LEMMA ChosenIs ==
    ASSUME NEW S, NEW s \in Seq(S), NEW indices
    PROVE  \E f \in [0..Len(s) -> Seq(S)] : Choosing(f, s, indices, Len(s)) /\ Chosen(s, indices) = f[Len(s)]
<1> DEFINE n == Len(s)
           Defines(g) == g = [i \in 0..n |-> IF i = 0 THEN <<>> ELSE IF i \in indices THEN Append(g[i - 1], s[i]) ELSE g[i - 1]]
           h == CHOOSE g : Defines(g)
<1>1. n \in Nat /\ \A i \in 1..n : s[i] \in S
  BY LenProperties, ElementOfSeq
<1>2. Chosen(s, indices) = h[n]
  BY DEF Chosen
<1> HIDE DEF n
<1>3. PICK f \in [0..n -> Seq(S)] : Choosing(f, s, indices, n)
  BY <1>1, ChoosingExist
<1>4. Defines(f)
  <2>1. \A i \in 0..n : f[i] = IF i = 0 THEN <<>> ELSE IF i \in indices THEN Append(f[i - 1], s[i]) ELSE f[i - 1]
    BY <1>3 DEF Choosing
  <2>2. QED
    BY <2>1
<1>5. Defines(h)
  <2> HIDE DEF Defines
  <2>1. QED
    BY <1>4
<1>6. Choosing(h, s, indices, n)
  <2> HIDE DEF h
  <2>1. QED
    BY <1>5 DEF Choosing
<1>7. h[n] = f[n]
  <2> HIDE DEF h
  <2>1. n \in 0..n
    BY <1>1
  <2>2. SameChoice(s, s, indices, indices, n)
    BY DEF SameChoice
  <2>3. QED
    BY <1>1, <1>3, <1>6, <2>1, <2>2, ChoosingAgree
<1>8. QED
  <2> HIDE DEF h
  <2>1. QED
    BY <1>2, <1>3, <1>7 DEF n

(* The chosen are the elements at those indices. *)
LEMMA ChosenRange ==
    ASSUME NEW S, NEW s \in Seq(S), NEW indices
    PROVE  /\ Chosen(s, indices) \in Seq(S)
           /\ \A x : Kept(Chosen(s, indices), x) <=> \E i \in DOMAIN s : i \in indices /\ s[i] = x
<1> DEFINE n == Len(s)
<1>1. n \in Nat /\ DOMAIN s = 1..n /\ \A i \in 1..n : s[i] \in S
  BY LenProperties, ElementOfSeq
<1>2. PICK f \in [0..n -> Seq(S)] : Choosing(f, s, indices, n) /\ Chosen(s, indices) = f[n]
  BY ChosenIs
<1> HIDE DEF n
<1> DEFINE T == {m \in Nat : m <= n => \A x : Kept(f[m], x) <=> \E i \in 1..m : i \in indices /\ s[i] = x}
<1>3. 0 \in T
  <2>1. f[0] = <<>> /\ DOMAIN <<>> = {} /\ 1..0 = {}
    BY <1>1, <1>2 DEF Choosing
  <2>2. \A x : ~Kept(f[0], x)
    BY <2>1 DEF Kept
  <2>3. QED
    BY <2>1, <2>2
<1>4. ASSUME NEW m \in Nat, m \in T PROVE m + 1 \in T
  <2> SUFFICES ASSUME m + 1 <= n, NEW x
               PROVE  Kept(f[m + 1], x) <=> \E i \in 1..(m + 1) : i \in indices /\ s[i] = x
    OBVIOUS
  <2>1. m \in 0..n /\ m + 1 \in 0..n /\ m + 1 # 0 /\ (m + 1) - 1 = m /\ m + 1 \in 1..n /\ m <= n
    BY <1>1
  <2>2. f[m] \in Seq(S) /\ s[m + 1] \in S
    BY <1>1, <2>1
  <2>3. Kept(f[m], x) <=> \E i \in 1..m : i \in indices /\ s[i] = x
    BY <1>4, <2>1
  <2>4. f[m + 1] = IF m + 1 \in indices THEN Append(f[m], s[m + 1]) ELSE f[m]
    BY <1>2, <2>1 DEF Choosing
  <2>5. (\E i \in 1..(m + 1) : i \in indices /\ s[i] = x)
          <=> (\E i \in 1..m : i \in indices /\ s[i] = x) \/ (m + 1 \in indices /\ s[m + 1] = x)
    <3>1. \A i : i \in 1..(m + 1) <=> i \in 1..m \/ i = m + 1
      OBVIOUS
    <3>2. QED
      BY <3>1
  <2>6. Kept(Append(f[m], s[m + 1]), x) <=> Kept(f[m], x) \/ s[m + 1] = x
    BY <2>2, KeptAppend
  <2>7. QED
    BY <2>3, <2>4, <2>5, <2>6
<1>5. \A m \in Nat : m \in T
  <2> HIDE DEF T
  <2>1. QED
    BY <1>3, <1>4, Induction
<1>6. f[n] \in Seq(S) /\ n <= n
  <2>1. n \in 0..n
    BY <1>1
  <2>2. QED
    BY <1>1, <2>1
<1>7. QED
  BY <1>1, <1>2, <1>5, <1>6

(* One more element is chosen or not, the others as before. *)
LEMMA ChosenAppend ==
    ASSUME NEW S, NEW s \in Seq(S), NEW e \in S, NEW I, NEW J,
           \A i \in 1..Len(s) : i \in I <=> i \in J
    PROVE  Chosen(Append(s, e), J) =
              IF Len(s) + 1 \in J THEN Append(Chosen(s, I), e) ELSE Chosen(s, I)
<1> DEFINE size == Len(s)
           longer == Append(s, e)
<1>1. /\ size \in Nat /\ longer \in Seq(S) /\ Len(longer) = size + 1
      /\ \A i \in 1..size : longer[i] = s[i]
      /\ longer[size + 1] = e
  BY LenProperties, AppendProperties
<1>2. PICK f \in [0..size -> Seq(S)] : Choosing(f, s, I, size) /\ Chosen(s, I) = f[size]
  BY ChosenIs
<1> HIDE DEF longer
<1>3. PICK g \in [0..Len(longer) -> Seq(S)] : Choosing(g, longer, J, Len(longer)) /\ Chosen(longer, J) = g[Len(longer)]
  BY <1>1, ChosenIs
<1>4. \A i \in 1..size : i \in I <=> i \in J
  OBVIOUS
<1> HIDE DEF size
<1>5. Choosing(g, longer, J, size)
  <2>1. \A i \in 0..size : i \in 0..Len(longer)
    BY <1>1
  <2>2. QED
    BY <1>3, <2>1 DEF Choosing
<1>6. f[size] = g[size]
  <2>0. /\ size \in Nat /\ Choosing(f, s, I, size) /\ Choosing(g, longer, J, size)
        /\ SameChoice(s, longer, I, J, size)
    BY <1>1, <1>2, <1>4, <1>5 DEF SameChoice
  <2>1. \A i \in 0..size : f[i] = g[i]
    BY <2>0, ChoosingAgree, SMTT(60)
  <2>2. size \in 0..size
    BY <1>1
  <2>3. QED
    BY <2>1, <2>2
<1>7. size + 1 \in 0..Len(longer) /\ size + 1 # 0 /\ (size + 1) - 1 = size
  BY <1>1
<1>8. g[size + 1] = IF size + 1 \in J THEN Append(g[size], e) ELSE g[size]
  BY <1>1, <1>3, <1>7 DEF Choosing
<1>9. QED
  BY <1>1, <1>2, <1>3, <1>6, <1>8 DEF longer, size

(* What of a sequence is of a workspace *)
Of(s, w) == Chosen(s, {i \in DOMAIN s : s[i].workspace = w})

LEMMA OfRange ==
    ASSUME NEW S, NEW s \in Seq(S), NEW w
    PROVE  /\ Of(s, w) \in Seq(S)
           /\ \A x : Kept(Of(s, w), x) <=> Kept(s, x) /\ x.workspace = w
<1> DEFINE I == {i \in DOMAIN s : s[i].workspace = w}
<1>1. \A i : i \in I <=> i \in DOMAIN s /\ s[i].workspace = w
  OBVIOUS
<1>2. Of(s, w) = Chosen(s, I)
  BY DEF Of
<1> HIDE DEF I
<1>3. /\ Chosen(s, I) \in Seq(S)
      /\ \A x : Kept(Chosen(s, I), x) <=> \E i \in DOMAIN s : i \in I /\ s[i] = x
  BY ChosenRange
<1>4. \A x : (\E i \in DOMAIN s : i \in I /\ s[i] = x) <=> Kept(s, x) /\ x.workspace = w
  BY <1>1 DEF Kept
<1>5. QED
  BY <1>2, <1>3, <1>4

LEMMA OfEmpty == ASSUME NEW w PROVE Of(<<>>, w) = <<>>
<1> DEFINE I == {i \in DOMAIN <<>> : <<>>[i].workspace = w}
<1>1. Of(<<>>, w) = Chosen(<<>>, I)
  BY DEF Of
<1> HIDE DEF I
<1>2. <<>> \in Seq({}) /\ Len(<<>>) = 0
  BY EmptySeq
<1>3. PICK f \in [0..Len(<<>>) -> Seq({})] : Choosing(f, <<>>, I, Len(<<>>)) /\ Chosen(<<>>, I) = f[Len(<<>>)]
  BY <1>2, ChosenIs
<1>4. f[0] = <<>>
  BY <1>2, <1>3 DEF Choosing
<1>5. QED
  BY <1>1, <1>2, <1>3, <1>4

LEMMA OfAppend ==
    ASSUME NEW S, NEW s \in Seq(S), NEW e \in S, NEW w
    PROVE  Of(Append(s, e), w) = IF e.workspace = w THEN Append(Of(s, w), e) ELSE Of(s, w)
<1> DEFINE I == {i \in DOMAIN s : s[i].workspace = w}
           J == {i \in DOMAIN Append(s, e) : Append(s, e)[i].workspace = w}
<1>1. Of(s, w) = Chosen(s, I) /\ Of(Append(s, e), w) = Chosen(Append(s, e), J)
  BY DEF Of
<1>2. /\ Len(s) \in Nat /\ DOMAIN s = 1..Len(s)
      /\ Append(s, e) \in Seq(S) /\ Len(Append(s, e)) = Len(s) + 1
      /\ \A i \in 1..Len(s) : Append(s, e)[i] = s[i]
      /\ Append(s, e)[Len(s) + 1] = e
  BY LenProperties, AppendProperties
<1>3. DOMAIN Append(s, e) = 1..(Len(s) + 1)
  BY <1>2, LenProperties
<1>4. \A i \in 1..Len(s) : i \in 1..(Len(s) + 1)
  BY <1>2
<1>5. \A i \in 1..Len(s) : i \in I <=> i \in J
  BY <1>2, <1>3, <1>4
<1>6. Len(s) + 1 \in J <=> e.workspace = w
  <2>1. Len(s) + 1 \in 1..(Len(s) + 1)
    BY <1>2
  <2>2. QED
    BY <1>2, <1>3, <2>1
<1> HIDE DEF I, J
<1>7. Chosen(Append(s, e), J) = IF Len(s) + 1 \in J THEN Append(Chosen(s, I), e) ELSE Chosen(s, I)
  BY <1>5, ChosenAppend
<1>8. QED
  BY <1>1, <1>6, <1>7

(* The texts, memories, candidates and runs of some workspaces and words      *)
Memory(workspaces, words) == [workspace : workspaces, type : {"long_term", "episodic"}, text : MemoryText(words)]
Extracted(words) == [type : {"long_term", "episodic"}, text : MemoryText(words)]
LEMMA ExtractIsTyped ==
    ASSUME NEW U, NEW W, NEW ended \in CompletedRun(W, U)
    PROVE  Extract(ended) \in Seq(Extracted(U))
<1> DEFINE I == {i \in DOMAIN ended.decisions : ~ended.decisions[i].blank}
           decided == Chosen(ended.decisions, I)
           first == [i \in DOMAIN decided |-> [type |-> "long_term", text |-> decided[i]]]
           second == IF ended.answer.outcome THEN <<[type |-> "episodic", text |-> ended.answer]>> ELSE <<>>
<1>1. ended.decisions \in Seq(MemoryText(U)) /\ ended.answer \in MemoryText(U)
  BY DEF CompletedRun
<1>2. decided \in Seq(MemoryText(U))
  <2> HIDE DEF I
  <2>1. QED
    BY <1>1, ChosenRange
<1>3. Extract(ended) = IF ~ended.completed THEN <<>> ELSE first \o second
  BY DEF Extract
<1> HIDE DEF decided
<1>4. first \in Seq(Extracted(U))
  <2>1. Len(decided) \in Nat /\ DOMAIN decided = 1..Len(decided) /\ \A i \in 1..Len(decided) : decided[i] \in MemoryText(U)
    BY <1>2, LenProperties, ElementOfSeq
  <2>2. ASSUME NEW i \in 1..Len(decided) PROVE [type |-> "long_term", text |-> decided[i]] \in Extracted(U)
    BY <2>1 DEF Extracted
  <2>3. first \in [1..Len(decided) -> Extracted(U)]
    BY <2>1, <2>2
  <2> HIDE DEF first
  <2>4. QED
    BY <2>1, <2>3, IsASeq
<1>5. second \in Seq(Extracted(U))
  <2>1. [type |-> "episodic", text |-> ended.answer] \in Extracted(U)
    BY <1>1 DEF Extracted
  <2>2. QED
    BY <2>1
<1> HIDE DEF first, second
<1>6. first \o second \in Seq(Extracted(U)) /\ <<>> \in Seq(Extracted(U))
  BY <1>4, <1>5, ConcatProperties, EmptySeq
<1>7. QED
  BY <1>3, <1>6

LEMMA ConsiderIsTyped ==
    ASSUME NEW U, NEW W, NEW s \in Seq(Memory(W, U)), NEW v \in W, NEW c \in Extracted(U)
    PROVE  Consider(s, v, c) \in Seq(Memory(W, U))
<1> DEFINE m == [workspace |-> v, type |-> c.type, text |-> c.text]
<1>1. m \in Memory(W, U)
  BY DEF Memory, Extracted
<1>2. Consider(s, v, c) = s \/ Consider(s, v, c) = Append(s, m)
  BY DEF Consider
<1> HIDE DEF m
<1>3. Append(s, m) \in Seq(Memory(W, U))
  BY <1>1, AppendProperties
<1>4. QED
  BY <1>2, <1>3

(* Considering candidates one after the other *)
Considering(f, s, v, cs, n) ==
    f[0] = s /\ \A i \in 1..n : f[i] = Consider(f[i - 1], v, cs[i])

LEMMA ConsideredIs ==
    ASSUME NEW U, NEW W, NEW s \in Seq(Memory(W, U)), NEW v \in W, NEW cs \in Seq(Extracted(U))
    PROVE  \E f \in [0..Len(cs) -> Seq(Memory(W, U))] :
              Considering(f, s, v, cs, Len(cs)) /\ Considered(s, v, cs) = f[Len(cs)]
<1> DEFINE n == Len(cs)
           X == Seq(Memory(W, U))
           step == [i \in 1..n |-> [x \in X |-> Consider(x, v, cs[i])]]
           Defines(g) == g = [i \in 0..n |-> IF i = 0 THEN s ELSE Consider(g[i - 1], v, cs[i])]
           h == CHOOSE g : Defines(g)
<1>1. n \in Nat /\ \A i \in 1..n : cs[i] \in Extracted(U)
  BY LenProperties, ElementOfSeq
<1>2. Considered(s, v, cs) = h[n]
  BY DEF Considered
<1> HIDE DEF n
<1>3. step \in [1..n -> [X -> X]]
  <2>1. ASSUME NEW i \in 1..n, NEW x \in X PROVE Consider(x, v, cs[i]) \in X
    BY <1>1, ConsiderIsTyped
  <2>2. QED
    BY <2>1
<1>4. \A x \in X : \A i \in 1..n : step[i][x] = Consider(x, v, cs[i])
  OBVIOUS
<1>5. s \in X /\ n \in Nat
  BY <1>1
<1> HIDE DEF X, step
<1>6. PICK f \in [0..n -> X] : Steps(f, s, step, n)
  BY <1>3, <1>5, StepsExist
<1>7. ASSUME NEW i \in 1..n PROVE f[i] = Consider(f[i - 1], v, cs[i])
  <2>1. i - 1 \in 0..n
    BY <1>1
  <2>2. QED
    BY <1>4, <1>6, <2>1 DEF Steps
<1>8. Defines(f)
  <2>1. ASSUME NEW i \in 0..n PROVE f[i] = IF i = 0 THEN s ELSE Consider(f[i - 1], v, cs[i])
    <3>1. CASE i = 0
      BY <1>6, <3>1 DEF Steps
    <3>2. CASE i # 0
      <4>1. i \in 1..n
        BY <1>1, <3>2
      <4>2. QED
        BY <1>7, <3>2, <4>1
    <3>3. QED
      BY <3>1, <3>2
  <2>2. QED
    BY <2>1
<1>9. Defines(h)
  <2> HIDE DEF Defines
  <2>1. QED
    BY <1>8
<1> HIDE DEF h
<1>10. h[0] = s /\ \A i \in 1..n : h[i] = Consider(h[i - 1], v, cs[i])
  <2>1. 0 \in 0..n /\ \A i \in 1..n : i \in 0..n /\ i # 0
    BY <1>1
  <2>2. QED
    BY <1>9, <2>1
<1>11. \A i \in Nat : i \in {j \in Nat : j \in 0..n => h[j] = f[j]}
  <2> DEFINE T == {j \in Nat : j \in 0..n => h[j] = f[j]}
  <2>1. 0 \in T
    BY <1>1, <1>6, <1>10 DEF Steps
  <2>2. ASSUME NEW j \in Nat, j \in T PROVE j + 1 \in T
    <3>1. ASSUME j + 1 \in 0..n PROVE h[j + 1] = f[j + 1]
      <4>1. j + 1 \in 1..n /\ j \in 0..n /\ (j + 1) - 1 = j
        BY <3>1, <1>1
      <4>2. h[j] = f[j]
        BY <2>2, <4>1
      <4>3. QED
        BY <1>7, <1>10, <4>1, <4>2
    <3>2. QED
      BY <3>1
  <2>3. QED
    <3> HIDE DEF T
    <3>1. \A j \in Nat : j \in T
      BY <2>1, <2>2, Induction
    <3>2. QED
      BY <3>1 DEF T
<1>12. h[n] = f[n]
  BY <1>1, <1>11
<1>13. QED
  BY <1>2, <1>6, <1>7, <1>12 DEF Considering, Steps, X, n

LEMMA CaptureIsTyped ==
    ASSUME NEW U, NEW W, NEW s \in Seq(Memory(W, U)), NEW ended \in CompletedRun(W, U)
    PROVE  CaptureCompletedRun(s, ended) \in Seq(Memory(W, U))
<1> DEFINE cs == Extract(ended)
           v == ended.workspace
<1>1. cs \in Seq(Extracted(U))
  BY ExtractIsTyped
<1>2. v \in W
  BY DEF CompletedRun
<1>3. CaptureCompletedRun(s, ended) = s \/ CaptureCompletedRun(s, ended) = Considered(s, v, cs)
  BY DEF CaptureCompletedRun
<1> HIDE DEF cs, v
<1>4. PICK f \in [0..Len(cs) -> Seq(Memory(W, U))] :
          Considering(f, s, v, cs, Len(cs)) /\ Considered(s, v, cs) = f[Len(cs)]
  BY <1>1, <1>2, ConsideredIs
<1>5. Len(cs) \in 0..Len(cs)
  <2>1. Len(cs) \in Nat
    BY <1>1, LenProperties
  <2>2. QED
    BY <2>1
<1>6. QED
  BY <1>3, <1>4, <1>5

(* Capturing one run after the other *)
Capturing(f, runs, n) ==
    f[0] = <<>> /\ \A i \in 1..n : f[i] = CaptureCompletedRun(f[i - 1], runs[i])

LEMMA CapturingAgree ==
    ASSUME NEW f, NEW g, NEW runs, NEW n \in Nat, Capturing(f, runs, n), Capturing(g, runs, n)
    PROVE  \A i \in 0..n : f[i] = g[i]
<1> DEFINE T == {i \in Nat : i \in 0..n => f[i] = g[i]}
<1>1. 0 \in T
  BY DEF Capturing
<1>2. ASSUME NEW i \in Nat, i \in T PROVE i + 1 \in T
  <2> SUFFICES ASSUME i + 1 \in 0..n PROVE f[i + 1] = g[i + 1]
    OBVIOUS
  <2>1. f[i] = g[i] /\ (i + 1) - 1 = i /\ i + 1 \in 1..n
    BY <1>2
  <2>2. QED
    BY <2>1 DEF Capturing
<1>3. \A i \in Nat : i \in T
  <2> HIDE DEF T
  <2>1. QED
    BY <1>1, <1>2, Induction
<1>4. QED
  BY <1>3

LEMMA AfterRunsIs ==
    ASSUME NEW U, NEW W, NEW runs \in Seq(CompletedRun(W, U))
    PROVE  \E f \in [0..Len(runs) -> Seq(Memory(W, U))] :
              Capturing(f, runs, Len(runs)) /\ AfterRuns(runs) = f[Len(runs)]
<1> DEFINE n == Len(runs)
           X == Seq(Memory(W, U))
           step == [i \in 1..n |-> [x \in X |-> CaptureCompletedRun(x, runs[i])]]
           Defines(g) == g = [i \in 0..n |-> IF i = 0 THEN <<>> ELSE CaptureCompletedRun(g[i - 1], runs[i])]
           h == CHOOSE g : Defines(g)
<1>1. n \in Nat /\ \A i \in 1..n : runs[i] \in CompletedRun(W, U)
  BY LenProperties, ElementOfSeq
<1>2. AfterRuns(runs) = h[n]
  BY DEF AfterRuns
<1> HIDE DEF n
<1>3. step \in [1..n -> [X -> X]]
  <2>1. ASSUME NEW i \in 1..n, NEW x \in X PROVE CaptureCompletedRun(x, runs[i]) \in X
    BY <1>1, CaptureIsTyped
  <2>2. QED
    BY <2>1
<1>4. \A x \in X : \A i \in 1..n : step[i][x] = CaptureCompletedRun(x, runs[i])
  OBVIOUS
<1>5. <<>> \in X /\ n \in Nat
  BY <1>1, EmptySeq
<1> HIDE DEF X, step
<1>6. PICK f \in [0..n -> X] : Steps(f, <<>>, step, n)
  BY <1>3, <1>5, StepsExist
<1>7. ASSUME NEW i \in 1..n PROVE f[i] = CaptureCompletedRun(f[i - 1], runs[i])
  <2>1. i - 1 \in 0..n
    BY <1>1
  <2>2. QED
    BY <1>4, <1>6, <2>1 DEF Steps
<1>8. Defines(f)
  <2>1. ASSUME NEW i \in 0..n PROVE f[i] = IF i = 0 THEN <<>> ELSE CaptureCompletedRun(f[i - 1], runs[i])
    <3>1. CASE i = 0
      BY <1>6, <3>1 DEF Steps
    <3>2. CASE i # 0
      <4>1. i \in 1..n
        BY <1>1, <3>2
      <4>2. QED
        BY <1>7, <3>2, <4>1
    <3>3. QED
      BY <3>1, <3>2
  <2>2. QED
    BY <2>1
<1>9. Defines(h)
  <2> HIDE DEF Defines
  <2>1. QED
    BY <1>8
<1> HIDE DEF h
<1>10. Capturing(h, runs, n)
  <2>1. 0 \in 0..n /\ \A i \in 1..n : i \in 0..n /\ i # 0
    BY <1>1
  <2>2. QED
    BY <1>9, <2>1 DEF Capturing
<1>11. Capturing(f, runs, n)
  BY <1>6, <1>7 DEF Capturing, Steps
<1>12. \A i \in 0..n : h[i] = f[i]
  BY <1>1, <1>10, <1>11, CapturingAgree
<1>13. n \in 0..n
  BY <1>1
<1>14. QED
  BY <1>2, <1>11, <1>12, <1>13 DEF X, n

(* With one more run, the memories are those captured after it. *)
LEMMA AfterOneMore ==
    ASSUME NEW U, NEW W, NEW runs \in Seq(CompletedRun(W, U)), NEW ended \in CompletedRun(W, U)
    PROVE  AfterRuns(Append(runs, ended)) = CaptureCompletedRun(AfterRuns(runs), ended)
<1> DEFINE size == Len(runs)
           more == Append(runs, ended)
<1>1. /\ size \in Nat /\ more \in Seq(CompletedRun(W, U)) /\ Len(more) = size + 1
      /\ \A i \in 1..size : more[i] = runs[i]
      /\ more[size + 1] = ended
  BY LenProperties, AppendProperties
<1>2. PICK f : Capturing(f, runs, size) /\ AfterRuns(runs) = f[size]
  BY AfterRunsIs
<1> HIDE DEF size, more
<1>3. PICK g : Capturing(g, more, Len(more)) /\ AfterRuns(more) = g[Len(more)]
  BY <1>1, AfterRunsIs
<1>4. Capturing(g, more, size + 1)
  BY <1>1, <1>3
<1>5. Capturing(g, runs, size)
  <2>1. \A i \in 1..size : i \in 1..(size + 1)
    BY <1>1
  <2>2. QED
    BY <1>1, <1>4, <2>1 DEF Capturing
<1>6. g[size] = f[size]
  <2>1. \A i \in 0..size : g[i] = f[i]
    BY <1>1, <1>2, <1>5, CapturingAgree
  <2>2. size \in 0..size
    BY <1>1
  <2>3. QED
    BY <2>1, <2>2
<1>7. size + 1 \in 1..(size + 1) /\ (size + 1) - 1 = size
  BY <1>1
<1>8. g[size + 1] = CaptureCompletedRun(g[size], ended)
  BY <1>1, <1>4, <1>7 DEF Capturing
<1>9. QED
  BY <1>1, <1>2, <1>3, <1>6, <1>8 DEF more

LEMMA AfterNone == AfterRuns(<<>>) = <<>>
<1>1. <<>> \in Seq(CompletedRun({}, {})) /\ Len(<<>>) = 0
  BY EmptySeq
<1>2. PICK f : Capturing(f, <<>>, Len(<<>>)) /\ AfterRuns(<<>>) = f[Len(<<>>)]
  BY <1>1, AfterRunsIs
<1>3. QED
  BY <1>1, <1>2 DEF Capturing

LEMMA DuplicateIs ==
    ASSUME NEW s, NEW v, NEW c
    PROVE  IsDuplicate(s, v, c) <=>
              \E m : Kept(s, m) /\ m.workspace = v /\ m.type = c.type /\ m.text.words = c.text.words
<1>1. \A m : m \in Range(s) <=> Kept(s, m)
  BY DEF Range, Kept
<1>2. QED
  BY <1>1 DEF IsDuplicate

(* What is considered for a workspace depends on its memories alone *)
LEMMA ConsiderOf ==
    ASSUME NEW U, NEW W, NEW s \in Seq(Memory(W, U)), NEW v \in W, NEW c \in Extracted(U), NEW w
    PROVE  Of(Consider(s, v, c), w) = IF v = w THEN Consider(Of(s, w), v, c) ELSE Of(s, w)
<1> DEFINE m == [workspace |-> v, type |-> c.type, text |-> c.text]
           refused == RejectionReason(c) # "kept"
<1>1. m \in Memory(W, U) /\ m.workspace = v
  BY DEF Memory, Extracted
<1>2. \A t : Consider(t, v, c) = IF refused \/ IsDuplicate(t, v, c) THEN t ELSE Append(t, m)
  BY DEF Consider
<1> HIDE DEF m, refused
<1>3. /\ Of(s, w) \in Seq(Memory(W, U))
      /\ \A x : Kept(Of(s, w), x) <=> Kept(s, x) /\ x.workspace = w
  BY OfRange
<1>4. v = w => (IsDuplicate(Of(s, w), v, c) <=> IsDuplicate(s, v, c))
  BY <1>3, DuplicateIs
<1>5. Of(Append(s, m), w) = IF v = w THEN Append(Of(s, w), m) ELSE Of(s, w)
  BY <1>1, OfAppend
<1>6. CASE v = w
  <2>1. Consider(Of(s, w), v, c) = IF refused \/ IsDuplicate(s, v, c) THEN Of(s, w) ELSE Append(Of(s, w), m)
    BY <1>2, <1>4, <1>6
  <2>2. CASE refused \/ IsDuplicate(s, v, c)
    BY <1>2, <1>6, <2>1, <2>2
  <2>3. CASE ~(refused \/ IsDuplicate(s, v, c))
    BY <1>2, <1>5, <1>6, <2>1, <2>3
  <2>4. QED
    BY <2>2, <2>3
<1>7. CASE v # w
  <2>1. Consider(s, v, c) = s \/ Consider(s, v, c) = Append(s, m)
    BY <1>2
  <2>2. QED
    BY <1>5, <1>7, <2>1
<1>8. QED
  BY <1>6, <1>7

LEMMA ConsideredOf ==
    ASSUME NEW U, NEW W, NEW s \in Seq(Memory(W, U)), NEW v \in W, NEW cs \in Seq(Extracted(U)), NEW w
    PROVE  Of(Considered(s, v, cs), w) = IF v = w THEN Considered(Of(s, w), v, cs) ELSE Of(s, w)
<1> DEFINE n == Len(cs)
<1>1. n \in Nat /\ \A i \in 1..n : cs[i] \in Extracted(U)
  BY LenProperties, ElementOfSeq
<1>2. Of(s, w) \in Seq(Memory(W, U))
  BY OfRange
<1>3. PICK f \in [0..n -> Seq(Memory(W, U))] : Considering(f, s, v, cs, n) /\ Considered(s, v, cs) = f[n]
  BY ConsideredIs
<1>4. PICK g \in [0..n -> Seq(Memory(W, U))] : Considering(g, Of(s, w), v, cs, n) /\ Considered(Of(s, w), v, cs) = g[n]
  BY <1>2, ConsideredIs
<1> HIDE DEF n
<1> DEFINE Good(i) == Of(f[i], w) = IF v = w THEN g[i] ELSE Of(s, w)
           G == {i \in Nat : i \in 0..n => Good(i)}
<1>5. 0 \in G
  BY <1>3, <1>4 DEF Considering
<1>6. ASSUME NEW i \in Nat, i \in G PROVE i + 1 \in G
  <2> SUFFICES ASSUME i + 1 \in 0..n PROVE Good(i + 1)
    OBVIOUS
  <2>1. i + 1 \in 1..n /\ i \in 0..n /\ (i + 1) - 1 = i
    BY <1>1
  <2>2. Good(i) /\ f[i] \in Seq(Memory(W, U)) /\ cs[i + 1] \in Extracted(U)
    BY <1>1, <1>6, <2>1
  <2>3. f[i + 1] = Consider(f[i], v, cs[i + 1]) /\ g[i + 1] = Consider(g[i], v, cs[i + 1])
    BY <1>3, <1>4, <2>1 DEF Considering
  <2>4. Of(Consider(f[i], v, cs[i + 1]), w) = IF v = w THEN Consider(Of(f[i], w), v, cs[i + 1]) ELSE Of(f[i], w)
    BY <2>2, ConsiderOf
  <2>5. QED
    BY <2>2, <2>3, <2>4
<1>7. \A i \in Nat : i \in G
  <2> HIDE DEF G
  <2>1. QED
    BY <1>5, <1>6, Induction
<1>8. n \in 0..n
  BY <1>1
<1>9. QED
  BY <1>1, <1>3, <1>4, <1>7, <1>8 DEF n

LEMMA CaptureOf ==
    ASSUME NEW U, NEW W, NEW s \in Seq(Memory(W, U)), NEW ended \in CompletedRun(W, U), NEW w
    PROVE  Of(CaptureCompletedRun(s, ended), w) =
              IF ended.workspace = w THEN CaptureCompletedRun(Of(s, w), ended) ELSE Of(s, w)
<1> DEFINE cs == Extract(ended)
           v == ended.workspace
           skipped == ~ended.completed \/ ended.workspace = "none"
<1>1. cs \in Seq(Extracted(U))
  BY ExtractIsTyped
<1>2. v \in W
  BY DEF CompletedRun
<1>3. \A t : CaptureCompletedRun(t, ended) = IF skipped THEN t ELSE Considered(t, v, cs)
  BY DEF CaptureCompletedRun
<1> HIDE DEF cs, skipped
<1>4. Of(Considered(s, v, cs), w) = IF v = w THEN Considered(Of(s, w), v, cs) ELSE Of(s, w)
  BY <1>1, <1>2, ConsideredOf
<1>5. QED
  BY <1>3, <1>4

(* A sequence that is not empty is one with an element appended *)
LEMMA FrontAndLast ==
    ASSUME NEW S, NEW s \in Seq(S), NEW n \in Nat, Len(s) = n + 1
    PROVE  /\ SubSeq(s, 1, n) \in Seq(S) /\ Len(SubSeq(s, 1, n)) = n
           /\ s[n + 1] \in S /\ s = Append(SubSeq(s, 1, n), s[n + 1])
<1> DEFINE front == SubSeq(s, 1, n)
           e == s[n + 1]
<1>1. n + 1 \in 1..(n + 1) /\ \A i \in 1..n : i \in 1..(n + 1)
  OBVIOUS
<1>2. e \in S
  BY <1>1, ElementOfSeq
<1>3. /\ front \in Seq(S) /\ Len(front) = n
      /\ \A i \in 1..n : front[i] = s[i]
  BY <1>1
<1> HIDE DEF front, e
<1>4. /\ Append(front, e) \in Seq(S) /\ Len(Append(front, e)) = n + 1
      /\ \A i \in 1..n : Append(front, e)[i] = front[i]
      /\ Append(front, e)[n + 1] = e
  BY <1>2, <1>3, AppendProperties
<1>5. ASSUME NEW i \in 1..(n + 1) PROVE s[i] = Append(front, e)[i]
  <2>1. CASE i = n + 1
    BY <1>4, <2>1 DEF e
  <2>2. CASE i # n + 1
    <3>1. i \in 1..n
      BY <2>2
    <3>2. QED
      BY <1>3, <1>4, <3>1
  <2>3. QED
    BY <2>1, <2>2
<1>6. s = Append(front, e)
  BY <1>4, <1>5, SeqEqual
<1>7. QED
  BY <1>2, <1>3, <1>6 DEF front, e

(* What a workspace keeps is what its own runs leave *)
LEMMA RunsOf ==
    ASSUME NEW U, NEW W, NEW runs \in Seq(CompletedRun(W, U)), NEW w
    PROVE  Of(AfterRuns(runs), w) = AfterRuns(Of(runs, w))
<1> DEFINE S == CompletedRun(W, U)
           Good(r) == Of(AfterRuns(r), w) = AfterRuns(Of(r, w))
           T == {n \in Nat : \A r \in Seq(S) : Len(r) = n => Good(r)}
<1> HIDE DEF S
<1>1. 0 \in T
  <2>1. ASSUME NEW r \in Seq(S), Len(r) = 0 PROVE Good(r)
    <3>1. r = <<>>
      BY <2>1, EmptySeq
    <3>2. QED
      BY <3>1, AfterNone, OfEmpty
  <2>2. QED
    BY <2>1
<1>2. ASSUME NEW n \in Nat, n \in T PROVE n + 1 \in T
  <2>1. ASSUME NEW r \in Seq(S), Len(r) = n + 1 PROVE Good(r)
    <3> DEFINE front == SubSeq(r, 1, n)
               e == r[n + 1]
    <3>2. front \in Seq(S) /\ e \in S /\ Len(front) = n /\ r = Append(front, e)
      BY <2>1, FrontAndLast
    <3> HIDE DEF front, e
    <3>0. front \in Seq(S) /\ e \in S
      BY <3>2
    <3>3. Good(front)
      BY <1>2, <3>2
    <3>4. AfterRuns(front) \in Seq(Memory(W, U))
      <4>1. PICK f \in [0..Len(front) -> Seq(Memory(W, U))] : AfterRuns(front) = f[Len(front)]
        BY <3>0, AfterRunsIs DEF S
      <4>2. Len(front) \in 0..Len(front)
        BY <3>2
      <4>3. QED
        BY <4>1, <4>2
    <3>5. AfterRuns(r) = CaptureCompletedRun(AfterRuns(front), e)
      BY <3>2, AfterOneMore DEF S
    <3>6. Of(r, w) = IF e.workspace = w THEN Append(Of(front, w), e) ELSE Of(front, w)
      BY <3>2, OfAppend
    <3>7. Of(front, w) \in Seq(S)
      BY <3>0, OfRange
    <3>8. AfterRuns(Append(Of(front, w), e)) = CaptureCompletedRun(AfterRuns(Of(front, w)), e)
      BY <3>0, <3>7, AfterOneMore DEF S
    <3>9. Of(CaptureCompletedRun(AfterRuns(front), e), w) =
             IF e.workspace = w THEN CaptureCompletedRun(Of(AfterRuns(front), w), e) ELSE Of(AfterRuns(front), w)
      BY <3>0, <3>4, CaptureOf DEF S
    <3>10. QED
      BY <3>3, <3>5, <3>6, <3>8, <3>9
  <2>2. QED
    BY <2>1
<1>3. \A n \in Nat : n \in T
  <2> HIDE DEF T
  <2>1. QED
    BY <1>1, <1>2, Induction
<1>4. Len(runs) \in Nat /\ runs \in Seq(S)
  BY LenProperties DEF S
<1>5. QED
  BY <1>3, <1>4

-----------------------------------------------------------------------------
(* Only what has no flaw is kept *)
LEMMA KeptHasNoFlaw ==
    ASSUME NEW U, NEW c \in Extracted(U), RejectionReason(c) = "kept"
    PROVE  c.text.flaws = {}
<1> DEFINE found == {i \in DOMAIN Flaws : Flaws[i] \in c.text.flaws}
<1>1. RejectionReason(c) = IF found = {} THEN "kept" ELSE Flaws[Min(found)]
  BY DEF RejectionReason
<1>2. DOMAIN Flaws = 1..5 /\ \A i \in 1..5 : Flaws[i] # "kept"
  BY DEF Flaws
<1>3. found # {} => Min(found) \in 1..5
  <2> SUFFICES ASSUME found # {} PROVE Min(found) \in 1..5
    OBVIOUS
  <2>1. found \in SUBSET Nat /\ found \subseteq 1..5
    BY <1>2
  <2>2. PICK k \in found : \A i \in found : k <= i
    <3> HIDE DEF found
    <3>1. QED
      BY <2>1, LeastOf
  <2>3. Min(found) \in found
    <3> HIDE DEF found
    <3>1. QED
      BY <2>2 DEF Min
  <2>4. QED
    BY <2>1, <2>3
<1>4. found = {}
  <2> HIDE DEF found
  <2>1. QED
    BY <1>1, <1>2, <1>3
<1>5. c.text.flaws \subseteq Range(Flaws)
  BY DEF Extracted, MemoryText
<1>6. QED
  BY <1>4, <1>5 DEF Range

Curated(s) ==
    /\ \A i, j \in DOMAIN s : i # j => <<s[i].workspace, s[i].type, s[i].text.words>> # <<s[j].workspace, s[j].type, s[j].text.words>>
    /\ \A i \in DOMAIN s : s[i].text.flaws = {}

LEMMA ConsiderCurates ==
    ASSUME NEW U, NEW W, NEW s \in Seq(Memory(W, U)), NEW v \in W, NEW c \in Extracted(U), Curated(s)
    PROVE  Curated(Consider(s, v, c))
<1> DEFINE m == [workspace |-> v, type |-> c.type, text |-> c.text]
           t == Append(s, m)
<1>1. CASE RejectionReason(c) # "kept" \/ IsDuplicate(s, v, c)
  BY <1>1 DEF Consider
<1>2. CASE ~(RejectionReason(c) # "kept" \/ IsDuplicate(s, v, c))
  <2>1. Consider(s, v, c) = t
    BY <1>2 DEF Consider
  <2>2. m \in Memory(W, U) /\ m.workspace = v /\ m.type = c.type /\ m.text = c.text
    BY DEF Memory, Extracted
  <2>3. m.text.flaws = {}
    BY <1>2, <2>2, KeptHasNoFlaw
  <2>4. Len(s) \in Nat /\ DOMAIN s = 1..Len(s)
    BY LenProperties
  <2>5. \A i \in 1..Len(s) :
           ~(s[i].workspace = m.workspace /\ s[i].type = m.type /\ s[i].text.words = m.text.words)
    BY <1>2, <2>2, <2>4, DuplicateIs DEF Kept
  <2> HIDE DEF m
  <2>6. /\ t \in Seq(Memory(W, U)) /\ Len(t) = Len(s) + 1
        /\ \A i \in 1..Len(s) : t[i] = s[i]
        /\ t[Len(s) + 1] = m
    BY <2>2, AppendProperties
  <2> HIDE DEF t
  <2>7. DOMAIN t = 1..(Len(s) + 1)
    BY <2>6, LenProperties
  <2>8. \A i : i \in DOMAIN t <=> i \in DOMAIN s \/ i = Len(s) + 1
    BY <2>4, <2>7
  <2>9. \A i \in DOMAIN s : t[i] = s[i]
    BY <2>4, <2>6
  <2>10. \A i, j \in DOMAIN t :
            i # j => <<t[i].workspace, t[i].type, t[i].text.words>> # <<t[j].workspace, t[j].type, t[j].text.words>>
    <3> SUFFICES ASSUME NEW i \in DOMAIN t, NEW j \in DOMAIN t, i # j
                 PROVE  ~(t[i].workspace = t[j].workspace /\ t[i].type = t[j].type /\ t[i].text.words = t[j].text.words)
      OBVIOUS
    <3>1. CASE i \in DOMAIN s /\ j \in DOMAIN s
      BY <2>9, <3>1 DEF Curated
    <3>2. CASE i \in DOMAIN s /\ j = Len(s) + 1
      BY <2>4, <2>5, <2>6, <2>9, <3>2
    <3>3. CASE i = Len(s) + 1 /\ j \in DOMAIN s
      BY <2>4, <2>5, <2>6, <2>9, <3>3
    <3>4. QED
      BY <2>8, <3>1, <3>2, <3>3
  <2>11. \A i \in DOMAIN t : t[i].text.flaws = {}
    BY <2>3, <2>6, <2>8, <2>9 DEF Curated
  <2>12. QED
    BY <2>1, <2>10, <2>11 DEF Curated
<1>3. QED
  BY <1>1, <1>2

LEMMA ConsideredCurates ==
    ASSUME NEW U, NEW W, NEW s \in Seq(Memory(W, U)), NEW v \in W, NEW cs \in Seq(Extracted(U)), Curated(s)
    PROVE  Curated(Considered(s, v, cs))
<1> DEFINE n == Len(cs)
<1>1. n \in Nat /\ \A i \in 1..n : cs[i] \in Extracted(U)
  BY LenProperties, ElementOfSeq
<1>2. PICK f \in [0..n -> Seq(Memory(W, U))] : Considering(f, s, v, cs, n) /\ Considered(s, v, cs) = f[n]
  BY ConsideredIs
<1> HIDE DEF n
<1> DEFINE T == {i \in Nat : i \in 0..n => Curated(f[i])}
<1>3. 0 \in T
  BY <1>2 DEF Considering
<1>4. ASSUME NEW i \in Nat, i \in T PROVE i + 1 \in T
  <2> SUFFICES ASSUME i + 1 \in 0..n PROVE Curated(f[i + 1])
    OBVIOUS
  <2>1. i + 1 \in 1..n /\ i \in 0..n /\ (i + 1) - 1 = i
    BY <1>1
  <2>2. Curated(f[i]) /\ f[i] \in Seq(Memory(W, U)) /\ cs[i + 1] \in Extracted(U)
    BY <1>1, <1>4, <2>1
  <2>3. f[i + 1] = Consider(f[i], v, cs[i + 1])
    BY <1>2, <2>1 DEF Considering
  <2>4. QED
    BY <2>2, <2>3, ConsiderCurates
<1>5. \A i \in Nat : i \in T
  <2> HIDE DEF T
  <2>1. QED
    BY <1>3, <1>4, Induction
<1>6. n \in 0..n
  BY <1>1
<1>7. QED
  BY <1>1, <1>2, <1>5, <1>6

LEMMA AfterRunsCurates ==
    ASSUME NEW U, NEW W, NEW runs \in Seq(CompletedRun(W, U))
    PROVE  AfterRuns(runs) \in Seq(Memory(W, U)) /\ Curated(AfterRuns(runs))
<1> DEFINE n == Len(runs)
<1>1. n \in Nat /\ \A i \in 1..n : runs[i] \in CompletedRun(W, U)
  BY LenProperties, ElementOfSeq
<1>2. PICK f \in [0..n -> Seq(Memory(W, U))] : Capturing(f, runs, n) /\ AfterRuns(runs) = f[n]
  BY AfterRunsIs
<1> HIDE DEF n
<1> DEFINE T == {i \in Nat : i \in 0..n => Curated(f[i])}
<1>3. 0 \in T
  <2>1. f[0] = <<>> /\ DOMAIN <<>> = {}
    BY <1>2 DEF Capturing
  <2>2. QED
    BY <2>1 DEF Curated
<1>4. ASSUME NEW i \in Nat, i \in T PROVE i + 1 \in T
  <2> SUFFICES ASSUME i + 1 \in 0..n PROVE Curated(f[i + 1])
    OBVIOUS
  <2> DEFINE ended == runs[i + 1]
             cs == Extract(ended)
  <2>1. i + 1 \in 1..n /\ i \in 0..n /\ (i + 1) - 1 = i
    BY <1>1
  <2>2. Curated(f[i]) /\ f[i] \in Seq(Memory(W, U)) /\ ended \in CompletedRun(W, U)
    BY <1>1, <1>4, <2>1
  <2>3. f[i + 1] = CaptureCompletedRun(f[i], ended)
    BY <1>2, <2>1 DEF Capturing
  <2> HIDE DEF ended
  <2>4. f[i + 1] = f[i] \/ f[i + 1] = Considered(f[i], ended.workspace, cs)
    BY <2>3 DEF CaptureCompletedRun
  <2>5. cs \in Seq(Extracted(U)) /\ ended.workspace \in W
    BY <2>2, ExtractIsTyped DEF CompletedRun
  <2> HIDE DEF cs
  <2>6. Curated(Considered(f[i], ended.workspace, cs))
    BY <2>2, <2>5, ConsideredCurates
  <2>7. QED
    BY <2>2, <2>4, <2>6
<1>5. \A i \in Nat : i \in T
  <2> HIDE DEF T
  <2>1. QED
    BY <1>3, <1>4, Induction
<1>6. n \in 0..n
  BY <1>1
<1>7. QED
  BY <1>1, <1>2, <1>5, <1>6

(* Whatever runs completed, no workspace keeps the same words twice under one *)
(* type, nor a text with a flaw, and what one workspace keeps depends on its  *)
(* own runs alone (MemoryWritingPipeline.capture_completed_run).              *)
THEOREM CurationHolds ==
    ASSUME NEW Words, NEW Workspaces, NEW runs \in Seq(CompletedRun(Workspaces, Words))
    PROVE  MemoriesAreCurated(runs)
<1> DEFINE stored == AfterRuns(runs)
<1>1. stored \in Seq(Memory(Workspaces, Words)) /\ Curated(stored)
  BY AfterRunsCurates
<1>2. \A w : Of(stored, w) = AfterRuns(Of(runs, w))
  BY RunsOf
<1>3. \A s, w : Chosen(s, {i \in DOMAIN s : s[i].workspace = w}) = Of(s, w)
  BY DEF Of
<1> HIDE DEF stored
<1>4. \A m \in Range(stored) : m.text.flaws = {}
  BY <1>1 DEF Curated, Range
<1>5. MemoriesAreCurated(runs) <=>
        /\ \A i, j \in DOMAIN stored :
            i # j => <<stored[i].workspace, stored[i].type, stored[i].text.words>> # <<stored[j].workspace, stored[j].type, stored[j].text.words>>
        /\ \A m \in Range(stored) : m.text.flaws = {}
        /\ \A w \in {m.workspace : m \in Range(stored)} :
              Chosen(stored, {i \in DOMAIN stored : stored[i].workspace = w})
                = AfterRuns(Chosen(runs, {i \in DOMAIN runs : runs[i].workspace = w}))
  BY DEF MemoriesAreCurated, stored
<1>6. \A w : Chosen(stored, {i \in DOMAIN stored : stored[i].workspace = w})
                = AfterRuns(Chosen(runs, {i \in DOMAIN runs : runs[i].workspace = w}))
  BY <1>2, <1>3
<1>7. QED
  BY <1>1, <1>4, <1>5, <1>6 DEF Curated

-----------------------------------------------------------------------------
(* What comes back of delegated work *)

(* A batch of requests within the limit has a result for each, in order,      *)
(* whatever became of the others; no text in it is over the bound, and no     *)
(* specialist may run longer than it asks to or than its parent lets it       *)
(* (SubagentManager.execute_parallel).                                        *)
THEOREM SiblingsAreAlwaysKept ==
    ASSUME NEW Objectives, NEW requests \in Seq(SubagentRequest(Objectives)),
           ParentIterations \in Nat \ {0}, SubagentIterations \in Nat \ {0}, MaxResult \in Nat
    PROVE  SiblingsAreKept(requests)
<1> DEFINE n == Len(requests)
           results == ExecuteParallel(requests)
<1>1. n \in Nat /\ DOMAIN requests = 1..n
  BY LenProperties
<1>2. ASSUME NEW length \in Nat PROVE BoundedText(length) <= MaxResult
  BY LesserOfTwo DEF BoundedText
<1>3. ASSUME NEW override \in Nat
      PROVE  /\ ChildIterations(override) \in 1..SubagentIterations
             /\ override > 0 => ChildIterations(override) <= override
  <2> DEFINE own == IF override = 0 THEN ParentIterations ELSE override
  <2>1. own \in Nat /\ own >= 1 /\ (override > 0 => own = override)
    OBVIOUS
  <2>2. ChildIterations(override) = Min({own, SubagentIterations})
    BY DEF ChildIterations
  <2> HIDE DEF own
  <2>3. Min({own, SubagentIterations}) = IF own <= SubagentIterations THEN own ELSE SubagentIterations
    BY <2>1, LesserOfTwo
  <2>4. QED
    BY <2>1, <2>2, <2>3
<1>4. SUFFICES ASSUME n \in 1..MaxParallel
      PROVE /\ Len(results) = n
            /\ \A i \in DOMAIN requests :
                 /\ results[i].objective = requests[i].objective /\ results[i].success = (requests[i].ends = "completed")
                 /\ results[i].answer <= MaxResult /\ results[i].error <= MaxResult
                 /\ ChildIterations(requests[i].override) \in 1..SubagentIterations
                 /\ requests[i].override > 0 => ChildIterations(requests[i].override) <= requests[i].override
  BY DEF SiblingsAreKept
<1>5. results = [i \in 1..n |-> SubagentResult(requests[i])]
  BY <1>1, <1>4 DEF ExecuteParallel
<1>6. Len(results) = n /\ \A i \in 1..n : results[i] = SubagentResult(requests[i])
  <2> HIDE DEF results, n
  <2>1. DOMAIN results = 1..n
    BY <1>5
  <2>2. QED
    BY <1>1, <1>5, <2>1
<1> HIDE DEF results, n
<1>7. ASSUME NEW i \in 1..n
      PROVE  /\ results[i].objective = requests[i].objective /\ results[i].success = (requests[i].ends = "completed")
             /\ results[i].answer <= MaxResult /\ results[i].error <= MaxResult
             /\ ChildIterations(requests[i].override) \in 1..SubagentIterations
             /\ requests[i].override > 0 => ChildIterations(requests[i].override) <= requests[i].override
  <2> DEFINE r == requests[i]
  <2>1. r.length \in Nat /\ r.override \in Nat
    <3>1. r \in SubagentRequest(Objectives)
      BY ElementOfSeq DEF n
    <3> HIDE DEF r
    <3>2. QED
      BY <3>1 DEF SubagentRequest
  <2>2. results[i] = SubagentResult(r)
    BY <1>6
  <2> HIDE DEF r
  <2>3. SubagentResult(r).objective = r.objective /\ SubagentResult(r).success = (r.ends = "completed")
    BY DEF SubagentResult
  <2>4. SubagentResult(r).answer <= MaxResult /\ SubagentResult(r).error <= MaxResult
    <3>1. BoundedText(r.length) <= MaxResult /\ 0 <= MaxResult
      BY <1>2, <2>1
    <3>2. /\ SubagentResult(r).answer = BoundedText(r.length) \/ SubagentResult(r).answer = 0
          /\ SubagentResult(r).error = BoundedText(r.length) \/ SubagentResult(r).error = 0
      BY DEF SubagentResult
    <3>3. QED
      BY <3>1, <3>2
  <2>5. /\ ChildIterations(r.override) \in 1..SubagentIterations
        /\ r.override > 0 => ChildIterations(r.override) <= r.override
    BY <1>3, <2>1
  <2>6. QED
    BY <2>2, <2>3, <2>4, <2>5 DEF r
<1>8. QED
  BY <1>1, <1>6, <1>7

-----------------------------------------------------------------------------
(* What memory selects                                                       *)

(* Memories with their points, no two of one time                            *)
Pointed(points) ==
    /\ IsFiniteSet(DOMAIN points) /\ points \in [DOMAIN points -> Int]
    /\ \A m \in DOMAIN points : m.created \in Int
    /\ \A m, n \in DOMAIN points : m.created = n.created => m = n

(* Fewer are ranked above a memory than there are memories.                  *)
LEMMA AheadIs ==
    ASSUME NEW points, Pointed(points), NEW m \in DOMAIN points
    PROVE  /\ IsFiniteSet(RankedAbove(points, m)) /\ Cardinality(RankedAbove(points, m)) \in Nat
           /\ Cardinality(RankedAbove(points, m)) < Cardinality(DOMAIN points)
           /\ Cardinality(DOMAIN points) \in Nat
<1>1. RankedAbove(points, m) \subseteq DOMAIN points /\ m \notin RankedAbove(points, m)
  BY DEF Pointed, RankedAbove
<1>2. IsFiniteSet(DOMAIN points)
  BY DEF Pointed
<1>3. IsFiniteSet(RankedAbove(points, m)) /\ Cardinality(RankedAbove(points, m)) <= Cardinality(DOMAIN points)
      /\ (Cardinality(DOMAIN points) = Cardinality(RankedAbove(points, m)) => DOMAIN points = RankedAbove(points, m))
  BY <1>1, <1>2, FS_Subset
<1>4. Cardinality(RankedAbove(points, m)) \in Nat /\ Cardinality(DOMAIN points) \in Nat
  BY <1>2, <1>3, FS_CardinalityType
<1>5. Cardinality(DOMAIN points) # Cardinality(RankedAbove(points, m))
  BY <1>1, <1>3
<1>6. QED
  BY <1>3, <1>4, <1>5

(* Whoever is ahead of one who is ahead of another is ahead of that one too.  *)
LEMMA AheadOrders ==
    ASSUME NEW points, Pointed(points), NEW m \in DOMAIN points, NEW n \in RankedAbove(points, m)
    PROVE  Cardinality(RankedAbove(points, n)) < Cardinality(RankedAbove(points, m))
<1>1. n \in DOMAIN points /\ n \notin RankedAbove(points, n)
  BY DEF Pointed, RankedAbove
<1>2. ASSUME NEW l \in RankedAbove(points, n) PROVE l \in RankedAbove(points, m)
  <2>1. l \in DOMAIN points
    BY DEF RankedAbove
  <2>2. /\ points[l] \in Int /\ points[n] \in Int /\ points[m] \in Int
        /\ l.created \in Int /\ n.created \in Int /\ m.created \in Int
    BY <1>1, <2>1 DEF Pointed
  <2>3. /\ points[l] > points[n] \/ (points[l] = points[n] /\ l.created > n.created)
        /\ points[n] > points[m] \/ (points[n] = points[m] /\ n.created > m.created)
    BY DEF RankedAbove
  <2>4. points[l] > points[m] \/ (points[l] = points[m] /\ l.created > m.created)
    BY <2>2, <2>3
  <2>5. QED
    BY <2>1, <2>4 DEF RankedAbove
<1>3. RankedAbove(points, n) \in SUBSET RankedAbove(points, m) /\ RankedAbove(points, m) # RankedAbove(points, n)
  BY <1>1, <1>2
<1>4. /\ Cardinality(RankedAbove(points, n)) <= Cardinality(RankedAbove(points, m))
      /\ (Cardinality(RankedAbove(points, m)) = Cardinality(RankedAbove(points, n)) => RankedAbove(points, m) = RankedAbove(points, n))
  BY <1>3, AheadIs, FS_Subset
<1>5. Cardinality(RankedAbove(points, n)) \in Nat /\ Cardinality(RankedAbove(points, m)) \in Nat
  BY <1>1, AheadIs
<1>6. QED
  BY <1>3, <1>4, <1>5

(* No two are at one place.                                                  *)
LEMMA PlacesDiffer ==
    ASSUME NEW points, Pointed(points), NEW m \in DOMAIN points, NEW n \in DOMAIN points, m # n
    PROVE  Cardinality(RankedAbove(points, n)) # Cardinality(RankedAbove(points, m))
<1>1. n \in RankedAbove(points, m) \/ m \in RankedAbove(points, n)
  <2>1. points[n] \in Int /\ points[m] \in Int /\ n.created \in Int /\ m.created \in Int /\ m.created # n.created
    BY DEF Pointed
  <2>2. QED
    BY <2>1 DEF RankedAbove
<1>2. Cardinality(RankedAbove(points, n)) \in Nat /\ Cardinality(RankedAbove(points, m)) \in Nat
  BY AheadIs
<1>3. CASE n \in RankedAbove(points, m)
  <2>1. Cardinality(RankedAbove(points, n)) < Cardinality(RankedAbove(points, m))
    BY <1>3, AheadOrders
  <2>2. QED
    BY <1>2, <2>1
<1>4. CASE m \in RankedAbove(points, n)
  <2>1. Cardinality(RankedAbove(points, m)) < Cardinality(RankedAbove(points, n))
    BY <1>4, AheadOrders
  <2>2. QED
    BY <1>2, <2>1
<1>5. QED
  BY <1>1, <1>3, <1>4

(* Every place is somebody's.                                                *)
LEMMA PlacesAreTaken ==
    ASSUME NEW points, Pointed(points), NEW i \in 1..Cardinality(DOMAIN points)
    PROVE  \E m \in DOMAIN points : Cardinality(RankedAbove(points, m)) = i - 1
<1> DEFINE S == DOMAIN points
           k == Cardinality(S)
           f == [m \in S |-> Cardinality(RankedAbove(points, m)) + 1]
<1>1. IsFiniteSet(S) /\ k \in Nat
  BY FS_CardinalityType DEF Pointed
<1>2. \A m \in S : Cardinality(RankedAbove(points, m)) \in Nat /\ Cardinality(RankedAbove(points, m)) < k
  BY AheadIs
<1>3. \A m, n \in S : m # n => Cardinality(RankedAbove(points, n)) # Cardinality(RankedAbove(points, m))
  BY PlacesDiffer
<1>4. \A m \in S : f[m] = Cardinality(RankedAbove(points, m)) + 1
  OBVIOUS
<1> HIDE DEF k
<1>5. f \in [S -> 1..k]
  <2>1. \A m \in S : Cardinality(RankedAbove(points, m)) + 1 \in 1..k
    BY <1>1, <1>2
  <2>2. QED
    BY <2>1
<1> HIDE DEF f
<1>6. \A m, n \in S : f[m] = f[n] => m = n
  BY <1>2, <1>3, <1>4
<1>7. f \in Injection(S, 1..k)
  BY <1>5, <1>6 DEF Injection, IsInjective
<1>8. IsFiniteSet(1..k) /\ Cardinality(1..k) = k
  <2>1. k \in Int /\ 1 \in Int
    BY <1>1
  <2>2. IsFiniteSet(1..k) /\ Cardinality(1..k) = IF 1 > k THEN 0 ELSE k - 1 + 1
    BY <2>1, FS_Interval
  <2>3. QED
    BY <1>1, <2>2
<1>9. f \in Surjection(S, 1..k)
  BY <1>7, <1>8, FS_Injection DEF k
<1>10. PICK m \in S : f[m] = i
  <2>1. i \in 1..k
    BY DEF k
  <2>2. QED
    BY <1>9, <2>1 DEF Surjection
<1>11. Cardinality(RankedAbove(points, m)) = i - 1
  BY <1>2, <1>4, <1>10
<1>12. QED
  BY <1>11

PointsOf(store, r) == [m \in RankedMemories(store, r) |-> Score(m, r) + RecencyBonus(m, RankedMemories(store, r))]

(* Candidates are memories of the workspace, of the session or of none.      *)
LEMMA CandidatesAre ==
    ASSUME NEW store, NEW r
    PROVE  \A m : m \in CandidateMemories(store, r) <=>
              /\ m \in store /\ m.workspace = r.workspace /\ m.type \in r.types
              /\ m.session \in {NoSession, r.session} /\ m.created >= r.created_after
BY DEF CandidateMemories, ListMemories

(* The parts of a score are numbers, and a memory is as old as itself.       *)
LEMMA ScoresAre ==
    ASSUME NEW store, IsStore(store), NEW r, IsRecallRequest(r), NEW m \in store
    PROVE  /\ Overlap(m, r) \in Nat /\ TagMatches(m, r) \in Nat /\ TypeWeight(m.type) \in 1..3
           /\ (Overlap(m, r) > 0 <=> r.words \cap m.words # {}) /\ (TagMatches(m, r) > 0 <=> r.tags \cap m.tags # {})
           /\ Score(m, r) = 100 * Overlap(m, r) + 25 * TagMatches(m, r) + TypeWeight(m.type)
           /\ Cardinality(store) \in Nat /\ Cardinality(RankedMemories(store, r)) \in Nat
           /\ RecencyBonus(m, RankedMemories(store, r)) \in Nat
           /\ RecencyBonus(m, RankedMemories(store, r)) <= Cardinality(store)
           /\ m \in RankedMemories(store, r) => RecencyBonus(m, RankedMemories(store, r)) > 0
<1> DEFINE ranked == RankedMemories(store, r)
           older == {n \in ranked : n.created <= m.created}
<1>1. IsFiniteSet(store) /\ IsFiniteSet(r.words) /\ IsFiniteSet(r.tags)
  BY DEF IsStore, IsRecallRequest
<1>2. ASSUME NEW S, NEW T, IsFiniteSet(S)
      PROVE  Cardinality(S \cap T) \in Nat /\ (Cardinality(S \cap T) > 0 <=> S \cap T # {})
  <2>1. IsFiniteSet(S \cap T)
    BY <1>2, FS_Subset
  <2>2. Cardinality(S \cap T) \in Nat /\ (Cardinality(S \cap T) = 0 <=> S \cap T = {})
    BY <2>1, FS_CardinalityType, FS_EmptySet
  <2>3. QED
    BY <2>2
<1>3. Overlap(m, r) \in Nat /\ (Overlap(m, r) > 0 <=> r.words \cap m.words # {})
  BY <1>1, <1>2 DEF Overlap
<1>4. TagMatches(m, r) \in Nat /\ (TagMatches(m, r) > 0 <=> r.tags \cap m.tags # {})
  BY <1>1, <1>2 DEF TagMatches
<1>5. TypeWeight(m.type) \in 1..3
  <2>1. m.type \in {"working", "episodic", "long_term"}
    BY DEF IsStore, MemoryTypes
  <2>2. QED
    BY <2>1 DEF TypeWeight
<1>6. Score(m, r) = 100 * Overlap(m, r) + 25 * TagMatches(m, r) + TypeWeight(m.type)
  BY DEF Score, WordWeight, TagWeight
<1>7. ranked \subseteq store
  BY CandidatesAre DEF RankedMemories
<1>8. /\ IsFiniteSet(ranked) /\ Cardinality(ranked) \in Nat /\ Cardinality(store) \in Nat
      /\ Cardinality(ranked) <= Cardinality(store)
  BY <1>1, <1>7, FS_Subset, FS_CardinalityType
<1>9. IsFiniteSet(older) /\ Cardinality(older) <= Cardinality(ranked) /\ Cardinality(older) \in Nat
  <2>1. older \in SUBSET ranked
    OBVIOUS
  <2> HIDE DEF older, ranked
  <2>2. QED
    BY <1>8, <2>1, FS_Subset, FS_CardinalityType
<1>10. m \in ranked => Cardinality(older) > 0
  <2> SUFFICES ASSUME m \in ranked PROVE Cardinality(older) > 0
    OBVIOUS
  <2>1. m.created \in Int
    BY DEF IsStore
  <2>2. m \in older
    BY <2>1
  <2> HIDE DEF older
  <2>3. Cardinality(older) # 0
    BY <1>9, <2>2, FS_EmptySet
  <2>4. QED
    BY <1>9, <2>3
<1>11. RecencyBonus(m, ranked) = Cardinality(older)
  BY DEF RecencyBonus
<1> HIDE DEF older
<1>12. QED
  BY <1>3, <1>4, <1>5, <1>6, <1>8, <1>9, <1>10, <1>11

(* The points of a store, one for each ranked memory.                        *)
LEMMA PointsAre ==
    ASSUME NEW store, IsStore(store), NEW r, IsRecallRequest(r)
    PROVE  /\ Pointed(PointsOf(store, r)) /\ DOMAIN PointsOf(store, r) = RankedMemories(store, r)
           /\ \A m \in RankedMemories(store, r) : PointsOf(store, r)[m] = Score(m, r) + RecencyBonus(m, RankedMemories(store, r))
           /\ \A m \in RankedMemories(store, r) : m \in CandidateMemories(store, r) /\ m \in store /\ Relevant(m, r)
<1>1. \A m \in RankedMemories(store, r) : m \in CandidateMemories(store, r) /\ m \in store /\ Relevant(m, r)
  BY CandidatesAre DEF RankedMemories
<1>2. /\ DOMAIN PointsOf(store, r) = RankedMemories(store, r)
      /\ \A m \in RankedMemories(store, r) : PointsOf(store, r)[m] = Score(m, r) + RecencyBonus(m, RankedMemories(store, r))
      /\ PointsOf(store, r) = [m \in RankedMemories(store, r) |-> PointsOf(store, r)[m]]
  BY DEF PointsOf
<1>3. ASSUME NEW m \in RankedMemories(store, r) PROVE PointsOf(store, r)[m] \in Int
  <2>1. m \in store
    BY <1>1
  <2>2. /\ Overlap(m, r) \in Nat /\ TagMatches(m, r) \in Nat /\ TypeWeight(m.type) \in 1..3
        /\ Score(m, r) = 100 * Overlap(m, r) + 25 * TagMatches(m, r) + TypeWeight(m.type)
        /\ RecencyBonus(m, RankedMemories(store, r)) \in Nat
    BY <2>1, ScoresAre
  <2>3. QED
    BY <1>2, <2>2
<1>4. IsFiniteSet(RankedMemories(store, r))
  <2>1. RankedMemories(store, r) \in SUBSET store /\ IsFiniteSet(store)
    BY <1>1 DEF IsStore
  <2>2. QED
    BY <2>1, FS_Subset
<1>5. PointsOf(store, r) \in [RankedMemories(store, r) -> Int]
  <2>1. [m \in RankedMemories(store, r) |-> PointsOf(store, r)[m]] \in [RankedMemories(store, r) -> Int]
    BY <1>3
  <2>2. QED
    BY <1>2, <2>1
<1>6. /\ \A m \in RankedMemories(store, r) : m.created \in Int
      /\ \A m, n \in RankedMemories(store, r) : m.created = n.created => m = n
  BY <1>1 DEF IsStore
<1>7. Pointed(PointsOf(store, r))
  BY <1>2, <1>4, <1>5, <1>6 DEF Pointed
<1>8. QED
  BY <1>1, <1>2, <1>7

(* What is selected are the first places.                                    *)
LEMMA RetrieveIs ==
    ASSUME NEW store, IsStore(store), NEW r, IsRecallRequest(r)
    PROVE  LET chosen == Retrieve(store, r)
           IN /\ DOMAIN chosen \subseteq Nat \ {0}
              /\ \A i \in DOMAIN chosen : \A j \in 1..i : j \in DOMAIN chosen
              /\ \A i \in DOMAIN chosen :
                    /\ chosen[i] \in RankedMemories(store, r)
                    /\ Cardinality(RankedAbove(PointsOf(store, r), chosen[i])) = i - 1
<1> DEFINE ranked == RankedMemories(store, r)
           points == PointsOf(store, r)
           chosen == Retrieve(store, r)
           k == Min({Cardinality(ranked), r.limit})
           Placed(m, i) == Cardinality(RankedAbove(points, m)) = i - 1
<1>1. chosen = [i \in 1..k |-> CHOOSE m \in ranked : Placed(m, i)]
  BY DEF Retrieve, PointsOf
<1>2. Pointed(points) /\ DOMAIN points = ranked
  BY PointsAre
<1>3. Cardinality(ranked) \in Nat
  BY <1>2, FS_CardinalityType DEF Pointed
<1>4. k \in Nat /\ k <= Cardinality(ranked)
  <2>1. r.limit \in Nat
    BY DEF IsRecallRequest
  <2>2. k = IF Cardinality(ranked) <= r.limit THEN Cardinality(ranked) ELSE r.limit
    BY <1>3, <2>1, LesserOfTwo
  <2>3. QED
    BY <1>3, <2>1, <2>2
<1> HIDE DEF chosen, k
<1>5. ASSUME NEW i \in 1..k PROVE chosen[i] \in ranked /\ Placed(chosen[i], i)
  <2>1. i \in 1..Cardinality(DOMAIN points)
    BY <1>2, <1>3, <1>4
  <2>2. \E m \in ranked : Placed(m, i)
    BY <1>2, <2>1, PlacesAreTaken
  <2>3. chosen[i] = CHOOSE m \in ranked : Placed(m, i)
    BY <1>1
  <2> HIDE DEF Placed
  <2>4. QED
    BY <2>2, <2>3
<1>6. DOMAIN chosen = 1..k
  BY <1>1
<1>7. QED
  BY <1>4, <1>5, <1>6 DEF chosen

(* Nothing of another workspace or session is selected                       *)
(* (memory/retrieval.py:72-85).                                              *)
LEMMA SelectionHolds ==
    ASSUME NEW store, IsStore(store), NEW r, IsRecallRequest(r)
    PROVE  SelectionIsScoped(store, r)
<1>1. ASSUME NEW i \in DOMAIN Retrieve(store, r) PROVE Retrieve(store, r)[i] \in CandidateMemories(store, r)
  <2>1. Retrieve(store, r)[i] \in RankedMemories(store, r)
    BY RetrieveIs
  <2>2. QED
    BY <2>1, PointsAre
<1>2. \A m \in Range(Retrieve(store, r)) : m \in CandidateMemories(store, r)
  BY <1>1 DEF Range
<1>3. QED
  BY <1>2, CandidatesAre DEF SelectionIsScoped

(* In every store, for every request: what shares nothing with the question  *)
(* does not change what is selected (memory/retrieval.py:52-58).             *)
THEOREM NoiseHolds ==
    ASSUME NEW store, IsStore(store), NEW r, IsRecallRequest(r)
    PROVE  NoiseIsIgnored(store, r)
<1> DEFINE Shares(m) == r.words = {} \/ (r.words \cap m.words) \cup (r.tags \cap m.tags) # {}
           related == {m \in store : Shares(m)}
<1>1. \A m \in store : Relevant(m, r) <=> Shares(m)
  <2> TAKE m \in store
  <2>1. (Overlap(m, r) > 0 <=> r.words \cap m.words # {}) /\ (TagMatches(m, r) > 0 <=> r.tags \cap m.tags # {})
    BY ScoresAre
  <2>2. QED
    BY <2>1 DEF Relevant
<1>2. \A m : m \in RankedMemories(store, r) <=> m \in CandidateMemories(store, r) /\ Relevant(m, r)
  BY DEF RankedMemories
<1>3. \A m : m \in RankedMemories(related, r) <=> m \in CandidateMemories(related, r) /\ Relevant(m, r)
  BY DEF RankedMemories
<1> HIDE DEF Shares
<1>4. \A m : m \in CandidateMemories(related, r) <=> m \in CandidateMemories(store, r) /\ Shares(m)
  <2>1. \A m : m \in related <=> m \in store /\ Shares(m)
    OBVIOUS
  <2> HIDE DEF related
  <2>2. QED
    BY <2>1, CandidatesAre
<1>5. \A m : m \in CandidateMemories(store, r) => m \in store
  BY CandidatesAre
<1>6. \A m : m \in RankedMemories(store, r) <=> m \in RankedMemories(related, r)
  BY <1>1, <1>2, <1>3, <1>4, <1>5
<1>7. RankedMemories(store, r) = RankedMemories(related, r)
  BY <1>6
<1>8. Retrieve(store, r) = Retrieve(related, r)
  BY <1>7 DEF Retrieve
<1>9. \A i \in DOMAIN Retrieve(store, r) : Retrieve(store, r)[i] \in RankedMemories(store, r)
  BY RetrieveIs
<1>10. Range(Retrieve(store, r)) \subseteq related
  BY <1>1, <1>2, <1>5, <1>9 DEF Range
<1>11. QED
  BY <1>8, <1>10 DEF NoiseIsIgnored, Shares

(* A word more outweighs age and type, with this many memories.              *)
LEMMA AWordOutweighs ==
    ASSUME NEW o \in Nat, NEW p \in Nat, o > p, NEW t \in Nat, NEW u \in Nat, t >= u,
           NEW v \in 1..3, NEW w \in 1..3, NEW a \in Nat, a > 0, NEW b \in Nat, b < 99
    PROVE  /\ (100 * o + 25 * t + v) + a > (100 * p + 25 * u + w) + b
           /\ (100 * o + 25 * t + v) + a \in Int /\ (100 * p + 25 * u + w) + b \in Int
OBVIOUS

(* In every store, for every request: the better match comes first, as long  *)
(* as age cannot outweigh a word (memory/retrieval.py:59-69).                *)
THEOREM RelevanceHolds ==
    ASSUME NEW store, IsStore(store), NEW r, IsRecallRequest(r)
    PROVE  RelevanceComesFirst(store, r)
<1> DEFINE chosen == Retrieve(store, r)
           points == PointsOf(store, r)
           ranked == RankedMemories(store, r)
<1> SUFFICES ASSUME Cardinality(store) < WordWeight - 1, NEW m \in store, NEW j \in DOMAIN chosen,
                    m \in CandidateMemories(store, r),
                    (r.tags \cap chosen[j].tags) \subseteq m.tags,
                    Overlap(m, r) > Overlap(chosen[j], r)
             PROVE  \E i \in 1..(j - 1) : chosen[i] = m
  BY DEF RelevanceComesFirst
<1> DEFINE c == chosen[j]
<1>1. c \in ranked /\ c \in store /\ Cardinality(RankedAbove(points, c)) = j - 1
  <2>1. c \in ranked /\ Cardinality(RankedAbove(points, c)) = j - 1
    BY RetrieveIs
  <2>2. QED
    BY <2>1, PointsAre
<1>2. DOMAIN chosen \subseteq Nat \ {0} /\ \A i \in 1..j : i \in DOMAIN chosen
  BY RetrieveIs
<1> HIDE DEF chosen, points, ranked
<1>3. m \in ranked
  <2>1. Overlap(m, r) \in Nat /\ Overlap(c, r) \in Nat
    BY <1>1, ScoresAre
  <2>2. Overlap(m, r) > 0
    BY <2>1
  <2>3. QED
    BY <2>2 DEF ranked, RankedMemories, Relevant
<1>4. TagMatches(m, r) >= TagMatches(c, r)
  <2>1. IsFiniteSet(r.tags)
    BY DEF IsRecallRequest
  <2>2. r.tags \cap c.tags \in SUBSET (r.tags \cap m.tags) /\ r.tags \cap m.tags \in SUBSET r.tags
    OBVIOUS
  <2>3. IsFiniteSet(r.tags \cap m.tags)
    BY <2>1, <2>2, FS_Subset
  <2>4. Cardinality(r.tags \cap c.tags) <= Cardinality(r.tags \cap m.tags)
    BY <2>2, <2>3, FS_Subset
  <2>5. TagMatches(m, r) \in Nat /\ TagMatches(c, r) \in Nat
    BY <1>1, ScoresAre
  <2>6. QED
    BY <2>4, <2>5 DEF TagMatches
<1>5. points[m] > points[c] /\ points[m] \in Int /\ points[c] \in Int
  <2> DEFINE bonus(x) == RecencyBonus(x, ranked)
  <2>1. points[m] = Score(m, r) + bonus(m) /\ points[c] = Score(c, r) + bonus(c)
    BY <1>1, <1>3, PointsAre DEF points, ranked
  <2>2. /\ Overlap(m, r) \in Nat /\ TagMatches(m, r) \in Nat /\ TypeWeight(m.type) \in 1..3
        /\ Score(m, r) = 100 * Overlap(m, r) + 25 * TagMatches(m, r) + TypeWeight(m.type)
        /\ bonus(m) \in Nat /\ bonus(m) > 0 /\ Cardinality(store) \in Nat
    BY <1>3, ScoresAre DEF ranked
  <2>3. /\ Overlap(c, r) \in Nat /\ TagMatches(c, r) \in Nat /\ TypeWeight(c.type) \in 1..3
        /\ Score(c, r) = 100 * Overlap(c, r) + 25 * TagMatches(c, r) + TypeWeight(c.type)
        /\ bonus(c) \in Nat /\ bonus(c) <= Cardinality(store)
    BY <1>1, ScoresAre DEF ranked
  <2>4. Cardinality(store) < 99
    BY DEF WordWeight
  <2> HIDE DEF bonus, c
  <2>5. bonus(c) < 99 /\ Overlap(m, r) > Overlap(c, r)
    BY <2>2, <2>3, <2>4 DEF c
  <2>6. QED
    BY <1>4, <2>1, <2>2, <2>3, <2>5, AWordOutweighs
<1>6. Pointed(points) /\ DOMAIN points = ranked
  BY PointsAre DEF points, ranked
<1>7. m \in RankedAbove(points, c)
  BY <1>3, <1>5, <1>6 DEF RankedAbove
<1> DEFINE i == Cardinality(RankedAbove(points, m)) + 1
<1>8. i \in 1..(j - 1) /\ Cardinality(RankedAbove(points, m)) \in Nat
  <2>1. Cardinality(RankedAbove(points, m)) < Cardinality(RankedAbove(points, c)) /\ Cardinality(RankedAbove(points, m)) \in Nat
    BY <1>1, <1>3, <1>6, <1>7, AheadIs, AheadOrders
  <2>2. j \in Nat
    BY <1>2
  <2>3. QED
    BY <1>1, <2>1, <2>2
<1>9. chosen[i] \in ranked /\ Cardinality(RankedAbove(points, chosen[i])) = i - 1
  <2>1. i \in 1..j
    BY <1>2, <1>8
  <2>2. i \in DOMAIN chosen
    BY <1>2, <2>1
  <2>3. QED
    BY <2>2, RetrieveIs DEF chosen, ranked, points
<1>10. Cardinality(RankedAbove(points, chosen[i])) = Cardinality(RankedAbove(points, m))
  BY <1>8, <1>9
<1>11. chosen[i] = m
  BY <1>3, <1>6, <1>9, <1>10, PlacesDiffer
<1>12. QED
  BY <1>8, <1>11

-----------------------------------------------------------------------------
(* What a trace tells of the calls of its run                                *)

PlainTypes == {"tool_started", "policy_evaluated", "operation_failed", "tool_finished", "tool_failed",
               "analysis_started", "analysis_finished", "analysis_failed",
               "artifact_created", "chart_created", "report_created", "schema_inspected"}
QueryTypes == {"query_validation_started", "query_validated", "query_started",
               "query_finished", "query_rejected", "query_failed"}
EventsAbout(q) == [type : PlainTypes, query : {0}] \cup [type : QueryTypes, query : {q}]
AnyEvent == [type : PlainTypes \cup QueryTypes, query : Nat]

(* An event is of one type and of one query, or of none.                     *)
LEMMA EventsAreTyped ==
    ASSUME NEW q \in Nat
    PROVE  /\ EventsAbout(q) \subseteq AnyEvent
           /\ \A t \in PlainTypes : Event(t) \in EventsAbout(q) /\ Event(t).type = t
           /\ \A t \in QueryTypes : QueryEvent(t, q) \in EventsAbout(q) /\ QueryEvent(t, q).type = t
           /\ \A e \in EventsAbout(q) : e.type \in QueryTypes => e.query = q
<1>1. PlainTypes \cap QueryTypes = {}
  BY DEF PlainTypes, QueryTypes
<1> HIDE DEF PlainTypes, QueryTypes
<1>2. QED
  BY <1>1 DEF EventsAbout, AnyEvent, Event, QueryEvent

(* One if the type is among those counted                                    *)
In(t, types) == IF t \in types THEN 1 ELSE 0

Having(s, types) == {i \in DOMAIN s : s[i].type \in types}

LEMMA HavingIs ==
    ASSUME NEW S, NEW s \in Seq(S), NEW types
    PROVE  /\ IsFiniteSet(Having(s, types)) /\ CountOf(s, types) \in Nat
           /\ CountOf(s, types) = Cardinality(Having(s, types))
           /\ Having(s, types) \subseteq 1..Len(s) /\ Len(s) \in Nat
<1>1. Len(s) \in Nat /\ DOMAIN s = 1..Len(s)
  BY LenProperties
<1>2. Having(s, types) \in SUBSET (1..Len(s))
  BY <1>1 DEF Having
<1>3. IsFiniteSet(1..Len(s))
  BY <1>1, FS_Interval
<1>4. IsFiniteSet(Having(s, types)) /\ Cardinality(Having(s, types)) \in Nat
  BY <1>2, <1>3, FS_Subset, FS_CardinalityType
<1>5. CountOf(s, types) = Cardinality(Having(s, types))
  BY DEF CountOf, Having
<1>6. QED
  BY <1>1, <1>2, <1>4, <1>5

(* No events, none of any type.                                              *)
LEMMA CountNone == \A types : CountOf(<<>>, types) = 0
<1>1. \A types : {i \in DOMAIN <<>> : <<>>[i].type \in types} = {}
  OBVIOUS
<1>2. QED
  BY <1>1, FS_EmptySet DEF CountOf

(* One event counts for its own type.                                        *)
LEMMA CountOne ==
    ASSUME NEW S, NEW e \in S
    PROVE  <<e>> \in Seq(S) /\ Len(<<e>>) = 1 /\ <<e>>[1] = e
           /\ \A types : CountOf(<<e>>, types) = In(e.type, types)
<1>1. <<e>> \in Seq(S) /\ Len(<<e>>) = 1 /\ <<e>>[1] = e
  OBVIOUS
<1>2. ASSUME NEW types PROVE CountOf(<<e>>, types) = In(e.type, types)
  <2>1. DOMAIN <<e>> = {1}
    OBVIOUS
  <2>2. Having(<<e>>, types) = IF e.type \in types THEN {1} ELSE {}
    BY <1>1, <2>1 DEF Having
  <2>3. Cardinality({1}) = 1 /\ Cardinality({}) = 0
    BY FS_Singleton, FS_EmptySet
  <2>4. CountOf(<<e>>, types) = Cardinality(Having(<<e>>, types))
    BY DEF CountOf, Having
  <2>5. QED
    BY <2>2, <2>3, <2>4 DEF In
<1>3. QED
  BY <1>1, <1>2

(* What is counted in two sequences is counted in both together.             *)
LEMMA CountConcat ==
    ASSUME NEW S, NEW s \in Seq(S), NEW t \in Seq(S), NEW types
    PROVE  CountOf(s \o t, types) = CountOf(s, types) + CountOf(t, types)
<1> DEFINE m == Len(s)
           k == Len(t)
           A == Having(s, types)
           B == Having(t, types)
           C == {i \in (m + 1)..(m + k) : i - m \in B}
           f == [i \in B |-> i + m]
<1>1. m \in Nat /\ k \in Nat /\ DOMAIN s = 1..m /\ DOMAIN t = 1..k
  BY LenProperties
<1>2. /\ s \o t \in Seq(S) /\ Len(s \o t) = m + k
      /\ \A i \in 1..(m + k) : (s \o t)[i] = IF i <= m THEN s[i] ELSE t[i - m]
  BY ConcatProperties
<1>3. DOMAIN (s \o t) = 1..(m + k)
  BY <1>2, LenProperties
<1>4. Having(s \o t, types) = A \cup C
  <2>1. ASSUME NEW i \in 1..m PROVE i \in Having(s \o t, types) <=> i \in A
    <3>1. i \in 1..(m + k) /\ i <= m
      BY <1>1
    <3>2. (s \o t)[i] = s[i]
      BY <1>2, <3>1
    <3>3. QED
      BY <1>1, <1>3, <3>1, <3>2 DEF Having
  <2>2. ASSUME NEW i \in (m + 1)..(m + k) PROVE i \in Having(s \o t, types) <=> i \in C
    <3>1. i \in 1..(m + k) /\ ~(i <= m) /\ i - m \in 1..k
      BY <1>1
    <3>2. (s \o t)[i] = t[i - m]
      BY <1>2, <3>1
    <3>3. QED
      BY <1>1, <1>3, <3>1, <3>2 DEF Having
  <2>3. A \subseteq 1..m /\ C \subseteq (m + 1)..(m + k) /\ Having(s \o t, types) \subseteq 1..(m + k)
    BY <1>1, <1>3 DEF Having
  <2>4. \A i : i \in 1..(m + k) <=> i \in 1..m \/ i \in (m + 1)..(m + k)
    BY <1>1
  <2>5. \A i : ~(i \in 1..m /\ i \in (m + 1)..(m + k))
    BY <1>1
  <2> HIDE DEF A, C, m, k
  <2>6. QED
    BY <2>1, <2>2, <2>3, <2>4, <2>5
<1>5. /\ IsFiniteSet(A) /\ IsFiniteSet(B) /\ A \subseteq 1..m /\ B \subseteq 1..k
      /\ CountOf(s, types) = Cardinality(A) /\ CountOf(t, types) = Cardinality(B)
      /\ CountOf(s \o t, types) = Cardinality(Having(s \o t, types))
  BY <1>2, HavingIs
<1> HIDE DEF A, B
<1>6. f \in Bijection(B, C)
  <2>1. ASSUME NEW i \in B PROVE i + m \in C /\ f[i] = i + m
    <3>1. i \in 1..k
      BY <1>5
    <3>2. i + m \in (m + 1)..(m + k) /\ (i + m) - m = i
      BY <1>1, <3>1
    <3>3. QED
      BY <3>2
  <2>2. f \in [B -> C]
    BY <2>1
  <2>3. \A i, j \in B : f[i] = f[j] => i = j
    <3>1. \A i \in B : i \in Int
      BY <1>1, <1>5
    <3> HIDE DEF f
    <3>2. QED
      BY <1>1, <2>1, <3>1
  <2>4. ASSUME NEW c \in C PROVE \E i \in B : f[i] = c
    <3>1. c - m \in B /\ c \in Int /\ (c - m) + m = c
      BY <1>1
    <3>2. f[c - m] = c
      BY <2>1, <3>1
    <3>3. QED
      BY <3>1, <3>2
  <2> HIDE DEF f, C
  <2>5. f \in Injection(B, C)
    BY <2>2, <2>3 DEF Injection, IsInjective
  <2>6. f \in Surjection(B, C)
    BY <2>2, <2>4 DEF Surjection
  <2>7. QED
    BY <2>5, <2>6 DEF Bijection
<1>7. IsFiniteSet(C) /\ Cardinality(C) = Cardinality(B)
  <2> HIDE DEF f, C
  <2>1. ExistsBijection(B, C)
    BY <1>6 DEF ExistsBijection
  <2>2. QED
    BY <1>5, <2>1, FS_Bijection
<1>8. A \cap C = {}
  BY <1>1, <1>5
<1> HIDE DEF C
<1>9. Cardinality(A \cup C) = Cardinality(A) + Cardinality(C) - Cardinality({})
  BY <1>5, <1>7, <1>8, FS_Union
<1>10. Cardinality({}) = 0 /\ Cardinality(A) \in Nat /\ Cardinality(C) \in Nat
  BY <1>5, <1>7, FS_EmptySet, FS_CardinalityType
<1>11. QED
  BY <1>4, <1>5, <1>7, <1>9, <1>10

(* Two events, one after the other.                                          *)
LEMMA CountTwo ==
    ASSUME NEW S, NEW a \in S, NEW b \in S
    PROVE  <<a, b>> \in Seq(S) /\ \A types : CountOf(<<a, b>>, types) = In(a.type, types) + In(b.type, types)
<1> DEFINE s == <<a>>
           t == <<b>>
           u == <<a, b>>
<1>1. s \in Seq(S) /\ t \in Seq(S) /\ u \in Seq(S)
  OBVIOUS
<1>2. Len(s) = 1 /\ Len(t) = 1 /\ Len(u) = 2 /\ s[1] = a /\ t[1] = b /\ u[1] = a /\ u[2] = b
  OBVIOUS
<1>3. /\ \A types : CountOf(s, types) = In(a.type, types)
      /\ \A types : CountOf(t, types) = In(b.type, types)
  BY CountOne
<1> HIDE DEF s, t, u
<1>4. /\ s \o t \in Seq(S) /\ Len(s \o t) = Len(s) + Len(t)
      /\ \A i \in 1..(Len(s) + Len(t)) : (s \o t)[i] = IF i <= Len(s) THEN s[i] ELSE t[i - Len(s)]
  BY <1>1, ConcatProperties
<1>5. Len(s \o t) = 2 /\ (s \o t)[1] = a /\ (s \o t)[2] = b
  <2>1. /\ Len(s) + Len(t) = 2 /\ 1 \in 1..(Len(s) + Len(t)) /\ 2 \in 1..(Len(s) + Len(t))
        /\ 1 <= Len(s) /\ ~(2 <= Len(s)) /\ 2 - Len(s) = 1
    BY <1>2
  <2>2. (s \o t)[1] = s[1] /\ (s \o t)[2] = t[2 - Len(s)]
    BY <1>4, <2>1
  <2>3. t[2 - Len(s)] = t[1]
    BY <2>1
  <2>4. QED
    BY <1>2, <1>4, <2>1, <2>2, <2>3
<1>6. u = s \o t
  <2>1. \A i \in 1..Len(u) : i = 1 \/ i = 2
    BY <1>2
  <2>2. \A i \in 1..Len(u) : u[i] = (s \o t)[i]
    BY <1>2, <1>5, <2>1
  <2>3. QED
    BY <1>1, <1>2, <1>4, <1>5, <2>2, SeqEqual
<1>7. \A types : CountOf(s \o t, types) = CountOf(s, types) + CountOf(t, types)
  BY <1>1, CountConcat
<1>8. \A types : CountOf(u, types) = In(a.type, types) + In(b.type, types)
  BY <1>3, <1>6, <1>7
<1>9. QED
  BY <1>1, <1>8 DEF u

(* Three events, one after the other.                                        *)
LEMMA CountThree ==
    ASSUME NEW S, NEW a \in S, NEW b \in S, NEW c \in S
    PROVE  /\ <<a, b, c>> \in Seq(S)
           /\ \A types : CountOf(<<a, b, c>>, types) = In(a.type, types) + In(b.type, types) + In(c.type, types)
<1> DEFINE s == <<a, b>>
           t == <<c>>
<1>1. s \in Seq(S) /\ t \in Seq(S) /\ <<a, b, c>> \in Seq(S)
  OBVIOUS
<1>2. <<a, b, c>> = s \o t
  OBVIOUS
<1>3. /\ \A types : CountOf(s, types) = In(a.type, types) + In(b.type, types)
      /\ \A types : CountOf(t, types) = In(c.type, types)
  BY CountOne, CountTwo
<1> HIDE DEF s, t
<1>4. \A types : CountOf(s \o t, types) = CountOf(s, types) + CountOf(t, types)
  BY <1>1, CountConcat
<1>5. \A types : CountOf(s \o t, types) = In(a.type, types) + In(b.type, types) + In(c.type, types)
  BY <1>3, <1>4
<1>6. QED
  BY <1>1, <1>2, <1>5

(* The same events n times over have each of them n times.                   *)
LEMMA OfEachIs ==
    ASSUME NEW S, NEW n \in Nat, NEW s \in Seq(S)
    PROVE  OfEach(n, s) \in Seq(S) /\ \A types : CountOf(OfEach(n, s), types) = n * CountOf(s, types)
<1> DEFINE X == Seq(S)
           step == [i \in 1..n |-> [x \in X |-> x \o s]]
           Defines(g) == g = [i \in 0..n |-> IF i = 0 THEN <<>> ELSE g[i - 1] \o s]
           h == CHOOSE g : Defines(g)
<1>1. OfEach(n, s) = h[n]
  BY DEF OfEach
<1>2. step \in [1..n -> [X -> X]]
  <2>1. \A x \in X : x \o s \in X
    BY ConcatProperties
  <2> HIDE DEF X
  <2>2. QED
    BY <2>1
<1>3. \A i \in 1..n : \A x \in X : step[i][x] = x \o s
  OBVIOUS
<1>4. <<>> \in X
  BY EmptySeq
<1> HIDE DEF step, X
<1>5. PICK f \in [0..n -> X] : Steps(f, <<>>, step, n)
  BY <1>2, <1>4, StepsExist
<1>6. f[0] = <<>> /\ \A i \in 1..n : f[i - 1] \in X /\ f[i] = f[i - 1] \o s
  <2>1. \A i \in 1..n : i - 1 \in 0..n
    OBVIOUS
  <2>2. f[0] = <<>> /\ \A i \in 1..n : f[i] = step[i][f[i - 1]]
    BY <1>5 DEF Steps
  <2>3. QED
    BY <1>3, <1>5, <2>1, <2>2
<1>7. Defines(f)
  <2>1. \A i \in 0..n : i = 0 \/ i \in 1..n
    OBVIOUS
  <2>2. \A i \in 0..n : f[i] = IF i = 0 THEN <<>> ELSE f[i - 1] \o s
    BY <1>6, <2>1
  <2>3. f = [i \in 0..n |-> f[i]]
    BY <1>5
  <2>4. QED
    BY <2>2, <2>3
<1>8. Defines(h)
  <2> HIDE DEF Defines
  <2>1. QED
    BY <1>7
<1> HIDE DEF h
<1>9. h[n] = f[n]
  <2>1. \A i \in 0..n : h[i] = IF i = 0 THEN <<>> ELSE h[i - 1] \o s
    BY <1>8
  <2>2. 0 \in 0..n /\ n \in 0..n /\ \A i \in 1..n : i \in 0..n /\ i # 0
    OBVIOUS
  <2>3. SameSteps(h, f, n)
    BY <1>6, <2>1, <2>2 DEF SameSteps
  <2>4. QED
    BY <2>2, <2>3, Agree
<1>10. ASSUME NEW types PROVE CountOf(f[n], types) = n * CountOf(s, types)
  <2> DEFINE c == CountOf(s, types)
             T == {i \in Nat : i \in 0..n => CountOf(f[i], types) = i * c}
  <2>1. c \in Nat
    BY HavingIs
  <2> HIDE DEF c
  <2>2. 0 \in T
    <3>1. CountOf(f[0], types) = 0 /\ 0 * c = 0
      BY <1>6, <2>1, CountNone
    <3>2. QED
      BY <3>1
  <2>3. ASSUME NEW i \in Nat, i \in T PROVE i + 1 \in T
    <3> SUFFICES ASSUME i + 1 \in 0..n PROVE CountOf(f[i + 1], types) = (i + 1) * c
      OBVIOUS
    <3>1. i \in 0..n /\ i + 1 \in 1..n /\ (i + 1) - 1 = i
      OBVIOUS
    <3>2. f[i + 1] = f[i] \o s /\ f[i] \in X
      BY <1>6, <3>1
    <3>3. CountOf(f[i + 1], types) = CountOf(f[i], types) + c
      BY <3>2, CountConcat DEF X, c
    <3>4. CountOf(f[i], types) = i * c
      BY <2>3, <3>1
    <3>5. (i + 1) * c = i * c + c
      BY <2>1
    <3>6. QED
      BY <3>3, <3>4, <3>5
  <2> HIDE DEF T
  <2>4. \A i \in Nat : i \in T
    BY <2>2, <2>3, Induction
  <2>5. n \in T /\ n \in 0..n
    BY <2>4
  <2>6. QED
    BY <2>5 DEF T, c
<1>11. f[n] \in Seq(S)
  BY <1>5 DEF X
<1>12. QED
  BY <1>1, <1>9, <1>10, <1>11

-----------------------------------------------------------------------------
(* What one call adds to the trace                                           *)

StartTells(x, T) ==
    IF x.tool = "query_database" THEN In("query_validation_started", T)
    ELSE IF x.tool = "analyze_dataset" THEN In("analysis_started", T) ELSE 0
AuthorizeTells(x, T) == In("policy_evaluated", T) + IF x.decision = "raises" THEN In("operation_failed", T) ELSE 0
FinishTells(x, T) ==
    IF Succeeds(x) THEN In("tool_finished", T) ELSE In("tool_failed", T) + In("operation_failed", T)
QueryTells(x, T) ==
    IF Succeeds(x) THEN In("query_validated", T) + In("query_started", T) + In("query_finished", T)
    ELSE IF FailureCategory(x) = "database_query_rejected" THEN In("query_rejected", T)
    ELSE In("query_failed", T)
AnalysisTells(x, T) ==
    IF Succeeds(x) THEN In("analysis_finished", T) + x.made * (In("artifact_created", T) + In("chart_created", T))
    ELSE In("analysis_failed", T)
ReportTells(x, T) ==
    IF Succeeds(x)
    THEN In("artifact_created", T) + In("report_created", T) + (x.made - 1) * In("artifact_created", T)
    ELSE 0
EndTells(x, T) ==
    IF x.tool = "query_database" THEN QueryTells(x, T)
    ELSE IF x.tool = "analyze_dataset" THEN AnalysisTells(x, T)
    ELSE IF x.tool = "generate_report" THEN ReportTells(x, T)
    ELSE IF x.tool = "register_artifact" THEN (IF Succeeds(x) THEN In("artifact_created", T) ELSE 0)
    ELSE IF x.tool \in SchemaTools THEN In("schema_inspected", T)
    ELSE 0

(* What says nothing is a sequence of events.                                *)
LEMMA NothingTold ==
    ASSUME NEW q \in Nat
    PROVE  <<>> \in Seq(EventsAbout(q)) /\ \A types : CountOf(<<>>, types) = 0
BY CountNone, EmptySeq

(* So is one event.                                                          *)
LEMMA OneTold ==
    ASSUME NEW q \in Nat, NEW t \in PlainTypes
    PROVE  <<Event(t)>> \in Seq(EventsAbout(q)) /\ \A types : CountOf(<<Event(t)>>, types) = In(t, types)
<1>1. Event(t) \in EventsAbout(q) /\ Event(t).type = t
  BY EventsAreTyped
<1>2. QED
  BY <1>1, CountOne

(* So is one event of a query.                                               *)
LEMMA QueryTold ==
    ASSUME NEW q \in Nat, NEW t \in QueryTypes
    PROVE  /\ <<QueryEvent(t, q)>> \in Seq(EventsAbout(q))
           /\ \A types : CountOf(<<QueryEvent(t, q)>>, types) = In(t, types)
<1>1. QueryEvent(t, q) \in EventsAbout(q) /\ QueryEvent(t, q).type = t
  BY EventsAreTyped
<1>2. QED
  BY <1>1, CountOne

(* What is told when a tool starts.                                          *)
LEMMA StartIs ==
    ASSUME NEW x, NEW q \in Nat
    PROVE  /\ OnTraceStart(x, q) \in Seq(EventsAbout(q))
           /\ \A types : CountOf(OnTraceStart(x, q), types) = StartTells(x, types)
<1>1. CASE x.tool = "query_database"
  <2>1. OnTraceStart(x, q) = <<QueryEvent("query_validation_started", q)>>
    BY <1>1 DEF OnTraceStart
  <2>2. "query_validation_started" \in QueryTypes
    BY DEF QueryTypes
  <2>3. QED
    BY <1>1, <2>1, <2>2, QueryTold DEF StartTells
<1>2. CASE x.tool = "analyze_dataset"
  <2>1. OnTraceStart(x, q) = <<Event("analysis_started")>>
    BY <1>2 DEF OnTraceStart
  <2>2. "analysis_started" \in PlainTypes
    BY DEF PlainTypes
  <2>3. QED
    BY <1>2, <2>1, <2>2, OneTold DEF StartTells
<1>3. CASE x.tool \notin {"query_database", "analyze_dataset"}
  <2>1. OnTraceStart(x, q) = <<>>
    BY <1>3 DEF OnTraceStart
  <2>2. \A types : StartTells(x, types) = 0
    BY <1>3 DEF StartTells
  <2>3. QED
    BY <2>1, <2>2, NothingTold
<1>4. QED
  BY <1>1, <1>2, <1>3

(* What is told of the decision of the policy.                               *)
LEMMA AuthorizeIs ==
    ASSUME NEW x, NEW q \in Nat
    PROVE  /\ AuthorizeEvents(x) \in Seq(EventsAbout(q))
           /\ \A types : CountOf(AuthorizeEvents(x), types) = AuthorizeTells(x, types)
<1> DEFINE a == <<Event("policy_evaluated")>>
           b == IF x.decision = "raises" THEN <<Event("operation_failed")>> ELSE <<>>
           TellsB(T) == IF x.decision = "raises" THEN In("operation_failed", T) ELSE 0
<1>1. a \in Seq(EventsAbout(q)) /\ \A types : CountOf(a, types) = In("policy_evaluated", types)
  <2>1. "policy_evaluated" \in PlainTypes
    BY DEF PlainTypes
  <2>2. QED
    BY <2>1, OneTold
<1>2. b \in Seq(EventsAbout(q)) /\ \A types : CountOf(b, types) = TellsB(types)
  <2>1. "operation_failed" \in PlainTypes
    BY DEF PlainTypes
  <2>2. CASE x.decision = "raises"
    BY <2>1, <2>2, OneTold
  <2>3. CASE x.decision # "raises"
    BY <2>3, NothingTold
  <2>4. QED
    BY <2>2, <2>3
<1>3. AuthorizeEvents(x) = a \o b
  BY DEF AuthorizeEvents
<1>4. \A types : AuthorizeTells(x, types) = In("policy_evaluated", types) + TellsB(types)
  BY DEF AuthorizeTells
<1> HIDE DEF a, b, TellsB
<1>5. a \o b \in Seq(EventsAbout(q))
  BY <1>1, <1>2, ConcatProperties
<1>6. \A types : CountOf(a \o b, types) = CountOf(a, types) + CountOf(b, types)
  BY <1>1, <1>2, CountConcat
<1>7. QED
  BY <1>1, <1>2, <1>3, <1>4, <1>5, <1>6

(* What is told of the end of a tool.                                        *)
LEMMA FinishIs ==
    ASSUME NEW x, NEW q \in Nat
    PROVE  /\ FinishEvents(x) \in Seq(EventsAbout(q))
           /\ \A types : CountOf(FinishEvents(x), types) = FinishTells(x, types)
<1>1. "tool_finished" \in PlainTypes /\ "tool_failed" \in PlainTypes /\ "operation_failed" \in PlainTypes
  BY DEF PlainTypes
<1>2. CASE Succeeds(x)
  BY <1>1, <1>2, OneTold DEF FinishEvents, FinishTells
<1>3. CASE ~Succeeds(x)
  <2>1. /\ Event("tool_failed") \in EventsAbout(q) /\ Event("tool_failed").type = "tool_failed"
        /\ Event("operation_failed") \in EventsAbout(q) /\ Event("operation_failed").type = "operation_failed"
    BY <1>1, EventsAreTyped
  <2>2. FinishEvents(x) = <<Event("tool_failed"), Event("operation_failed")>>
    BY <1>3 DEF FinishEvents
  <2>3. \A types : FinishTells(x, types) = In("tool_failed", types) + In("operation_failed", types)
    BY <1>3 DEF FinishTells
  <2>4. QED
    BY <2>1, <2>2, <2>3, CountTwo
<1>4. QED
  BY <1>2, <1>3

(* What is told of the end of a query.                                       *)
LEMMA QueryEndsIs ==
    ASSUME NEW x, NEW q \in Nat
    PROVE  /\ QueryEnds(x, q) \in Seq(EventsAbout(q))
           /\ \A types : CountOf(QueryEnds(x, q), types) = QueryTells(x, types)
<1>1. {"query_validated", "query_started", "query_finished", "query_rejected", "query_failed"} \subseteq QueryTypes
  BY DEF QueryTypes
<1>2. CASE Succeeds(x)
  <2> DEFINE a == QueryEvent("query_validated", q)
             b == QueryEvent("query_started", q)
             c == QueryEvent("query_finished", q)
  <2>1. a \in EventsAbout(q) /\ a.type = "query_validated"
    BY <1>1, EventsAreTyped
  <2>2. b \in EventsAbout(q) /\ b.type = "query_started"
    BY <1>1, EventsAreTyped
  <2>3. c \in EventsAbout(q) /\ c.type = "query_finished"
    BY <1>1, EventsAreTyped
  <2>4. QueryEnds(x, q) = <<a, b, c>>
    BY <1>2 DEF QueryEnds
  <2>5. \A types : QueryTells(x, types) = In("query_validated", types) + In("query_started", types) + In("query_finished", types)
    BY <1>2 DEF QueryTells
  <2> HIDE DEF a, b, c
  <2>6. QED
    BY <2>1, <2>2, <2>3, <2>4, <2>5, CountThree
<1>3. CASE ~Succeeds(x) /\ FailureCategory(x) = "database_query_rejected"
  <2>1. QueryEnds(x, q) = <<QueryEvent("query_rejected", q)>>
    BY <1>3 DEF QueryEnds
  <2>2. \A types : QueryTells(x, types) = In("query_rejected", types)
    BY <1>3 DEF QueryTells
  <2>3. QED
    BY <1>1, <2>1, <2>2, QueryTold
<1>4. CASE ~Succeeds(x) /\ FailureCategory(x) # "database_query_rejected"
  <2>1. QueryEnds(x, q) = <<QueryEvent("query_failed", q)>>
    BY <1>4 DEF QueryEnds
  <2>2. \A types : QueryTells(x, types) = In("query_failed", types)
    BY <1>4 DEF QueryTells
  <2>3. QED
    BY <1>1, <2>1, <2>2, QueryTold
<1>5. QED
  BY <1>2, <1>3, <1>4

(* What is told of the end of an analysis.                                   *)
LEMMA AnalysisEndsIs ==
    ASSUME NEW x, x.made \in Nat, NEW q \in Nat
    PROVE  /\ AnalysisEnds(x) \in Seq(EventsAbout(q))
           /\ \A types : CountOf(AnalysisEnds(x), types) = AnalysisTells(x, types)
<1>1. {"analysis_finished", "analysis_failed", "artifact_created", "chart_created"} \subseteq PlainTypes
  BY DEF PlainTypes
<1>2. CASE Succeeds(x)
  <2> DEFINE a == <<Event("analysis_finished")>>
             made == <<Event("artifact_created"), Event("chart_created")>>
             b == OfEach(x.made, made)
  <2>1. a \in Seq(EventsAbout(q)) /\ \A types : CountOf(a, types) = In("analysis_finished", types)
    BY <1>1, OneTold
  <2>2. /\ made \in Seq(EventsAbout(q))
        /\ \A types : CountOf(made, types) = In("artifact_created", types) + In("chart_created", types)
    <3>1. Event("artifact_created") \in EventsAbout(q) /\ Event("artifact_created").type = "artifact_created"
      BY <1>1, EventsAreTyped
    <3>2. Event("chart_created") \in EventsAbout(q) /\ Event("chart_created").type = "chart_created"
      BY <1>1, EventsAreTyped
    <3>3. QED
      BY <3>1, <3>2, CountTwo
  <2>3. AnalysisEnds(x) = a \o b
    BY <1>2 DEF AnalysisEnds
  <2> HIDE DEF a, made
  <2>4. b \in Seq(EventsAbout(q)) /\ \A types : CountOf(b, types) = x.made * CountOf(made, types)
    BY <2>2, OfEachIs
  <2> HIDE DEF b
  <2>5. a \o b \in Seq(EventsAbout(q)) /\ \A types : CountOf(a \o b, types) = CountOf(a, types) + CountOf(b, types)
    BY <2>1, <2>4, ConcatProperties, CountConcat
  <2>6. \A types : AnalysisTells(x, types) = CountOf(a, types) + CountOf(b, types)
    BY <1>2, <2>1, <2>2, <2>4 DEF AnalysisTells
  <2>7. QED
    BY <2>3, <2>5, <2>6
<1>3. CASE ~Succeeds(x)
  BY <1>1, <1>3, OneTold DEF AnalysisEnds, AnalysisTells
<1>4. QED
  BY <1>2, <1>3

(* What is told of the end of a report.                                      *)
LEMMA ReportEndsIs ==
    ASSUME NEW x, x.made \in Nat, Succeeds(x) => x.made > 0, NEW q \in Nat
    PROVE  /\ ReportEnds(x) \in Seq(EventsAbout(q))
           /\ \A types : CountOf(ReportEnds(x), types) = ReportTells(x, types)
<1>1. {"report_created", "artifact_created"} \subseteq PlainTypes
  BY DEF PlainTypes
<1>2. CASE Succeeds(x)
  <2> DEFINE made == <<Event("artifact_created")>>
             a == <<Event("artifact_created"), Event("report_created")>>
             b == OfEach(x.made - 1, made)
  <2>1. made \in Seq(EventsAbout(q)) /\ \A types : CountOf(made, types) = In("artifact_created", types)
    BY <1>1, OneTold
  <2>2. /\ a \in Seq(EventsAbout(q))
        /\ \A types : CountOf(a, types) = In("artifact_created", types) + In("report_created", types)
    <3>1. Event("artifact_created") \in EventsAbout(q) /\ Event("artifact_created").type = "artifact_created"
      BY <1>1, EventsAreTyped
    <3>2. Event("report_created") \in EventsAbout(q) /\ Event("report_created").type = "report_created"
      BY <1>1, EventsAreTyped
    <3>3. QED
      BY <3>1, <3>2, CountTwo
  <2>3. ReportEnds(x) = a \o b
    BY <1>2 DEF ReportEnds
  <2>4. x.made - 1 \in Nat
    BY <1>2
  <2> HIDE DEF a, made
  <2>5. b \in Seq(EventsAbout(q)) /\ \A types : CountOf(b, types) = (x.made - 1) * CountOf(made, types)
    BY <2>1, <2>4, OfEachIs
  <2> HIDE DEF b
  <2>6. a \o b \in Seq(EventsAbout(q)) /\ \A types : CountOf(a \o b, types) = CountOf(a, types) + CountOf(b, types)
    BY <2>2, <2>5, ConcatProperties, CountConcat
  <2>7. \A types : ReportTells(x, types) = CountOf(a, types) + CountOf(b, types)
    BY <1>2, <2>1, <2>2, <2>5 DEF ReportTells
  <2>8. QED
    BY <2>3, <2>6, <2>7
<1>3. CASE ~Succeeds(x)
  <2>1. ReportEnds(x) = <<>> /\ \A types : ReportTells(x, types) = 0
    BY <1>3 DEF ReportEnds, ReportTells
  <2>2. QED
    BY <2>1, NothingTold
<1>4. QED
  BY <1>2, <1>3

(* What is told of the end of any operation.                                 *)
LEMMA EndIs ==
    ASSUME NEW x, IsCall(x), NEW q \in Nat
    PROVE  /\ OnTraceFinish(x, q) \in Seq(EventsAbout(q))
           /\ \A types : CountOf(OnTraceFinish(x, q), types) = EndTells(x, types)
<1>1. x.made \in Nat /\ (Succeeds(x) /\ x.tool = "generate_report" => x.made > 0)
  BY DEF IsCall
<1>2. {"artifact_created", "schema_inspected"} \subseteq PlainTypes
  BY DEF PlainTypes
<1>3. CASE x.tool = "query_database"
  <2>1. OnTraceFinish(x, q) = QueryEnds(x, q)
    BY <1>3 DEF OnTraceFinish, SchemaTools
  <2>2. \A types : EndTells(x, types) = QueryTells(x, types)
    BY <1>3 DEF EndTells
  <2>3. QED
    BY <2>1, <2>2, QueryEndsIs
<1>4. CASE x.tool = "analyze_dataset"
  <2>1. OnTraceFinish(x, q) = AnalysisEnds(x)
    BY <1>4 DEF OnTraceFinish, SchemaTools
  <2>2. \A types : EndTells(x, types) = AnalysisTells(x, types)
    BY <1>4 DEF EndTells
  <2>3. QED
    BY <1>1, <2>1, <2>2, AnalysisEndsIs
<1>5. CASE x.tool = "generate_report"
  <2>1. OnTraceFinish(x, q) = ReportEnds(x)
    BY <1>5 DEF OnTraceFinish, SchemaTools
  <2>2. \A types : EndTells(x, types) = ReportTells(x, types)
    BY <1>5 DEF EndTells
  <2>3. QED
    BY <1>1, <1>5, <2>1, <2>2, ReportEndsIs
<1>6. CASE x.tool = "register_artifact"
  <2>1. OnTraceFinish(x, q) = ArtifactEnds(x)
    BY <1>6 DEF OnTraceFinish, SchemaTools
  <2>2. \A types : EndTells(x, types) = IF Succeeds(x) THEN In("artifact_created", types) ELSE 0
    BY <1>6 DEF EndTells
  <2>3. CASE Succeeds(x)
    BY <1>2, <2>1, <2>2, <2>3, OneTold DEF ArtifactEnds
  <2>4. CASE ~Succeeds(x)
    BY <2>1, <2>2, <2>4, NothingTold DEF ArtifactEnds
  <2>5. QED
    BY <2>3, <2>4
<1>7. CASE x.tool \in SchemaTools
  <2>1. OnTraceFinish(x, q) = <<Event("schema_inspected")>>
    BY <1>7 DEF OnTraceFinish, SchemaTools
  <2>2. \A types : EndTells(x, types) = In("schema_inspected", types)
    BY <1>7 DEF EndTells, SchemaTools
  <2>3. QED
    BY <1>2, <2>1, <2>2, OneTold
<1>8. CASE x.tool \notin {"query_database", "analyze_dataset", "generate_report", "register_artifact"} \cup SchemaTools
  <2>1. OnTraceFinish(x, q) = <<>>
    BY <1>8 DEF OnTraceFinish
  <2>2. \A types : EndTells(x, types) = 0
    BY <1>8 DEF EndTells
  <2>3. QED
    BY <2>1, <2>2, NothingTold
<1>9. QED
  BY <1>3, <1>4, <1>5, <1>6, <1>7, <1>8

PartTells(x, T) ==
    In("tool_started", T) + (IF Reaches(x) THEN StartTells(x, T) + AuthorizeTells(x, T) ELSE 0)
    + FinishTells(x, T) + (IF IsKnown(x) THEN EndTells(x, T) ELSE 0)

(* The part of a call: its events, where it starts, the number it gives its  *)
(* query and how many events of each type it has.                            *)
IsPart(p, x, q) ==
    /\ p \in Seq(EventsAbout(q)) /\ Len(p) >= 1 /\ p[1].type = "tool_started"
    /\ Reaches(x) /\ x.tool = "query_database" => Len(p) >= 2 /\ p[2] = QueryEvent("query_validation_started", q)
    /\ \A types : CountOf(p, types) = PartTells(x, types)

LEMMA PartIs ==
    ASSUME NEW x, IsCall(x), NEW trace \in Seq(AnyEvent)
    PROVE  NextQuery(trace) \in Nat \ {0} /\ IsPart(EventsOf(trace, x), x, NextQuery(trace))
<1> DEFINE q == NextQuery(trace)
           S == EventsAbout(q)
           a == <<Event("tool_started")>>
           start == OnTraceStart(x, q)
           b == IF Reaches(x) THEN start \o AuthorizeEvents(x) ELSE <<>>
           c == FinishEvents(x)
           d == IF IsKnown(x) THEN OnTraceFinish(x, q) ELSE <<>>
           TellsB(T) == IF Reaches(x) THEN StartTells(x, T) + AuthorizeTells(x, T) ELSE 0
           TellsD(T) == IF IsKnown(x) THEN EndTells(x, T) ELSE 0
<1>1. q \in Nat /\ q # 0
  <2>1. CountOf(trace, {"query_validation_started"}) \in Nat
    BY HavingIs
  <2>2. QED
    BY <2>1 DEF NextQuery
<1>2. EventsOf(trace, x) = a \o b \o c \o d
  BY DEF EventsOf
<1> HIDE DEF q
<1>3. /\ a \in Seq(S) /\ Len(a) = 1 /\ a[1].type = "tool_started"
      /\ \A types : CountOf(a, types) = In("tool_started", types)
  <2>1. "tool_started" \in PlainTypes
    BY DEF PlainTypes
  <2>2. Event("tool_started").type = "tool_started"
    BY DEF Event
  <2>3. QED
    BY <1>1, <2>1, <2>2, OneTold
<1>4. start \in Seq(S) /\ \A types : CountOf(start, types) = StartTells(x, types)
  BY <1>1, StartIs
<1>5. AuthorizeEvents(x) \in Seq(S) /\ \A types : CountOf(AuthorizeEvents(x), types) = AuthorizeTells(x, types)
  BY <1>1, AuthorizeIs
<1>6. x.tool = "query_database" => start = <<QueryEvent("query_validation_started", q)>>
  BY DEF OnTraceStart
<1> HIDE DEF S, start
<1>7. b \in Seq(S) /\ \A types : CountOf(b, types) = TellsB(types)
  <2>1. CASE Reaches(x)
    BY <1>4, <1>5, <2>1, ConcatProperties, CountConcat
  <2>2. CASE ~Reaches(x)
    BY <2>2, CountNone, EmptySeq
  <2>3. QED
    BY <2>1, <2>2
<1>8. c \in Seq(S) /\ \A types : CountOf(c, types) = FinishTells(x, types)
  BY <1>1, FinishIs DEF S
<1>9. d \in Seq(S) /\ \A types : CountOf(d, types) = TellsD(types)
  <2>1. OnTraceFinish(x, q) \in Seq(S) /\ \A types : CountOf(OnTraceFinish(x, q), types) = EndTells(x, types)
    BY <1>1, EndIs DEF S
  <2>2. CASE IsKnown(x)
    BY <2>1, <2>2
  <2>3. CASE ~IsKnown(x)
    BY <2>3, CountNone, EmptySeq
  <2>4. QED
    BY <2>2, <2>3
<1>10. Reaches(x) /\ x.tool = "query_database" => Len(b) >= 1 /\ b[1] = QueryEvent("query_validation_started", q)
  <2> SUFFICES ASSUME Reaches(x), x.tool = "query_database"
               PROVE  Len(b) >= 1 /\ b[1] = QueryEvent("query_validation_started", q)
    OBVIOUS
  <2> DEFINE e == QueryEvent("query_validation_started", q)
             f == AuthorizeEvents(x)
  <2>1. b = start \o f /\ start = <<e>>
    BY <1>6
  <2> HIDE DEF e, f
  <2>2. Len(start) = 1 /\ start[1] = e
    BY <2>1
  <2>3. f \in Seq(S) /\ Len(f) \in Nat
    BY <1>5, LenProperties DEF f
  <2>4. Len(start \o f) = 1 + Len(f) /\ (start \o f)[1] = e
    <3>1. /\ Len(start \o f) = Len(start) + Len(f)
          /\ \A i \in 1..(Len(start) + Len(f)) : (start \o f)[i] = IF i <= Len(start) THEN start[i] ELSE f[i - Len(start)]
      BY <1>4, <2>3, ConcatProperties
    <3>2. 1 \in 1..(Len(start) + Len(f)) /\ 1 <= Len(start)
      BY <2>2, <2>3
    <3>3. QED
      BY <2>2, <3>1, <3>2
  <2>5. QED
    BY <2>1, <2>3, <2>4 DEF e
<1> HIDE DEF a, b, c, d, TellsB, TellsD
<1> DEFINE ab == a \o b
           abc == ab \o c
           p == abc \o d
<1>11. /\ ab \in Seq(S) /\ Len(ab) = Len(a) + Len(b) /\ Len(b) \in Nat
       /\ \A i \in 1..(Len(a) + Len(b)) : ab[i] = IF i <= Len(a) THEN a[i] ELSE b[i - Len(a)]
       /\ \A types : CountOf(ab, types) = CountOf(a, types) + CountOf(b, types)
  BY <1>3, <1>7, ConcatProperties, CountConcat, LenProperties
<1> HIDE DEF ab
<1>12. /\ abc \in Seq(S) /\ Len(abc) = Len(ab) + Len(c) /\ Len(c) \in Nat
       /\ \A i \in 1..(Len(ab) + Len(c)) : abc[i] = IF i <= Len(ab) THEN ab[i] ELSE c[i - Len(ab)]
       /\ \A types : CountOf(abc, types) = CountOf(ab, types) + CountOf(c, types)
  <2>1. /\ abc \in Seq(S) /\ Len(abc) = Len(ab) + Len(c)
        /\ \A i \in 1..(Len(ab) + Len(c)) : abc[i] = IF i <= Len(ab) THEN ab[i] ELSE c[i - Len(ab)]
    <3>1. ab \in Seq(S) /\ c \in Seq(S)
      BY <1>8, <1>11
    <3>2. QED
      BY <3>1, ConcatProperties
  <2>2. \A types : CountOf(abc, types) = CountOf(ab, types) + CountOf(c, types)
    BY <1>8, <1>11, CountConcat
  <2>3. Len(c) \in Nat
    BY <1>8, <1>11, LenProperties
  <2> HIDE DEF abc
  <2>4. QED
    BY <2>1, <2>2, <2>3
<1> HIDE DEF abc
<1>13. /\ p \in Seq(S) /\ Len(p) = Len(abc) + Len(d) /\ Len(d) \in Nat
       /\ \A i \in 1..(Len(abc) + Len(d)) : p[i] = IF i <= Len(abc) THEN abc[i] ELSE d[i - Len(abc)]
       /\ \A types : CountOf(p, types) = CountOf(abc, types) + CountOf(d, types)
  <2>1. /\ p \in Seq(S) /\ Len(p) = Len(abc) + Len(d)
        /\ \A i \in 1..(Len(abc) + Len(d)) : p[i] = IF i <= Len(abc) THEN abc[i] ELSE d[i - Len(abc)]
    <3>1. abc \in Seq(S) /\ d \in Seq(S)
      BY <1>9, <1>12
    <3>2. QED
      BY <3>1, ConcatProperties
  <2>2. \A types : CountOf(p, types) = CountOf(abc, types) + CountOf(d, types)
    BY <1>9, <1>12, CountConcat
  <2>3. Len(d) \in Nat
    BY <1>9, <1>12, LenProperties
  <2> HIDE DEF p
  <2>4. QED
    BY <2>1, <2>2, <2>3
<1> HIDE DEF p
<1>14. Len(ab) >= 1 /\ Len(abc) >= Len(ab) /\ Len(p) >= Len(abc) /\ Len(abc) \in Nat /\ Len(ab) \in Nat /\ Len(p) \in Nat
  BY <1>3, <1>11, <1>12, <1>13
<1>15. \A i \in 1..Len(ab) : p[i] = ab[i]
  <2>1. ASSUME NEW i \in 1..Len(ab) PROVE p[i] = ab[i]
    <3>1. i \in 1..(Len(abc) + Len(d)) /\ i <= Len(abc) /\ i \in 1..(Len(ab) + Len(c)) /\ i <= Len(ab)
      BY <1>12, <1>13, <1>14
    <3>2. p[i] = abc[i] /\ abc[i] = ab[i]
      BY <1>12, <1>13, <3>1
    <3>3. QED
      BY <3>2
  <2>2. QED
    BY <2>1
<1>16. p[1].type = "tool_started"
  <2>1. 1 \in 1..Len(ab) /\ 1 \in 1..(Len(a) + Len(b)) /\ 1 <= Len(a)
    BY <1>3, <1>11, <1>14
  <2>2. p[1] = ab[1] /\ ab[1] = a[1]
    BY <1>11, <1>15, <2>1
  <2>3. QED
    BY <1>3, <2>2
<1>17. Reaches(x) /\ x.tool = "query_database" => Len(p) >= 2 /\ p[2] = QueryEvent("query_validation_started", q)
  <2> SUFFICES ASSUME Reaches(x) /\ x.tool = "query_database"
               PROVE  Len(p) >= 2 /\ p[2] = QueryEvent("query_validation_started", q)
    OBVIOUS
  <2>1. Len(b) >= 1 /\ b[1] = QueryEvent("query_validation_started", q)
    BY <1>10
  <2>2. 2 \in 1..Len(ab) /\ 2 \in 1..(Len(a) + Len(b)) /\ ~(2 <= Len(a)) /\ 2 - Len(a) = 1
    BY <1>3, <1>11, <2>1
  <2>3. p[2] = ab[2] /\ ab[2] = b[2 - Len(a)]
    BY <1>11, <1>15, <2>2
  <2>4. b[2 - Len(a)] = b[1]
    BY <2>2
  <2>5. Len(p) >= 2
    BY <1>14, <2>2
  <2>6. QED
    BY <2>1, <2>3, <2>4, <2>5
<1>18. \A types : CountOf(p, types) = PartTells(x, types)
  <2>1. \A types : CountOf(p, types) = In("tool_started", types) + TellsB(types) + FinishTells(x, types) + TellsD(types)
    BY <1>3, <1>7, <1>8, <1>9, <1>11, <1>12, <1>13
  <2>2. QED
    BY <2>1 DEF PartTells, TellsB, TellsD
<1>19. EventsOf(trace, x) = p
  BY <1>2 DEF p, abc, ab
<1>20. QED
  BY <1>1, <1>13, <1>14, <1>16, <1>17, <1>18, <1>19 DEF IsPart, S, q

-----------------------------------------------------------------------------
(* How many events of each type the part of a call has                       *)

IsRejected(x) == x.tool = "query_database" /\ ~Succeeds(x) /\ FailureCategory(x) = "database_query_rejected"

(* What is told of the end of a query or of an analysis                      *)
WorkTells(x, T) ==
    IF x.tool = "query_database" THEN QueryTells(x, T)
    ELSE IF x.tool = "analyze_dataset"
    THEN (IF Succeeds(x) THEN In("analysis_finished", T) ELSE In("analysis_failed", T))
    ELSE 0

(* What succeeds reached its tool, which is known.                           *)
LEMMA KnownTools ==
    ASSUME NEW x
    PROVE  /\ Succeeds(x) => Reaches(x)
           /\ Reaches(x) => IsKnown(x)
           /\ x.tool \in {"query_database", "analyze_dataset"} => IsKnown(x)
BY DEF Succeeds, IsExecuted, Reaches, IsKnown, UnknownTool

(* A query is rejected by the tool, not before it.                           *)
LEMMA RejectedWasRun == ASSUME NEW x, IsRejected(x) PROVE Reaches(x)
<1> SUFFICES ASSUME ~Reaches(x) PROVE FALSE
  OBVIOUS
<1>1. FailureCategory(x) = "unknown_failure" \/ FailureCategory(x) = "tool_validation_error"
  BY DEF FailureCategory, Reaches, IsExecuted
<1>2. QED
  BY <1>1 DEF IsRejected

LEMMA WorkIsTold ==
    ASSUME NEW x, IsCall(x), NEW p, NEW q, IsPart(p, x, q), NEW T,
           T \cap {"artifact_created", "chart_created", "report_created", "schema_inspected", "policy_evaluated",
                   "operation_failed"} = {}
    PROVE  CountOf(p, T) = In("tool_started", T) + (IF Reaches(x) THEN StartTells(x, T) ELSE 0)
                           + (IF Succeeds(x) THEN In("tool_finished", T) ELSE In("tool_failed", T)) + WorkTells(x, T)
<1>1. \A t \in {"artifact_created", "chart_created", "report_created", "schema_inspected", "policy_evaluated",
                "operation_failed"} : In(t, T) = 0
  BY DEF In
<1>2. x.made \in Nat
  BY DEF IsCall
<1>3. AnalysisTells(x, T) = IF Succeeds(x) THEN In("analysis_finished", T) ELSE In("analysis_failed", T)
  <2>1. x.made * (0 + 0) = 0
    BY <1>2
  <2>2. In("analysis_finished", T) \in Int
    BY DEF In
  <2>3. QED
    BY <1>1, <2>1, <2>2 DEF AnalysisTells
<1>4. ReportTells(x, T) = 0
  <2>1. (x.made - 1) * 0 = 0
    BY <1>2
  <2>2. QED
    BY <1>1, <2>1 DEF ReportTells
<1>5. AuthorizeTells(x, T) = 0
  BY <1>1 DEF AuthorizeTells
<1>6. FinishTells(x, T) = IF Succeeds(x) THEN In("tool_finished", T) ELSE In("tool_failed", T)
  <2>1. In("tool_failed", T) \in Int
    BY DEF In
  <2>2. QED
    BY <1>1, <2>1 DEF FinishTells
<1>7. EndTells(x, T) = WorkTells(x, T)
  BY <1>1, <1>3, <1>4 DEF EndTells, WorkTells
<1>8. ~IsKnown(x) => WorkTells(x, T) = 0
  BY KnownTools DEF WorkTells
<1>9. StartTells(x, T) \in Int
  BY DEF StartTells, In
<1>10. CountOf(p, T) = PartTells(x, T)
  BY DEF IsPart
<1>11. QED
  BY <1>5, <1>6, <1>7, <1>8, <1>9, <1>10 DEF PartTells

CountsOfPart(p, x) ==
    /\ CountOf(p, {"tool_started"}) = 1
    /\ CountOf(p, {"tool_finished", "tool_failed"}) = 1
    /\ CountOf(p, {"tool_finished"}) = IF Succeeds(x) THEN 1 ELSE 0
    /\ CountOf(p, {"tool_failed"}) = IF Succeeds(x) THEN 0 ELSE 1
    /\ CountOf(p, {"query_validation_started"}) = IF Reaches(x) /\ x.tool = "query_database" THEN 1 ELSE 0
    /\ CountOf(p, {"query_started"}) = IF Succeeds(x) /\ x.tool = "query_database" THEN 1 ELSE 0
    /\ CountOf(p, {"query_finished"}) = IF Succeeds(x) /\ x.tool = "query_database" THEN 1 ELSE 0
    /\ CountOf(p, {"query_rejected"}) = IF IsRejected(x) THEN 1 ELSE 0
    /\ CountOf(p, {"query_failed"}) = IF x.tool = "query_database" /\ ~Succeeds(x) /\ ~IsRejected(x) THEN 1 ELSE 0
    /\ CountOf(p, QueryOutcomes) = IF x.tool = "query_database" THEN 1 ELSE 0
    /\ CountOf(p, {"analysis_started"}) = IF Reaches(x) /\ x.tool = "analyze_dataset" THEN 1 ELSE 0
    /\ CountOf(p, AnalysisOutcomes) = IF x.tool = "analyze_dataset" THEN 1 ELSE 0
    /\ CountOf(p, QueryOutcomes \cup AnalysisOutcomes) = IF x.tool \in {"query_database", "analyze_dataset"} THEN 1 ELSE 0
    /\ CountOf(p, {"query_finished", "analysis_finished"}) = IF Succeeds(x) /\ x.tool \in {"query_database", "analyze_dataset"} THEN 1 ELSE 0

(* A call has one start, one end, and what its operation told.               *)
LEMMA PartCounts ==
    ASSUME NEW x, IsCall(x), NEW p, NEW q, IsPart(p, x, q)
    PROVE  CountsOfPart(p, x)
<1> DEFINE Tells(T) == In("tool_started", T) + (IF Reaches(x) THEN StartTells(x, T) ELSE 0)
                      + (IF Succeeds(x) THEN In("tool_finished", T) ELSE In("tool_failed", T)) + WorkTells(x, T)
           Others == {"artifact_created", "chart_created", "report_created", "schema_inspected", "policy_evaluated",
                      "operation_failed"}
<1>0. \A T : T \cap Others = {} => CountOf(p, T) = Tells(T)
  BY WorkIsTold
<1> HIDE DEF Tells, Others
<1>1. CountOf(p, {"tool_started"}) = 1
  <2>1. {"tool_started"} \cap Others = {}
    BY DEF Others
  <2>2. Tells({"tool_started"}) = 1
    BY KnownTools DEF Tells, In, StartTells, WorkTells, QueryTells, IsRejected
  <2>3. QED
    BY <1>0, <2>1, <2>2
<1>2. CountOf(p, {"tool_finished", "tool_failed"}) = 1
  <2>1. {"tool_finished", "tool_failed"} \cap Others = {}
    BY DEF Others
  <2>2. Tells({"tool_finished", "tool_failed"}) = 1
    BY KnownTools DEF Tells, In, StartTells, WorkTells, QueryTells, IsRejected
  <2>3. QED
    BY <1>0, <2>1, <2>2
<1>3. CountOf(p, {"tool_finished"}) = IF Succeeds(x) THEN 1 ELSE 0
  <2>1. {"tool_finished"} \cap Others = {}
    BY DEF Others
  <2>2. Tells({"tool_finished"}) = IF Succeeds(x) THEN 1 ELSE 0
    BY KnownTools DEF Tells, In, StartTells, WorkTells, QueryTells, IsRejected
  <2>3. QED
    BY <1>0, <2>1, <2>2
<1>4. CountOf(p, {"tool_failed"}) = IF Succeeds(x) THEN 0 ELSE 1
  <2>1. {"tool_failed"} \cap Others = {}
    BY DEF Others
  <2>2. Tells({"tool_failed"}) = IF Succeeds(x) THEN 0 ELSE 1
    BY KnownTools DEF Tells, In, StartTells, WorkTells, QueryTells, IsRejected
  <2>3. QED
    BY <1>0, <2>1, <2>2
<1>5. CountOf(p, {"query_validation_started"}) = IF Reaches(x) /\ x.tool = "query_database" THEN 1 ELSE 0
  <2>1. {"query_validation_started"} \cap Others = {}
    BY DEF Others
  <2>2. Tells({"query_validation_started"}) = IF Reaches(x) /\ x.tool = "query_database" THEN 1 ELSE 0
    BY KnownTools DEF Tells, In, StartTells, WorkTells, QueryTells, IsRejected
  <2>3. QED
    BY <1>0, <2>1, <2>2
<1>6. CountOf(p, {"query_started"}) = IF Succeeds(x) /\ x.tool = "query_database" THEN 1 ELSE 0
  <2>1. {"query_started"} \cap Others = {}
    BY DEF Others
  <2>2. Tells({"query_started"}) = IF Succeeds(x) /\ x.tool = "query_database" THEN 1 ELSE 0
    BY KnownTools DEF Tells, In, StartTells, WorkTells, QueryTells, IsRejected
  <2>3. QED
    BY <1>0, <2>1, <2>2
<1>7. CountOf(p, {"query_finished"}) = IF Succeeds(x) /\ x.tool = "query_database" THEN 1 ELSE 0
  <2>1. {"query_finished"} \cap Others = {}
    BY DEF Others
  <2>2. Tells({"query_finished"}) = IF Succeeds(x) /\ x.tool = "query_database" THEN 1 ELSE 0
    BY KnownTools DEF Tells, In, StartTells, WorkTells, QueryTells, IsRejected
  <2>3. QED
    BY <1>0, <2>1, <2>2
<1>8. CountOf(p, {"query_rejected"}) = IF IsRejected(x) THEN 1 ELSE 0
  <2>1. {"query_rejected"} \cap Others = {}
    BY DEF Others
  <2>2. Tells({"query_rejected"}) = IF IsRejected(x) THEN 1 ELSE 0
    BY KnownTools DEF Tells, In, StartTells, WorkTells, QueryTells, IsRejected
  <2>3. QED
    BY <1>0, <2>1, <2>2
<1>9. CountOf(p, {"query_failed"}) = IF x.tool = "query_database" /\ ~Succeeds(x) /\ ~IsRejected(x) THEN 1 ELSE 0
  <2>1. {"query_failed"} \cap Others = {}
    BY DEF Others
  <2>2. Tells({"query_failed"}) = IF x.tool = "query_database" /\ ~Succeeds(x) /\ ~IsRejected(x) THEN 1 ELSE 0
    BY KnownTools DEF Tells, In, StartTells, WorkTells, QueryTells, IsRejected
  <2>3. QED
    BY <1>0, <2>1, <2>2
<1>10. CountOf(p, QueryOutcomes) = IF x.tool = "query_database" THEN 1 ELSE 0
  <2>1. QueryOutcomes \cap Others = {}
    BY DEF Others, QueryOutcomes
  <2>2. Tells(QueryOutcomes) = IF x.tool = "query_database" THEN 1 ELSE 0
    BY KnownTools DEF Tells, In, StartTells, WorkTells, QueryTells, IsRejected, QueryOutcomes
  <2>3. QED
    BY <1>0, <2>1, <2>2
<1>11. CountOf(p, {"analysis_started"}) = IF Reaches(x) /\ x.tool = "analyze_dataset" THEN 1 ELSE 0
  <2>1. {"analysis_started"} \cap Others = {}
    BY DEF Others
  <2>2. Tells({"analysis_started"}) = IF Reaches(x) /\ x.tool = "analyze_dataset" THEN 1 ELSE 0
    BY KnownTools DEF Tells, In, StartTells, WorkTells, QueryTells, IsRejected
  <2>3. QED
    BY <1>0, <2>1, <2>2
<1>12. CountOf(p, AnalysisOutcomes) = IF x.tool = "analyze_dataset" THEN 1 ELSE 0
  <2>1. AnalysisOutcomes \cap Others = {}
    BY DEF Others, AnalysisOutcomes
  <2>2. Tells(AnalysisOutcomes) = IF x.tool = "analyze_dataset" THEN 1 ELSE 0
    BY KnownTools DEF Tells, In, StartTells, WorkTells, QueryTells, IsRejected, AnalysisOutcomes
  <2>3. QED
    BY <1>0, <2>1, <2>2
<1>13. CountOf(p, QueryOutcomes \cup AnalysisOutcomes) = IF x.tool \in {"query_database", "analyze_dataset"} THEN 1 ELSE 0
  <2>1. (QueryOutcomes \cup AnalysisOutcomes) \cap Others = {}
    BY DEF Others, QueryOutcomes, AnalysisOutcomes
  <2>2. Tells(QueryOutcomes \cup AnalysisOutcomes) = IF x.tool \in {"query_database", "analyze_dataset"} THEN 1 ELSE 0
    BY KnownTools DEF Tells, In, StartTells, WorkTells, QueryTells, IsRejected, QueryOutcomes, AnalysisOutcomes
  <2>3. QED
    BY <1>0, <2>1, <2>2
<1>14. CountOf(p, {"query_finished", "analysis_finished"}) = IF Succeeds(x) /\ x.tool \in {"query_database", "analyze_dataset"} THEN 1 ELSE 0
  <2>1. {"query_finished", "analysis_finished"} \cap Others = {}
    BY DEF Others
  <2>2. Tells({"query_finished", "analysis_finished"}) = IF Succeeds(x) /\ x.tool \in {"query_database", "analyze_dataset"} THEN 1 ELSE 0
    BY KnownTools DEF Tells, In, StartTells, WorkTells, QueryTells, IsRejected
  <2>3. QED
    BY <1>0, <2>1, <2>2
<1>15. QED
  BY <1>1, <1>2, <1>3, <1>4, <1>5, <1>6, <1>7, <1>8, <1>9, <1>10, <1>11, <1>12, <1>13, <1>14 DEF CountsOfPart

(* A call that failed is told of as a failure.                               *)
LEMMA FailuresAreTold ==
    ASSUME NEW x, IsCall(x), NEW p, NEW q, IsPart(p, x, q)
    PROVE  CountOf(p, {"tool_failed"}) <= CountOf(p, {"operation_failed"})
<1> DEFINE T == {"operation_failed"}
<1>1. /\ In("operation_failed", T) = 1
      /\ \A t \in {"tool_started", "policy_evaluated", "tool_finished", "tool_failed", "query_validation_started",
                   "query_validated", "query_started", "query_finished", "query_rejected", "query_failed",
                   "analysis_started", "analysis_finished", "analysis_failed", "artifact_created", "chart_created",
                   "report_created", "schema_inspected"} : In(t, T) = 0
  BY DEF In
<1> HIDE DEF T
<1>2. x.made * (0 + 0) = 0 /\ (x.made - 1) * 0 = 0
  BY DEF IsCall
<1>3. EndTells(x, T) = 0
  <2>1. QueryTells(x, T) = 0
    BY <1>1 DEF QueryTells
  <2>2. AnalysisTells(x, T) = 0
    BY <1>1, <1>2 DEF AnalysisTells
  <2>3. ReportTells(x, T) = 0
    BY <1>1, <1>2 DEF ReportTells
  <2>4. QED
    BY <1>1, <2>1, <2>2, <2>3 DEF EndTells
<1>4. StartTells(x, T) = 0
  BY <1>1 DEF StartTells
<1>5. AuthorizeTells(x, T) \in Nat
  BY <1>1 DEF AuthorizeTells
<1>6. FinishTells(x, T) = IF Succeeds(x) THEN 0 ELSE 1
  BY <1>1 DEF FinishTells
<1>7. CountOf(p, T) = PartTells(x, T)
  BY DEF IsPart
<1>8. CountOf(p, T) >= IF Succeeds(x) THEN 0 ELSE 1
  BY <1>1, <1>3, <1>4, <1>5, <1>6, <1>7 DEF PartTells
<1>9. CountOf(p, {"tool_failed"}) = IF Succeeds(x) THEN 0 ELSE 1
  BY PartCounts DEF CountsOfPart
<1>10. QED
  BY <1>8, <1>9 DEF T

(* A call tells of the artifacts it registered, or failed.                   *)
LEMMA ArtifactsOfPart ==
    ASSUME NEW x, IsCall(x), NEW p, NEW q, IsPart(p, x, q)
    PROVE  CountOf(p, {"artifact_created"}) = IF Succeeds(x) THEN x.made ELSE 0
<1> DEFINE T == {"artifact_created"}
<1>1. /\ In("artifact_created", T) = 1
      /\ \A t \in {"tool_started", "policy_evaluated", "tool_finished", "tool_failed", "query_validation_started",
                   "query_validated", "query_started", "query_finished", "query_rejected", "query_failed",
                   "analysis_started", "analysis_finished", "analysis_failed", "operation_failed", "chart_created",
                   "report_created", "schema_inspected"} : In(t, T) = 0
  BY DEF In
<1> HIDE DEF T
<1>2. x.made \in Nat /\ x.made * (1 + 0) = x.made /\ 1 + 0 + (x.made - 1) * 1 = x.made
  BY DEF IsCall
<1>3. QueryTells(x, T) = 0
  BY <1>1 DEF QueryTells
<1>4. AnalysisTells(x, T) = IF Succeeds(x) THEN x.made ELSE 0
  BY <1>1, <1>2 DEF AnalysisTells
<1>5. ReportTells(x, T) = IF Succeeds(x) THEN x.made ELSE 0
  BY <1>1, <1>2 DEF ReportTells
<1>6. EndTells(x, T) = IF Succeeds(x) THEN x.made ELSE 0
  <2>1. Succeeds(x) /\ x.tool = "register_artifact" => x.made = 1
    BY DEF IsCall
  <2>2. Succeeds(x) /\ x.tool \notin {"analyze_dataset", "generate_report", "register_artifact"} => x.made = 0
    BY DEF IsCall
  <2>3. QED
    BY <1>1, <1>3, <1>4, <1>5, <2>1, <2>2 DEF EndTells
<1>7. StartTells(x, T) = 0 /\ AuthorizeTells(x, T) = 0 /\ FinishTells(x, T) = 0
  BY <1>1 DEF StartTells, AuthorizeTells, FinishTells
<1>8. CountOf(p, T) = PartTells(x, T)
  BY DEF IsPart
<1>9. QED
  BY <1>1, <1>2, <1>6, <1>7, <1>8, KnownTools DEF PartTells, T

-----------------------------------------------------------------------------
(* The trace of a run, call after call                                       *)

(* The trace before the first call and after each                            *)
Tracing(f, calls, n) ==
    f[0] = <<>> /\ \A k \in 1..n : f[k] = f[k - 1] \o EventsOf(f[k - 1], calls[k])

(* A trace stays a trace with the events of a call.                          *)
LEMMA EventsExtend ==
    ASSUME NEW x, IsCall(x), NEW trace \in Seq(AnyEvent)
    PROVE  EventsOf(trace, x) \in Seq(AnyEvent) /\ trace \o EventsOf(trace, x) \in Seq(AnyEvent)
<1> DEFINE q == NextQuery(trace)
           p == EventsOf(trace, x)
<1>1. q \in Nat /\ p \in Seq(EventsAbout(q))
  BY PartIs DEF IsPart
<1> HIDE DEF q, p
<1>2. EventsAbout(q) \subseteq AnyEvent
  BY <1>1, EventsAreTyped
<1>3. p \in Seq(AnyEvent)
  BY <1>1, <1>2, SeqMonotonic
<1>4. trace \o p \in Seq(AnyEvent)
  BY <1>3, ConcatProperties
<1>5. QED
  BY <1>3, <1>4 DEF p

(* The trace of a history is the last of those after each call.              *)
LEMMA TraceIs ==
    ASSUME NEW calls, IsCallHistory(calls)
    PROVE  \E f \in [0..Len(calls) -> Seq(AnyEvent)] :
              Tracing(f, calls, Len(calls)) /\ TraceOf(calls) = f[Len(calls)]
<1> DEFINE n == Len(calls)
           X == Seq(AnyEvent)
           step == [i \in 1..n |-> [x \in X |-> x \o EventsOf(x, calls[i])]]
           Defines(g) == g = [i \in 0..n |-> IF i = 0 THEN <<>> ELSE g[i - 1] \o EventsOf(g[i - 1], calls[i])]
           h == CHOOSE g : Defines(g)
<1>1. n \in Nat /\ \A i \in 1..n : IsCall(calls[i])
  BY LenProperties DEF IsCallHistory, Range
<1>2. TraceOf(calls) = h[n]
  BY DEF TraceOf
<1> HIDE DEF n
<1>3. step \in [1..n -> [X -> X]] /\ \A i \in 1..n : \A x \in X : step[i][x] = x \o EventsOf(x, calls[i])
  <2>1. \A i \in 1..n : \A x \in X : x \o EventsOf(x, calls[i]) \in X
    BY <1>1, EventsExtend
  <2> HIDE DEF X
  <2>2. QED
    BY <2>1
<1>4. <<>> \in X
  BY EmptySeq
<1> HIDE DEF step, X
<1>5. PICK f \in [0..n -> X] : Steps(f, <<>>, step, n)
  BY <1>1, <1>3, <1>4, StepsExist
<1>6. Tracing(f, calls, n)
  <2>1. \A i \in 1..n : i - 1 \in 0..n
    BY <1>1
  <2>2. f[0] = <<>> /\ \A i \in 1..n : f[i] = step[i][f[i - 1]]
    BY <1>5 DEF Steps
  <2>3. QED
    BY <1>3, <1>5, <2>1, <2>2 DEF Tracing
<1>7. Defines(f)
  <2>1. \A i \in 0..n : i = 0 \/ i \in 1..n
    BY <1>1
  <2>2. \A i \in 0..n : f[i] = IF i = 0 THEN <<>> ELSE f[i - 1] \o EventsOf(f[i - 1], calls[i])
    BY <1>6, <2>1 DEF Tracing
  <2>3. f = [i \in 0..n |-> f[i]]
    BY <1>5
  <2>4. QED
    BY <2>2, <2>3
<1>8. Defines(h)
  <2> HIDE DEF Defines
  <2>1. QED
    BY <1>7
<1> HIDE DEF h
<1>9. h[n] = f[n]
  <2>1. \A i \in 0..n : h[i] = IF i = 0 THEN <<>> ELSE h[i - 1] \o EventsOf(h[i - 1], calls[i])
    BY <1>8
  <2>2. 0 \in 0..n /\ n \in 0..n /\ \A i \in 1..n : i \in 0..n /\ i # 0
    BY <1>1
  <2>3. SameSteps(h, f, n)
    BY <1>6, <2>1, <2>2 DEF SameSteps, Tracing
  <2>4. QED
    BY <1>1, <2>2, <2>3, Agree
<1>10. QED
  BY <1>2, <1>5, <1>6, <1>9 DEF n, X

(* What the trace of a call's run is before the call, of the call and after. *)
Grows(before, p, after) ==
    /\ before \in Seq(AnyEvent) /\ p \in Seq(AnyEvent) /\ after \in Seq(AnyEvent)
    /\ Len(before) \in Nat /\ Len(p) \in Nat /\ Len(after) = Len(before) + Len(p)
    /\ \A i \in 1..Len(before) : after[i] = before[i]
    /\ \A i \in 1..Len(p) : after[Len(before) + i] = p[i]
    /\ \A types : CountOf(after, types) = CountOf(before, types) + CountOf(p, types)

LEMMA TraceGrows ==
    ASSUME NEW calls, IsCallHistory(calls), NEW f \in [0..Len(calls) -> Seq(AnyEvent)],
           Tracing(f, calls, Len(calls)), NEW k \in 1..Len(calls)
    PROVE  /\ IsCall(calls[k]) /\ k - 1 \in 0..Len(calls) /\ NextQuery(f[k - 1]) \in Nat \ {0}
           /\ IsPart(EventsOf(f[k - 1], calls[k]), calls[k], NextQuery(f[k - 1]))
           /\ Grows(f[k - 1], EventsOf(f[k - 1], calls[k]), f[k])
<1> DEFINE n == Len(calls)
           x == calls[k]
           before == f[k - 1]
           p == EventsOf(before, x)
<1>1. n \in Nat /\ IsCall(x)
  BY LenProperties DEF IsCallHistory, Range
<1>2. k - 1 \in 0..n /\ k \in 0..n
  BY <1>1
<1>3. before \in Seq(AnyEvent) /\ f[k] = before \o p
  BY <1>2 DEF Tracing
<1>4. NextQuery(before) \in Nat \ {0} /\ IsPart(p, x, NextQuery(before)) /\ p \in Seq(AnyEvent)
  BY <1>1, <1>3, PartIs, EventsExtend
<1> HIDE DEF n, x, before, p
<1>5. Len(before) \in Nat /\ Len(p) \in Nat
  BY <1>3, <1>4, LenProperties
<1>6. /\ before \o p \in Seq(AnyEvent) /\ Len(before \o p) = Len(before) + Len(p)
      /\ \A i \in 1..(Len(before) + Len(p)) : (before \o p)[i] = IF i <= Len(before) THEN before[i] ELSE p[i - Len(before)]
  BY <1>3, <1>4, ConcatProperties
<1>7. \A i \in 1..Len(before) : (before \o p)[i] = before[i]
  <2>1. \A i \in 1..Len(before) : i \in 1..(Len(before) + Len(p)) /\ i <= Len(before)
    BY <1>5
  <2>2. QED
    BY <1>6, <2>1
<1>8. \A i \in 1..Len(p) : (before \o p)[Len(before) + i] = p[i]
  <2>1. \A i \in 1..Len(p) : /\ Len(before) + i \in 1..(Len(before) + Len(p)) /\ ~(Len(before) + i <= Len(before))
                             /\ (Len(before) + i) - Len(before) = i
    BY <1>5
  <2>2. QED
    BY <1>6, <2>1
<1>9. \A types : CountOf(before \o p, types) = CountOf(before, types) + CountOf(p, types)
  BY <1>3, <1>4, CountConcat
<1>10. Grows(before, p, f[k])
  BY <1>3, <1>4, <1>5, <1>6, <1>7, <1>8, <1>9 DEF Grows
<1>11. QED
  BY <1>1, <1>2, <1>4, <1>10 DEF n, x, before, p

(* A trace is at the front of another.                                       *)
HeldBy(s, t) == Len(s) <= Len(t) /\ \A i \in 1..Len(s) : t[i] = s[i]

(* An earlier trace is a prefix of a later one.                              *)
LEMMA TraceIsKept ==
    ASSUME NEW calls, IsCallHistory(calls), NEW f \in [0..Len(calls) -> Seq(AnyEvent)],
           Tracing(f, calls, Len(calls))
    PROVE  \A j \in 0..Len(calls) : \A k \in j..Len(calls) : HeldBy(f[j], f[k])
<1> TAKE j \in 0..Len(calls)
<1> DEFINE n == Len(calls)
           Keeps(k) == Len(f[j]) <= Len(f[k]) /\ \A i \in 1..Len(f[j]) : f[k][i] = f[j][i]
           T == {k \in Nat : k \in j..n => Keeps(k)}
<1>1. n \in Nat
  BY LenProperties DEF IsCallHistory
<1>2. \A k \in 0..n : Len(f[k]) \in Nat
  BY LenProperties
<1>3. Keeps(j)
  BY <1>2
<1>4. 0 \in T
  <2>1. 0 \in j..n => j = 0
    BY <1>1
  <2> HIDE DEF Keeps
  <2>2. QED
    BY <1>3, <2>1
<1>5. ASSUME NEW k \in Nat, k \in T PROVE k + 1 \in T
  <2> SUFFICES ASSUME k + 1 \in j..n PROVE Keeps(k + 1)
    OBVIOUS
  <2>1. CASE k + 1 = j
    <3> HIDE DEF Keeps
    <3>1. QED
      BY <1>3, <2>1
  <2>2. CASE k + 1 # j
    <3>1. k \in j..n /\ k + 1 \in 1..n /\ (k + 1) - 1 = k /\ k \in 0..n /\ k + 1 \in 0..n
      BY <1>1, <2>2
    <3>2. Keeps(k)
      BY <1>5, <3>1
    <3>3. Grows(f[k], EventsOf(f[k], calls[k + 1]), f[k + 1])
      BY <3>1, TraceGrows
    <3>4. Len(f[k]) <= Len(f[k + 1]) /\ \A i \in 1..Len(f[k]) : f[k + 1][i] = f[k][i]
      <4> DEFINE before == f[k]
                 after == f[k + 1]
                 p == EventsOf(f[k], calls[k + 1])
      <4>1. Grows(before, p, after)
        BY <3>3
      <4> HIDE DEF before, after, p
      <4>2. Len(before) \in Nat /\ Len(p) \in Nat /\ Len(after) = Len(before) + Len(p)
        BY <4>1 DEF Grows
      <4>3. \A i \in 1..Len(before) : after[i] = before[i]
        BY <4>1 DEF Grows
      <4>4. Len(before) <= Len(after)
        BY <4>2
      <4>5. QED
        BY <4>3, <4>4 DEF before, after
    <3>5. Len(f[j]) \in Nat /\ Len(f[k]) \in Nat /\ Len(f[k + 1]) \in Nat
      BY <1>2, <3>1
    <3>6. \A i \in 1..Len(f[j]) : i \in 1..Len(f[k])
      BY <3>2, <3>5
    <3>7. QED
      BY <3>2, <3>4, <3>5, <3>6
  <2>3. QED
    BY <2>1, <2>2
<1> HIDE DEF T
<1>6. \A k \in Nat : k \in T
  BY <1>4, <1>5, Induction
<1>7. QED
  <2>1. \A k \in j..n : k \in Nat
    BY <1>1
  <2>2. QED
    BY <1>6, <2>1 DEF T, HeldBy

(* What was recorded before a call is still at the front of the whole trace. *)
LEMMA TraceKeepsPrefixes ==
    ASSUME NEW calls, IsCallHistory(calls), NEW f \in [0..Len(calls) -> Seq(AnyEvent)],
           Tracing(f, calls, Len(calls))
    PROVE  \A j \in 0..Len(calls) :
               /\ Len(f[j]) <= Len(f[Len(calls)])
               /\ \A i \in 1..Len(f[j]) : f[Len(calls)][i] = f[j][i]
<1>0. \A j \in 0..Len(calls) : \A k \in j..Len(calls) : HeldBy(f[j], f[k])
  BY TraceIsKept
<1> TAKE j \in 0..Len(calls)
<1>1. Len(calls) \in Nat
  BY LenProperties DEF IsCallHistory
<1>2. Len(calls) \in j..Len(calls)
  BY <1>1
<1>4. QED
  BY <1>0, <1>2 DEF HeldBy


(* The part of each of some calls has one of such an event, that of each     *)
(* other call none.                                                          *)
TellOnce(f, calls, types, K) ==
    \A k \in 1..Len(calls) : CountOf(EventsOf(f[k - 1], calls[k]), types) = IF k \in K THEN 1 ELSE 0
(* Each trace of a history has one such event for each such call.            *)
AddsUp(f, calls, types, K) ==
    \A k \in 0..Len(calls) : CountOf(f[k], types) = Cardinality(K \cap (1..k))

LEMMA CountsAddUp ==
    ASSUME NEW calls, IsCallHistory(calls), NEW f \in [0..Len(calls) -> Seq(AnyEvent)],
           Tracing(f, calls, Len(calls)), NEW types, NEW K \in SUBSET (1..Len(calls)),
           TellOnce(f, calls, types, K)
    PROVE  AddsUp(f, calls, types, K)
<1> DEFINE n == Len(calls)
           T == {k \in Nat : k \in 0..n => CountOf(f[k], types) = Cardinality(K \cap (1..k))}
<1>1. n \in Nat
  BY LenProperties DEF IsCallHistory
<1>2. 0 \in T
  <2>1. K \cap (1..0) = {}
    OBVIOUS
  <2>2. CountOf(f[0], types) = 0
    BY CountNone DEF Tracing
  <2>3. Cardinality({}) = 0
    BY FS_EmptySet
  <2> HIDE DEF n
  <2>4. QED
    BY <2>1, <2>2, <2>3
<1>3. ASSUME NEW k \in Nat, k \in T PROVE k + 1 \in T
  <2> SUFFICES ASSUME k + 1 \in 0..n PROVE CountOf(f[k + 1], types) = Cardinality(K \cap (1..(k + 1)))
    OBVIOUS
  <2>1. k \in 0..n /\ k + 1 \in 1..n /\ (k + 1) - 1 = k
    BY <1>1
  <2> DEFINE p == EventsOf(f[k], calls[k + 1])
             A == K \cap (1..k)
  <2>2. Grows(f[k], p, f[k + 1])
    BY <2>1, TraceGrows
  <2>3. CountOf(f[k + 1], types) = CountOf(f[k], types) + CountOf(p, types)
    BY <2>2 DEF Grows
  <2>4. CountOf(p, types) = IF k + 1 \in K THEN 1 ELSE 0
    BY <2>1 DEF TellOnce
  <2>5. CountOf(f[k], types) = Cardinality(A)
    BY <1>3, <2>1
  <2>6. IsFiniteSet(A) /\ Cardinality(A) \in Nat /\ k + 1 \notin A
    <3>1. IsFiniteSet(1..k)
      <4>1. 1 \in Int /\ k \in Int
        OBVIOUS
      <4>2. QED
        BY <4>1, FS_Interval
    <3>2. A \subseteq 1..k /\ k + 1 \notin 1..k
      OBVIOUS
    <3> HIDE DEF A
    <3>3. QED
      BY <3>1, <3>2, FS_Subset, FS_CardinalityType
  <2>7. K \cap (1..(k + 1)) = IF k + 1 \in K THEN A \cup {k + 1} ELSE A
    <3>1. \A i : i \in 1..(k + 1) <=> i \in 1..k \/ i = k + 1
      OBVIOUS
    <3>2. QED
      BY <3>1
  <2> HIDE DEF p, A
  <2>8. Cardinality(A \cup {k + 1}) = Cardinality(A) + 1
    BY <2>6, FS_AddElement
  <2>9. CASE k + 1 \in K
    BY <2>3, <2>4, <2>5, <2>7, <2>8, <2>9
  <2>10. CASE k + 1 \notin K
    <3>1. CountOf(f[k + 1], types) = Cardinality(A) + 0 /\ K \cap (1..(k + 1)) = A
      BY <2>3, <2>4, <2>5, <2>7, <2>10
    <3>2. Cardinality(A) + 0 = Cardinality(A)
      BY <2>6
    <3>3. QED
      BY <3>1, <3>2
  <2>11. QED
    BY <2>9, <2>10
<1> HIDE DEF T
<1>4. \A k \in Nat : k \in T
  BY <1>2, <1>3, Induction
<1>5. QED
  <2>1. \A k \in 0..n : k \in Nat
    OBVIOUS
  <2>2. QED
    BY <1>4, <2>1 DEF T, AddsUp

(* The calls up to k are k.                                                  *)
LEMMA CountAll ==
    ASSUME NEW n \in Nat, NEW k \in 0..n
    PROVE  Cardinality((1..n) \cap (1..k)) = k
<1>1. (1..n) \cap (1..k) = 1..k
  OBVIOUS
<1>2. Cardinality(1..k) = IF 1 > k THEN 0 ELSE k - 1 + 1
  BY FS_Interval
<1>3. (IF 1 > k THEN 0 ELSE k - 1 + 1) = k
  OBVIOUS
<1>4. QED
  BY <1>1, <1>2, <1>3

-----------------------------------------------------------------------------
(* The part of each call, read off the trace                                 *)

(* No two starts have as many before them.                                   *)
LEMMA RanksDiffer ==
    ASSUME NEW S, IsFiniteSet(S), S \subseteq Nat, NEW i \in S, NEW j \in S, i < j
    PROVE  Cardinality({l \in S : l < i}) # Cardinality({l \in S : l < j})
<1> DEFINE A == {l \in S : l < i}
           B == {l \in S : l < j}
<1>1. A \in SUBSET B /\ i \in B /\ i \notin A /\ B \in SUBSET S
  <2>1. i \in Nat /\ j \in Nat
    OBVIOUS
  <2>2. ASSUME NEW l \in S, l < i PROVE l < j
    <3>1. l \in Nat
      OBVIOUS
    <3>2. QED
      BY <2>1, <2>2, <3>1
  <2>3. ~(i < i)
    BY <2>1
  <2>4. QED
    BY <2>2, <2>3
<1> HIDE DEF A, B
<1>2. IsFiniteSet(B)
  BY <1>1, FS_Subset
<1>3. Cardinality(B) = Cardinality(A) => B = A
  BY <1>1, <1>2, FS_Subset
<1>4. Cardinality(A) # Cardinality(B)
  BY <1>1, <1>3
<1>5. QED
  BY <1>4 DEF A, B

(* A set that counts one has one member.                                     *)
LEMMA HavingOne ==
    ASSUME NEW S, NEW s \in Seq(S), NEW types, NEW i \in Having(s, types)
    PROVE  CountOf(s, types) > 0 /\ (CountOf(s, types) = 1 => Having(s, types) = {i})
<1>1. IsFiniteSet(Having(s, types)) /\ CountOf(s, types) \in Nat /\ CountOf(s, types) = Cardinality(Having(s, types))
  BY HavingIs
<1>2. CountOf(s, types) # 0
  BY <1>1, FS_EmptySet
<1>3. CountOf(s, types) = 1 => \E e : Having(s, types) = {e}
  BY <1>1, FS_Singleton
<1>4. QED
  BY <1>1, <1>2, <1>3

(* An index of a grown trace is one of the trace before or one of the part.  *)
LEMMA GrownAt ==
    ASSUME NEW before, NEW p, NEW after, Grows(before, p, after), NEW i \in 1..Len(after)
    PROVE  \/ i \in 1..Len(before) /\ after[i] = before[i]
           \/ i > Len(before) /\ i - Len(before) \in 1..Len(p) /\ after[i] = p[i - Len(before)]
<1> USE DEF Grows
<1>1. CASE i <= Len(before)
  <2>1. i \in 1..Len(before)
    BY <1>1
  <2>2. QED
    BY <2>1
<1>2. CASE ~(i <= Len(before))
  <2>1. i > Len(before) /\ i - Len(before) \in 1..Len(p) /\ Len(before) + (i - Len(before)) = i
    BY <1>2
  <2>2. QED
    BY <2>1
<1>3. QED
  BY <1>1, <1>2

(* The starts are the indices at which a call starts.                        *)
LEMMA StartsAre ==
    ASSUME NEW s \in Seq(AnyEvent)
    PROVE  /\ StartsIn(s) = Having(s, {"tool_started"}) /\ Cardinality(StartsIn(s)) = CountOf(s, {"tool_started"})
           /\ IsFiniteSet(StartsIn(s)) /\ StartsIn(s) \subseteq 1..Len(s) /\ Len(s) \in Nat
           /\ \A i \in 1..Len(s) : i \in StartsIn(s) <=> s[i].type = "tool_started"
<1>1. StartsIn(s) = Having(s, {"tool_started"})
  BY DEF StartsIn, Having
<1>2. DOMAIN s = 1..Len(s)
  BY LenProperties
<1>3. \A i \in 1..Len(s) : i \in StartsIn(s) <=> s[i].type = "tool_started"
  BY <1>2 DEF StartsIn
<1>4. /\ IsFiniteSet(Having(s, {"tool_started"})) /\ Having(s, {"tool_started"}) \subseteq 1..Len(s) /\ Len(s) \in Nat
      /\ CountOf(s, {"tool_started"}) = Cardinality(Having(s, {"tool_started"}))
  BY HavingIs
<1>5. QED
  BY <1>1, <1>3, <1>4

(* Where a part lies in the trace.                                           *)
LEMMA Offsets ==
    ASSUME NEW a \in Nat, NEW b \in Nat, NEW size \in Nat, b = a - 1 + size, NEW j \in Nat, j > a, ~(j > b),
           NEW all \in Nat, b <= all
    PROVE  j - (a - 1) \in 1..size /\ a - 1 + (j - (a - 1)) = j /\ j - (a - 1) # 1 /\ j \in 1..all
OBVIOUS

(* What is read between two starts is what the call of the first added.      *)
LEMMA PartOfIs ==
    ASSUME NEW calls, IsCallHistory(calls), NEW f \in [0..Len(calls) -> Seq(AnyEvent)],
           Tracing(f, calls, Len(calls))
    PROVE  /\ Cardinality(StartsIn(f[Len(calls)])) = Len(calls)
           /\ \A k \in 1..Len(calls) : PartOf(f[Len(calls)], k) = EventsOf(f[k - 1], calls[k])
<1> DEFINE n == Len(calls)
           trace == f[n]
           part(k) == EventsOf(f[k - 1], calls[k])
           Opens(k) == Len(f[k - 1]) + 1
<1>1. n \in Nat /\ n \in 0..n
  BY LenProperties DEF IsCallHistory
<1>2. \A k \in 0..n : f[k] \in Seq(AnyEvent) /\ Len(f[k]) \in Nat
  BY LenProperties
<1>0. \A k \in 0..n : Len(f[k]) <= Len(trace) /\ \A i \in 1..Len(f[k]) : trace[i] = f[k][i]
  BY TraceKeepsPrefixes
<1>3. \A k \in 0..n : Cardinality(StartsIn(f[k])) = k
  <2>1. ASSUME NEW k \in 1..n PROVE CountOf(part(k), {"tool_started"}) = 1
    <3>1. IsCall(calls[k]) /\ IsPart(part(k), calls[k], NextQuery(f[k - 1]))
      BY TraceGrows
    <3> HIDE DEF part
    <3>2. CountsOfPart(part(k), calls[k])
      BY <3>1, PartCounts
    <3>3. QED
      BY <3>2 DEF CountsOfPart
  <2>2. \A k \in 0..n : CountOf(f[k], {"tool_started"}) = Cardinality((1..n) \cap (1..k))
    <3>1. TellOnce(f, calls, {"tool_started"}, 1..n) /\ 1..n \in SUBSET (1..Len(calls))
      BY <2>1 DEF TellOnce
    <3>2. AddsUp(f, calls, {"tool_started"}, 1..n)
      BY <3>1, CountsAddUp
    <3>3. QED
      BY <3>2 DEF AddsUp
  <2>3. \A k \in 0..n : CountOf(f[k], {"tool_started"}) = k
    BY <1>1, <2>2, CountAll
  <2>4. QED
    BY <1>2, <2>3, StartsAre
<1>4. ASSUME NEW k \in 1..n
      PROVE  /\ k - 1 \in 0..n /\ k \in 0..n
             /\ IsPart(part(k), calls[k], NextQuery(f[k - 1])) /\ IsCall(calls[k])
             /\ Grows(f[k - 1], part(k), f[k])
             /\ Len(f[k]) <= Len(trace) /\ \A i \in 1..Len(f[k]) : trace[i] = f[k][i]
             /\ Len(f[k - 1]) <= Len(trace) /\ \A i \in 1..Len(f[k - 1]) : trace[i] = f[k - 1][i]
  <2>1. k - 1 \in 0..n /\ k \in 0..n /\ n \in k..n /\ n \in (k - 1)..n
    BY <1>1
  <2>2. Len(f[k]) <= Len(trace) /\ \A i \in 1..Len(f[k]) : trace[i] = f[k][i]
    BY <2>1, <1>0
  <2>3. Len(f[k - 1]) <= Len(trace) /\ \A i \in 1..Len(f[k - 1]) : trace[i] = f[k - 1][i]
    BY <2>1, <1>0
  <2>4. /\ IsPart(part(k), calls[k], NextQuery(f[k - 1])) /\ IsCall(calls[k])
        /\ Grows(f[k - 1], part(k), f[k])
    BY TraceGrows
  <2> HIDE DEF part, trace
  <2>5. QED
    BY <2>1, <2>2, <2>3, <2>4
<1>5. \A k \in 1..n : part(k) \in Seq(AnyEvent) /\ Len(part(k)) \in Nat /\ Len(part(k)) >= 1 /\ StartsIn(part(k)) = {1}
  <2> TAKE k \in 1..n
  <2>1. part(k) \in Seq(AnyEvent) /\ Len(part(k)) \in Nat /\ Len(part(k)) >= 1 /\ part(k)[1].type = "tool_started"
    BY <1>4 DEF IsPart, Grows
  <2>2. CountOf(part(k), {"tool_started"}) = 1
    BY <1>4, PartCounts DEF CountsOfPart
  <2> HIDE DEF part
  <2>3. 1 \in StartsIn(part(k))
    BY <2>1, StartsAre
  <2>4. QED
    BY <2>1, <2>2, <2>3, StartsAre, HavingOne
<1> HIDE DEF part, trace, n
<1>6. ASSUME NEW k \in 1..n
      PROVE  /\ Opens(k) \in StartsIn(trace)
             /\ {j \in StartsIn(trace) : j < Opens(k)} = StartsIn(f[k - 1])
             /\ Opens(k) \in Nat /\ Len(f[k]) = Opens(k) - 1 + Len(part(k)) /\ Len(f[k]) >= Opens(k)
             /\ Len(f[k]) <= Len(trace)
             /\ \A i \in 1..Len(part(k)) : trace[Opens(k) - 1 + i] = part(k)[i]
  <2>1. /\ Len(f[k - 1]) \in Nat /\ Len(f[k]) \in Nat /\ Len(f[k]) = Len(f[k - 1]) + Len(part(k))
        /\ Len(part(k)) \in Nat /\ Len(part(k)) >= 1 /\ Len(trace) \in Nat
        /\ Len(f[k]) <= Len(trace) /\ Len(f[k - 1]) <= Len(trace)
    BY <1>1, <1>2, <1>4, <1>5 DEF Grows, trace
  <2>2. /\ \A i \in 1..Len(f[k]) : trace[i] = f[k][i]
        /\ \A i \in 1..Len(f[k - 1]) : trace[i] = f[k - 1][i]
        /\ \A i \in 1..Len(part(k)) : f[k][Len(f[k - 1]) + i] = part(k)[i]
    BY <1>4 DEF Grows
  <2>3. \A i \in 1..Len(part(k)) : trace[Opens(k) - 1 + i] = part(k)[i]
    <3>1. \A i \in 1..Len(part(k)) : Opens(k) - 1 + i = Len(f[k - 1]) + i /\ Len(f[k - 1]) + i \in 1..Len(f[k])
      BY <2>1
    <3>2. QED
      BY <2>2, <3>1
  <2>4. trace \in Seq(AnyEvent) /\ f[k - 1] \in Seq(AnyEvent)
    BY <1>1, <1>2, <1>4 DEF trace
  <2>5. Opens(k) \in StartsIn(trace)
    <3>1. 1 \in 1..Len(part(k)) /\ Opens(k) - 1 + 1 = Opens(k) /\ Opens(k) \in 1..Len(trace)
      BY <2>1
    <3>2. trace[Opens(k)] = part(k)[1]
      BY <2>3, <3>1
    <3>3. part(k)[1].type = "tool_started"
      BY <1>4 DEF IsPart
    <3>4. QED
      BY <2>4, <3>1, <3>2, <3>3, StartsAre
  <2>6. ASSUME NEW j PROVE j \in StartsIn(trace) /\ j < Opens(k) <=> j \in StartsIn(f[k - 1])
    <3>1. j \in 1..Len(trace) /\ j < Opens(k) <=> j \in 1..Len(f[k - 1])
      BY <2>1
    <3>2. StartsIn(trace) \subseteq 1..Len(trace) /\ StartsIn(f[k - 1]) \subseteq 1..Len(f[k - 1])
      BY <2>4, StartsAre
    <3>3. CASE j \in 1..Len(f[k - 1])
      <4>1. trace[j] = f[k - 1][j] /\ j \in 1..Len(trace) /\ j < Opens(k)
        BY <2>2, <3>1, <3>3
      <4>2. QED
        BY <2>4, <3>3, <4>1, StartsAre
    <3>4. CASE j \notin 1..Len(f[k - 1])
      BY <3>1, <3>2, <3>4
    <3>5. QED
      BY <3>3, <3>4
  <2>7. {j \in StartsIn(trace) : j < Opens(k)} = StartsIn(f[k - 1])
    BY <2>6
  <2>8. QED
    BY <2>1, <2>3, <2>5, <2>7
<1>7. trace \in Seq(AnyEvent) /\ IsFiniteSet(StartsIn(trace)) /\ StartsIn(trace) \subseteq Nat /\ Len(trace) \in Nat
  <2>1. trace \in Seq(AnyEvent)
    BY <1>1, <1>2 DEF trace
  <2>2. QED
    BY <2>1, StartsAre
<1> HIDE DEF Opens
<1>8. ASSUME NEW k \in 1..n PROVE PartOf(trace, k) = part(k)
  <2> DEFINE a == Opens(k)
             b == Len(f[k])
             Place(i) == Cardinality({j \in StartsIn(trace) : j < i})
             later == {j \in StartsIn(trace) : j > a}
             Least(j) == \A l \in later : j <= l
             until == EndFrom(trace, a)
  <2>1. a \in StartsIn(trace) /\ Place(a) = k - 1
    BY <1>3, <1>4, <1>6
  <2>2. \A i \in StartsIn(trace) : Place(i) = k - 1 => i = a
    <3> SUFFICES ASSUME NEW i \in StartsIn(trace), Place(i) = k - 1, i # a PROVE FALSE
      OBVIOUS
    <3>1. i \in Nat /\ a \in Nat
      BY <1>7, <2>1
    <3>2. i < a \/ a < i
      BY <3>1
    <3>3. QED
      BY <1>7, <2>1, <3>2, RanksDiffer
  <2>3. StartOf(trace, k) = a
    <3>0. StartOf(trace, k) = CHOOSE i \in StartsIn(trace) : Place(i) = k - 1
      BY DEF StartOf
    <3> HIDE DEF Place, a
    <3>1. QED
      BY <2>1, <2>2, <3>0
  <2>4. PartOf(trace, k) = SubSeq(trace, a, until)
    BY <2>3 DEF PartOf
  <2>0. until = IF later = {} THEN Len(trace) ELSE (CHOOSE j \in later : Least(j)) - 1
    BY DEF EndFrom
  <2>5. /\ a \in Nat /\ b \in Nat /\ b = a - 1 + Len(part(k)) /\ b >= a /\ b <= Len(trace)
        /\ Len(part(k)) \in Nat /\ part(k) \in Seq(AnyEvent)
        /\ \A i \in 1..Len(part(k)) : trace[a - 1 + i] = part(k)[i]
    BY <1>2, <1>4, <1>5, <1>6
  <2>6. \A j \in later : j > b
    <3> SUFFICES ASSUME NEW j \in later, ~(j > b) PROVE FALSE
      OBVIOUS
    <3>1. j \in Nat /\ j > a /\ j \in StartsIn(trace)
      BY <1>7
    <3> DEFINE i == j - (a - 1)
    <3>2. i \in 1..Len(part(k)) /\ a - 1 + i = j /\ i # 1 /\ j \in 1..Len(trace)
      <4> HIDE DEF a, b
      <4>1. QED
        BY <1>7, <2>5, <3>1, Offsets
    <3>3. trace[j] = part(k)[i]
      BY <2>5, <3>2
    <3> HIDE DEF i
    <3>4. trace[j].type = "tool_started"
      BY <1>7, <3>1, <3>2, StartsAre
    <3>5. i \in StartsIn(part(k))
      BY <2>5, <3>2, <3>3, <3>4, StartsAre
    <3>6. QED
      BY <1>5, <3>2, <3>5
  <2>7. until = b
    <3>1. CASE k = n
      <4>1. b = Len(trace)
        BY <3>1 DEF trace
      <4>2. \A j \in StartsIn(trace) : j <= Len(trace)
        BY <1>7, StartsAre
      <4>3. later = {}
        BY <1>7, <2>6, <4>1, <4>2
      <4>4. QED
        BY <2>0, <4>1, <4>3
    <3>2. CASE k # n
      <4>1. k + 1 \in 1..n /\ (k + 1) - 1 = k
        BY <1>1, <3>2
      <4>2. Opens(k + 1) \in StartsIn(trace) /\ Opens(k + 1) = b + 1
        BY <1>6, <4>1 DEF Opens
      <4>3. b + 1 \in later
        BY <2>5, <4>2
      <4>4. \A j \in later : b + 1 <= j /\ j \in Nat
        BY <1>7, <2>5, <2>6
      <4>5. Least(b + 1) /\ \A j \in later : Least(j) => j = b + 1
        <5>1. Least(b + 1)
          BY <4>4
        <5>2. ASSUME NEW j \in later, Least(j) PROVE j = b + 1
          <6>1. j <= b + 1 /\ b + 1 <= j /\ j \in Nat /\ b \in Nat
            BY <2>5, <4>3, <4>4, <5>2
          <6>2. QED
            BY <6>1
        <5>3. QED
          BY <5>1, <5>2
      <4>6. (CHOOSE j \in later : Least(j)) = b + 1
        <5> HIDE DEF Least, later
        <5>1. QED
          BY <4>3, <4>5
      <4>7. later # {}
        BY <4>3
      <4> HIDE DEF later, Least
      <4>8. until = (b + 1) - 1
        BY <2>0, <4>6, <4>7
      <4>9. QED
        BY <2>5, <4>8
    <3>3. QED
      BY <3>1, <3>2
  <2> HIDE DEF a, b, until
  <2>8. PartOf(trace, k) = SubSeq(trace, a, b)
    BY <2>4, <2>7
  <2>9. \A i \in a..b : trace[i] \in AnyEvent
    <3>1. \A i \in a..b : i \in 1..Len(trace)
      <4>1. a \in 1..Len(trace)
        BY <1>7, <2>1, StartsAre
      <4>2. QED
        BY <1>7, <2>5, <4>1
    <3>2. QED
      BY <1>7, <3>1, ElementOfSeq
  <2>10. /\ SubSeq(trace, a, b) \in Seq(AnyEvent) /\ Len(SubSeq(trace, a, b)) = b - a + 1
         /\ \A i \in 1..(b - a + 1) : SubSeq(trace, a, b)[i] = trace[a + i - 1]
    BY <2>5, <2>9, SubSeqProperties
  <2>11. Len(part(k)) = b - a + 1 /\ \A i \in 1..Len(part(k)) : SubSeq(trace, a, b)[i] = part(k)[i]
    <3>1. Len(part(k)) = b - a + 1
      BY <2>5
    <3>2. \A i \in 1..Len(part(k)) : a + i - 1 = a - 1 + i
      BY <2>5
    <3>3. QED
      BY <2>5, <2>10, <3>1, <3>2
  <2>12. SubSeq(trace, a, b) = part(k)
    BY <2>5, <2>10, <2>11, SeqEqual
  <2>13. QED
    BY <2>8, <2>12
<1>9. QED
  BY <1>1, <1>3, <1>8 DEF part, trace, n

-----------------------------------------------------------------------------
(* The numbers of queries                                                    *)

Begun(s) == Having(s, {"query_validation_started"})

NumberedTrace(s) ==
    /\ \A i, j \in Begun(s) : i < j => s[i].query < s[j].query
    /\ \A i \in Begun(s) : s[i].query \in Nat /\ s[i].query <= CountOf(s, {"query_validation_started"})
    /\ \A i \in 1..Len(s) : s[i].type \in {"query_finished", "query_rejected"} =>
          \E j \in Begun(s) : j < i /\ s[j].query = s[i].query

(* Queries are numbered as they begin, after each call.                      *)
LEMMA NumbersGrow ==
    ASSUME NEW before, NEW p, NEW after, Grows(before, p, after), NEW x, IsCall(x),
           IsPart(p, x, NextQuery(before)), NumberedTrace(before)
    PROVE  NumberedTrace(after)
<1> DEFINE m == Len(before)
           T == {"query_validation_started"}
           q == NextQuery(before)
           c == CountOf(before, T)
<1>1. /\ before \in Seq(AnyEvent) /\ p \in Seq(AnyEvent) /\ after \in Seq(AnyEvent)
      /\ m \in Nat /\ Len(p) \in Nat /\ Len(after) = m + Len(p)
      /\ DOMAIN before = 1..m /\ DOMAIN p = 1..Len(p) /\ DOMAIN after = 1..Len(after)
  BY LenProperties DEF Grows
<1>2. c \in Nat /\ q = c + 1 /\ q \in Nat
  BY <1>1, HavingIs DEF NextQuery
<1>3. /\ p \in Seq(EventsAbout(q)) /\ CountsOfPart(p, x)
      /\ Reaches(x) /\ x.tool = "query_database" => Len(p) >= 2 /\ p[2] = QueryEvent("query_validation_started", q)
  BY PartCounts DEF IsPart
<1>4. CountOf(after, T) = c + CountOf(p, T) /\ CountOf(p, T) \in 0..1
  BY <1>3 DEF Grows, CountsOfPart
<1>5. ASSUME NEW i \in 1..Len(p), p[i].type \in QueryTypes PROVE p[i].query = q
  <2>1. p[i] \in EventsAbout(q)
    BY <1>3, ElementOfSeq
  <2>2. QED
    BY <1>2, <1>5, <2>1, EventsAreTyped
<1>6. "query_validation_started" \in QueryTypes /\ "query_finished" \in QueryTypes /\ "query_rejected" \in QueryTypes
  BY DEF QueryTypes
<1>7. ASSUME NEW i \in Begun(after)
      PROVE  \/ i \in Begun(before) /\ i \in 1..m /\ after[i] = before[i]
             \/ i > m /\ i - m \in Begun(p) /\ after[i].query = q
  <2>1. i \in 1..Len(after) /\ after[i].type = "query_validation_started"
    BY <1>1 DEF Begun, Having
  <2>2. CASE i \in 1..m /\ after[i] = before[i]
    BY <1>1, <2>1, <2>2 DEF Begun, Having
  <2>3. CASE i > m /\ i - m \in 1..Len(p) /\ after[i] = p[i - m]
    <3>1. i - m \in Begun(p)
      BY <1>1, <2>1, <2>3 DEF Begun, Having
    <3>2. after[i].query = q
      BY <1>5, <1>6, <2>1, <2>3
    <3>3. QED
      BY <2>3, <3>1, <3>2
  <2>4. QED
    BY <2>1, <2>2, <2>3, GrownAt
<1>8. ASSUME NEW i \in Begun(p) PROVE CountOf(p, T) = 1 /\ Begun(p) = {i}
  <2>1. CountOf(p, T) > 0 /\ (CountOf(p, T) = 1 => Having(p, T) = {i})
    BY <1>1, <1>8, HavingOne DEF Begun
  <2>2. CountOf(p, T) = 1
    BY <1>4, <2>1
  <2>3. QED
    BY <2>1, <2>2 DEF Begun
<1>9. /\ \A i, j \in Begun(before) : i < j => before[i].query < before[j].query
      /\ \A i \in Begun(before) : before[i].query \in Nat /\ before[i].query <= c
      /\ \A i \in 1..m : before[i].type \in {"query_finished", "query_rejected"} =>
            \E j \in Begun(before) : j < i /\ before[j].query = before[i].query
  BY DEF NumberedTrace
<1>10. \A i \in Begun(before) : i \in 1..m /\ i \in Begun(after) /\ after[i] = before[i]
  <2> TAKE i \in Begun(before)
  <2>1. i \in 1..m /\ before[i].type = "query_validation_started"
    BY <1>1 DEF Begun, Having
  <2>2. after[i] = before[i] /\ i \in 1..Len(after)
    BY <1>1, <2>1 DEF Grows
  <2>3. QED
    BY <1>1, <2>1, <2>2 DEF Begun, Having
<1> HIDE DEF m, T, q, c
<1>11. ASSUME NEW i \in Begun(after), NEW j \in Begun(after), i < j PROVE after[i].query < after[j].query
  <2>1. CASE j \in Begun(before) /\ j \in 1..m /\ after[j] = before[j]
    <3>1. i \in Int /\ ~(i > m)
      <4>1. i \in 1..Len(after)
        BY <1>1 DEF Begun, Having
      <4>2. QED
        BY <1>1, <1>11, <2>1, <4>1
    <3>2. i \in Begun(before) /\ after[i] = before[i]
      BY <1>7, <3>1
    <3>3. QED
      BY <1>9, <1>11, <2>1, <3>2
  <2>2. CASE j > m /\ j - m \in Begun(p) /\ after[j].query = q
    <3>1. CASE i \in Begun(before) /\ i \in 1..m /\ after[i] = before[i]
      <4>1. after[i].query \in Nat /\ after[i].query <= c
        BY <1>9, <3>1
      <4>2. QED
        BY <1>2, <2>2, <4>1
    <3>2. CASE i > m /\ i - m \in Begun(p)
      <4>1. i - m = j - m
        BY <1>8, <2>2, <3>2
      <4>2. i \in Int /\ j \in Int
        BY <1>1 DEF Begun, Having
      <4>3. QED
        BY <1>1, <1>11, <4>1, <4>2
    <3>3. QED
      BY <1>7, <3>1, <3>2
  <2>3. QED
    BY <1>7, <2>1, <2>2
<1>12. ASSUME NEW i \in Begun(after) PROVE after[i].query \in Nat /\ after[i].query <= CountOf(after, T)
  <2>1. CASE i \in Begun(before) /\ after[i] = before[i]
    <3>1. after[i].query \in Nat /\ after[i].query <= c
      BY <1>9, <2>1
    <3>2. QED
      BY <1>2, <1>4, <3>1
  <2>2. CASE i - m \in Begun(p) /\ after[i].query = q
    <3>1. CountOf(p, T) = 1
      BY <1>8, <2>2
    <3>2. QED
      BY <1>2, <1>4, <2>2, <3>1
  <2>3. QED
    BY <1>7, <2>1, <2>2
<1>13. ASSUME NEW i \in 1..Len(after), after[i].type \in {"query_finished", "query_rejected"}
       PROVE  \E j \in Begun(after) : j < i /\ after[j].query = after[i].query
  <2>1. CASE i \in 1..m /\ after[i] = before[i]
    <3>1. PICK j \in Begun(before) : j < i /\ before[j].query = before[i].query
      BY <1>9, <1>13, <2>1
    <3>2. QED
      BY <1>10, <2>1, <3>1
  <2>2. CASE i > m /\ i - m \in 1..Len(p) /\ after[i] = p[i - m]
    <3> DEFINE l == i - m
    <3>1. l \in 1..Len(p) /\ i = m + l /\ after[i] = p[l] /\ l \in Nat
      BY <1>1, <2>2
    <3> HIDE DEF l
    <3>2. p[l].query = q
      BY <1>5, <1>6, <1>13, <3>1
    <3>3. Reaches(x) /\ x.tool = "query_database"
      <4>1. CASE p[l].type = "query_finished"
        <5>1. l \in Having(p, {"query_finished"})
          BY <1>1, <3>1, <4>1 DEF Having
        <5>2. CountOf(p, {"query_finished"}) > 0
          BY <1>1, <5>1, HavingOne
        <5>3. Succeeds(x) /\ x.tool = "query_database"
          BY <1>3, <5>2 DEF CountsOfPart
        <5>4. QED
          BY <5>3, KnownTools
      <4>2. CASE p[l].type = "query_rejected"
        <5>1. l \in Having(p, {"query_rejected"})
          BY <1>1, <3>1, <4>2 DEF Having
        <5>2. CountOf(p, {"query_rejected"}) > 0
          BY <1>1, <5>1, HavingOne
        <5>3. IsRejected(x)
          BY <1>3, <5>2 DEF CountsOfPart
        <5>4. QED
          BY <5>3, RejectedWasRun DEF IsRejected
      <4>3. QED
        BY <1>13, <3>1, <4>1, <4>2
    <3>4. Len(p) >= 2 /\ p[2] = QueryEvent("query_validation_started", q)
      BY <1>3, <3>3
    <3>5. p[2].type = "query_validation_started" /\ p[2].query = q
      BY <3>4 DEF QueryEvent
    <3>6. l # 2 /\ l # 1
      <4>1. p[1].type = "tool_started"
        BY DEF IsPart
      <4>2. QED
        BY <1>13, <3>1, <3>5, <4>1
    <3>7. 2 \in 1..Len(p) /\ m + 2 \in 1..Len(after) /\ m + 2 < i
      BY <1>1, <3>1, <3>4, <3>6
    <3>8. after[m + 2] = p[2]
      BY <3>7 DEF Grows, m
    <3>9. m + 2 \in Begun(after)
      BY <1>1, <3>5, <3>7, <3>8 DEF Begun, Having
    <3>10. after[m + 2].query = after[i].query
      BY <3>1, <3>2, <3>5, <3>8
    <3>11. QED
      BY <3>7, <3>9, <3>10
  <2>3. QED
    BY <2>1, <2>2, GrownAt DEF m
<1>14. QED
  BY <1>11, <1>12, <1>13 DEF NumberedTrace, T

(* In every history of calls, no two queries that began share a number       *)
(* (tools/execution/observers.py:266-318).                                   *)
THEOREM NumbersHold ==
    ASSUME NEW calls, IsCallHistory(calls)
    PROVE  QueriesAreNumbered(calls)
<1> DEFINE n == Len(calls)
<1>1. PICK f \in [0..Len(calls) -> Seq(AnyEvent)] : Tracing(f, calls, Len(calls)) /\ TraceOf(calls) = f[Len(calls)]
  BY TraceIs
<1>2. n \in Nat
  BY LenProperties DEF IsCallHistory
<1> DEFINE T == {k \in Nat : k \in 0..n => NumberedTrace(f[k])}
<1>3. 0 \in T
  <2>1. f[0] = <<>> /\ DOMAIN <<>> = {} /\ Len(<<>>) = 0
    BY <1>1 DEF Tracing
  <2>2. Begun(<<>>) = {}
    BY <2>1 DEF Begun, Having
  <2>3. 1..0 = {}
    OBVIOUS
  <2>4. NumberedTrace(f[0])
    BY <2>1, <2>2, <2>3 DEF NumberedTrace
  <2>5. QED
    BY <2>4
<1>4. ASSUME NEW k \in Nat, k \in T PROVE k + 1 \in T
  <2> SUFFICES ASSUME k + 1 \in 0..n PROVE NumberedTrace(f[k + 1])
    OBVIOUS
  <2>1. k \in 0..n /\ k + 1 \in 1..n /\ (k + 1) - 1 = k
    BY <1>2
  <2>2. /\ IsCall(calls[k + 1]) /\ IsPart(EventsOf(f[k], calls[k + 1]), calls[k + 1], NextQuery(f[k]))
        /\ Grows(f[k], EventsOf(f[k], calls[k + 1]), f[k + 1])
    BY <1>1, <2>1, TraceGrows
  <2>3. NumberedTrace(f[k])
    BY <1>4, <2>1
  <2>4. QED
    BY <2>2, <2>3, NumbersGrow
<1> HIDE DEF T
<1>5. \A k \in Nat : k \in T
  BY <1>3, <1>4, Induction
<1>6. NumberedTrace(f[n])
  <2>1. n \in T /\ n \in 0..n
    BY <1>2, <1>5
  <2>2. QED
    BY <2>1 DEF T
<1> DEFINE trace == f[n]
<1>7. TraceOf(calls) = trace /\ DOMAIN trace = 1..Len(trace)
  <2>1. trace \in Seq(AnyEvent)
    BY <1>1, <1>2
  <2>2. QED
    BY <1>1, <2>1, LenProperties
<1>8. Begun(trace) = {i \in DOMAIN trace : trace[i].type = "query_validation_started"}
  BY DEF Begun, Having
<1> HIDE DEF trace
<1>9. NumberedTrace(trace)
  BY <1>6 DEF trace
<1>10. QED
  BY <1>7, <1>8, <1>9 DEF NumberedTrace, QueriesAreNumbered

-----------------------------------------------------------------------------
(* What a trace tells                                                        *)

(* In every history of calls, each is told of from its start to one end, and *)
(* each artifact once (tools/execution/executor.py:126-183, observers.py).    *)
THEOREM ClosedHolds ==
    ASSUME NEW calls, IsCallHistory(calls)
    PROVE  CallsAreClosed(calls) /\ ArtifactsAreTold(calls)
<1>1. PICK f \in [0..Len(calls) -> Seq(AnyEvent)] : Tracing(f, calls, Len(calls)) /\ TraceOf(calls) = f[Len(calls)]
  BY TraceIs
<1> DEFINE trace == TraceOf(calls)
<1>2. DOMAIN calls = 1..Len(calls) /\ Len(calls) \in Nat
  BY LenProperties DEF IsCallHistory
<1>3. Cardinality(StartsIn(trace)) = Len(calls)
  BY <1>1, PartOfIs
<1>4. ASSUME NEW k \in DOMAIN calls
      PROVE  /\ IsCall(calls[k]) /\ CountsOfPart(PartOf(trace, k), calls[k])
             /\ CountOf(PartOf(trace, k), {"tool_failed"}) <= CountOf(PartOf(trace, k), {"operation_failed"})
             /\ CountOf(PartOf(trace, k), {"artifact_created"}) = IF Succeeds(calls[k]) THEN calls[k].made ELSE 0
  <2>1. PartOf(trace, k) = EventsOf(f[k - 1], calls[k])
    BY <1>1, <1>2, PartOfIs
  <2>2. IsCall(calls[k]) /\ IsPart(EventsOf(f[k - 1], calls[k]), calls[k], NextQuery(f[k - 1]))
    BY <1>1, <1>2, TraceGrows
  <2> HIDE DEF trace
  <2>3. QED
    BY <2>1, <2>2, PartCounts, FailuresAreTold, ArtifactsOfPart
<1> HIDE DEF trace
<1>5. ASSUME NEW k \in DOMAIN calls
      PROVE  LET part == PartOf(trace, k)
             IN /\ CountOf(part, {"tool_finished", "tool_failed"}) = 1
                /\ CountOf(part, {"query_validation_started"}) <= CountOf(part, QueryOutcomes)
                /\ CountOf(part, {"query_started"}) = CountOf(part, {"query_finished"})
                /\ CountOf(part, {"analysis_started"}) <= CountOf(part, AnalysisOutcomes)
                /\ CountOf(part, QueryOutcomes \cup AnalysisOutcomes) <= 1
                /\ CountOf(part, {"query_finished", "analysis_finished"}) <= CountOf(part, {"tool_finished"})
                /\ CountOf(part, {"tool_failed"}) <= CountOf(part, {"operation_failed"})
  <2> DEFINE part == PartOf(trace, k)
             x == calls[k]
  <2>1. CountsOfPart(part, x) /\ CountOf(part, {"tool_failed"}) <= CountOf(part, {"operation_failed"})
    BY <1>4
  <2> HIDE DEF part, x
  <2>2. CountOf(part, {"tool_finished", "tool_failed"}) = 1
    BY <2>1 DEF CountsOfPart
  <2>3. CountOf(part, {"query_validation_started"}) <= CountOf(part, QueryOutcomes)
    BY <2>1 DEF CountsOfPart
  <2>4. CountOf(part, {"query_started"}) = CountOf(part, {"query_finished"})
    BY <2>1 DEF CountsOfPart
  <2>5. CountOf(part, {"analysis_started"}) <= CountOf(part, AnalysisOutcomes)
    BY <2>1 DEF CountsOfPart
  <2>6. CountOf(part, QueryOutcomes \cup AnalysisOutcomes) <= 1
    BY <2>1 DEF CountsOfPart
  <2>7. CountOf(part, {"query_finished", "analysis_finished"}) <= CountOf(part, {"tool_finished"})
    BY <2>1 DEF CountsOfPart
  <2>8. QED
    BY <2>1, <2>2, <2>3, <2>4, <2>5, <2>6, <2>7 DEF part
<1>6. CallsAreClosed(calls)
  BY <1>3, <1>5 DEF CallsAreClosed, trace
<1>7. ArtifactsAreTold(calls)
  <2>1. \A k \in DOMAIN calls : Succeeds(calls[k]) => Registered(calls[k]) = calls[k].made
    BY DEF Registered, Succeeds
  <2>2. QED
    BY <1>4, <2>1 DEF ArtifactsAreTold, trace
<1>8. QED
  BY <1>6, <1>7

(* In every history of calls, the figures count each query once.             *)
LEMMA MetricsHold ==
    ASSUME NEW calls, IsCallHistory(calls)
    PROVE  MetricsCountCalls(calls)
<1>1. PICK f \in [0..Len(calls) -> Seq(AnyEvent)] : Tracing(f, calls, Len(calls)) /\ TraceOf(calls) = f[Len(calls)]
  BY TraceIs
<1> DEFINE n == Len(calls)
           queries == {k \in DOMAIN calls : calls[k].tool = "query_database"}
           done == {k \in queries : Succeeds(calls[k])}
           rejected == {k \in queries : IsRejected(calls[k])}
           failed == {k \in queries : ~Succeeds(calls[k]) /\ ~IsRejected(calls[k])}
<1>2. DOMAIN calls = 1..n /\ n \in Nat /\ n \in 0..n
  BY LenProperties DEF IsCallHistory
<1>3. ASSUME NEW types, NEW K \in SUBSET (1..n), TellOnce(f, calls, types, K)
      PROVE  CountOf(TraceOf(calls), types) = Cardinality(K) /\ IsFiniteSet(K)
  <2>1. CountOf(f[n], types) = Cardinality(K \cap (1..n))
    <3>1. AddsUp(f, calls, types, K)
      BY <1>1, <1>3, CountsAddUp
    <3>2. QED
      BY <1>2, <3>1 DEF AddsUp
  <2>2. K \cap (1..n) = K
    OBVIOUS
  <2>3. IsFiniteSet(1..n)
    BY <1>2, FS_Interval
  <2>4. IsFiniteSet(K)
    BY <2>3, FS_Subset
  <2>5. QED
    BY <1>1, <2>1, <2>2, <2>4
<1>4. ASSUME NEW k \in 1..n
      PROVE  /\ CountOf(EventsOf(f[k - 1], calls[k]), {"query_finished"}) = IF k \in done THEN 1 ELSE 0
             /\ CountOf(EventsOf(f[k - 1], calls[k]), {"query_rejected"}) = IF k \in rejected THEN 1 ELSE 0
             /\ CountOf(EventsOf(f[k - 1], calls[k]), {"query_failed"}) = IF k \in failed THEN 1 ELSE 0
  <2> DEFINE p == EventsOf(f[k - 1], calls[k])
             x == calls[k]
  <2>1. CountsOfPart(p, x)
    BY <1>1, TraceGrows, PartCounts
  <2>2. k \in queries <=> x.tool = "query_database"
    BY <1>2
  <2>3. /\ k \in done <=> x.tool = "query_database" /\ Succeeds(x)
        /\ k \in rejected <=> x.tool = "query_database" /\ IsRejected(x)
        /\ k \in failed <=> x.tool = "query_database" /\ ~Succeeds(x) /\ ~IsRejected(x)
    BY <2>2
  <2>4. IsRejected(x) => x.tool = "query_database"
    BY DEF IsRejected
  <2> HIDE DEF p, x, done, rejected, failed
  <2>5. /\ CountOf(p, {"query_finished"}) = IF k \in done THEN 1 ELSE 0
        /\ CountOf(p, {"query_rejected"}) = IF k \in rejected THEN 1 ELSE 0
        /\ CountOf(p, {"query_failed"}) = IF k \in failed THEN 1 ELSE 0
    BY <2>1, <2>3, <2>4 DEF CountsOfPart
  <2>6. QED
    BY <2>5 DEF p
<1>5. done \in SUBSET (1..n) /\ rejected \in SUBSET (1..n) /\ failed \in SUBSET (1..n)
  BY <1>2
<1>6. done \cap rejected = {} /\ (done \cup rejected) \cap failed = {} /\ queries = (done \cup rejected) \cup failed
  BY DEF IsRejected
<1>7. DeriveMetrics(TraceOf(calls)).queries = CountOf(TraceOf(calls), {"query_finished"})
      /\ DeriveMetrics(TraceOf(calls)).rejected = CountOf(TraceOf(calls), {"query_rejected"})
  BY DEF DeriveMetrics
<1> HIDE DEF n, done, rejected, failed
<1>8. CountOf(TraceOf(calls), {"query_finished"}) = Cardinality(done) /\ IsFiniteSet(done)
  <2>1. TellOnce(f, calls, {"query_finished"}, done)
    BY <1>4 DEF TellOnce, n
  <2>2. QED
    BY <1>3, <1>5, <2>1
<1>9. CountOf(TraceOf(calls), {"query_rejected"}) = Cardinality(rejected) /\ IsFiniteSet(rejected)
  <2>1. TellOnce(f, calls, {"query_rejected"}, rejected)
    BY <1>4 DEF TellOnce, n
  <2>2. QED
    BY <1>3, <1>5, <2>1
<1>10. CountOf(TraceOf(calls), {"query_failed"}) = Cardinality(failed) /\ IsFiniteSet(failed)
  <2>1. TellOnce(f, calls, {"query_failed"}, failed)
    BY <1>4 DEF TellOnce, n
  <2>2. QED
    BY <1>3, <1>5, <2>1
<1>11. /\ IsFiniteSet(done \cup rejected)
       /\ Cardinality(done \cup rejected) = Cardinality(done) + Cardinality(rejected) - Cardinality({})
  BY <1>6, <1>8, <1>9, FS_Union
<1>12. Cardinality(queries) = Cardinality(done \cup rejected) + Cardinality(failed) - Cardinality({})
  BY <1>6, <1>10, <1>11, FS_Union
<1>13. /\ Cardinality({}) = 0 /\ Cardinality(done) \in Nat /\ Cardinality(rejected) \in Nat /\ Cardinality(failed) \in Nat
       /\ Cardinality(done \cup rejected) \in Nat
  BY <1>8, <1>9, <1>10, <1>11, FS_EmptySet, FS_CardinalityType
<1>14. Cardinality(queries) = Cardinality(done) + Cardinality(rejected) + Cardinality(failed)
  BY <1>11, <1>12, <1>13
<1> DEFINE metrics == DeriveMetrics(TraceOf(calls))
<1>15. metrics.queries = Cardinality({k \in queries : Succeeds(calls[k])})
  BY <1>7, <1>8 DEF done
<1>16. metrics.queries + metrics.rejected + CountOf(TraceOf(calls), {"query_failed"}) = Cardinality(queries)
  BY <1>7, <1>8, <1>9, <1>10, <1>14
<1>17. QED
  BY <1>15, <1>16 DEF MetricsCountCalls

(* A leaf that is shown is safe, and showing it again changes nothing.       *)
LEMMA SafeLeafIsSafe ==
    ASSUME NEW leaf
    PROVE  SafeLeaf(SafeLeaf(leaf)) = SafeLeaf(leaf) /\ SafeLeaf(leaf) \notin {"credential", "long", "infinity", "object"}
<1>1. CASE leaf \in {"credential", "long", "infinity", "object"}
  BY <1>1 DEF SafeLeaf
<1>2. CASE leaf \notin {"credential", "long", "infinity", "object"}
  <2>1. SafeLeaf(leaf) = leaf
    BY <1>2 DEF SafeLeaf
  <2>2. QED
    BY <1>2, <2>1
<1>3. QED
  BY <1>1, <1>2

(* An observation is safe, whatever the tool returned                        *)
(* (core/logging.py:119-137).                                                *)
LEMMA ObservationHolds ==
    ASSUME NEW v
    PROVE  ObservationIsSafe(v)
<1> DEFINE list == [i \in DOMAIN v.list |-> SafeLeaf(v.list[i])]
           mapping == [k \in DOMAIN v.mapping |-> IF k \in SensitiveKeys THEN "redacted" ELSE SafeLeaf(v.mapping[k])]
           safe == SafeObservation(v)
<1>1. safe = [list |-> list, mapping |-> mapping]
  BY DEF SafeObservation
<1>2. safe.list = list /\ safe.mapping = mapping
  BY <1>1
<1>3. SafeLeaf("redacted") = "redacted"
  BY DEF SafeLeaf
<1>4. \A i \in DOMAIN list : SafeLeaf(list[i]) = list[i] /\ list[i] \notin {"credential", "long", "infinity", "object"}
  BY SafeLeafIsSafe
<1>5. \A k \in DOMAIN mapping : /\ mapping[k] = IF k \in SensitiveKeys THEN "redacted" ELSE SafeLeaf(mapping[k])
                                /\ mapping[k] \notin {"credential", "long", "infinity", "object"}
  <2> TAKE k \in DOMAIN mapping
  <2>1. CASE k \in SensitiveKeys
    <3>1. mapping[k] = "redacted"
      BY <2>1
    <3> HIDE DEF mapping
    <3>2. QED
      BY <2>1, <3>1
  <2>2. CASE k \notin SensitiveKeys
    <3>1. mapping[k] = SafeLeaf(v.mapping[k])
      BY <2>2
    <3> HIDE DEF mapping
    <3>2. QED
      BY <2>2, <3>1, SafeLeafIsSafe
  <2>3. QED
    BY <2>1, <2>2
<1>6. /\ DOMAIN list = DOMAIN v.list /\ DOMAIN mapping = DOMAIN v.mapping
      /\ \A k \in DOMAIN v.mapping \cap SensitiveKeys : mapping[k] = "redacted"
  OBVIOUS
<1>7. list = [i \in DOMAIN list |-> list[i]] /\ mapping = [k \in DOMAIN mapping |-> mapping[k]]
  OBVIOUS
<1> HIDE DEF list, mapping, safe
<1>8. SafeObservation(safe) = [list |-> [i \in DOMAIN list |-> SafeLeaf(list[i])],
        mapping |-> [k \in DOMAIN mapping |-> IF k \in SensitiveKeys THEN "redacted" ELSE SafeLeaf(mapping[k])]]
  BY <1>2 DEF SafeObservation
<1>9. [i \in DOMAIN list |-> SafeLeaf(list[i])] = list
  BY <1>4, <1>7
<1>10. [k \in DOMAIN mapping |-> IF k \in SensitiveKeys THEN "redacted" ELSE SafeLeaf(mapping[k])] = mapping
  BY <1>5, <1>7
<1>11. SafeObservation(safe) = safe
  BY <1>1, <1>8, <1>9, <1>10
<1>12. LeavesOf(safe) \cap {"credential", "long", "infinity", "object"} = {}
  BY <1>2, <1>4, <1>5 DEF LeavesOf, Range
<1>13. QED
  BY <1>2, <1>6, <1>11, <1>12 DEF ObservationIsSafe, safe

(* RecallOK, for every store, request, history and batch: memories are       *)
(* selected within their scope and by relevance, kept once and without flaw, *)
(* each request of a batch has its result, a trace tells each call once, and *)
(* what is shown of an output is safe.                                       *)
THEOREM RecallAlwaysHolds == QuestionSpec => []RecallOK
<1>1. Put(asked) => RecallOK
  <2> SUFFICES ASSUME Put(asked) PROVE RecallOK
    OBVIOUS
  <2>1. asked.of = "recall" =>
          /\ SelectionIsScoped(asked.store, asked.request) /\ NoiseIsIgnored(asked.store, asked.request)
          /\ RelevanceComesFirst(asked.store, asked.request)
    BY RecallQuestions, SelectionHolds, NoiseHolds, RelevanceHolds DEF Put
  <2>2. asked.of = "memory" => MemoriesAreCurated(asked.runs)
    BY RecallQuestions, CurationHolds DEF Put
  <2>3. asked.of = "delegate" => SiblingsAreKept(asked.batch)
    BY RecallQuestions, SiblingsAreAlwaysKept DEF Put
  <2>4. asked.of = "trace" => /\ CallsAreClosed(asked.calls) /\ QueriesAreNumbered(asked.calls)
                              /\ MetricsCountCalls(asked.calls) /\ ArtifactsAreTold(asked.calls)
    BY RecallQuestions, ClosedHolds, NumbersHold, MetricsHold DEF Put
  <2>5. asked.of = "output" => ObservationIsSafe(asked.output)
    BY ObservationHolds
  <2>6. QED
    BY <2>1, <2>2, <2>3, <2>4, <2>5
       DEF RecallOK, ScopeOK, NoiseOK, RelevanceOK, MemoriesOK, SiblingsOK, TraceOK, ObservationOK
<1>2. QED
  BY <1>1, AlwaysPut, PTL

=============================================================================
