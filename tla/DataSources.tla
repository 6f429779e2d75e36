---------------------------- MODULE DataSources ----------------------------
(***************************************************************************)
(* A workspace's own database: the connection row an administrator brings  *)
(* from pending to active, the catalog of its table, and the pool of       *)
(* runtimes the agent runs query through. A request reads the row,         *)
(* connects with what it read, and writes the outcome in another           *)
(* transaction, which itself reads the row and later flushes, under no     *)
(* lock, the columns it changed; a run lists the active connection, asks   *)
(* the pool, and builds its tools from the catalog one read at a time.     *)
(* Configuration and password are the changes that set them, the first     *)
(* that of the creation. Audit entries are in Tenancy.                     *)
(***************************************************************************)
EXTENDS Integers, FiniteSets

CONSTANTS
    Columns,    \* columns the source's table may have
    Secrets,    \* those profiling suggests to exclude
    Joins,      \* rows of discovered relationships
    Requests, Runs,
    NoRow, NoRequest, NoRun, Unknown,
    MaxVersion, MaxWork      \* bounds; on changes, and on requests and runs begun

Versions == 1..MaxVersion
Statuses == {"pending", "testing", "verified_read_only", "active", "failed", "disabled", "deleted"}
Row == [status : Statuses, deleted : BOOLEAN, version : Versions,
        config : Versions, password : Versions]
Catalog == [Columns -> {"absent", "open", "excluded"}]
Table == [columns : Catalog, active : BOOLEAN, approved : BOOLEAN]
Connection == [config : Versions, password : Versions]
Engine == [settings : Connection, described : {Unknown} \cup SUBSET Columns]

ASSUME DataSourcesAssumption ==
    /\ Secrets \subseteq Columns
    /\ NoRow \notin Row \cup Table \cup Engine \cup Runs \cup Catalog
    /\ \A C \in SUBSET Columns : Unknown # C
    /\ MaxVersion \in Nat \ {0} /\ MaxWork \in Nat

VARIABLES
    row,      \* data_sources
    table,    \* data_source_tables and its columns
    joins,    \* data_source_relationships: approval status
    live,     \* columns of the table in the source itself
    pool,     \* the entries of the runtime pool, by version
    engines,  \* the runtime a run built
    request, received,
    run,
    changes,  \* history: changes of the configuration or the password begun
    proof,    \* history: settings the last successful verification connected with
    reviewed, \* history: columns the last approval was given for
    blessed,  \* history: joins a person approved
    races     \* history: what overlapped, see below

catalog == <<table, joins>>
runtime == <<pool, engines>>
history == <<changes, proof, reviewed, blessed, races>>
vars == <<row, catalog, live, runtime, request, received, run, history>>

(* deleted_at is what every read and every write checks, not the status.   *)
Exists == row # NoRow /\ ~row.deleted
Settings == [config |-> row.config, password |-> row.password]

Suggested == [c \in Columns |-> IF c \notin live THEN "absent"
                                ELSE IF c \in Secrets THEN "excluded" ELSE "open"]

Fresh ==
    /\ row = NoRow /\ table = NoRow
    /\ proof = Unknown /\ reviewed = Unknown

(* Onboarding is over but for the activation, or altogether. *)
Onboarded ==
    /\ \E status \in {"verified_read_only", "active"} :
          row = [status |-> status, deleted |-> FALSE, version |-> 1,
                 config |-> 1, password |-> 1]
    /\ table = [columns |-> Suggested, active |-> TRUE, approved |-> TRUE]
    /\ proof = [config |-> 1, password |-> 1] /\ reviewed = Suggested

Init ==
    /\ live \in {Columns, Columns \ Secrets}
    /\ Fresh \/ Onboarded
    /\ joins = [j \in Joins |-> "none"]
    /\ pool = [v \in Versions |-> NoRow]
    /\ engines = [n \in Runs |-> NoRow]
    /\ request = [r \in Requests |-> NoRequest]
    /\ received = 0
    /\ run = [n \in Runs |-> NoRun]
    /\ changes = 0
    /\ blessed = {}
    /\ races = {}

-----------------------------------------------------------------------------
At(r, place) == request[r] # NoRequest /\ request[r].pc = place
Answer(r) == request' = [request EXCEPT ![r] = NoRequest]
Begin == received < MaxWork /\ received' = received + 1
Admit(r) == request[r] = NoRequest /\ Begin
Advance(r, place) == request' = [request EXCEPT ![r].pc = place]

Blank == [op |-> "edit", pc |-> "invalidate", status |-> "kept", version |-> 1,
          config |-> 1, password |-> 1, columns |-> NoRow]

-----------------------------------------------------------------------------
(* Writes of the row: the transaction reads it, and its flush sets the     *)
(* columns whose values differ from those read.                            *)

Changed(status) == IF row.status = status THEN "kept" ELSE status
BeginWrite(r, op, status) ==
    request' = [request EXCEPT ![r] = IF Exists
                   THEN [@ EXCEPT !.op = op, !.pc = "flush", !.status = Changed(status)]
                   ELSE NoRequest]

Edits == {"config", "password"}
StatusAfter(q) == IF q.status = "kept" THEN row.status ELSE q.status
Edited(q) ==
    [row EXCEPT !.status = StatusAfter(q), !.version = q.version + 1,
                !.config = IF q.op = "config" THEN q.config ELSE @,
                !.password = IF q.op = "password" THEN q.config ELSE @]

(* Mutant: every column is written as it was read. *)
WrittenWhole(q) ==
    IF q.op \in Edits THEN Edited(q)
    ELSE [row EXCEPT !.status = StatusAfter(q), !.deleted = (q.op = "delete")]
Written(q) ==
    IF q.op \in Edits THEN Edited(q)
    ELSE [row EXCEPT !.status = StatusAfter(q), !.deleted = @ \/ q.op = "delete"]

(* History: what is flushed no longer fits the row it is flushed to, which *)
(* is not the one it was decided for.                                      *)
Misfits(q) ==
    LET seen == [config |-> q.config, password |-> q.password]
    IN (IF q.op = "verify" /\ seen # Settings THEN {<<"verify">>} ELSE {})
       \cup (IF q.status = "active" /\ row.status # "verified_read_only"
             THEN {<<"activate">>} ELSE {})
       \cup (IF q.op \in Edits /\ q.status = "kept" /\ row.status # "pending"
             THEN {<<"change">>} ELSE {})
       \cup (IF q.op \in Edits /\ q.version # row.version THEN {<<"version">>} ELSE {})

FlushRow(r) ==
    LET q == request[r]
    IN /\ At(r, "flush")
       /\ row' = Written(q)
       /\ proof' = IF q.op = "verify" THEN [config |-> q.config, password |-> q.password]
                   ELSE proof
       /\ races' = races \cup Misfits(q)
       /\ request' = [request EXCEPT ![r] =
                        IF q.op \in {"disable", "delete"} \cup Edits THEN Blank ELSE NoRequest]
       /\ UNCHANGED <<catalog, live, runtime, received, run, changes, reviewed, blessed>>

Create(r) ==
    /\ Admit(r)
    /\ row = NoRow
    /\ row' = [status |-> "pending", deleted |-> FALSE, version |-> 1,
               config |-> 1, password |-> 1]
    /\ UNCHANGED <<catalog, live, runtime, request, run, history>>

-----------------------------------------------------------------------------
(* Requests that connect, _runtime_for: the row, then its password. Until  *)
(* they have, tests, verifications, profiles, discoveries, listings and    *)
(* freshness checks are the same request.                                  *)

ReadConnection(r) ==
    /\ Admit(r)
    /\ Exists
    /\ request' = [request EXCEPT ![r] = [Blank EXCEPT !.op = "probe", !.pc = "password",
                                                       !.config = row.config]]
    /\ UNCHANGED <<row, catalog, live, runtime, run, history>>

ReadPassword(r) ==
    /\ At(r, "password")
    /\ IF Exists
       THEN request' = [request EXCEPT ![r].pc = "probe", ![r].password = row.password]
       ELSE Answer(r)
    /\ UNCHANGED <<row, catalog, live, runtime, received, run, history>>

(* The host or the cipher is refused: even a listing fails the source. *)
Refuse(r) ==
    /\ At(r, "probe")
    /\ BeginWrite(r, "probe", "failed")
    /\ UNCHANGED <<row, catalog, live, runtime, received, run, history>>

Test(r) ==
    /\ At(r, "probe")
    /\ \E status \in {"testing", "failed"} : BeginWrite(r, "probe", status)
    /\ UNCHANGED <<row, catalog, live, runtime, received, run, history>>

Verify(r) ==
    /\ At(r, "probe")
    /\ BeginWrite(r, "verify", "verified_read_only") \/ BeginWrite(r, "probe", "failed")
    /\ UNCHANGED <<row, catalog, live, runtime, received, run, history>>

(* Mutant: what was approved stays approved. *)
UpsertKeepingApproval(columns) ==
    table' = IF ~Exists THEN table
             ELSE IF table = NoRow THEN [columns |-> columns, active |-> TRUE, approved |-> FALSE]
             ELSE [table EXCEPT !.columns = columns]
Upsert(columns) ==
    table' = IF ~Exists THEN table
             ELSE IF table = NoRow THEN [columns |-> columns, active |-> TRUE, approved |-> FALSE]
             ELSE [table EXCEPT !.columns = columns, !.approved = FALSE]

Profile(r) ==
    /\ At(r, "probe")
    /\ Upsert(Suggested)
    /\ Answer(r)
    /\ UNCHANGED <<row, joins, live, runtime, received, run, history>>

Candidate == "pending"

Discover(r, j) ==
    /\ At(r, "probe")
    /\ joins[j] = "none"
    /\ joins' = IF Exists THEN [joins EXCEPT ![j] = Candidate] ELSE joins
    /\ Answer(r)
    /\ UNCHANGED <<row, table, live, runtime, received, run, history>>

(* Listings change nothing, and a database that fails leaves the catalog. *)
Inspect(r) ==
    /\ At(r, "probe")
    /\ Answer(r)
    /\ UNCHANGED <<row, catalog, live, runtime, received, run, history>>

-----------------------------------------------------------------------------
(* The catalog: one transaction each, but a reviewer reads before approving *)

Correct(r, c, mark) ==
    /\ Admit(r)
    /\ Exists /\ table # NoRow
    /\ table.columns[c] # "absent"
    /\ Upsert([table.columns EXCEPT ![c] = mark])
    /\ UNCHANGED <<row, joins, live, runtime, request, run, history>>

SetTableActive(r) ==
    /\ Admit(r)
    /\ Exists /\ table # NoRow
    /\ table' = [table EXCEPT !.active = ~@]
    /\ UNCHANGED <<row, joins, live, runtime, request, run, history>>

ReadTable(r) ==
    /\ Admit(r)
    /\ Exists /\ table # NoRow
    /\ request' = [request EXCEPT ![r] = [Blank EXCEPT !.op = "approve", !.pc = "approve",
                                                       !.columns = table.columns]]
    /\ UNCHANGED <<row, catalog, live, runtime, run, history>>

ApproveTable(r) ==
    LET q == request[r]
    IN /\ At(r, "approve")
       /\ IF Exists
          THEN /\ table' = [table EXCEPT !.approved = TRUE]
               /\ reviewed' = q.columns
               /\ races' = IF q.columns = table.columns THEN races ELSE races \cup {<<"review">>}
          ELSE UNCHANGED <<table, reviewed, races>>
       /\ Answer(r)
       /\ UNCHANGED <<row, joins, live, runtime, received, run, changes, proof, blessed>>

SetRelationshipApproval(r, j, status) ==
    /\ Admit(r)
    /\ Exists /\ joins[j] # "none"
    /\ joins' = [joins EXCEPT ![j] = status]
    /\ blessed' = IF status = "approved" THEN blessed \cup {j} ELSE blessed
    /\ UNCHANGED <<row, table, live, runtime, request, run, changes, proof, reviewed, races>>

-----------------------------------------------------------------------------
(* The lifecycle: the status is read, then written *)

ReadStatus(r, op) ==
    /\ Admit(r)
    /\ Exists
    /\ \/ op = "activate" /\ row.status = "verified_read_only"
       \/ op = "disable" /\ row.status # "disabled"
       \/ op = "enable" /\ row.status = "disabled"
       \/ op = "delete"
    /\ request' = [request EXCEPT ![r] = [Blank EXCEPT !.op = op, !.pc =
                       IF op = "activate" THEN "tables" ELSE "status"]]
    /\ UNCHANGED <<row, catalog, live, runtime, run, history>>

CheckTables(r) ==
    /\ At(r, "tables")
    /\ IF Exists /\ table # NoRow /\ table.active /\ table.approved
       THEN Advance(r, "status") ELSE Answer(r)
    /\ UNCHANGED <<row, catalog, live, runtime, received, run, history>>

NewStatus == [activate |-> "active", disable |-> "disabled", enable |-> "pending", delete |-> "deleted"]

ChangeStatus(r) ==
    LET op == request[r].op
    IN /\ At(r, "status")
       /\ BeginWrite(r, op, NewStatus[op])
       /\ UNCHANGED <<row, catalog, live, runtime, received, run, history>>

(* update_configuration and replace_credentials: the version is counted up *)
(* from the one read.                                                      *)
Reconfigure(r, what) ==
    /\ Admit(r)
    /\ Exists /\ changes + 1 < MaxVersion
    /\ changes' = changes + 1
    /\ request' = [request EXCEPT ![r] =
                     [Blank EXCEPT !.op = what, !.pc = "flush", !.status = Changed("pending"),
                                   !.version = row.version, !.config = changes + 2]]
    /\ UNCHANGED <<row, catalog, live, runtime, run, proof, reviewed, blessed, races>>

(* Mutant: only the entry of the version before is evicted. *)
EvictedBefore(v) == v = row.version - 1
Evicted(v) == TRUE

(* History: runs past their lookup may still insert what they build. *)
Building(n) == run[n] # NoRun /\ run[n].pc \in {"lookup", "password", "build"}

Invalidate(r) ==
    /\ At(r, "invalidate")
    /\ pool' = [v \in Versions |-> IF Evicted(v) THEN NoRow ELSE pool[v]]
    /\ races' = races \cup {<<"evicted", v>> : v \in {w \in Versions : pool[w] # NoRow /\ Evicted(w)}}
                      \cup (IF \E n \in Runs : Building(n) THEN {<<"pool">>} ELSE {})
    /\ Answer(r)
    /\ UNCHANGED <<row, catalog, live, engines, received, run, changes, proof, reviewed, blessed>>

Die(r) ==
    /\ request[r] # NoRequest
    /\ races' = IF At(r, "invalidate") THEN races \cup {<<"pool">>} ELSE races
    /\ Answer(r)
    /\ UNCHANGED <<row, catalog, live, runtime, received, run, changes, proof, reviewed, blessed>>

-----------------------------------------------------------------------------
(* A run: the active connection, its runtime, then its tools *)

RunAt(n, place) == run[n] # NoRun /\ run[n].pc = place
RunTo(n, place) == run' = [run EXCEPT ![n].pc = place]
Idle == [pc |-> "done", version |-> 1, settings |-> NoRow, engine |-> NoRow, columns |-> NoRow,
         joins |-> {}, blocked |-> {}, known |-> {}, described |-> "no"]

ListActive(n) ==
    /\ run[n] = NoRun
    /\ Begin
    /\ Exists /\ row.status = "active"
    /\ run' = [run EXCEPT ![n] = [Idle EXCEPT !.pc = "lookup", !.version = row.version,
                                              !.settings = Settings]]
    /\ UNCHANGED <<row, catalog, live, runtime, request, history>>

(* acquire: under the lock, the entry of this very version *)
Take(n, entry) ==
    run' = [run EXCEPT ![n].engine = entry, ![n].settings = NoRow, ![n].pc = "tables"]

Lookup(n) ==
    LET entry == pool[run[n].version]
    IN /\ RunAt(n, "lookup")
       /\ IF entry = NoRow THEN RunTo(n, "password")
          ELSE Take(n, entry)
       /\ UNCHANGED <<row, catalog, live, runtime, request, received, history>>

ResolvePassword(n) ==
    /\ RunAt(n, "password")
    /\ run' = [run EXCEPT ![n] = IF Exists THEN [@ EXCEPT !.settings.password = row.password,
                                                           !.pc = "build"] ELSE Idle]
    /\ UNCHANGED <<row, catalog, live, runtime, request, received, history>>

RefuseRun(n) ==
    /\ RunAt(n, "build")
    /\ run' = [run EXCEPT ![n] = IF Exists /\ row.status # "failed"
                                 THEN [Idle EXCEPT !.pc = "refused"] ELSE Idle]
    /\ UNCHANGED <<row, catalog, live, runtime, request, received, history>>

FlushRefusal(n) ==
    /\ RunAt(n, "refused")
    /\ row' = [row EXCEPT !.status = "failed"]
    /\ run' = [run EXCEPT ![n] = Idle]
    /\ UNCHANGED <<catalog, live, runtime, request, received, history>>

Built(n) ==
    /\ pool' = [pool EXCEPT ![run[n].version] = n]
    /\ engines' = [engines EXCEPT ![n] = [settings |-> run[n].settings, described |-> Unknown]]
    /\ Take(n, n)

Insert(n) ==
    LET entry == pool[run[n].version]
    IN /\ RunAt(n, "build")
       /\ \/ entry = NoRow /\ Built(n)
          \/ entry # NoRow /\ Take(n, entry) /\ UNCHANGED runtime
       /\ UNCHANGED <<row, catalog, live, request, received, history>>

ReadTables(n) ==
    /\ RunAt(n, "tables")
    /\ run' = [run EXCEPT ![n].pc = "joins",
                          ![n].columns = IF Exists /\ table # NoRow /\ table.active
                                         THEN table.columns ELSE NoRow]
    /\ UNCHANGED <<row, catalog, live, runtime, request, received, history>>

ReadJoins(n) ==
    /\ RunAt(n, "joins")
    /\ run' = [run EXCEPT ![n].pc = "describe",
                          ![n].joins = IF Exists THEN {j \in Joins : joins[j] = "approved"} ELSE {}]
    /\ UNCHANGED <<row, catalog, live, runtime, request, received, history>>

Blocked(described, columns) == {c \in described : columns[c] # "open"}

(* The description is the cached one, if the runtime still has one. *)
Describe(n) ==
    LET e == run[n].engine
        cached == engines[e].described
        described == IF cached = Unknown THEN live ELSE cached
    IN /\ RunAt(n, "describe") /\ run[n].columns # NoRow
       /\ engines' = [engines EXCEPT ![e].described = described]
       /\ run' = [run EXCEPT ![n].blocked = Blocked(described, run[n].columns), ![n].known = live,
                             ![n].described = IF described = live THEN "now" ELSE "before",
                             ![n].pc = "query"]
       /\ UNCHANGED <<row, catalog, live, pool, request, received, history>>

(* A table that cannot be described is passed over: nothing is blocked. *)
DescribeFails(n) ==
    /\ RunAt(n, "describe")
    /\ run[n].columns # NoRow => engines[run[n].engine].described = Unknown
    /\ run' = [run EXCEPT ![n].known = live, ![n].pc = "query"]
    /\ UNCHANGED <<row, catalog, live, runtime, request, received, history>>

(* What the statements of a run may name, column by column, and its end; a *)
(* star names no column, and is not held against the excluded ones.        *)
Readable(n) == IF run[n].columns = NoRow THEN {} ELSE live \ run[n].blocked

EndRun(n) ==
    /\ RunAt(n, "query")
    /\ run' = [run EXCEPT ![n] = Idle]
    /\ UNCHANGED <<row, catalog, live, runtime, request, received, history>>

-----------------------------------------------------------------------------
(* The source gains a column; a description outlives its time to live *)

AddColumn(c) ==
    /\ c \notin live
    /\ live' = live \cup {c}
    /\ UNCHANGED <<row, catalog, runtime, request, received, run, history>>

ExpireCache(e) ==
    /\ engines[e] # NoRow /\ engines[e].described # Unknown
    /\ engines' = [engines EXCEPT ![e].described = Unknown]
    /\ UNCHANGED <<row, catalog, live, pool, request, received, run, history>>

Serve(r) ==
    \/ Create(r)
    \/ ReadConnection(r) \/ ReadPassword(r) \/ Refuse(r) \/ Test(r) \/ Verify(r) \/ Profile(r) \/ Inspect(r)
    \/ \E j \in Joins :
          \/ Discover(r, j)
          \/ \E status \in {"approved", "rejected"} : SetRelationshipApproval(r, j, status)
    \/ \E c \in Columns, mark \in {"open", "excluded"} : Correct(r, c, mark)
    \/ SetTableActive(r) \/ ReadTable(r) \/ ApproveTable(r)
    \/ \E op \in DOMAIN NewStatus : ReadStatus(r, op)
    \/ CheckTables(r) \/ ChangeStatus(r) \/ FlushRow(r)
    \/ \E what \in Edits : Reconfigure(r, what)
    \/ Invalidate(r) \/ Die(r)

Work(n) ==
    \/ ListActive(n) \/ Lookup(n) \/ ResolvePassword(n) \/ Insert(n)
    \/ RefuseRun(n) \/ FlushRefusal(n)
    \/ ReadTables(n) \/ ReadJoins(n) \/ Describe(n) \/ DescribeFails(n)
    \/ EndRun(n) \/ ExpireCache(n)

Next ==
    \/ \E r \in Requests : Serve(r)
    \/ \E n \in Runs : Work(n)
    \/ \E c \in Columns : AddColumn(c)

Spec == Init /\ [][Next]_vars

-----------------------------------------------------------------------------
(* Properties *)

Request == [op : DOMAIN NewStatus \cup Edits \cup {"probe", "verify", "edit", "approve"},
            pc : {"password", "probe", "approve", "tables", "status", "flush", "invalidate"},
            status : Statuses \cup {"kept"}, version : Versions,
            config : Versions, password : Versions, columns : Catalog \cup {NoRow}]
RunState == [pc : {"lookup", "password", "build", "refused", "tables", "joins", "describe", "query", "done"},
             version : Versions, settings : Connection \cup {NoRow}, engine : Runs \cup {NoRow},
             columns : Catalog \cup {NoRow}, joins : SUBSET Joins,
             blocked : SUBSET Columns, known : SUBSET Columns, described : {"no", "now", "before"}]

ASSUME MarkerAssumption == NoRequest \notin Request /\ NoRun \notin RunState

(* The rows, the pool, the requests and the runs keep their types.         *)
TypeOK ==
    /\ row \in Row \cup {NoRow}
    /\ table \in Table \cup {NoRow}
    /\ joins \in [Joins -> {"none", "pending", "approved", "rejected"}]
    /\ live \subseteq Columns
    /\ pool \in [Versions -> Runs \cup {NoRow}]
    /\ engines \in [Runs -> Engine \cup {NoRow}]
    /\ request \in [Requests -> Request \cup {NoRequest}]
    /\ received \in 0..MaxWork
    /\ run \in [Runs -> RunState \cup {NoRun}]
    /\ changes \in 0..(MaxVersion - 1)
    /\ blessed \subseteq Joins

(* An active source was verified with the settings it has, unless they     *)
(* changed between a verification's connection and its write, between what *)
(* an activation checked and its write, or by a change that had read a     *)
(* pending source and so left the status alone (verify_read_only_behavior, *)
(* activate, update_connection_config).                                    *)
ActiveWasVerified ==
    row # NoRow /\ row.status = "active" =>
        proof = Settings \/ {<<"verify">>, <<"activate">>, <<"change">>} \cap races # {}

(* The pool's entry for the version the row has was built with the row's   *)
(* configuration and password, however a run that listed it and a change   *)
(* of either interleave, and two runs share it; unless two changes         *)
(* overlapped, which then count up from the same version                   *)
(* (DataSourceRuntimePool, update_connection_config).                      *)
PoolServesCurrent ==
    row # NoRow /\ pool[row.version] # NoRow =>
        engines[pool[row.version]].settings = Settings \/ <<"version">> \in races

(* A runtime of an older version, or of a deleted source, stays in the     *)
(* pool only while the request that ends it has yet to invalidate, if that *)
(* request died before, or if a run was building it meanwhile.             *)
OldRuntimesGo ==
    \A v \in Versions :
        pool[v] # NoRow /\ (v # row.version \/ ~Exists) =>
            (\E r \in Requests : At(r, "invalidate")) \/ <<"pool">> \in races

(* Runs of one version share one runtime, also when two found the pool     *)
(* cold, unless the version's entry was evicted in between (acquire).      *)
RunsShareRuntimes ==
    \A m, n \in Runs :
        run[m] # NoRun /\ run[n] # NoRun /\ run[m].version = run[n].version
            /\ run[m].engine # NoRow /\ run[n].engine # NoRow
        => run[m].engine = run[n].engine \/ <<"evicted", run[m].version>> \in races

(* The pool holds what the row says and nothing older, once.               *)
PoolIsCurrent == TypeOK /\ PoolServesCurrent /\ OldRuntimesGo /\ RunsShareRuntimes

(* A statement of a run may name a column that was there when its tools    *)
(* were built only if the catalog it read left the column open, unless the *)
(* table could not be described or an old description was cached           *)
(* (_queryable_column_whitelist, PostgreSQLInspector._cached).  The marks  *)
(* count as they stand, whether or not anybody has approved the table.     *)
ReadableWasOpen ==
    \A n \in Runs :
        run[n] # NoRun /\ run[n].described = "now" =>
            \A c \in Readable(n) \cap run[n].known : run[n].columns[c] = "open"

(* A run is told only of joins that a person approved, whatever was        *)
(* discovered before or since (create_relationship_candidates).            *)
JoinsWereApproved == \A n \in Runs : run[n] # NoRun => run[n].joins \subseteq blessed

(* An approved table has the columns its reviewer read, unless they were   *)
(* replaced between the reading and the approval (upsert_table,            *)
(* approve_table).                                                         *)
ApprovedWasReviewed ==
    table # NoRow /\ table.approved => table.columns = reviewed \/ <<"review">> \in races

(* What was vouched for: a probe for the connection of an active source, a *)
(* person for the joins a run is told of and for the columns of a table    *)
(* that counts as approved.  And what a run may name is what the catalog   *)
(* of an active table leaves open: approved_by is not asked for there.     *)
VouchedFor ==
    ActiveWasVerified /\ ReadableWasOpen /\ JoinsWereApproved /\ ApprovedWasReviewed

(* No write that was decided before brings a deleted source back, though   *)
(* it may overwrite the status, and no request or run begins on it         *)
(* (update_connection_status, soft_delete_connection).                     *)
DeletedStaysDeleted ==
    [][row # NoRow /\ row.deleted => row'.deleted /\ received' = received]_vars

=============================================================================
