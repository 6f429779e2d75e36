# A verification development for the autonomous agent runtime

This directory holds TLA+ models of the agent runtime in this repository, the
TLC configurations that check them on small instances, and TLAPS proofs of what
matters most for every instance. Paths are relative to `src/backend/app` unless
they start with `docs/` (that is `src/docs/`), `scripts/`
(`src/backend/scripts/`) or `frontend/` (`src/frontend/`).

## 1. The system

A FastAPI backend (`src/backend`, about 29 000 lines) runs *bounded agent runs*
over a customer's analytics database, and a Next.js workbench (`src/frontend`)
shows them. One uvicorn process serves the API; two kinds of worker processes,
for scheduled reports and for artifact retention, share its PostgreSQL database.
Approvals are files; runs, traces and LLM state live in the API process's memory.

| Part | State | Operations | Talks to | What is hard | What makes it correct | Model |
|---|---|---|---|---|---|---|
| **Agent loop** `runtime/*`, `contracts/actions.py`, `reliability/retry.py` | `AgentState`: counters, fingerprint windows, observations, summary, plan | one iteration: LLM request with retries, then `use_tool`, `load_skill`, `delegate`, `delegate_parallel` or `finish`; summarization; exit checks | LLM client, tools, child runs, approval store | a dozen interacting budgets; pauses in mid-run; partly failed batches; a summary that lags | limits hold, every error and delegation is on the books, plans are backed, finishing is earned, it ends | `AgentRun` |
| **Approval gate** `security/approvals.py`, `api/routes/approvals.py`, `runtime/runner.py:532-628` | two JSON files per request; `execution_started_at` | create, get, list, resolve, claim, complete, lazy expiry; approve, reject; resume | agent loop, run manager | repeated and concurrent answers, deadline, crash between claim and result | an action runs at most once; one answer stands; a waiting run can be resumed unless its deadline passed unanswered | `ApprovalFlow`, `HumanGate` |
| **Run manager, conversations** `orchestration/run_manager.py`, `conversations/store.py` | `ManagedRun` in memory; run and message rows | create, `_execute`, `reconcile_resumed_run`, `finish_run`, delete | all of the above | late and repeated writes, deletion under a running run, restart, failed writes | what is reported as the answer is the answer, and it gets reported | `ApprovalFlow`, `RunTrace` |
| **Event stream, evidence, workbench** `observability/*`, `api/routes/analytics.py`, `tools/execution/observers.py`, `frontend/.../use-agent-run.ts` | traces in memory, `finished_at`; the browser's received events and polling | record, number queries, project, stream, reconnect, poll | run manager, agent loop | terminal event recorded between read and check; eviction; restart; a dropped connection | in order, no duplicate, an end is shown; a source shown is the one cited; each call is told of once | `RunTrace`, `ToolTrace` |
| **Scheduler** `scheduling/*`, `api/routes/scheduled_reports.py`, `scripts/run_scheduled_reports.py` | `scheduled_reports` rows with `next_run_at`, `claimed_at` | claim_due, run, retry, record, reschedule, deliver; create and PATCH | saved reports, delivery | several workers, stale claims, crash in mid-run, edits in mid-run | exclusive, at most one delivery, a due time published in full once but for crashes, every due schedule served | `Scheduler` |
| **Calendar** `scheduling/calculator.py`, `reports/periods.py` | none | compute_next_run, resolve_relative_period | zoneinfo | repeated and missing hours, short months | on the rule and the next one, but for the hours a change of the clocks repeats or skips; periods fit together | `Calendar` |
| **Saved reports, publishing** `reports/*`, `orchestration/publishing.py`, `reruns.py` | versioned definitions, execution rows, artifacts | create, update with expected version, archive, execute, publish | analytics, artifacts | version check and write on one read; one of several formats fails | no lost update; executions tell what happened | `Publishing` |
| **Delivery** `delivery/*` | delivery rows with attempts | deliver with retries, record attempt | e-mail and webhook providers | contacted but not recorded | recorded attempts are contacts | `Publishing` |
| **Artifacts, retention** `artifacts/*`, `scripts/run_artifact_retention.py` | files, rows with status and deletion claim | register, claim expired, delete, record failure, download | file system, database | bytes and row change separately; stale claims | what is held stays, what expired goes, one worker deletes | `Publishing` |
| **Tenancy** `tenancy/*`, `audit/*` | workspaces, memberships, invitations, preferences, audit log | create, invite, accept, change role, remove, leave, transfer, deactivate, settings, preferences | identity | last-owner checks on a count read before; versions | a workspace has an owner; the removed stay out; changes are audited | `Tenancy` |
| **Identity** `identity/*`, `api/routes/auth.py` | users, sessions, single-use tokens | register, login, reset, verify, change, revoke | tenancy, mail | token read and marked in two steps; login beside revoke-all | single use, revoked stays revoked, addresses are proven | `Identity`, `Bounds` (rate limit) |
| **Data sources** `datasources/*`, `api/routes/datasources.py` | connection rows with versions, catalog, joins, pool of engines | create, test, verify, profile, discover, review, activate, disable, reconfigure, delete; a run's lookup | SQL access | engines built outside the lock; decisions on rows read before; writes under no lock | the pool serves current settings; what is active was verified and what is approved was reviewed; deleted stays deleted | `DataSources`, `Catalog` |
| **SQL access** `analytics/sql/validator.py`, `datasources/governed_*.py`, `tool_integration.py`, `profiling.py` | none | describe, validate a query, propose joins and roles | customer's database, catalog | aliases, CTEs and ambiguous columns that name what is hidden | what is not approved leaves no trace and is not queried by its name; what is described can be queried | `Catalog` |
| **Metrics, reruns** `analytics/semantics/*`, `analytics/sql/*`, `orchestration/reruns.py` | none | compile, execute with limits, display | customer's database | joins that repeat or lose rows, NULL, boundaries | figures add up; truncation is told | `Metrics` |
| **Layout, documents** `analytics/presentation/*` | none | assign slots, recommend, compile, write DOCX and PDF | – | two writers of one model | complete, alike in both formats, warned unless a request says not to | `Presentation` |
| **Security policy, executor** `security/*`, `tools/execution/executor.py` | none | evaluate, gate, validate arguments, execute | approval gate | policies that raise or name nothing | closed by default, before and after approval | `Guards` |
| **Tools, environment** `environment/*`, `tools/*` | workspace files, child processes | read, write, list, run a command or Python | – | links and parents; children that do not end | stays in the workspace; bounded | `WorkspaceFiles`, `Bounds` |
| **Memory, delegation** `memory/*`, `runtime/delegation.py` | working, session and long-term records | extract, curate, retrieve, delegate | agent loop | a paused run's `finally` clears what a resumed run uses | scoped, without duplicates; siblings are kept | `Recall`, `RunTrace` |
| **LLM client** `llm/*`, `runtime/context.py` | none | context, functions, reply to action, price | OpenAI | schemas on two sides that must agree | what is offered can be called and is accepted | `ModelCalls` |
| Skills, composition, configuration, migrations, evaluations, the rest of the frontend | – | – | – | – | – | not modelled, see section 6 |

`PROJECT.json` lists the hazards: what can go wrong in this code that a test
would hardly reach, at its line, with the properties that would show it.

## 2. Modules

State machines, one step per database transaction, file operation, or stretch of
code between two awaits:

| Module | What it is |
|---|---|
| `AgentRun` | one run: one iteration of `AgentRunner.run` is one step |
| `ApprovalFlow` | the approvals of one run, the requests that answer them and the records of the run |
| `HumanGate` | the abstract promise of the approval gate; `ApprovalFlow!GateSpec` instantiates it with a refinement mapping |
| `RunTrace` | one run as the outside sees it: its segments, its trace among others, the stream, the Workbench |
| `Scheduler` | the scheduled reports of several workers and the PATCH requests |
| `Publishing` | a saved report and the documents made of it: edits, executions, artifact rows and bytes, retention workers, downloads, deliveries |
| `Tenancy` | workspaces, memberships, invitations, versioned rows, the audit log |
| `Identity` | accounts, sessions, links |
| `DataSources` | connection, catalog and the pool of runtimes |

Functions without state, each a module of operators with the statements about
them at its end:

| Module | Functions |
|---|---|
| `Calendar` | `compute_next_run`, `resolve_relative_period` |
| `Metrics` | the compiled metrics, `compile_metric`, the executor's limits, a rerun's displays |
| `Presentation` | slot assignment, recommendation, `compile_report`, prose, the two document writers |
| `Guards` | `CapabilityPolicy` with its rules, risk and gates; `validate_arguments`; the executor's decisions |
| `WorkspaceFiles` | path resolution and the file operations; captured output |
| `Bounds` | the rate limiter, ending a child process, chart collection |
| `Catalog` | the governed inspector, the query whitelist and validator over parsed statements, join discovery, role and sensitivity suggestions |
| `ToolTrace` | what a tool call leaves in the trace: events, query numbers, metrics, artifacts, the observation's value |
| `Recall` | memory retrieval and curation, a delegated batch |
| `ModelCalls` | context, offered functions, reply to action, price |

`Decisions` puts questions to these functions: each action takes one topic and
any question of the instance, so that one run checks them all, and every
invariant is about the answer. The `MC*` modules hold the values of the TLC
instances, the `*_proofs` modules the theorems.

How they fit: an action of `AgentRun` that a driving task takes inside
`ApprovalFlow` is one of *pause*, *conclude*, *raise* there, and a segment of
`RunTrace`. `AgentRun!Terminates` justifies the weak fairness of
`ApprovalFlow!Step` while a task drives the run, and `ApprovalFlow!OneDriver`
that `AgentRun` treats the state as owned by one coroutine. `Scheduler` treats
a publication and a delivery as single steps; `Publishing` takes them apart.
`Scheduler` uses one linear clock; `Calendar` has the wall clock. `ModelCalls`
uses the argument schemas of `Guards`, `ToolTrace` its executor.

Definitions headed *Mutant* are plausible mistakes in the code they stand next
to. No specification uses them; substituting one for the definition after it
makes the property named in `PROJECT.json` fail.

### AgentRun

Variables are the fields of `AgentState` (`runtime/state.py`) that control the
run. Observations are counted, not stored; fingerprints are the request itself;
a tool's result is one of: success, success with the id of a query or display,
failure, a new plan, a pause. `Executors` are the kinds of delegation the runner
was given an executor for. `streak` and `unexecuted` are history variables: what
was accepted, and how often in a row; and how many accepted delegations found no
executor. `disclosed` is the set of gaps printed with an accepted answer.

| Action | Code |
|---|---|
| `LLMFails` | `runner.py:240-273` with the rules of `reliability/retry.py` |
| `ToolLimitStop`, `ToolDuplicateRefused`, `UseTool` and its outcomes `ToolSucceeds`, `ToolFails`, `PlanUpdated`, `ToolUnapprovable` | `_apply_action`, `runner.py:346-429`, `656-681` |
| `PauseForApproval`, `ResumeApproved`, `ResumeRejected` | `runner.py:532-628` |
| `SkillLoaded`, `SkillUnknown`, `SkillLoadRaises` | `runner.py:431-485` |
| `DelegationRefused`, `Delegate`, `DelegateParallel` | `runtime/steps/delegation_step.py:90-314` |
| `DelegationUnavailable`, `BatchUnavailable` | the same without an executor, `delegation_step.py:192-204`, `298-306` |
| `FinishRedirected`, `FinishAccepted` | `runner.py:487-530`, `planning.evaluate_finish` |
| `IterationLimitStop` | the `while` condition failing, `runner.py:318-325` |

`Iterate` holds what surrounds every handler: the iteration is counted and
`SummarizationStep.update` follows. A child run is one step of its parent: its
own loop is another instance of this module with `AgentDepth = 1`.

### ApprovalFlow and HumanGate

`Main` is the task `AgentRunManager.create` starts; each element of `Requests`
is one approve or reject request. The approval's two files are `gate`,
`started`, `overdue` and `checkpoint`; `managed` is the record in memory, `db`
and `replies` are the run's row and its assistant messages. `truth` and
`executed` are history: what the run really did. Expiry is lazy, as in the
code: `Deadline` only lets `expires_at` pass, and the next access of the store
expires the request. `Crash` ends every task and forgets `managed`; files and
rows stay. `StartFails` and `PersistFails` are a database that is not there.
The approval's two files are written in one step: a torn first write leaves a
request `_read` does not see, like a crash before the pause; a torn later write
leaves a pair whose checkpoint is the one it replaces.

In `HumanGate` (`gate`, `taken`, `due`, `ran`, `outcome`) a run asks, is
answered once, goes on once, acts at most once and before anything else, ends
once, or is lost while working. `ApprovalFlow` maps `taken` to `started`, `ran`
to `executed`, `outcome` to `truth`, and `due` to the approval whose request
stands between its claim and the action.

### RunTrace

A segment is one coroutine that executes the run: the first, and one per
approval that resumes it. `StartQuery`/`FinishQuery` number a query by counting
the evidence events in the trace (`observers.py:274`), `Answer` resolves
citations against the ledger of that trace, `Pause`, `Halt`, `Outcome`,
`Report`, `Clear` and `Persist` are the end of a segment in the order of
`runner.py:313-344` and `run_manager.py`. `OtherRun` starts other runs, whose
traces evict this one's (`MaxTraces`). `GenRead`, `GenYield`, `GenEnds` and
`GenSleeps` are the generator of `analytics.py`; `Cut`, `NoticeDrop`, `Settle`
and `Poll` the Workbench's hooks. `Restart` loses what is in memory. A *scene*
of `Scenes` fixes how many queries, faults and other runs one behaviour has,
which kinds of fault, and whether somebody watches.

### Scheduler

A schedule is a row; its rule fires every `Period[rule]` ticks, shifted by the
zone's `Offset`. `ClaimDue` copies rows into a worker's batch, `TakeNext` looks
up the saved report, `Execute` and `ExecuteFails` are the attempts,
`CreateExecution`, `FinishExecution` and `Reschedule` the three transactions
that follow, `Deliver` comes last. A schedule of `Several` formats may leave
documents behind when an attempt fails or its worker dies (`Leaves`), since each
format is registered as soon as it is written. `PatchRead` and `PatchWrite` are the two
transactions of a PATCH. `Crash` stands for a kill, a deploy and any exception
out of `run_once`, which ends the process. History, by schedule and due time:
`published` counts the publications in full, `registered` the attempts that left
documents, `delivered` the deliveries; `reports` counts by schedule alone.
`Punctual` states the assumption under which claims can work at all: a batch is
finished before its claim is stale, and a PATCH takes less than a tick. Time here
is a clock that is not set back; see the repeated hour in section 3.

### Publishing

`ReadForEdit`/`WriteEdit` are the two halves of the versioned update,
`LoadDefinition` to `FinishExecution` one execution (`RecordPending`,
`WriteBytes`, `RecordReady` for each format), `Expire`, `ClaimExpired`,
`Discard`, `MarkDeleted` and `RecordDeletionFailure` the retention worker,
`Download`, `PathFor`, `Open` the route that serves a file, `Deliver`,
`CreateDelivery`, `Send`, `RecordAttempt` the delivery service. `PublisherDies`,
`WorkerDies` and `DeliveryDies` happen anywhere in between. After `WriteFails`
the row is marked by `RecordUnwritten`, or not: discarding what was copied may
fail (`CleanupFails`, `artifacts/store.py:158`), and so may marking, whose error
is swallowed (`RecordUnwrittenFails`, `artifacts/postgres.py:95`). The history
`stranded` names the artifacts this leaves pending. Time is `ClaimAges`: a claim
becomes stale. A retention policy other than "standard" makes an
artifact one of `Held`.

### Tenancy, Identity

A request resolves its context, reads, decides and writes in transactions of
their own. `Enter` is the dependency that admits it with the role of that
moment; `ReadTarget`, `CountOwners` and `WriteMember` are change, removal and
leaving; `Promote` and `Demote` the two writes of a transfer. In `Identity`,
`Validate`/`Touch` are `validate_session`, `Redeem`/`Use` are `_consume_token`,
`Supersede`/`Issue` are `_issue_and_send_token`; a password is the number of the
change that set it. History variables (`crossed`, `races`, `changes`, ...) record
where two requests really overlapped: a property that fails only there says so.
`Fail` ends a request between two of its steps.

### DataSources

The connection row carries its version, and the changes that set its
configuration and its password; `deleted` is `deleted_at`, which every read and
write checks, and is a column apart from the status. `ReadConnection`,
`ReadPassword`, `Test`, `Verify`, `Profile`, `Discover` and the review actions are
an administrator's requests, `ChangeStatus`, `Reconfigure` and `Invalidate` the
lifecycle. A write of the row is two steps, since the store takes no lock:
`BeginWrite` or `Reconfigure` reads the row and decides, `FlushRow` writes the
columns that differ from what was read (`Written`), the version as counted up
from the one read. A run lists the active connection (`ListActive`), asks the
pool (`Take`, `Lookup`, `ResolvePassword`, `Built`, `Insert`), and builds its tools
from the catalog one read at a time (`ReadTables`, `ReadJoins`, `Describe`); a
refusal of its own writes the row too (`RefuseRun`, `FlushRefusal`). `races`
records what was flushed to a row it was not decided for (`Misfits`).

### Catalog

A statement is what the parser finds in it. Its column references say whether
they are spelled as the catalog spells the column (`exact`), and `whole` are the
tables asked for their whole row, by a star or by name: the validator looks at
column references alone, by their spelling.

## 3. Properties and runs

Several properties are conjunctions of named parts, each stated and explained
where it is defined.

| Run | Instance | What it shows |
|---|---|---|
| `agent_run_loop` | 2 tools (1 gated), 1 delegation, 1 batch of 2, 5 iterations, 3 tool calls, 2 errors, 2 repeats; 86 805 states | `LimitsRespected`, `Accounted` (`ErrorsAreObserved`, `DelegationsAccounted`), `RepeatsBounded`, `OwnErrorsStop`, `Terminates` |
| `agent_run_plan` | the same with a plan of a question and a required table, 2 redirects, and no executor for delegations; 58 683 states | `CompletionIsBacked` (`PlanIsBacked`, `CompletionIsEarned`), `Accounted` |
| `approval_flow` | 2 approvals, 2 requests and the first task, 1 fault; 214 252 states | `RunsOnce` (`ExecutedAtMostOnce`, `OneDriver`), `WaitingIsOnFile`, `AnswersAreTrue`, `GateSpec` (refinement), `EndsAreReached` (`CompletionIsRecorded`, `ClaimedRunStops`) |
| `run_trace` | 2 segments, 3 scenes: 2 queries, a restart or `clear` and 2 other runs unwatched; 1 query and a dropped connection, restart or failed poll watched; 2 other runs watched without faults; 568 695 states | `StreamIsFaithful` (`ReceivedInOrder`, `EndsOnce`, `GivesUpAfterFault`), `RunKeepsItsOwn` (`EvidenceIsMeant`, `GoalIsInContext`, `LeaksAreFaults`), `EndIsShown` |
| `run_evidence` | the same | the finding below |
| `scheduler_claims` | 3 schedules, 1 of them in several formats, 2 workers, batches of 2, 2 attempts, 1 crash, 4 ticks; 481 079 states | `OneWorker`, `RunsAreAccounted` (`PublishedPerCrash` with `PublishedInFull` and `RegisteredInPart`, `RunsAreRecorded`), `DueIsServed` |
| `scheduler_edits` | 1 schedule with 2 rules and 2 zones, one format, edited, switched and archived; 2 workers, 2 attempts, 1 crash; 2 002 944 states | `DeliveredOnce`, `PublishedPerCrash` |
| `publishing` | 2 artifacts (1 held), 1 publication, 2 edits, 2 workers, a download, a delivery; 2 requests, 2 faults, 1 deletion attempt, 2 sends; 187 228 states | `RecordsAreTrue` (`EditionsAreUnique`, `ExecutionsTellTheTruth`, `PendingIsOwned`, `ReadersSeePublished`, `AttemptsAreContacts`), `DeletionIsOrderly` (`DeletedIsGone`, `GoneIsClaimed`, `OneDeleter`, `AttemptsBounded`), `HeldIsKept`, `ExpiredGoes` |
| `tenancy` | an owner, an admin and an outsider, a workspace and a free slug, 1 invitation, 2 concurrent requests, 3 requests or faults in all; 363 848 states | `OwnersHold` (`OwnersComeFromOwners`, `OwnerlessOnlyByRace`), `ChangesAreCounted` (`AuditFollowsChanges`, `VersionCountsEdits`), `RemovedStaysOut` |
| `identity` | 2 accounts, 3 addresses, 1 session, 2 links, 2 concurrent requests, 5 in all, 1 fault, 1 new password; 1 040 904 states | `AccountsHold` (`EmailsUnique`, `VerifiedWasReached`, `LinksAreSingle`), `SessionsFollowPassword`, `DeadStaysDead` |
| `datasources` | 1 column that looks secret, 1 join, 3 versions, 2 concurrent requests, 2 runs, 4 of both in all; 1 288 526 states | `PoolIsCurrent` (`PoolServesCurrent`, `OldRuntimesGo`, `RunsShareRuntimes`), `VouchedFor` (`ActiveWasVerified`, `ReadableWasOpen`, `JoinsWereApproved`, `ApprovedWasReviewed`), `DeletedStaysDeleted` |
| `decisions` | the questions below; 418 237 states | `CalendarOK`, `FiguresOK`, `ReportsOK`, `PolicyOK`, `BoundsOK`, `RecallOK`, `ModelCallsOK` |

The parts of `decisions`, each comparing an algorithm with a definition of what
it is for, over every question of the instance:

* `CalendarOK`: a schedule fires next at the first instant of its rule strictly
  after now, in every zone, but for two hours a year (`NextRunOK`): in an hour
  the wall repeats, the instant returned is one of the rule that may lie less
  than an hour back, and right after an hour the wall skipped it may pass over
  the fires of that hour (see the departures below); periods adjoin and have
  their length (`PeriodsOK`). Instants of three days around a change, rules of
  every kind, two years of days.
* `FiguresOK`: halves and groups of a period add up to it, complementary filters
  split it, rates are shares, averages lie between, growth chains, attainment
  agrees with its months, a request's order does not matter, every value is
  bound, truncation is told. All tables of up to two rows (orders with items).
* `ReportsOK`: slots get what suits them, in order and within limits, the
  recommended template can be published, nothing is printed empty, every figure
  is printed and accounted for, prose keeps its words, DOCX and PDF show the
  same, and prose of another period is marked, unless a request to publish
  recomputed metrics says itself that the narrative is current (`ProseMarked`).
* `PolicyOK`: what the executor does is what the policy says of that call, also
  when the policy raises or answers nothing; a specialist gets no more than was
  granted; what is sensitive runs only when approved; production is closed. What
  is not approved of a database changes no answer about it (`HiddenOK`), a
  statement the validator accepts names no unapproved column as the catalog
  spells it, though it may read one in a whole row or under another case, and a
  described column can be queried (`QueriesOK`), a column is proposed for one
  join, to a selected table with the key, and is not summed; the most sensitive
  hint wins (`ProposalsOK`).
* `BoundsOK`: reads, writes and listings stay in the workspace through links,
  parents and files not there yet; what is written is read; captured output is a
  prefix; a child ends within its timeout and grace; charts and attempts are
  limited.
* `RecallOK`: memories come from their workspace and session, noise does not
  change the selection, relevance goes before age while fewer than 99 memories
  compete, curation stores no duplicate,
  siblings of a failed child are kept. Each call, query and artifact is told of
  once in the trace and queries are numbered in order (`TraceOK`); an
  observation keeps the shape of the output, carries no credential and making it
  again changes nothing (`ObservationOK`).
* `ModelCallsOK`: nothing recent is forgotten, evidence stays apart from
  instructions, a call the schema permits is an action the runtime accepts and
  what a tool takes is offered, costs are ordered.

The states where the state machines stop (a run ended, every request answered,
the bound on time reached) are real, so deadlock is not checked there.
`decisions` never stops.

**Bounds.** Two of everything that competes: a third competitor can only do
what one of the two does. Five iterations allow an error, a pause and its
resumption, a redirect and a finish in one run; limits of 2 and 3 are reached
and passed by one. Two approvals allow a request for the first to arrive while
the second is open. One fault is enough to stop any task between any two steps;
`Publishing` has two, so that a worker dies over a document whose publisher
died. In `scheduler_claims`, two schedules are due together with the third, so
that a batch of two leaves one out, and a crash early enough lets its claims
become stale: `Crash` is confined to that time. Requests and runs are bounded
by how many begin (`MaxRequests`, `MaxWork`, `MaxEvents`), not by what they do:
three requests let one prepare what two others race over (a second owner before
two owners leave), five in `identity` a registration, a link, its redemption and
a login beside a change. `Scenes` of `run_trace` separate evidence, watching and
eviction, since together they only multiply. The deaths in `DataSources` need no
bound of their own: who dies is one of the counted requests. Two changes that
overlap while a run builds a runtime take a fifth request in `DataSources`, so the
shared version that `PoolServesCurrent` excuses is reached by the theorem, not by
the run. In `Calendar` a day
has 48 half hours and a zone changes once, by one hour, at any half hour of the
instance. The theorems do not depend on any of these bounds.

**Fairness.** Weak fairness only, and only of the program's own steps.
`AgentRun`: of the loop, since every LLM request and tool call has a timeout;
none of the reviewer. `ApprovalFlow`: of a task that has been started; none of
new requests, deadlines or faults. `Scheduler`: of the workers (a polling
process under a supervisor, `docs/operations/deployment.md`), of a PATCH that
has begun, and of time; none of users or crashes. `Publishing`: of the
retention workers' steps and of claims growing old, since the script sweeps in a
loop. `RunTrace`: of every segment, the generator and the Workbench; none of
other runs, faults, restarts or the user. The other modules state no liveness.

### Where the code departs from what is said of it

* `run_evidence`: a query's id is counted from the trace, and the trace is lost
  by a restart or by eviction while the checkpoint is not. A run resumed after
  that gives out `query_001` again, and an answer that cites the earlier one is
  shown the later query as its source (`tools/execution/observers.py:274`),
  though `runtime/runner.py:684` drops what "the run cannot account for".

The following are stated as definitions that no configuration lists; put one as
the only `INVARIANT` (or `PROPERTY`) into a copy of the run's configuration to
see the behaviour:

* `AgentRun!ErrorLimitStopsRun`: a rejection counts as an error but never stops
  the run (`runner.py:620`), though `docs/architecture/agent-runtime.md:105`
  says the run stops.
* `AgentRun!ExactRepeatsBounded`: `delegate_parallel` has no duplicate check
  (`delegation_step.py:293`), though the same page (230) says no action can be
  repeated beyond the limit.
* `AgentRun!GapsAreDisclosed`: a force-accepted finish may not disclose its gap:
  the list of caveats is cut at ten and drops long entries (`runner.py:522`),
  page line 111.
* `ApprovalFlow!RecordedCompletionStays`: a repeated approve request, or the
  first task's late write of the pause, overwrites a completed row
  (`run_manager.py:107,130`).
* `ApprovalFlow!OneReply`: a repeated approve request of a completed run appends
  its answer again (`conversations/store.py:203`).
* `Scheduler!FreshClaimsExclude`: `record_run_result` clears the claim whoever
  holds it (`scheduling/store.py:218`); a late worker so lets a third one in.
* `Scheduler!NextRunFollowsRule`: `_reschedule` writes the next run of the rule
  it claimed over that of an edit (`scheduling/worker.py:180`).
* `Tenancy!OwnerRetained`: two owners leave at once, each counting two
  (`tenancy/service.py:305`), or an owner transfers ownership to himself and is
  demoted (383-385), though line 90 says an active workspace retains an owner.
* `Tenancy!NoSilentOverwrite`: the update compares the version of the row it
  read in its own transaction and writes without a lock, so two updates both
  pass (`tenancy/store.py:171-187`), though `tenancy/contracts.py:96` says "a
  conflict, not a silent overwrite". `Publishing!VersionsGrow` is the same of
  saved reports (`reports/store.py:192`).
* `Tenancy!IndexRefusesPendingOnly`: an expired invitation keeps its place in
  the unique index, so nobody can invite that address again
  (`db/records.py:626-633`).

The following departures are inside a property that a run checks; the property
says exactly how far the code goes, and no definition states the doc's claim:

* `PublishedPerCrash`: `docs/operations/deployment.md:38` says that a restart does
  not double-process anything. A worker that dies after publishing and before
  rescheduling makes its successor publish the same due time again, one time per
  crash. And without any crash, an attempt that wrote its first format and failed
  on the second leaves the first registered; the retry is a run of its own and
  registers it again (`orchestration/publishing.py:103-124`,
  `scheduling/worker.py:105-124`). No execution row names what the failed attempt
  left. `DeliveredOnce` says that nobody is sent a report twice.
* `NextRunIsNextFire`: `scheduling/calculator.py:91` says "strictly after
  `after`". Line 106 compares two times of one `ZoneInfo`, that is, by the wall:
  asked in the second round of a repeated hour, `compute_next_run` may return a
  fire of the first round, up to an hour before the instant asked about; asked
  just after a skipped hour, it passes over fires in it. A schedule that runs in
  a repeated hour may so be due at once again; `Scheduler`, whose clock is not set
  back, does not contain that.
* `ProseMarked`: `analytics/presentation/document_model.py:47` says that there is
  no state in which prose silently describes refreshed numbers, and
  `docs/architecture/reporting.md:98-100` and
  `analytics/presentation/compiler.py:291-294` that stale
  prose is never reused silently. A request to publish that recomputes metrics and sets
  `narrative` to `current` (`api/schemas/analytics.py:125`,
  `api/routes/analytics.py:295`, `orchestration/publishing.py:199`) prints the old
  prose without a mark. The default and saved reports never do.
* `NamedIsApproved`: `docs/DATASOURCES.md:49` says query execution enforces the
  whitelist of columns. `analytics/sql/validator.py:81-99` compares the names of
  column references with the excluded names letter for letter: a `*`, a table
  asked for its whole row, and a name in another case are not resolved to columns
  and pass.
* `VouchedFor`: the same line says that the agent's tools are restricted to
  "catalog-approved, active tables", and `datasources/service.py:183` that a
  person's approval is what the agent may rely on. Activation asks for an
  approved table (`service.py:247-251`), but a run's tools are built from every
  active one (`datasources/agent_integration.py:42`, `governed_inspector.py:44`,
  `tool_integration.py:70`): a table never approved, or profiled again after its
  approval, is served with the columns its catalog leaves open.
* `PoolServesCurrent`: by `datasources/service.py:267-271` a new version is what
  makes a run pick up a change. Two changes that overlap read one version and both
  count up from it (`datasources/store.py:339-372`), so that a runtime of the first
  may be served as that of the second until a change invalidates it.
* `DeletedStaysDeleted`: a status write that read the row before the deletion
  overwrites the status `deleted` (`store.py:319-336`); what keeps the source gone
  is `deleted_at` alone. In the same way a change that read a pending source
  writes no status, and one that a verification wrote meanwhile stays
  (`ActiveWasVerified` names it).
* `WaitingIsOnFile`: an approval that nobody answered before its deadline is
  expired by the next access and cannot be claimed (`security/approvals.py:178`),
  and nothing tells the run: it waits for ever.
* `DelegationsAccounted`: a delegation that is accepted by a runner without an
  executor is neither a success nor a failure (`delegation_step.py:192-204`,
  `298-306`): an observation "unavailable" and an error are all there is of it,
  one error for a whole batch.
* `PendingIsOwned`: an artifact whose write failed stays pending for good when
  marking it fails, which is swallowed (`artifacts/postgres.py:95`), or when
  discarding its bytes does (`artifacts/store.py:158`), although the execution is
  answered as failed.

Read in the code while modelling, kept in the model as the code has it, and
excused by name in the property it touches (`races`, `crossed`, `Punctual`,
faults): a login that verified the old password and opens its session after the
change has revoked the others keeps it; its rehash may put the old hash back; a
reset spends its link before it finds the new password too short; a dropped
connection makes the Workbench settle and poll eight times, after which it shows
a run that still runs as ended without an answer, although the browser would
reconnect; a stream may end without its terminal event; an attempt the rate
limiter refuses under its second key still counts under the first; a HIGH risk
is never assessed (`security/risk.py:53`); chart collection stops at the first
chart that is too large; a background child that holds the pipe makes `execute`
outlast its timeout (`environment/commands.py:88-96`); the query whitelist is
built with the tools, once per run, from the tables that could be described
then, so the statement about queries is about those tables; a query whose
arguments are invalid does not begin, and the next one takes its number; an artifact
registered by a call that fails over a later one is not told of.

## 4. Proofs

`tlapm <module>` checks every theorem from the modules' named assumptions:
limits are positive numbers (`RuntimeLimits.__post_init__`), the sets of
questions, outputs, workers, schedules, edits, users, other runs and (in
`Tenancy`) concurrent requests are finite, a batch has at least two delegations,
the first task is not a request, what marks an absent row is not a row, accounts
begin with different addresses, a rule has a positive period, months have 28 to
31 days. The questions of `Decisions` have assumptions of their own, stated with
the constants (`CalendarQuestions`, `BoundsQuestions`, `PolicyQuestions`,
`CallQuestions`, `RecallQuestions`, `FigureQuestions`) and evaluated by TLC for
the instance; see **Decisions** below. The theorems hold for every number of
requests, workers, faults and steps. Every safety and action property of the
state machines that a run checks is a theorem, except the finding of
`run_evidence`, which is false.

Every invariant is proved the same way: an inductive conjunction whose parts are
named where they are defined, one lemma per action or class of actions for what
it changes, one lemma per part for what preserves it.

**AgentRun.** `TypeCorrect` is inductive by itself. `LimitsAreRespected`,
`ErrorsAreAlwaysObserved` and `DelegationsAreAccounted` follow from one
inductive invariant `Bounds`: the three properties together, since the number of
observations is bounded by iterations only if a pause, which counts an iteration
without an observation, pays for the observation its resumption adds. An
accepted delegation that no executor ran is on the books of `unexecuted`, and an
error is held against the run for it, so that the sum holds for every set of
`Executors`; where both are given, that book is empty. `RepeatsAreBounded` rests
on `StreakBacked`: what was accepted last in a row is the tail of the
fingerprint window of its kind, so that the check of the window bounds the
repeats. `PlanIsAlwaysBacked` is inductive since evidence only grows.
`CompletionIsAlwaysEarned` and `OwnErrorsAlwaysStop` are about single steps,
under the invariants above: the first needs that a completed run never moves
again, the second that no step but those of the loop sets a stop reason.
`BooksAlwaysBalance` and `CompletionIsAlwaysBacked` put them together into the
properties the runs check.

**ApprovalFlow.** `Control` is the inductive invariant: a task's approval exists
(`Addressed`), a claimed request is answered (`Filed`), an action in progress
has not been executed (`Acting`), there is one driver and the run is running
while there is (`OneDriver`, `DriverRuns`), a waiting run has an open request
and there is never more than one (`WaitingOpen`, `OneOpen`).
`ExecutionIsUnique`, `DriverIsUnique`, `NothingRunsTwice` and
`WaitingIsAlwaysOnFile` are read off it; none of them is inductive alone, since
a claim may start a driver only because the request was open and the run
therefore waiting. That the open request of a waiting run can be answered, can
be claimed, or has missed its deadline needs also that a request expires only
after its deadline (`ExpiredIsOverdue`). `AnswersAreAlwaysTrue` adds `Told`: a
task that carries a completed result, or a checkpoint that holds one, belongs to
a completed run. `ImplementsTheGate` maps every step of `ApprovalFlow` to a step
of `HumanGate` or a stutter, under `Control`.

**Publishing.** `DeletionIsAlwaysOrderly` and `HeldIsAlwaysKept` rest on `IInv`:
what a worker has in hand it claimed in its batch (`InHand`), two workers' fresh
claims are disjoint (`Exclusive`), who is at work on an artifact holds a claim
that has not been given to another (`AtWork`, `OneDeleter`), and no claim is
given past the allowed attempts (`Limited`). Deleting is orderly only because
bytes and row are touched by the holder of one claim; that a claim has one
holder is only inductive with what each worker remembers of its batch.

`RecordsAreAlwaysTrue` adds `RInv`, a part for each kind of record. Edits: the
version counts at most the edits that were written, and an edit that was written
lies below the version unless a raced one was written over it (`Editing`,
`Editions`). Executions: what a publication registered and what its row says at
each place (`Executing`). Downloads: the bytes of a published row vanish only
once it has expired (`Vanished`, `Downloading`). Deliveries: one contact at most
is not counted yet (`Delivering`). Deletions: each recorded failure is a fault of
its own (`Failures`). A row that is pending has a publication that will settle it,
a dead one, or is `stranded`. The attempt to prove `EditionsAreUnique` as it first stood
failed, and TLC confirmed that it was false from six edits on: an edit that
overtakes others shares its edition with edits that raced nobody. The property
now says which edits may share one.

**DataSources.** `DeletedAlwaysStaysDeleted` and `PoolIsAlwaysCurrent` rest on
`Inv`: an entry of the pool was inserted under the lock for the version it was
built of (`Pooled`, `BuiltOnce`), a run carries a listing that was active when
it read it (`Listed`), older engines are retired by the invalidation that
follows a change or are on their way to be (`Retiring`, `OldGo`), and runs of a
version share one (`Shared`). What is about to be flushed was decided on a row
that was there, and the version and the numbers of the changes it carries are no
later than those handed out (`Decided`, `Counting`, `Asked`); two changes with
one version have overlapped, and the flush of the second says so. That the pool
serves current settings is not inductive alone: an engine that is being built
holds settings read before, so the invariant also speaks about builders that
have not inserted yet.

`WhatIsServedIsVouchedFor` adds what the catalog vouches for: a source is active
with the settings the probe connected with (`Verified`), only a person approved a
join and a run keeps the joins it was told (`Told`), a run that described its
table blocked what the catalog does not open (`Opened`). It says nothing of
whether the table was approved, which the code does not ask.

**Scheduler.** The theorems assume `Punctual`, that no worker and no PATCH takes
longer than the claims allow for; without it they are false, and
`FreshClaimsExclude` and `NextRunFollowsRule` show how. `ScheduleHasOneWorker` rests on
`ClaimInv`: what a worker holds carries its claim, which is not stale (`Claims`), so
that what can be claimed is in nobody's hands (`ClaimableIsFree`) and the claim
that rescheduling clears is the worker's own; a batch holds a schedule once
(`Apart`). `PublicationsArePerCrash` adds that what comes next has not been published
but by workers that died (`NextIsNew`), since a schedule only moves to times
after the claim (`NextRunIsLater`) or after the present (`Ahead`), and everything
published lies before both (`Past`); and that documents were registered by the
attempts a worker has behind it, by those of workers that died, and by no others
(`RegisterInv`). `ReportsAreDeliveredOnce` adds that a schedule
has moved on from whatever is delivered or about to be (`MovedOn`).

`RowsAlwaysTell` counts (`Settled`): the rows that are running are those a worker
is about to settle and at most one for each crash, and a report is in a settled
row, in the hands of a worker or of one that died. The reports are counted by
schedule in the history `reports`: to sum `published` over due times would take
an induction over the times.

**Tenancy.** The three theorems rest on `TenancyInv`. A request's locals fit its
place (`RequestsFit`), and a workspace has members from its owner's row on
(`Founded`). Owners, and whoever invites one, are on record as owners
(`OwnersRecorded`). What a request read of the owners is still so when it writes,
where no two changes of the members overlapped (`AllGrounded`): this is what
makes `OwnerlessOnlyByRace` inductive. The three counts of an audited change
differ by requests about to write the entry and by faults (`Booked`), and a
request that is to commit holds the version it will replace (`Current`).

**Identity.** `IdentityInv` says what a request may rely on between its steps:
sessions follow the password also while idle, since a request under way may
touch them (`AliveFollow`); a verification link was sent to the address the
account has until it is verified (`Verifying`); one request at a time changes an
address and what it applies was reached (`Readdressing`); who is to issue a link
has closed the others (`Linking`); who is to mark a link used is the only one
(`Using`). Each holds unless `races` names the overlap that breaks it.
`NoSessionRises` needs only that a session is written by the one who read it.

**RunTrace.** `RunAlwaysKeepsItsOwn` rests on `RunInv`. Segments take turns: while
one is busy no other is, and none after it has begun (`Turn`); a segment is past
its clearing when a later one begins, unless a resumption overtook it
(`Unwinding`); while the trace is the first one, ids tell queries apart
(`Numbered`, which needs `Early`: nothing happened before the first event). The
store's eviction is reasoned about through `Ordered`: its ids are in order and
each run is in it once. `StreamIsAlwaysFaithful` adds `ClientInv`, by which the
Workbench gives up only with a reason (`Known`, `Settling`), and then two facts
about sequences: each event of the trace is projected once (`Projected`), and what
was received, with what is on its way, goes exactly as far as the generator
delivered last (`Streamed`). The operators of the projection were rewritten as
recursive functions, so that sums and filters of sequences could be reasoned
about by least counterexample, from the library's well-foundedness of `<`.

**Decisions.** Each of the invariants of `decisions` is a conjunction over topics,
and `AlwaysPut` says that the question of a behaviour has the parts its topic asks
for, taken from the instance. What remains is one lemma for each function, for
every value of its arguments. The theorems stand where the module count allows it:
`CalendarHolds` and `BoundsHold` in `Scheduler_proofs`, `PolicyAlwaysHolds` and
`ModelCallsAlwaysHold` in `ApprovalFlow_proofs`, `RecallAlwaysHolds` in
`DataSources_proofs`, `FiguresAlwaysHold` in `Publishing_proofs`.

*Calendar.* Months adjoin with 28 to 31 days each (`MonthsAdjoin`, by least
counterexample), so every day is in one month (`InMonth`, `HasMonth`) and a day of
the month up to the 28th exists in each; hence the candidate dates of a schedule are
the dates of its rule (`CandidatesAre`). The clocks keep the order of two candidates,
since these are a day apart and a change is shorter; a candidate later by the wall
is later in time, but for the hour the wall repeats, and an earlier one earlier, but
for the hour it skips (`Clocks`). Assumed: the
calendar reaches to the next run, or back to the previous period, and a change of
the clocks is shorter than a day.

*Bounds.* A path is followed a name at a time, and at each step it is at a place
without links (`CanonicalPlain`), so what resolves below the workspace is in it; a
path to such a place, read again name by name, leads there again (`Replayed`). The
trees are those whose links lead to places without links, as `Path.resolve` would
leave them (`IsTree`). What is captured of an output is the lesser of its length and
the bound after every chunk (`CaptureHolds`). Child processes are by cases over how
they end: by themselves, on SIGTERM or on SIGKILL (`EndsBounds`), with the descendant
that holds the output the only thing that keeps `execute` beyond the grace period.
For the rate limiter, whose histories are in the order of their times, the invariant
says whose times the window of a key holds (`OwnTimes`): those of attempts under the
key, each once and in order, that passed or that another of their keys refused, and
every one that passed unless it is too old. An attempt that is refused under its
second key has taken a place under its first: the property says so, since the code
checks and counts in one step.

*Policy.* `PolicyHolds` is by cases over what the policy's rules can say: with
the gates, the four gate rules come first and so decide for what is sensitive
(`PolicyIs`), without them no rule asks for an approval; a policy that matches
nothing denies, and in production so does an allowance (`EvaluateIs`). A
specialist's registry holds only what it was granted, and the executor asks the
same policy with and without an approval. `HiddenNeverShows` and
`QueriesAreGoverned` rest on what a description lists: the readable columns of a
readable table that an approved entry names (`GovernedTable`), and on an alias
belonging to one table of the statement (`UnderAlias`), which SQL guarantees of
a scope and `Aliased` assumes of the statement; a column without a qualifier is
blocked by its name alone, so `DescribedCanBeQueried` speaks of qualified
columns only. `QueriesAreGoverned` compares what a permitted statement reads
(`ColumnsRead`) with what it names letter for letter (`ColumnsNamed`): the
unapproved part of the one is outside the other. A proposed join leads to the
first form of the name that fits (`MatchingIs`), which does not change when more
tables are selected that do not fit (`MatchingStays`). Assumed: granted tools
are a finite set, column names of a table are unique and only a name that ends
in `_id` has a stem (`IsDatabase`).

*Model calls.* Costs are ordered since each term is a product that grows with both
factors (`CostGrows`); the assumption is that cached input costs no more than input,
as in every price OpenAI lists (`llm/pricing.py:59`). The context shows the newest
observations, or all when the summary does not reach them (`ContextIs`), which
assumes that at least one is shown (`RecentObservations`, `runtime/context.py:30`: 5;
with none, Python's `[-0:]` would show all) and that observations are numbered apart.
A call that a function permits is a valid action because its values match the types
the function declares (`ValuesMatch`), and every call a tool takes has values that
match (`MatchingValues`). Assumed: a tool declares JSON types or references and no
`reasoning_summary` of its own (`IsTool`), and no more delegations are offered than an
action may hold (`config.py:26` sets no upper bound, `contracts/actions.py:77` takes 8;
the default is 3).

*Memory and delegation.* A selected memory is the one with as many ranked above it
as its place has before it; ranks are distinct because times are (`PlacesDiffer`),
and every place up to the number of ranked memories is taken, since an injection
into as many places misses none (`PlacesAreTaken`). So selection depends on what is
ranked alone (`NoiseHolds`), and of two ranked memories the one with more points is
selected first (`RelevanceHolds`): a word weighs 100, types differ by at most 2 and
ages by the number of ranked memories, so the theorem, as the property, speaks of
stores with fewer than 99. With more, the bonus for recency, meant as "a small
tie-breaker" (`memory/retrieval.py:61`), may outweigh a word. Assumed: memories have
different times (`IsStore`); of two with one time, the code takes the id.

What memory keeps is a fold over runs, and within a run over its candidates,
so `CurationHolds` rests on a function that takes a step for each index (`StepsExist`)
and on what choosing elements of a sequence does to one more of them
(`ChosenAppend`). A duplicate is looked for among the memories of the workspace
alone (`DuplicateIs`), so considering a candidate and keeping only one workspace's
memories commute (`ConsiderOf`, `ConsideredOf`, `CaptureOf`); by induction on the
runs, other workspaces' runs leave no mark (`RunsOf`). `SiblingsAreAlwaysKept` is by
cases over how a specialist ends.

*Tool trace.* `PartIs` says what one call adds to the trace: a start, the decision,
what its operation tells and an end; `PartCounts` how many events of each type that
is. The trace of a history is the last of those after each call (`TraceIs`), each
the one before with the part of its call appended (`TraceGrows`), so events of the
whole trace are counted by calls (`CountsAddUp`), the start of call k is the k-th
start (`PartOfIs`), and what the properties read between two starts is what the
call added. Query numbers grow because the next one counts the queries that began
(`NumbersGrow`). Assumed: a report that succeeds has registered an artifact and
only the three tools that can register any have (`IsCall`).

*Figures.* A figure is a sum of a function over a finite set of rows, which the
library defines by choosing one element after the other: `SumAdds` and `AddsAnyway`
say that any element may go first, `SumIsInt` and `SumsAgree` that sums are numbers
and depend on the values alone. What counts or sums rows is then a measure
(`Measures`): it adds up over disjoint sets of rows, for each metric by its own case,
joined items included, and over any finite family of them (`PartsAddUp`). Two halves
of a half-open period are disjoint and cover it (`HalvesAdd`, whatever the middle),
and so are the buckets of a dimension (`GroupsAdd`) and the two sides of a filter
among labelled rows (`FiltersAdd`). A rate counts a subset of what it divides by, so
it is at most 100 percent (`RatesShare`); a quotient rounded half up lies between any
two numbers that the exact one lies between (`RoundedBetween`), so an average lies
between the extremes of its rows (`AveragesBetween`). `AttainmentIs` compares the
month's rows of the joined statement with the rows the metrics select; a result is cut
at the first row that does not fit, before which every sum fits (`TruncationTold`).
`FiguresAlwaysHold` puts them together: a question is one of the instance
(`AlwaysAsked`). Assumed of a table (`IsTable`): finitely many rows with keys of their
own, times and amounts that are whole numbers, `Null` none of them, and order totals
that are not negative, since after a negative period the sign of `revenue_growth`
would tell the opposite; of a request, that it has been parsed (`IsRequest`).

**Only model-checked.** The liveness properties (`Terminates`, `EndsAreReached`,
`DueIsServed`, `ExpiredGoes`, `EndIsShown`), since neither `ENABLED` nor liveness is
within this prover's reach. Of the functions asked by `decisions`, the documents
(`ReportsOK`): they are folds over sequences of blocks, for which each operator would
need an induction of its own.

## 5. Plan

1. A claim protocol as an abstract specification that both `Scheduler` and
   `Publishing` implement, with the refinement proved.
2. `AgentRun` under `ApprovalFlow`'s tasks, so that counters and checkpoints are
   followed through concurrent answers.
3. The documents of `Decisions` as theorems.

## 6. Not modelled

* Skills are a registry filled at start; `AgentRun` models loading one by its
  outcomes.
* Composition, configuration and database setup wire the rest together and keep
  no state; the migrations are the columns of rows the modules keep as records.
* Evaluations and scripts other than the two workers are offline.
* Of the frontend, everything but the stream and the polling is view state.
* In modelled parts: what language models, SQL engines, mail and webhook
  providers answer is an outcome; a SQL statement is what the
  parser finds in it (tables, aliases, columns, functions, limit), in one scope,
  with names of their own for its CTEs; fonts, page breaks, chart
  drawing and wording are layout; password hashing is a number; the in-memory
  stores are the same sequences as the Postgres stores inside one process.
