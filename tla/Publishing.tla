----------------------------- MODULE Publishing -----------------------------
(* One saved report or one agent run becomes documents, and what happens to *)
(* the documents afterwards: edits of the definition (reports/store.py),    *)
(* executions (routes/reports.py, orchestration/publishing.py), artifact    *)
(* rows and their bytes (artifacts/store.py, postgres.py), the retention    *)
(* workers (retention.py), downloads and deliveries.                        *)
(* Every step is one database transaction or one file operation; processes  *)
(* interleave between steps and may die at any of them, MaxFaults times.    *)
EXTENDS Naturals, FiniteSets
CONSTANTS
    Artifacts,      \* artifact ids that may be registered
    Held,           \* those registered under legal_hold or permanent
    Publications,   \* execute and publish requests
    Edits,          \* PATCH and archive requests on the saved report
    Workers,        \* retention ticks
    Readers,        \* downloads
    Deliveries,     \* delivery requests
    NoArtifact,
    MaxAttempts,    \* RetentionWorker.max_attempts
    MaxSends,       \* attempts of the delivery retry rule
    Batch,          \* artifacts claimed per tick
    MaxRequests,    \* bound: requests begun by clients of any kind
    MaxFaults       \* bound: deaths, failed writes, cleanings and deletions, claims that age under their worker
ASSUME PublishingAssumption ==
    /\ IsFiniteSet(Edits) /\ IsFiniteSet(Workers)
    /\ Held \subseteq Artifacts /\ NoArtifact \notin Artifacts
    /\ MaxAttempts \in Nat \ {0} /\ MaxSends \in Nat \ {0}
    /\ Batch \in Nat \ {0} /\ MaxRequests \in Nat /\ MaxFaults \in Nat
VARIABLES
    report,      \* SavedReportRecord: version, archived, investigate (its policy)
    edit,        \* Edits -> [pc, expected, investigate]
    row,         \* Artifacts -> [status, claim, attempts, expired]
    bytes,       \* the artifacts whose file is in the artifact area
    pub,         \* Publications -> [pc, kind, left, at, docs]
    execution,   \* Publications -> the execution row, named by its run or not
    worker,      \* Workers -> [pc, todo, at]
    reader,      \* Readers -> [pc, at]
    delivery,    \* Deliveries -> [pc, at, contacts, count, status]
    faults,
    raced,       \* edits that wrote over a row newer than the one they checked
    stranded,    \* artifacts whose failed write could not be cleaned up
    aged         \* artifacts whose claim turned stale under a worker
vars == <<report, edit, row, bytes, pub, execution, worker, reader, delivery, faults, raced,
          stranded, aged>>
publishing == <<pub, execution, stranded>>
retention == <<worker, aged>>
clients == <<reader, delivery>>
definition == <<report, edit, raced>>

Row == [status : {"none", "pending", "ready", "failed", "deleted"}, claim : {"none", "fresh", "stale"},
        attempts : 0..(MaxAttempts + MaxFaults), expired : BOOLEAN]
TypeOK ==
    /\ report \in [version : 1..(Cardinality(Edits) + 1), archived : BOOLEAN, investigate : BOOLEAN]
    /\ \A e \in Edits : /\ edit[e].pc \in {"idle", "read", "done", "conflict"}
                        /\ edit[e].expected \in 0..Cardinality(Edits)
    /\ row \in [Artifacts -> Row]
    /\ bytes \subseteq {a \in Artifacts : row[a].status # "none"}
    /\ \A p \in Publications : pub[p].docs \subseteq Artifacts /\ pub[p].left \in 0..2
    /\ execution \in [Publications -> [status : {"none", "running", "completed", "failed"}, named : BOOLEAN]]
    /\ \A w \in Workers : worker[w].todo \subseteq Artifacts
    /\ \A d \in Deliveries : delivery[d].contacts \in 0..MaxSends /\ delivery[d].count \in 0..MaxSends
    /\ faults \in 0..MaxFaults

Init ==
    /\ report = [version |-> 1, archived |-> FALSE, investigate |-> FALSE]
    /\ edit = [e \in Edits |-> [pc |-> "idle", expected |-> 0, change |-> "none"]]
    /\ row = [a \in Artifacts |-> [status |-> "none", claim |-> "none", attempts |-> 0, expired |-> FALSE]]
    /\ bytes = {}
    /\ pub = [p \in Publications |-> [pc |-> "idle", kind |-> "saved", left |-> 0, at |-> NoArtifact, docs |-> {}]]
    /\ execution = [p \in Publications |-> [status |-> "none", named |-> FALSE]]
    /\ worker = [w \in Workers |-> [pc |-> "idle", todo |-> {}, at |-> NoArtifact]]
    /\ reader = [r \in Readers |-> [pc |-> "idle", at |-> NoArtifact]]
    /\ delivery = [d \in Deliveries |->
         [pc |-> "idle", at |-> NoArtifact, contacts |-> 0, count |-> 0, status |-> "none"]]
    /\ faults = 0 /\ raced = {} /\ stranded = {} /\ aged = {}

Fault == faults < MaxFaults /\ faults' = faults + 1

(* Another request may begin.                                               *)
Admit ==
    Cardinality({e \in Edits : edit[e].pc # "idle"}) + Cardinality({p \in Publications : pub[p].pc # "idle"})
      + Cardinality({r \in Readers : reader[r].pc # "idle"}) + Cardinality({d \in Deliveries : delivery[d].pc # "idle"})
      < MaxRequests

----------------------------------------------------------------------------
(* Edits: PATCH and archive call one store.update, which reads the row and  *)
(* writes it back by id in one READ COMMITTED transaction without a lock.   *)

ReadForEdit(e, expected, change) ==
    /\ edit[e].pc = "idle" /\ Admit
    /\ edit' = [edit EXCEPT ![e] = [pc |-> IF report.version = expected THEN "read" ELSE "conflict",
                                    expected |-> expected, change |-> change]]
    /\ UNCHANGED <<report, raced, row, bytes, publishing, retention, clients, faults>>

WriteEdit(e) ==
    /\ edit[e].pc = "read"
    /\ report' = [version |-> edit[e].expected + 1,
                  archived |-> report.archived \/ edit[e].change = "archive",
                  investigate |-> IF edit[e].change = "policy" THEN ~report.investigate ELSE report.investigate]
    /\ raced' = IF report.version = edit[e].expected THEN raced ELSE raced \cup {e}
    /\ edit' = [edit EXCEPT ![e].pc = "done"]
    /\ UNCHANGED <<row, bytes, publishing, retention, clients, faults>>

----------------------------------------------------------------------------
(* Publications. A saved report is executed as a preview or a publication;  *)
(* an agent run is published by its own route, which keeps no execution.    *)

LoadDefinition(p, kind, formats) ==
    /\ pub[p].pc = "idle" /\ Admit
    /\ pub' = [pub EXCEPT ![p].kind = kind, ![p].left = formats,
                          ![p].pc = IF kind # "run" /\ report.investigate THEN "refused" ELSE "compiling"]
    /\ UNCHANGED <<execution, stranded, definition, row, bytes, retention, clients, faults>>

(* The template, a rerun, the choice of formats or a renderer refuses,      *)
(* possibly after a first format was registered.                            *)
CompileFails(p) ==
    /\ pub[p].pc = "compiling" /\ pub[p].left > 0
    /\ pub' = [pub EXCEPT ![p].pc = IF pub[p].kind = "run" THEN "refused" ELSE "failing"]
    /\ UNCHANGED <<execution, stranded, definition, row, bytes, retention, clients, faults>>

(* The source is checked, then the row goes down as pending.                *)
RecordPending(p, a) ==
    /\ pub[p].pc = "compiling" /\ pub[p].kind # "preview" /\ pub[p].left > 0
    /\ row[a].status = "none"
    /\ row' = [row EXCEPT ![a].status = "pending"]
    /\ pub' = [pub EXCEPT ![p].pc = "writing", ![p].at = a]
    /\ UNCHANGED <<execution, stranded, definition, bytes, retention, clients, faults>>

WriteBytes(p) ==
    /\ pub[p].pc = "writing"
    /\ bytes' = bytes \cup {pub[p].at}
    /\ pub' = [pub EXCEPT ![p].pc = "written"]
    /\ UNCHANGED <<execution, stranded, definition, row, retention, clients, faults>>

(* An OSError or ValueError: whatever was copied is discarded, and the      *)
(* publication ends there.                                                  *)
WriteFails(p) ==
    /\ pub[p].pc = "writing"
    /\ Fault
    /\ bytes' = bytes \ {pub[p].at}
    /\ pub' = [pub EXCEPT ![p].pc = "unwritten"]
    /\ UNCHANGED <<execution, stranded, definition, row, retention, clients>>

Abandoned(p) == [pub EXCEPT ![p].pc = IF pub[p].kind = "run" THEN "refused" ELSE "failing"]

(* Discarding raises an OSError of its own: the row is not marked at all    *)
(* and what was copied may stay.                                            *)
CleanupFails(p) ==
    /\ pub[p].pc = "writing"
    /\ Fault
    /\ bytes' \in {bytes, bytes \cup {pub[p].at}}
    /\ pub' = Abandoned(p)
    /\ stranded' = stranded \cup {pub[p].at}
    /\ UNCHANGED <<execution, definition, row, retention, clients>>

RecordUnwritten(p) ==
    /\ pub[p].pc = "unwritten"
    /\ row' = [row EXCEPT ![pub[p].at].status = "failed"]
    /\ pub' = Abandoned(p)
    /\ UNCHANGED <<execution, stranded, definition, bytes, retention, clients, faults>>

(* The error of marking the row is swallowed: the row stays as it was.      *)
RecordUnwrittenFails(p) ==
    /\ pub[p].pc = "unwritten"
    /\ Fault
    /\ pub' = Abandoned(p)
    /\ stranded' = stranded \cup {pub[p].at}
    /\ UNCHANGED <<execution, definition, row, bytes, retention, clients>>

RecordReady(p) ==
    /\ pub[p].pc = "written"
    /\ row' = [row EXCEPT ![pub[p].at].status = "ready"]
    /\ pub' = [pub EXCEPT ![p].pc = "compiling", ![p].left = @ - 1, ![p].docs = @ \cup {pub[p].at}]
    /\ UNCHANGED <<execution, stranded, definition, bytes, retention, clients, faults>>

(* Every format is registered: a saved report gets its execution row.       *)
AllWritten(p) == pub[p].pc = "compiling" /\ (pub[p].left = 0 \/ pub[p].kind = "preview")

CreateExecution(p) ==
    /\ AllWritten(p) /\ pub[p].kind # "run"
    /\ execution' = [execution EXCEPT ![p] = [status |-> "running", named |-> TRUE]]
    /\ pub' = [pub EXCEPT ![p].pc = "recorded"]
    /\ UNCHANGED <<stranded, definition, row, bytes, retention, clients, faults>>

(* A failure is recorded under a run id of its own, not that of its         *)
(* documents.                                                               *)
CreateFailed(p) ==
    /\ pub[p].pc = "failing"
    /\ execution' = [execution EXCEPT ![p] = [status |-> "running", named |-> FALSE]]
    /\ pub' = [pub EXCEPT ![p].pc = "failed"]
    /\ UNCHANGED <<stranded, definition, row, bytes, retention, clients, faults>>

FinishExecution(p) ==
    /\ pub[p].pc \in {"recorded", "failed"}
    /\ execution' = [execution EXCEPT ![p].status = IF pub[p].pc = "recorded" THEN "completed" ELSE "failed"]
    /\ pub' = [pub EXCEPT ![p].pc = "answered"]
    /\ UNCHANGED <<stranded, definition, row, bytes, retention, clients, faults>>

AnswerRun(p) ==
    /\ AllWritten(p) /\ pub[p].kind = "run"
    /\ pub' = [pub EXCEPT ![p].pc = "answered"]
    /\ UNCHANGED <<execution, stranded, definition, row, bytes, retention, clients, faults>>

(* The process dies, or a RuntimeError of the artifact store ends the       *)
(* request: only OSError and ValueError are turned into a failed execution. *)
PublisherDies(p) ==
    /\ pub[p].pc \notin {"idle", "refused", "answered", "dead"}
    /\ Fault
    /\ pub' = [pub EXCEPT ![p].pc = "dead"]
    /\ UNCHANGED <<execution, stranded, definition, row, bytes, retention, clients>>

----------------------------------------------------------------------------
(* Retention.                                                               *)

Expire(a) ==
    /\ row[a].status = "ready" /\ ~row[a].expired
    /\ row' = [row EXCEPT ![a].expired = TRUE]
    /\ UNCHANGED <<definition, bytes, publishing, retention, clients, faults>>

(* Mutant: a claim keeps nobody off. *)
ClaimableTwice(a) == /\ row[a].status = "ready" /\ row[a].expired /\ a \notin Held
                     /\ row[a].attempts < MaxAttempts
(* Mutant: a hold is not looked at. *)
ClaimableHeld(a) == /\ row[a].status = "ready" /\ row[a].expired
                    /\ row[a].claim # "fresh" /\ row[a].attempts < MaxAttempts
(* Mutant: a claim is never taken over. *)
ClaimableOnce(a) == /\ row[a].status = "ready" /\ row[a].expired /\ a \notin Held
                    /\ row[a].claim = "none" /\ row[a].attempts < MaxAttempts

(* Fifteen minutes pass since the claim, whatever became of its worker.     *)
Attended(a) == \E w \in Workers : a \in worker[w].todo
ClaimAges(a) ==
    /\ row[a].claim = "fresh"
    /\ IF Attended(a) THEN Fault ELSE UNCHANGED faults
    /\ row' = [row EXCEPT ![a].claim = "stale"]
    /\ aged' = IF Attended(a) THEN aged \cup {a} ELSE aged
    /\ UNCHANGED <<definition, bytes, publishing, worker, clients>>

Claimable(a) ==
    /\ row[a].status = "ready" /\ row[a].expired /\ a \notin Held
    /\ row[a].claim # "fresh" /\ row[a].attempts < MaxAttempts

ClaimExpired(w, batch) ==
    /\ worker[w].pc = "idle"
    /\ batch # {} /\ \A a \in batch : Claimable(a)
    /\ Cardinality(batch) <= Batch
    /\ Cardinality(batch) < Batch => \A a \in Artifacts : Claimable(a) => a \in batch
    /\ row' = [a \in Artifacts |-> IF a \in batch THEN [row[a] EXCEPT !.claim = "fresh"] ELSE row[a]]
    /\ worker' = [worker EXCEPT ![w] = [pc |-> "sweeping", todo |-> batch, at |-> NoArtifact]]
    /\ UNCHANGED <<definition, bytes, publishing, aged, clients, faults>>

Discard(w, a) ==
    /\ worker[w].pc = "sweeping" /\ a \in worker[w].todo
    /\ bytes' = bytes \ {a}
    /\ worker' = [worker EXCEPT ![w].pc = "discarded", ![w].at = a]
    /\ UNCHANGED <<definition, row, publishing, aged, clients, faults>>

DiscardFails(w, a) ==
    /\ worker[w].pc = "sweeping" /\ a \in worker[w].todo
    /\ Fault
    /\ worker' = [worker EXCEPT ![w].pc = "undeleted", ![w].at = a]
    /\ UNCHANGED <<definition, row, bytes, publishing, aged, clients>>

Onward(w) == LET rest == worker[w].todo \ {worker[w].at} IN
    [pc |-> IF rest = {} THEN "idle" ELSE "sweeping", todo |-> rest, at |-> NoArtifact]

MarkDeleted(w) ==
    /\ worker[w].pc = "discarded"
    /\ row' = [row EXCEPT ![worker[w].at].status = "deleted", ![worker[w].at].claim = "none"]
    /\ worker' = [worker EXCEPT ![w] = Onward(w)]
    /\ UNCHANGED <<definition, bytes, publishing, aged, clients, faults>>

RecordDeletionFailure(w) ==
    /\ worker[w].pc = "undeleted"
    /\ row' = [row EXCEPT ![worker[w].at].attempts = @ + 1, ![worker[w].at].claim = "none"]
    /\ worker' = [worker EXCEPT ![w] = Onward(w)]
    /\ UNCHANGED <<definition, bytes, publishing, aged, clients, faults>>

(* The worker dies; another tick starts in its place.                       *)
WorkerDies(w) ==
    /\ worker[w].pc # "idle"
    /\ Fault
    /\ worker' = [worker EXCEPT ![w] = [pc |-> "idle", todo |-> {}, at |-> NoArtifact]]
    /\ UNCHANGED <<definition, row, bytes, publishing, aged, clients>>

----------------------------------------------------------------------------

(* Downloads read the row, check the membership, read the row and look for  *)
(* the file, and only then open it.                                         *)

Served(a) == row[a].status = "ready"

Download(r, a) ==
    /\ reader[r].pc = "idle" /\ Admit
    /\ reader' = [reader EXCEPT ![r] = [pc |-> IF Served(a) THEN "found" ELSE "missing", at |-> a]]
    /\ UNCHANGED <<definition, row, bytes, publishing, retention, delivery, faults>>

PathFor(r) ==
    /\ reader[r].pc = "found"
    /\ reader' = [reader EXCEPT ![r].pc = IF Served(reader[r].at) /\ reader[r].at \in bytes THEN "opening" ELSE "missing"]
    /\ UNCHANGED <<definition, row, bytes, publishing, retention, delivery, faults>>

Open(r) ==
    /\ reader[r].pc = "opening"
    /\ reader' = [reader EXCEPT ![r].pc = IF reader[r].at \in bytes THEN "sent" ELSE "broken"]
    /\ UNCHANGED <<definition, row, bytes, publishing, retention, delivery, faults>>

----------------------------------------------------------------------------
(* Deliveries: the artifact is read once, the record is created, then the   *)
(* provider is tried until it succeeds, refuses for good or the rule ends.  *)

Deliver(d, a) ==
    /\ delivery[d].pc = "idle" /\ Admit
    /\ delivery' = [delivery EXCEPT ![d].at = a, ![d].pc = IF Served(a) THEN "read" ELSE "refused"]
    /\ UNCHANGED <<definition, row, bytes, publishing, retention, reader, faults>>

CreateDelivery(d) ==
    /\ delivery[d].pc = "read"
    /\ delivery' = [delivery EXCEPT ![d].pc = "sending", ![d].status = "pending"]
    /\ UNCHANGED <<definition, row, bytes, publishing, retention, reader, faults>>

(* Mutant: only the last attempt is recorded. *)
RecordLastAttempt(d) ==
    /\ delivery[d].pc \in {"delivered", "retryable", "rejected"}
    /\ LET again == delivery[d].pc = "retryable" /\ delivery[d].contacts < MaxSends IN
       delivery' = [delivery EXCEPT
         ![d].count = IF again THEN @ ELSE @ + 1,
         ![d].status = IF again THEN @ ELSE IF delivery[d].pc = "delivered" THEN "sent" ELSE "failed",
         ![d].pc = IF again THEN "sending" ELSE "over"]
    /\ UNCHANGED <<definition, row, bytes, publishing, retention, reader, faults>>

Send(d, outcome) ==
    /\ delivery[d].pc = "sending"
    /\ delivery' = [delivery EXCEPT ![d].pc = outcome, ![d].contacts = @ + 1]
    /\ UNCHANGED <<definition, row, bytes, publishing, retention, reader, faults>>

RecordAttempt(d) ==
    /\ delivery[d].pc \in {"delivered", "retryable", "rejected"}
    /\ delivery' = [delivery EXCEPT
         ![d].count = @ + 1,
         ![d].status = IF delivery[d].pc = "delivered" THEN "sent" ELSE "failed",
         ![d].pc = IF delivery[d].pc = "retryable" /\ delivery[d].contacts < MaxSends THEN "sending" ELSE "over"]
    /\ UNCHANGED <<definition, row, bytes, publishing, retention, reader, faults>>

DeliveryDies(d) ==
    /\ delivery[d].pc \in {"read", "sending", "delivered", "retryable", "rejected"}
    /\ Fault
    /\ delivery' = [delivery EXCEPT ![d].pc = "dead"]
    /\ UNCHANGED <<definition, row, bytes, publishing, retention, reader>>

----------------------------------------------------------------------------
Next ==
    \/ \E e \in Edits : \/ \E v \in 1..report.version, c \in {"archive", "policy"} : ReadForEdit(e, v, c)
                        \/ WriteEdit(e)
    \/ \E p \in Publications :
         \/ \E k \in {"preview", "saved", "run"}, n \in 1..2 : LoadDefinition(p, k, n)
         \/ \E a \in Artifacts : RecordPending(p, a)
         \/ CompileFails(p) \/ WriteBytes(p) \/ WriteFails(p) \/ CleanupFails(p)
         \/ RecordUnwritten(p) \/ RecordUnwrittenFails(p) \/ RecordReady(p)
         \/ CreateExecution(p) \/ CreateFailed(p) \/ FinishExecution(p) \/ AnswerRun(p) \/ PublisherDies(p)
    \/ \E a \in Artifacts : Expire(a) \/ ClaimAges(a)
    \/ \E w \in Workers :
         \/ \E batch \in SUBSET Artifacts : ClaimExpired(w, batch)
         \/ \E a \in Artifacts : Discard(w, a) \/ DiscardFails(w, a)
         \/ MarkDeleted(w) \/ RecordDeletionFailure(w) \/ WorkerDies(w)
    \/ \E r \in Readers : (\E a \in Artifacts : Download(r, a)) \/ PathFor(r) \/ Open(r)
    \/ \E d \in Deliveries :
         \/ \E a \in Artifacts : Deliver(d, a)
         \/ CreateDelivery(d) \/ RecordAttempt(d) \/ DeliveryDies(d)
         \/ \E o \in {"delivered", "retryable", "rejected"} : Send(d, o)
(* Ticks are started again and again and a tick that does not die goes on.  *)
Sweep(w) ==
    \/ \E batch \in SUBSET Artifacts : ClaimExpired(w, batch)
    \/ \E a \in Artifacts : Discard(w, a) \/ DiscardFails(w, a)
    \/ MarkDeleted(w) \/ RecordDeletionFailure(w)
Fairness == (\A w \in Workers : WF_vars(Sweep(w))) /\ (\A a \in Artifacts : WF_vars(ClaimAges(a)))
Spec == Init /\ [][Next]_vars /\ Fairness
----------------------------------------------------------------------------
(* store.update: two edits were accepted against the same version only if   *)
(* one that had read no later version was written over a newer row than it  *)
(* had read: one of the two, or an older one that set the version back.     *)
EditionsAreUnique == \A e, f \in Edits :
    (e # f /\ edit[e].pc = "done" /\ edit[f].pc = "done" /\ edit[e].expected = edit[f].expected)
        => \E g \in raced : edit[g].expected <= edit[e].expected

(* A finished execution tells what its publication did: completed means     *)
(* every requested document was registered under its run and was ready, and *)
(* a publication that lost a document is never recorded as completed.       *)
ExecutionsTellTheTruth == \A p \in Publications :
    /\ execution[p].status = "completed" =>
         /\ execution[p].named
         /\ pub[p].kind = "saved" => pub[p].left = 0 /\ pub[p].docs # {}
         /\ \A a \in pub[p].docs : row[a].status \in {"ready", "deleted"}
    /\ pub[p].pc = "answered" /\ pub[p].kind # "run" => execution[p].status \in {"completed", "failed"}

(* register: a pending row is being written, or was left by a process that  *)
(* died or by a failed write whose cleaning up failed too; nothing settles  *)
(* the latter two. Every other way out settles the row.                     *)
PendingIsOwned == \A a \in Artifacts : row[a].status = "pending" =>
    \/ a \in stranded
    \/ \E p \in Publications : pub[p].at = a /\ pub[p].pc \in {"writing", "written", "unwritten", "dead"}

(* _delete_one: a row is marked deleted only once its bytes are gone.       *)
DeletedIsGone == \A a \in Artifacts : row[a].status \in {"deleted", "failed"} => a \notin bytes

(* A ready row whose file is gone is still claimed, so that a later tick    *)
(* finishes it, unless a deletion of it has been recorded as failed.        *)
GoneIsClaimed == \A a \in Artifacts : (row[a].status = "ready" /\ a \notin bytes) =>
    row[a].claim # "none" \/ row[a].attempts > 0

(* claim_expired: two ticks work on one artifact only when a claim went     *)
(* stale under a worker that was alive.                                     *)
OneDeleter == \A v, w \in Workers : (v # w) => worker[v].todo \cap worker[w].todo \subseteq aged

(* Deletion attempts pass the limit only by late workers.                   *)
AttemptsBounded == \A a \in Artifacts : row[a].attempts > MaxAttempts => a \in aged

(* Download: what was sent belongs to a row that was published, and a file  *)
(* vanishes under a download only because the artifact had expired.         *)
ReadersSeePublished == \A r \in Readers :
    /\ reader[r].pc \in {"opening", "sent"} => row[reader[r].at].status \in {"ready", "deleted"}
    /\ reader[r].pc = "broken" => row[reader[r].at].expired

(* deliver: attempt_count says how often the destination was contacted,     *)
(* short by one only while an attempt is unrecorded or its process died; an *)
(* unsettled record is one of those.                                        *)
AttemptsAreContacts == \A d \in Deliveries :
    /\ delivery[d].pc \in {"sending", "over"} => delivery[d].count = delivery[d].contacts
    /\ delivery[d].contacts - delivery[d].count \in {0, 1}
    /\ delivery[d].pc = "over" => delivery[d].status \in {"sent", "failed"}
    /\ delivery[d].status = "sent" => delivery[d].pc = "over"

(* Every record agrees with what was done: editions, executions, pending    *)
(* artifacts, downloads and delivery attempts.                              *)
RecordsAreTrue ==
    /\ TypeOK /\ EditionsAreUnique /\ ExecutionsTellTheTruth
    /\ PendingIsOwned /\ ReadersSeePublished /\ AttemptsAreContacts

(* Rows and bytes part only on the way to deletion, in one worker's hands.  *)
DeletionIsOrderly == DeletedIsGone /\ GoneIsClaimed /\ OneDeleter /\ AttemptsBounded

(* claim_expired: the bytes of a published artifact that is held or has not *)
(* expired stay.                                                            *)
HeldIsKept == [][\A a \in Artifacts :
    (row[a].status = "ready" /\ (a \in Held \/ ~row[a].expired) /\ a \in bytes) => a \in bytes']_vars

(* Every expired artifact is deleted or given up after MaxAttempts.         *)
ExpiredGoes == \A a \in Artifacts \ Held :
    (row[a].status = "ready" /\ row[a].expired)
        ~> (row[a].status = "deleted" \/ row[a].attempts >= MaxAttempts)

(* reports/store.py:102-103: the version conflict is for a concurrent       *)
(* editor, so the version of a definition never goes back.                  *)
VersionsGrow == [][report'.version >= report.version]_vars
=============================================================================
