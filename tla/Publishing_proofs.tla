-------------------------- MODULE Publishing_proofs --------------------------
(* Proofs about Publishing: for every number of artifacts, publications and *)
(* retention workers, a row and its bytes part only on the way to deletion, *)
(* what is held or has not expired keeps its bytes, and every record of an  *)
(* edit, execution, download or delivery agrees with what was done.         *)
(* And about Decisions: the figures of the metrics, to every question that  *)
(* may be put to them.                                                      *)
EXTENDS Publishing, Integers, Decisions, SequenceTheorems, FunctionTheorems, FiniteSetTheorems,
        WellFoundedInduction, TLAPS

-----------------------------------------------------------------------------
(* The inductive invariant *)

Statuses == {"none", "pending", "ready", "failed", "deleted"}
Stored == [status : Statuses, claim : {"none", "fresh", "stale"}, attempts : Nat,
           expired : BOOLEAN]
Places == {"idle", "refused", "compiling", "failing", "writing", "written", "unwritten",
           "recorded", "failed", "answered", "dead"}
Publisher == [pc : Places, kind : {"preview", "saved", "run"}, left : Int,
              at : Artifacts \cup {NoArtifact}, docs : SUBSET Artifacts]
Tick == [pc : {"idle", "sweeping", "discarded", "undeleted"}, todo : SUBSET Artifacts,
         at : Artifacts \cup {NoArtifact}]

Shape ==
    /\ row \in [Artifacts -> Stored]
    /\ bytes \subseteq Artifacts
    /\ pub \in [Publications -> Publisher]
    /\ worker \in [Workers -> Tick]
    /\ aged \subseteq Artifacts

(* A publication writes only into a pending row that no other writes into,  *)
(* and knows whether its bytes are there.                                   *)
Writing(p) == pub[p].pc \in {"writing", "written", "unwritten"}
Exclusive ==
    /\ \A p \in Publications : Writing(p) =>
          pub[p].at \in Artifacts /\ row[pub[p].at].status = "pending"
    /\ \A p, q \in Publications : Writing(p) /\ Writing(q) /\ p # q => pub[p].at # pub[q].at
    /\ \A p \in Publications :
          /\ pub[p].pc = "written" => pub[p].at \in bytes
          /\ pub[p].pc = "unwritten" => pub[p].at \notin bytes

(* What a worker has in hand may go, was published, and is claimed for it   *)
(* alone unless the claim turned stale under it.                            *)
InHand ==
    \A w \in Workers : \A a \in worker[w].todo :
        /\ a \notin Held /\ row[a].expired
        /\ row[a].status \in {"ready", "deleted"}
        /\ row[a].status = "deleted" \/ row[a].claim # "none" \/ row[a].attempts > 0
        /\ a \notin aged => row[a].claim = "fresh" /\ row[a].attempts < MaxAttempts
AtWork ==
    \A w \in Workers :
        /\ worker[w].pc \in {"discarded", "undeleted"} => worker[w].at \in worker[w].todo
        /\ worker[w].pc = "discarded" => worker[w].at \notin bytes
Limited == \A a \in Artifacts : a \notin aged => row[a].attempts <= MaxAttempts

IInv ==
    /\ Shape /\ Exclusive /\ InHand /\ AtWork /\ Limited
    /\ DeletedIsGone /\ GoneIsClaimed /\ OneDeleter

LEMMA InitInv == Init => IInv
<1> SUFFICES ASSUME Init PROVE IInv
  OBVIOUS
<1>1. Shape
  BY DEF Init, Shape, Stored, Statuses, Publisher, Places, Tick
<1>2. Exclusive /\ InHand /\ AtWork
  BY DEF Init, Exclusive, Writing, InHand, AtWork
<1>3. Limited /\ DeletedIsGone /\ GoneIsClaimed /\ OneDeleter
  BY PublishingAssumption DEF Init, Limited, DeletedIsGone, GoneIsClaimed, OneDeleter
<1>4. QED
  BY <1>1, <1>2, <1>3 DEF IInv

(* Edits, downloads and deliveries touch neither rows nor bytes.            *)
LEMMA QuietInv ==
    ASSUME IInv, UNCHANGED <<row, bytes, pub, worker, aged>>
    PROVE  IInv'
BY DEF IInv, Shape, Exclusive, Writing, InHand, AtWork, Limited, DeletedIsGone, GoneIsClaimed,
       OneDeleter

-----------------------------------------------------------------------------
(* Publications *)

(* A publication that neither begins nor goes on writing leaves the rows.   *)
LEMMA PubInv ==
    ASSUME IInv, NEW p \in Publications,
           pub' \in [Publications -> Publisher],
           \A q \in Publications \ {p} : pub'[q] = pub[q],
           ~Writing(p)',
           UNCHANGED <<row, bytes, worker, aged>>
    PROVE  IInv'
<1>1. Shape' /\ InHand' /\ AtWork' /\ Limited' /\ DeletedIsGone' /\ GoneIsClaimed' /\ OneDeleter'
  BY DEF IInv, Shape, InHand, AtWork, Limited, DeletedIsGone, GoneIsClaimed, OneDeleter
<1>2. Exclusive'
  BY DEF IInv, Exclusive, Writing
<1>3. QED
  BY <1>1, <1>2 DEF IInv

LEMMA RecordPendingInv ==
    ASSUME IInv, NEW p \in Publications, NEW a \in Artifacts, RecordPending(p, a)
    PROVE  IInv'
<1>1. /\ row' = [row EXCEPT ![a].status = "pending"] /\ row[a].status = "none"
      /\ pub' = [pub EXCEPT ![p].pc = "writing", ![p].at = a]
      /\ UNCHANGED <<bytes, worker, aged>>
  BY DEF RecordPending, retention
<1>2. Shape'
  <2>1. row' \in [Artifacts -> Stored]
    BY <1>1 DEF IInv, Shape, Stored, Statuses
  <2>2. pub' \in [Publications -> Publisher]
    <3>1. pub[p] \in Publisher
      BY DEF IInv, Shape
    <3>2. [pub[p] EXCEPT !.pc = "writing", !.at = a] \in Publisher
      BY <3>1 DEF Publisher, Places
    <3>3. pub' = [pub EXCEPT ![p] = [pub[p] EXCEPT !.pc = "writing", !.at = a]]
      BY <1>1 DEF IInv, Shape
    <3>4. QED
      BY <3>2, <3>3 DEF IInv, Shape
  <2>3. QED
    BY <1>1, <2>1, <2>2 DEF IInv, Shape
<1>3. Exclusive'
  BY <1>1 DEF IInv, Shape, Exclusive, Writing, Stored, Publisher
<1>4. InHand' /\ AtWork' /\ Limited' /\ OneDeleter'
  BY <1>1 DEF IInv, Shape, InHand, AtWork, Limited, OneDeleter, Stored
<1>5. DeletedIsGone' /\ GoneIsClaimed'
  BY <1>1 DEF IInv, Shape, DeletedIsGone, GoneIsClaimed, Stored
<1>6. QED
  BY <1>2, <1>3, <1>4, <1>5 DEF IInv

LEMMA WriteBytesInv ==
    ASSUME IInv, NEW p \in Publications, WriteBytes(p)
    PROVE  IInv'
<1>1. /\ pub[p].pc = "writing" /\ Writing(p) /\ pub[p].at \in Artifacts
      /\ row[pub[p].at].status = "pending"
      /\ bytes' = bytes \cup {pub[p].at}
      /\ pub' = [pub EXCEPT ![p].pc = "written"]
      /\ UNCHANGED <<row, worker, aged>>
  BY DEF WriteBytes, retention, IInv, Exclusive, Writing
<1>2. Shape'
  BY <1>1 DEF IInv, Shape, Publisher, Places
<1>3. Exclusive'
  BY <1>1, <1>2 DEF IInv, Shape, Exclusive, Writing, Publisher
<1>4. AtWork'
  BY <1>1 DEF IInv, Shape, AtWork, InHand, Tick
<1>5. InHand' /\ Limited' /\ OneDeleter' /\ DeletedIsGone' /\ GoneIsClaimed'
  BY <1>1 DEF IInv, InHand, Limited, OneDeleter, DeletedIsGone, GoneIsClaimed
<1>6. QED
  BY <1>2, <1>3, <1>4, <1>5 DEF IInv

LEMMA WriteFailsInv ==
    ASSUME IInv, NEW p \in Publications, WriteFails(p)
    PROVE  IInv'
<1>1. /\ pub[p].pc = "writing" /\ Writing(p) /\ pub[p].at \in Artifacts
      /\ row[pub[p].at].status = "pending"
      /\ bytes' = bytes \ {pub[p].at}
      /\ pub' = [pub EXCEPT ![p].pc = "unwritten"]
      /\ UNCHANGED <<row, worker, aged>>
  BY DEF WriteFails, retention, IInv, Exclusive, Writing
<1>2. Shape'
  BY <1>1 DEF IInv, Shape, Publisher, Places
<1>3. Exclusive'
  BY <1>1, <1>2 DEF IInv, Shape, Exclusive, Writing, Publisher
<1>4. InHand' /\ AtWork' /\ Limited' /\ OneDeleter' /\ DeletedIsGone' /\ GoneIsClaimed'
  BY <1>1 DEF IInv, AtWork, InHand, Limited, OneDeleter, DeletedIsGone, GoneIsClaimed
<1>5. QED
  BY <1>2, <1>3, <1>4 DEF IInv

(* A write that is not cleaned up leaves the row pending, its bytes or not. *)
LEMMA CleanupFailsInv ==
    ASSUME IInv, NEW p \in Publications, CleanupFails(p)
    PROVE  IInv'
<1>1. /\ pub[p].pc = "writing" /\ Writing(p) /\ pub[p].at \in Artifacts
      /\ row[pub[p].at].status = "pending"
      /\ bytes' = bytes \/ bytes' = bytes \cup {pub[p].at}
      /\ UNCHANGED <<row, worker, aged>>
  BY DEF CleanupFails, retention, IInv, Exclusive, Writing
<1>2. /\ pub' \in [Publications -> Publisher]
      /\ \A q \in Publications \ {p} : pub'[q] = pub[q]
      /\ ~Writing(p)'
  BY DEF CleanupFails, Abandoned, IInv, Shape, Publisher, Places, Writing
<1>3. Shape'
  BY <1>1, <1>2 DEF IInv, Shape
<1>4. Exclusive'
  <2>1. \A q \in Publications : Writing(q)' =>
          Writing(q) /\ pub'[q] = pub[q] /\ pub[q].at # pub[p].at
    BY <1>1, <1>2 DEF IInv, Exclusive, Writing
  <2>2. QED
    BY <1>1, <2>1 DEF IInv, Exclusive, Writing
<1>5. AtWork'
  BY <1>1 DEF IInv, Shape, AtWork, InHand, Tick
<1>6. InHand' /\ Limited' /\ OneDeleter' /\ DeletedIsGone' /\ GoneIsClaimed'
  BY <1>1 DEF IInv, InHand, Limited, OneDeleter, DeletedIsGone, GoneIsClaimed
<1>7. QED
  BY <1>3, <1>4, <1>5, <1>6 DEF IInv

(* A row is settled by the publication that writes into it.                 *)
LEMMA SettleInv ==
    ASSUME IInv, NEW p \in Publications, RecordUnwritten(p) \/ RecordReady(p)
    PROVE  IInv'
<1> DEFINE a == pub[p].at
           status == IF pub[p].pc = "written" THEN "ready" ELSE "failed"
<1>1. /\ Writing(p) /\ a \in Artifacts /\ row[a].status = "pending"
      /\ pub[p].pc \in {"written", "unwritten"}
      /\ row' = [row EXCEPT ![a].status = status]
      /\ UNCHANGED <<bytes, worker, aged>>
  BY DEF RecordUnwritten, RecordReady, retention, IInv, Exclusive, Writing
<1>2. /\ pub' \in [Publications -> Publisher]
      /\ \A q \in Publications \ {p} : pub'[q] = pub[q]
      /\ ~Writing(p)'
  BY <1>1 DEF RecordUnwritten, RecordReady, Abandoned, IInv, Shape, Publisher, Places, Writing
<1>3. Shape'
  BY <1>1, <1>2 DEF IInv, Shape, Stored, Statuses
<1>4. Exclusive'
  <2>1. \A q \in Publications : Writing(q)' => q # p /\ Writing(q) /\ pub'[q] = pub[q]
    BY <1>2 DEF Writing
  <2>2. \A q \in Publications : Writing(q)' =>
          /\ pub[q].at \in Artifacts /\ pub[q].at # a
          /\ row[pub[q].at].status = "pending"
    BY <1>1, <2>1 DEF IInv, Exclusive
  <2>3. \A q \in Publications : Writing(q)' =>
          pub'[q].at \in Artifacts /\ row'[pub'[q].at].status = "pending"
    BY <1>1, <2>1, <2>2 DEF IInv, Shape
  <2>4. \A q, o \in Publications : Writing(q)' /\ Writing(o)' /\ q # o => pub'[q].at # pub'[o].at
    BY <2>1 DEF IInv, Exclusive
  <2>5. \A q \in Publications :
          /\ pub'[q].pc = "written" => pub'[q].at \in bytes'
          /\ pub'[q].pc = "unwritten" => pub'[q].at \notin bytes'
    <3>1. \A q \in Publications : pub'[q].pc \in {"written", "unwritten"} => pub'[q] = pub[q]
      BY <2>1 DEF Writing
    <3>2. QED
      BY <1>1, <3>1 DEF IInv, Exclusive
  <2>6. QED
    BY <2>3, <2>4, <2>5 DEF Exclusive
<1>5. a \in bytes <=> pub[p].pc = "written"
  BY <1>1 DEF IInv, Exclusive
<1>6. DeletedIsGone' /\ GoneIsClaimed'
  BY <1>1, <1>5 DEF IInv, Shape, DeletedIsGone, GoneIsClaimed, Stored
<1>7. InHand' /\ AtWork' /\ Limited' /\ OneDeleter'
  BY <1>1 DEF IInv, Shape, InHand, AtWork, Limited, OneDeleter, Stored
<1>8. QED
  BY <1>3, <1>4, <1>6, <1>7 DEF IInv

LEMMA PublicationInv ==
    ASSUME IInv, NEW p \in Publications,
           \/ \E k \in {"preview", "saved", "run"}, n \in 1..2 : LoadDefinition(p, k, n)
           \/ \E a \in Artifacts : RecordPending(p, a)
           \/ CompileFails(p) \/ WriteBytes(p) \/ WriteFails(p) \/ CleanupFails(p)
           \/ RecordUnwritten(p) \/ RecordUnwrittenFails(p) \/ RecordReady(p)
           \/ CreateExecution(p) \/ CreateFailed(p) \/ FinishExecution(p)
           \/ AnswerRun(p) \/ PublisherDies(p)
    PROVE  IInv'
<1>1. CASE \/ \E k \in {"preview", "saved", "run"}, n \in 1..2 : LoadDefinition(p, k, n)
           \/ CompileFails(p) \/ CreateExecution(p) \/ CreateFailed(p) \/ FinishExecution(p)
           \/ AnswerRun(p) \/ PublisherDies(p) \/ RecordUnwrittenFails(p)
  <2>1. /\ pub' \in [Publications -> Publisher]
        /\ \A q \in Publications \ {p} : pub'[q] = pub[q]
        /\ ~Writing(p)'
        /\ UNCHANGED <<row, bytes, worker, aged>>
    BY <1>1 DEF IInv, Shape, Publisher, Places, Writing, retention, LoadDefinition, CompileFails,
       RecordUnwrittenFails, Abandoned, CreateExecution, CreateFailed, FinishExecution,
       AnswerRun, PublisherDies
  <2>2. QED
    BY <2>1, PubInv
<1>2. QED
  BY <1>1, RecordPendingInv, WriteBytesInv, WriteFailsInv, CleanupFailsInv, SettleInv

-----------------------------------------------------------------------------
(* Retention *)

LEMMA ExpireInv ==
    ASSUME IInv, NEW a \in Artifacts, Expire(a)
    PROVE  IInv'
<1>1. /\ row' = [row EXCEPT ![a].expired = TRUE]
      /\ UNCHANGED <<bytes, pub, worker, aged>>
  BY DEF Expire, publishing, retention
<1>2. Shape'
  BY <1>1 DEF IInv, Shape, Stored
<1>3. Exclusive' /\ InHand' /\ AtWork' /\ Limited'
  BY <1>1 DEF IInv, Shape, Exclusive, Writing, InHand, AtWork, Limited, Stored
<1>4. DeletedIsGone' /\ GoneIsClaimed' /\ OneDeleter'
  BY <1>1 DEF IInv, Shape, DeletedIsGone, GoneIsClaimed, OneDeleter, Stored
<1>5. QED
  BY <1>2, <1>3, <1>4 DEF IInv

(* A claim that turns stale while somebody works under it is on record.     *)
LEMMA ClaimAgesInv ==
    ASSUME IInv, NEW a \in Artifacts, ClaimAges(a)
    PROVE  IInv'
<1>1. /\ row[a].claim = "fresh"
      /\ row' = [row EXCEPT ![a].claim = "stale"]
      /\ aged \subseteq aged' /\ aged' \subseteq aged \cup {a}
      /\ (\E w \in Workers : a \in worker[w].todo) => a \in aged'
      /\ UNCHANGED <<bytes, pub, worker>>
  BY DEF ClaimAges, Attended, publishing
<1>2. Shape'
  BY <1>1 DEF IInv, Shape, Stored
<1>3. InHand'
  BY <1>1 DEF IInv, Shape, InHand, Stored
<1>4. Exclusive' /\ AtWork' /\ Limited' /\ OneDeleter'
  BY <1>1 DEF IInv, Shape, Exclusive, Writing, AtWork, Limited, OneDeleter, Stored
<1>5. DeletedIsGone' /\ GoneIsClaimed'
  BY <1>1 DEF IInv, Shape, DeletedIsGone, GoneIsClaimed, Stored
<1>6. QED
  BY <1>2, <1>3, <1>4, <1>5 DEF IInv

LEMMA ClaimExpiredInv ==
    ASSUME IInv, NEW w \in Workers, NEW batch \in SUBSET Artifacts, ClaimExpired(w, batch)
    PROVE  IInv'
<1>1. /\ \A a \in batch : Claimable(a)
      /\ row' = [a \in Artifacts |->
             IF a \in batch THEN [row[a] EXCEPT !.claim = "fresh"] ELSE row[a]]
      /\ worker' = [worker EXCEPT ![w] = [pc |-> "sweeping", todo |-> batch, at |-> NoArtifact]]
      /\ UNCHANGED <<bytes, pub, aged>>
  BY DEF ClaimExpired, publishing
<1>2. \A a \in batch : /\ row[a].status = "ready" /\ row[a].expired /\ a \notin Held
                       /\ row[a].claim # "fresh" /\ row[a].attempts < MaxAttempts
  BY <1>1 DEF Claimable
<1>3. \A a \in Artifacts : /\ row'[a].status = row[a].status
                           /\ row'[a].expired = row[a].expired
                           /\ row'[a].attempts = row[a].attempts
                           /\ row'[a].claim = IF a \in batch THEN "fresh" ELSE row[a].claim
  BY <1>1 DEF IInv, Shape, Stored
<1>4. /\ worker'[w].todo = batch /\ worker'[w].pc = "sweeping"
      /\ \A v \in Workers \ {w} : worker'[v] = worker[v]
  BY <1>1 DEF IInv, Shape
<1>5. Shape'
  BY <1>1 DEF IInv, Shape, Stored, Tick
<1>6. InHand'
  BY <1>1, <1>2, <1>3, <1>4 DEF IInv, Shape, InHand, Tick
<1>7. OneDeleter'
  <2>1. \A v \in Workers : worker[v].todo \cap batch \subseteq aged
    BY <1>2 DEF IInv, InHand
  <2>2. QED
    BY <2>1, <1>1, <1>4 DEF IInv, OneDeleter
<1>8. Exclusive' /\ AtWork' /\ Limited' /\ DeletedIsGone' /\ GoneIsClaimed'
  BY <1>1, <1>3, <1>4 DEF IInv, Shape, Exclusive, Writing, Publisher, AtWork, Limited,
     DeletedIsGone, GoneIsClaimed
<1>9. QED
  BY <1>5, <1>6, <1>7, <1>8 DEF IInv

LEMMA DiscardInv ==
    ASSUME IInv, NEW w \in Workers, NEW a \in Artifacts, Discard(w, a) \/ DiscardFails(w, a)
    PROVE  IInv'
<1>1. /\ a \in worker[w].todo
      /\ bytes' = bytes \/ bytes' = bytes \ {a}
      /\ Discard(w, a) => bytes' = bytes \ {a}
      /\ UNCHANGED <<row, pub, aged>>
      /\ \/ worker' = [worker EXCEPT ![w].pc = "discarded", ![w].at = a] /\ a \notin bytes'
         \/ worker' = [worker EXCEPT ![w].pc = "undeleted", ![w].at = a]
  BY DEF Discard, DiscardFails, publishing
<1>2. Shape'
  BY <1>1 DEF IInv, Shape, Tick
<1>3. \A v \in Workers : worker'[v].todo = worker[v].todo
  BY <1>1 DEF IInv, Shape, Tick
<1>4. row[a].status \in {"ready", "deleted"}
  BY <1>1 DEF IInv, InHand
<1>5. Exclusive'
  BY <1>1, <1>4 DEF IInv, Exclusive, Writing
<1>6. InHand' /\ Limited' /\ OneDeleter' /\ DeletedIsGone'
  BY <1>1, <1>3 DEF IInv, InHand, Limited, OneDeleter, DeletedIsGone
<1>7. GoneIsClaimed'
  BY <1>1 DEF IInv, GoneIsClaimed, InHand
<1>8. AtWork'
  BY <1>1 DEF IInv, Shape, AtWork, Tick
<1>9. QED
  BY <1>2, <1>5, <1>6, <1>7, <1>8 DEF IInv

(* What a worker is done with is out of its hands.                          *)
LEMMA OnwardTodo ==
    ASSUME Shape, NEW w \in Workers, worker' = [worker EXCEPT ![w] = Onward(w)]
    PROVE  /\ worker' \in [Workers -> Tick]
           /\ worker'[w].todo = worker[w].todo \ {worker[w].at}
           /\ worker'[w].pc \in {"idle", "sweeping"}
           /\ \A v \in Workers \ {w} : worker'[v] = worker[v]
BY DEF Shape, Onward, Tick

LEMMA MarkDeletedInv ==
    ASSUME IInv, NEW w \in Workers, MarkDeleted(w)
    PROVE  IInv'
<1> DEFINE a == worker[w].at
<1>1. /\ a \in worker[w].todo /\ a \notin bytes /\ a \in Artifacts
      /\ row' = [row EXCEPT ![a].status = "deleted", ![a].claim = "none"]
      /\ worker' = [worker EXCEPT ![w] = Onward(w)]
      /\ UNCHANGED <<bytes, pub, aged>>
  BY DEF MarkDeleted, publishing, IInv, AtWork, Shape, Tick
<1>2. row[a].status \in {"ready", "deleted"}
  BY <1>1 DEF IInv, InHand
<1>2a. /\ worker' \in [Workers -> Tick]
       /\ worker'[w].todo = worker[w].todo \ {a}
       /\ worker'[w].pc \in {"idle", "sweeping"}
       /\ \A v \in Workers \ {w} : worker'[v] = worker[v]
  BY <1>1, OnwardTodo DEF IInv
<1>3. Shape'
  BY <1>1, <1>2a DEF IInv, Shape, Stored, Statuses
<1>4. Exclusive'
  BY <1>1, <1>2 DEF IInv, Shape, Exclusive, Writing, Stored
<1>5. \A v \in Workers \ {w} : a \in worker[v].todo => a \in aged
  BY <1>1 DEF IInv, OneDeleter
<1>6. InHand'
  BY <1>1, <1>5, <1>2a DEF IInv, Shape, InHand, Stored, Tick
<1>7. AtWork' /\ OneDeleter'
  BY <1>1, <1>2a DEF IInv, AtWork, OneDeleter
<1>8. Limited' /\ DeletedIsGone' /\ GoneIsClaimed'
  BY <1>1 DEF IInv, Shape, Limited, DeletedIsGone, GoneIsClaimed, Stored
<1>9. QED
  BY <1>3, <1>4, <1>6, <1>7, <1>8 DEF IInv

LEMMA RecordDeletionFailureInv ==
    ASSUME IInv, NEW w \in Workers, RecordDeletionFailure(w)
    PROVE  IInv'
<1> DEFINE a == worker[w].at
<1>1. /\ a \in worker[w].todo /\ a \in Artifacts
      /\ row' = [row EXCEPT ![a].attempts = @ + 1, ![a].claim = "none"]
      /\ worker' = [worker EXCEPT ![w] = Onward(w)]
      /\ UNCHANGED <<bytes, pub, aged>>
  BY DEF RecordDeletionFailure, publishing, IInv, AtWork, Shape, Tick
<1>2. row[a].attempts \in Nat /\ MaxAttempts \in Nat
  BY <1>1, PublishingAssumption DEF IInv, Shape, Stored
<1>2a. /\ worker' \in [Workers -> Tick]
       /\ worker'[w].todo = worker[w].todo \ {a}
       /\ worker'[w].pc \in {"idle", "sweeping"}
       /\ \A v \in Workers \ {w} : worker'[v] = worker[v]
  BY <1>1, OnwardTodo DEF IInv
<1>3. Shape'
  BY <1>1, <1>2, <1>2a DEF IInv, Shape, Stored
<1>4. Exclusive'
  BY <1>1 DEF IInv, Shape, Exclusive, Writing, Stored
<1>5. \A v \in Workers \ {w} : a \in worker[v].todo => a \in aged
  BY <1>1 DEF IInv, OneDeleter
<1>6. InHand'
  BY <1>1, <1>2, <1>5, <1>2a DEF IInv, Shape, InHand, Stored, Tick
<1>7. AtWork' /\ OneDeleter'
  BY <1>1, <1>2a DEF IInv, AtWork, OneDeleter
<1>8. Limited'
  BY <1>1, <1>2 DEF IInv, Shape, Limited, InHand, Stored
<1>9. DeletedIsGone' /\ GoneIsClaimed'
  BY <1>1, <1>2 DEF IInv, Shape, DeletedIsGone, GoneIsClaimed, Stored
<1>10. QED
  BY <1>3, <1>4, <1>6, <1>7, <1>8, <1>9 DEF IInv

LEMMA WorkerDiesInv ==
    ASSUME IInv, NEW w \in Workers, WorkerDies(w)
    PROVE  IInv'
<1>1. /\ worker' = [worker EXCEPT ![w] = [pc |-> "idle", todo |-> {}, at |-> NoArtifact]]
      /\ UNCHANGED <<row, bytes, pub, aged>>
  BY DEF WorkerDies, publishing
<1>2. QED
  BY <1>1 DEF IInv, Shape, Tick, Exclusive, Writing, InHand, AtWork, Limited, DeletedIsGone,
     GoneIsClaimed, OneDeleter

-----------------------------------------------------------------------------
LEMMA NextInv == IInv /\ [Next]_vars => IInv'
<1> SUFFICES ASSUME IInv, [Next]_vars PROVE IInv'
  OBVIOUS
<1>1. CASE UNCHANGED vars
  BY <1>1, QuietInv DEF vars
<1>2. ASSUME NEW e \in Edits,
             \/ \E v \in 1..report.version, c \in {"archive", "policy"} : ReadForEdit(e, v, c)
             \/ WriteEdit(e)
      PROVE  IInv'
  BY <1>2, QuietInv DEF ReadForEdit, WriteEdit, publishing, retention
<1>3. ASSUME NEW r \in Readers, (\E a \in Artifacts : Download(r, a)) \/ PathFor(r) \/ Open(r)
      PROVE  IInv'
  BY <1>3, QuietInv DEF Download, PathFor, Open, publishing, retention
<1>4. ASSUME NEW d \in Deliveries,
             \/ \E a \in Artifacts : Deliver(d, a)
             \/ CreateDelivery(d) \/ RecordAttempt(d) \/ DeliveryDies(d)
             \/ \E o \in {"delivered", "retryable", "rejected"} : Send(d, o)
      PROVE  IInv'
  BY <1>4, QuietInv
  DEF Deliver, CreateDelivery, RecordAttempt, DeliveryDies, Send, publishing, retention
<1>5. QED
  BY <1>1, <1>2, <1>3, <1>4, PublicationInv, ExpireInv, ClaimAgesInv, ClaimExpiredInv,
     DiscardInv, MarkDeletedInv, RecordDeletionFailureInv, WorkerDiesInv
  DEF Next

LEMMA Invariant == Spec => []IInv
BY InitInv, NextInv, PTL DEF Spec

(* A row that says deleted has no bytes, bytes that are gone leave a claim  *)
(* or a recorded failure behind, and two ticks never delete the same        *)
(* artifact under fresh claims, whoever dies wherever.                      *)
THEOREM DeletionIsAlwaysOrderly == Spec => []DeletionIsOrderly
<1>1. IInv => DeletionIsOrderly
  <2>1. IInv => AttemptsBounded
    BY PublishingAssumption DEF IInv, Shape, Stored, Limited, AttemptsBounded
  <2>2. QED
    BY <2>1 DEF IInv, DeletionIsOrderly
<1>2. QED
  BY <1>1, Invariant, PTL

(* The bytes of a published artifact that is held or has not expired stay,  *)
(* whatever publications, downloads and retention workers do.               *)
THEOREM HeldIsAlwaysKept == Spec => HeldIsKept
<1>1. ASSUME IInv, [Next]_vars, NEW a \in Artifacts,
             row[a].status = "ready", a \in Held \/ ~row[a].expired, a \in bytes
      PROVE  a \in bytes'
  <2>1. CASE \E p \in Publications : WriteFails(p)
    BY <1>1, <2>1 DEF WriteFails, IInv, Exclusive, Writing
  <2>2. CASE \E w \in Workers, b \in Artifacts : Discard(w, b)
    BY <1>1, <2>2 DEF Discard, IInv, InHand
  <2>3. CASE /\ ~\E p \in Publications : WriteFails(p)
             /\ ~\E w \in Workers, b \in Artifacts : Discard(w, b)
    <3>1. bytes \subseteq bytes'
      BY <1>1, <2>3
      DEF Next, vars, ReadForEdit, WriteEdit, LoadDefinition, RecordPending, CompileFails,
          WriteBytes, CleanupFails, RecordUnwritten, RecordUnwrittenFails, RecordReady,
          CreateExecution, CreateFailed, FinishExecution, AnswerRun, PublisherDies, Expire,
          ClaimAges, ClaimExpired,
          DiscardFails, MarkDeleted, RecordDeletionFailure, WorkerDies, Download, PathFor,
          Open, Deliver, CreateDelivery, RecordAttempt, DeliveryDies, Send
    <3>2. QED
      BY <1>1, <3>1
  <2>4. QED
    BY <2>1, <2>2, <2>3
<1>2. IInv /\ [Next]_vars =>
        [\A a \in Artifacts :
           (row[a].status = "ready" /\ (a \in Held \/ ~row[a].expired) /\ a \in bytes)
             => a \in bytes']_vars
  BY <1>1
<1>3. QED
  BY <1>2, Invariant, PTL DEF Spec, HeldIsKept

-----------------------------------------------------------------------------
(* What the records say: the inductive invariant of RecordsAreTrue *)

(* Edits: the version counts at most the edits that were written, and while *)
(* no edit of version k or an older one was written over a newer row, a     *)
(* written edit of version k leaves the version above k.                    *)
Done == {e \in Edits : edit[e].pc = "done"}
Edition == [pc : {"idle", "read", "done", "conflict"}, expected : Nat,
            change : {"none", "archive", "policy"}]
Editing ==
    /\ report \in [version : Nat \ {0}, archived : BOOLEAN, investigate : BOOLEAN]
    /\ edit \in [Edits -> Edition]
    /\ report.version <= Cardinality(Done) + 1
    /\ \A e \in Edits : /\ edit[e].expected <= Cardinality(Edits)
                        /\ edit[e].pc = "read" => edit[e].expected <= Cardinality(Done) + 1
    /\ raced \subseteq Done
Written(k) == \E e \in Done : edit[e].expected = k
Overtaken(k) == \E g \in raced : edit[g].expected <= k
Editions == \A k \in Nat : Written(k) => Overtaken(k) \/ report.version > k

(* Executions: what a publication has registered, and what its execution    *)
(* row says at each place.                                                  *)
Settled(a) == row[a].status \in {"ready", "deleted"}
ExecutionRow == [status : {"none", "running", "completed", "failed"}, named : BOOLEAN]
Executing ==
    /\ execution \in [Publications -> ExecutionRow]
    /\ \A p \in Publications :
         /\ pub[p].left \in 0..2
         /\ Writing(p) => pub[p].left > 0
         /\ pub[p].pc # "idle" /\ pub[p].left = 0 => pub[p].docs # {}
         /\ \A a \in pub[p].docs : Settled(a)
         /\ pub[p].pc = "recorded" \/ execution[p].status = "completed" =>
              /\ execution[p].named
              /\ pub[p].kind = "saved" => pub[p].left = 0
         /\ execution[p].status = "completed" => pub[p].pc = "answered"
         /\ pub[p].pc = "answered" /\ pub[p].kind # "run" =>
              execution[p].status \in {"completed", "failed"}

(* Downloads: bytes leave a published row only once it has expired.         *)
Vanished == \A a \in Artifacts : Settled(a) /\ a \notin bytes => row[a].expired
Reader == [pc : {"idle", "found", "missing", "opening", "sent", "broken"},
           at : Artifacts \cup {NoArtifact}]
Downloading ==
    /\ reader \in [Readers -> Reader]
    /\ \A r \in Readers :
         /\ reader[r].pc # "idle" => reader[r].at \in Artifacts
         /\ reader[r].pc \in {"opening", "sent"} => Settled(reader[r].at)
         /\ reader[r].pc = "broken" => row[reader[r].at].expired

(* Deliveries: one contact at most is not counted yet.                      *)
Sending == {"idle", "refused", "read", "sending", "delivered", "retryable", "rejected", "over", "dead"}
Delivery == [pc : Sending, at : Artifacts \cup {NoArtifact}, contacts : Nat, count : Nat,
             status : {"none", "pending", "sent", "failed"}]
Contacted == {"delivered", "retryable", "rejected"}
Delivering ==
    /\ delivery \in [Deliveries -> Delivery]
    /\ \A d \in Deliveries :
         /\ delivery[d].contacts <= MaxSends
         /\ delivery[d].pc = "sending" => delivery[d].contacts < MaxSends
         /\ delivery[d].pc \in {"idle", "refused", "read"} => delivery[d].contacts = 0
         /\ delivery[d].pc \in Contacted => delivery[d].contacts = delivery[d].count + 1
         /\ delivery[d].pc = "dead" =>
              delivery[d].contacts \in {delivery[d].count, delivery[d].count + 1}
         /\ delivery[d].pc \notin Contacted \cup {"dead"} => delivery[d].contacts = delivery[d].count
         /\ delivery[d].pc = "over" => delivery[d].status \in {"sent", "failed"}
         /\ delivery[d].status = "sent" => delivery[d].pc = "over"

(* Deletions: every recorded failure, and every one still to be recorded,   *)
(* is a fault of its own.                                                   *)
Failing(a) == {w \in Workers : worker[w].pc = "undeleted" /\ worker[w].at = a}
Failures ==
    /\ faults \in 0..MaxFaults
    /\ \A a \in Artifacts : row[a].attempts + Cardinality(Failing(a)) <= faults
OnRecord == \A a \in bytes : row[a].status # "none"

RInv == /\ IInv /\ Editing /\ Editions /\ Executing /\ PendingIsOwned /\ Vanished
        /\ Downloading /\ Delivering /\ Failures /\ OnRecord /\ EditionsAreUnique

LEMMA InitR == Init => RInv
<1> SUFFICES ASSUME Init PROVE RInv
  OBVIOUS
<1>0. IInv
  BY InitInv
<1>1. Editing /\ Editions
  <2>1. Done = {}
    BY DEF Init, Done
  <2>2. Cardinality(Done) = 0 /\ Cardinality(Edits) \in Nat
    BY <2>1, FS_EmptySet, FS_CardinalityType, PublishingAssumption
  <2>3. \A e \in Edits : edit[e] = [pc |-> "idle", expected |-> 0, change |-> "none"]
    BY DEF Init
  <2>4. edit \in [Edits -> Edition]
    BY DEF Init, Edition
  <2>5. report = [version |-> 1, archived |-> FALSE, investigate |-> FALSE] /\ raced = {}
    BY DEF Init
  <2>6. Editing
    BY <2>2, <2>3, <2>4, <2>5 DEF Editing
  <2>7. QED
    BY <2>1, <2>6 DEF Editions, Written
<1>2. Executing
  <2>1. execution \in [Publications -> ExecutionRow]
    BY DEF Init, ExecutionRow
  <2>2. QED
    BY <2>1 DEF Init, Executing, Writing
<1>3. PendingIsOwned /\ Vanished /\ OnRecord
  BY DEF Init, PendingIsOwned, Vanished, OnRecord, Settled
<1>4. Downloading
  BY DEF Init, Downloading, Reader
<1>5. Delivering
  BY PublishingAssumption DEF Init, Delivering, Delivery, Sending, Contacted
<1>6. Failures
  <2>1. \A a \in Artifacts : Failing(a) = {}
    BY DEF Init, Failing
  <2>2. faults = 0 /\ \A a \in Artifacts : row[a].attempts = 0
    BY DEF Init
  <2>3. \A a \in Artifacts : row[a].attempts + Cardinality(Failing(a)) <= faults
    BY <2>1, <2>2, FS_EmptySet
  <2>4. QED
    BY <2>2, <2>3, PublishingAssumption DEF Failures
<1>7. QED
  <2>1. EditionsAreUnique
    BY DEF Init, EditionsAreUnique
  <2>2. QED
    BY <2>1, <1>0, <1>1, <1>2, <1>3, <1>4, <1>5, <1>6 DEF RInv

-----------------------------------------------------------------------------
(* Edits *)

LEMMA EditsCount ==
    ASSUME IsFiniteSet(Edits)
    PROVE  /\ Cardinality(Done) \in Nat /\ Cardinality(Edits) \in Nat
           /\ Cardinality(Done) <= Cardinality(Edits)
           /\ \A e \in Edits \ Done : /\ Cardinality(Done) < Cardinality(Edits)
                                      /\ Cardinality(Done \cup {e}) = Cardinality(Done) + 1
<1>1. Done \subseteq Edits
  BY DEF Done
<1>2. /\ IsFiniteSet(Done) /\ Cardinality(Done) <= Cardinality(Edits)
      /\ Cardinality(Done) = Cardinality(Edits) => Done = Edits
  BY <1>1, FS_Subset
<1>3. Cardinality(Done) \in Nat /\ Cardinality(Edits) \in Nat
  BY <1>2, FS_CardinalityType
<1>4. \A e \in Edits \ Done : Cardinality(Done \cup {e}) = Cardinality(Done) + 1
  BY <1>2, FS_AddElement
<1>5. \A e \in Edits \ Done : Done # Edits
  BY <1>1
<1>6. QED
  BY <1>2, <1>3, <1>4, <1>5

LEMMA ReadForEditR ==
    ASSUME Editing, Editions, NEW e \in Edits, NEW v \in 1..report.version,
           NEW c \in {"archive", "policy"}, ReadForEdit(e, v, c)
    PROVE  Editing' /\ Editions'
<1> DEFINE next == [pc |-> IF report.version = v THEN "read" ELSE "conflict",
                    expected |-> v, change |-> c]
<1>0. report.version \in Nat /\ v \in Nat /\ v <= report.version
  BY DEF Editing
<1>1. /\ edit[e].pc = "idle" /\ edit' = [edit EXCEPT ![e] = next]
      /\ report' = report /\ raced' = raced
  BY DEF ReadForEdit
<1>2. next \in Edition /\ next.pc # "done" /\ next.expected = v
  BY <1>0 DEF Edition
<1> HIDE DEF next
<1>3. edit'[e] = next /\ \A f \in Edits \ {e} : edit'[f] = edit[f]
  BY <1>1 DEF Editing
<1>4. edit' \in [Edits -> Edition]
  BY <1>1, <1>2 DEF Editing
<1>5. Done' = Done /\ e \notin Done
  BY <1>1, <1>2, <1>3 DEF Done
<1>6. v <= Cardinality(Done) + 1 /\ v <= Cardinality(Edits)
  <2>1. /\ Cardinality(Done) \in Nat /\ Cardinality(Edits) \in Nat
        /\ Cardinality(Done) < Cardinality(Edits)
    BY <1>5, EditsCount, PublishingAssumption
  <2>2. report.version <= Cardinality(Done) + 1
    BY DEF Editing
  <2>3. QED
    BY <2>1, <2>2, <1>0
<1>7. Editing'
  <2>1. \A f \in Edits : /\ edit'[f].expected <= Cardinality(Edits)
                         /\ edit'[f].pc = "read" => edit'[f].expected <= Cardinality(Done) + 1
    <3>1. /\ edit'[e].expected <= Cardinality(Edits)
          /\ edit'[e].expected <= Cardinality(Done) + 1
      BY <1>2, <1>3, <1>6
    <3>2. QED
      BY <3>1, <1>3 DEF Editing
  <2>2. \A f \in Edits : /\ edit'[f].expected <= Cardinality(Edits)
                         /\ edit'[f].pc = "read" => edit'[f].expected <= Cardinality(Done') + 1
    BY <2>1, <1>5
  <2>3. report'.version <= Cardinality(Done') + 1 /\ raced' \subseteq Done'
    BY <1>1, <1>5 DEF Editing
  <2>4. report' \in [version : Nat \ {0}, archived : BOOLEAN, investigate : BOOLEAN]
    BY <1>1 DEF Editing
  <2>5. QED
    BY <2>2, <2>3, <2>4, <1>4 DEF Editing
<1>8. ASSUME NEW k \in Nat, Written(k)' PROVE Overtaken(k)' \/ report'.version > k
  <2>1. Written(k)
    <3>1. PICK f \in Done : edit'[f].expected = k
      BY <1>5, <1>8 DEF Written
    <3>2. edit'[f] = edit[f]
      BY <1>3, <1>5 DEF Done
    <3>3. QED
      BY <3>1, <3>2 DEF Written
  <2>2. CASE Overtaken(k)
    <3>1. PICK g \in raced : edit[g].expected <= k
      BY <2>2 DEF Overtaken
    <3>2. g \in raced' /\ edit'[g] = edit[g]
      BY <3>1, <1>1, <1>3, <1>5 DEF Editing, Done
    <3>3. QED
      BY <3>1, <3>2 DEF Overtaken
  <2>3. CASE report.version > k
    BY <2>3, <1>1
  <2>4. QED
    BY <2>1, <2>2, <2>3 DEF Editions
<1>9. QED
  BY <1>7, <1>8 DEF Editions

LEMMA WriteEditR ==
    ASSUME Editing, Editions, NEW e \in Edits, WriteEdit(e)
    PROVE  Editing' /\ Editions'
<1> DEFINE n == edit[e].expected
<1>1. /\ edit[e].pc = "read" /\ edit' = [edit EXCEPT ![e].pc = "done"]
      /\ report' = [version |-> n + 1,
                    archived |-> report.archived \/ edit[e].change = "archive",
                    investigate |-> IF edit[e].change = "policy" THEN ~report.investigate
                                    ELSE report.investigate]
      /\ raced' = IF report.version = n THEN raced ELSE raced \cup {e}
  BY DEF WriteEdit
<1>2. n \in Nat /\ n <= Cardinality(Done) + 1 /\ report.version \in Nat
  BY <1>1 DEF Editing, Edition
<1>3. /\ edit' \in [Edits -> Edition]
      /\ edit'[e].pc = "done"
      /\ \A f \in Edits : edit'[f].expected = edit[f].expected
      /\ \A f \in Edits \ {e} : edit'[f] = edit[f]
  BY <1>1 DEF Editing, Edition
<1>4. Done' = Done \cup {e} /\ e \notin Done
  BY <1>1, <1>3 DEF Done
<1>5. Cardinality(Done') = Cardinality(Done) + 1 /\ Cardinality(Done) \in Nat
  BY <1>4, EditsCount, PublishingAssumption
<1>6. /\ report' \in [version : Nat \ {0}, archived : BOOLEAN, investigate : BOOLEAN]
      /\ report'.version = n + 1
  <2> DEFINE archived == report.archived \/ edit[e].change = "archive"
             investigate == IF edit[e].change = "policy" THEN ~report.investigate
                            ELSE report.investigate
  <2>1. archived \in BOOLEAN /\ investigate \in BOOLEAN
    BY Zenon DEF Editing
  <2>2. n + 1 \in Nat \ {0}
    BY <1>2
  <2>3. report' = [version |-> n + 1, archived |-> archived, investigate |-> investigate]
    BY <1>1
  <2> HIDE DEF archived, investigate, n
  <2>4. QED
    BY <2>1, <2>2, <2>3
<1>7. Editing'
  <2>1. report'.version <= Cardinality(Done') + 1
    BY <1>2, <1>5, <1>6
  <2>2. \A f \in Edits : edit'[f].expected <= Cardinality(Edits)
    BY <1>3 DEF Editing
  <2>3. \A f \in Edits : edit'[f].pc = "read" => edit'[f].expected <= Cardinality(Done') + 1
    <3>1. \A f \in Edits : edit'[f].pc = "read" => edit[f].pc = "read" /\ edit[f].expected \in Nat
      BY <1>3 DEF Editing, Edition
    <3>2. QED
      BY <3>1, <1>3, <1>5 DEF Editing
  <2>4. raced' \subseteq Done'
    BY <1>1, <1>4 DEF Editing
  <2>5. QED
    BY <1>3, <1>6, <2>1, <2>2, <2>3, <2>4 DEF Editing
<1>8. ASSUME NEW k \in Nat, Written(k)' PROVE Overtaken(k)' \/ report'.version > k
  <2>1. \A g \in Done' : edit'[g].expected = edit[g].expected /\ edit[g].expected \in Nat
    BY <1>3 DEF Done, Editing, Edition
  <2>2. CASE Overtaken(k)
    BY <2>1, <2>2, <1>1, <1>4 DEF Overtaken, Editing
  <2>3. CASE n >= k
    BY <2>3, <1>2, <1>6
  <2>4. CASE n < k /\ report.version # n
    <3>1. e \in raced' /\ edit'[e].expected <= k
      BY <2>4, <1>1, <1>2, <1>3
    <3>2. QED
      BY <3>1 DEF Overtaken
  <2>5. CASE n < k /\ report.version = n /\ ~Overtaken(k)
    <3>1. Written(k)
      BY <2>1, <2>5, <1>2, <1>4, <1>8 DEF Written
    <3>2. report.version > k
      BY <3>1, <2>5 DEF Editions
    <3>3. QED
      BY <3>2, <2>5, <1>2
  <2>6. QED
    BY <2>2, <2>3, <2>4, <2>5, <1>2
<1>9. QED
  BY <1>7, <1>8 DEF Editions

LEMMA DefinitionStays ==
    ASSUME Editing, Editions, UNCHANGED definition
    PROVE  Editing' /\ Editions'
<1>1. Done' = Done
  BY DEF definition, Done
<1>2. Editing'
  BY <1>1 DEF Editing, definition
<1>3. \A k : (Written(k)' <=> Written(k)) /\ (Overtaken(k)' <=> Overtaken(k))
  BY <1>1 DEF Written, Overtaken, definition
<1>4. QED
  BY <1>2, <1>3 DEF Editions, definition

(* An edit that is written as it was read finds no other of its version, as *)
(* long as none of that version or an older one was overtaken.              *)
LEMMA EditionsR ==
    ASSUME Editing, Editions, EditionsAreUnique, NEW e \in Edits, WriteEdit(e)
    PROVE  EditionsAreUnique'
<1> DEFINE n == edit[e].expected
<1>1. /\ edit[e].pc = "read" /\ edit' = [edit EXCEPT ![e].pc = "done"]
      /\ raced' = IF report.version = n THEN raced ELSE raced \cup {e}
  BY DEF WriteEdit
<1>2. /\ \A f \in Edits : edit'[f].expected = edit[f].expected /\ edit[f].expected \in Nat
      /\ \A f \in Edits \ {e} : edit'[f] = edit[f]
      /\ n \in Nat /\ raced \subseteq Edits /\ report.version \in Nat
  BY <1>1 DEF Editing, Edition, Done
<1>3. ASSUME NEW f \in Edits \ {e}, edit[f].pc = "done", edit[f].expected = n
      PROVE  \E g \in raced' : edit'[g].expected <= n
  <2>1. CASE report.version # n
    BY <2>1, <1>1, <1>2
  <2>2. CASE report.version = n
    <3>1. Written(n)
      BY <1>3 DEF Written, Done
    <3>2. Overtaken(n)
      BY <3>1, <2>2, <1>2 DEF Editions
    <3>3. PICK g \in raced : edit[g].expected <= n
      BY <3>2 DEF Overtaken
    <3>4. g \in Edits /\ g \in raced' /\ edit'[g].expected = edit[g].expected
      BY <3>3, <1>1, <1>2
    <3>5. QED
      BY <3>3, <3>4
  <2>3. QED
    BY <2>1, <2>2
<1>4. ASSUME NEW f \in Edits, NEW h \in Edits, f # h, edit'[f].pc = "done", edit'[h].pc = "done",
             edit'[f].expected = edit'[h].expected
      PROVE  \E g \in raced' : edit'[g].expected <= edit'[f].expected
  <2>1. CASE f = e
    <3>1. h \in Edits \ {e} /\ edit[h].pc = "done" /\ edit[h].expected = n /\ edit'[f].expected = n
      BY <2>1, <1>2, <1>4
    <3>2. QED
      BY <3>1, <1>3
  <2>2. CASE h = e
    <3>1. f \in Edits \ {e} /\ edit[f].pc = "done" /\ edit[f].expected = n /\ edit'[f].expected = n
      BY <2>2, <1>2, <1>4
    <3>2. QED
      BY <3>1, <1>3
  <2>3. CASE f # e /\ h # e
    <3>1. edit[f].pc = "done" /\ edit[h].pc = "done" /\ edit[f].expected = edit[h].expected
          /\ edit'[f].expected = edit[f].expected
      BY <2>3, <1>2, <1>4
    <3>2. PICK g \in raced : edit[g].expected <= edit[f].expected
      BY <3>1, <1>4 DEF EditionsAreUnique
    <3>3. g \in Edits /\ g \in raced' /\ edit'[g].expected = edit[g].expected
      BY <3>2, <1>1, <1>2
    <3>4. QED
      BY <3>1, <3>2, <3>3
  <2>4. QED
    BY <2>1, <2>2, <2>3
<1>5. QED
  BY <1>4 DEF EditionsAreUnique

LEMMA EditionsStay ==
    ASSUME Editing, EditionsAreUnique, NEW e \in Edits, NEW v \in 1..report.version,
           NEW c \in {"archive", "policy"}, ReadForEdit(e, v, c)
    PROVE  EditionsAreUnique'
<1>1. /\ edit[e].pc = "idle" /\ raced' = raced /\ e \notin raced
      /\ edit'[e].pc # "done"
      /\ \A f \in Edits \ {e} : edit'[f] = edit[f]
      /\ raced \subseteq Edits
  BY DEF ReadForEdit, Editing, Done
<1>2. QED
  BY <1>1 DEF EditionsAreUnique

-----------------------------------------------------------------------------
(* Steps by the part of the system they belong to *)

EditStep == \E e \in Edits :
    \/ \E v \in 1..report.version, c \in {"archive", "policy"} : ReadForEdit(e, v, c)
    \/ WriteEdit(e)
PublishStep(p) ==
    \/ \E k \in {"preview", "saved", "run"}, n \in 1..2 : LoadDefinition(p, k, n)
    \/ \E a \in Artifacts : RecordPending(p, a)
    \/ CompileFails(p) \/ WriteBytes(p) \/ WriteFails(p) \/ CleanupFails(p)
    \/ RecordUnwritten(p) \/ RecordUnwrittenFails(p) \/ RecordReady(p)
    \/ CreateExecution(p) \/ CreateFailed(p) \/ FinishExecution(p) \/ AnswerRun(p)
    \/ PublisherDies(p)
AgeStep == \E a \in Artifacts : Expire(a) \/ ClaimAges(a)
TickStep(w) ==
    \/ \E batch \in SUBSET Artifacts : ClaimExpired(w, batch)
    \/ \E a \in Artifacts : Discard(w, a) \/ DiscardFails(w, a)
    \/ MarkDeleted(w) \/ RecordDeletionFailure(w) \/ WorkerDies(w)
DownloadStep(r) == (\E a \in Artifacts : Download(r, a)) \/ PathFor(r) \/ Open(r)
DeliveryStep(d) ==
    \/ \E a \in Artifacts : Deliver(d, a)
    \/ CreateDelivery(d) \/ RecordAttempt(d) \/ DeliveryDies(d)
    \/ \E o \in {"delivered", "retryable", "rejected"} : Send(d, o)

LEMMA StepIs ==
    ASSUME [Next]_vars
    PROVE  \/ UNCHANGED vars \/ EditStep \/ AgeStep
           \/ \E p \in Publications : PublishStep(p)
           \/ \E w \in Workers : TickStep(w)
           \/ \E r \in Readers : DownloadStep(r)
           \/ \E d \in Deliveries : DeliveryStep(d)
BY DEF Next, EditStep, AgeStep, PublishStep, TickStep, DownloadStep, DeliveryStep

LEMMA EditKeeps ==
    ASSUME EditStep
    PROVE  UNCHANGED <<row, bytes, publishing, retention, clients, faults>>
BY DEF EditStep, ReadForEdit, WriteEdit

LEMMA PublishKeeps ==
    ASSUME NEW p \in Publications, PublishStep(p)
    PROVE  UNCHANGED <<definition, retention, clients>>
BY DEF PublishStep, LoadDefinition, RecordPending, CompileFails, WriteBytes, WriteFails,
   RecordUnwritten, RecordUnwrittenFails, CleanupFails, RecordReady, CreateExecution,
   CreateFailed, FinishExecution, AnswerRun,
   PublisherDies

LEMMA AgeKeeps ==
    ASSUME AgeStep
    PROVE  UNCHANGED <<definition, bytes, publishing, worker, clients>>
BY DEF AgeStep, Expire, ClaimAges, retention

LEMMA TickKeeps ==
    ASSUME NEW w \in Workers, TickStep(w)
    PROVE  UNCHANGED <<definition, publishing, aged, clients>>
BY DEF TickStep, ClaimExpired, Discard, DiscardFails, MarkDeleted, RecordDeletionFailure,
   WorkerDies

LEMMA DownloadKeeps ==
    ASSUME NEW r \in Readers, DownloadStep(r)
    PROVE  UNCHANGED <<definition, row, bytes, publishing, retention, delivery, faults>>
BY DEF DownloadStep, Download, PathFor, Open

LEMMA DeliveryKeeps ==
    ASSUME NEW d \in Deliveries, DeliveryStep(d)
    PROVE  UNCHANGED <<definition, row, bytes, publishing, retention, reader>>
BY DEF DeliveryStep, Deliver, CreateDelivery, RecordAttempt, DeliveryDies, Send

LEMMA EditingR ==
    ASSUME RInv, [Next]_vars
    PROVE  Editing' /\ Editions' /\ EditionsAreUnique'
<1>1. CASE EditStep
  BY <1>1, ReadForEditR, WriteEditR, EditionsR, EditionsStay DEF EditStep, RInv
<1>2. CASE UNCHANGED definition
  BY <1>2, DefinitionStays DEF RInv, EditionsAreUnique, definition
<1>3. QED
  BY <1>1, <1>2, StepIs, AgeKeeps, PublishKeeps, TickKeeps, DownloadKeeps, DeliveryKeeps
  DEF vars, definition

-----------------------------------------------------------------------------
(* Rows only move on: what was published stays published or is deleted, and *)
(* bytes that are gone come back for no published row.                      *)

Grows(a) ==
    /\ row[a].status # "none" => row'[a].status # "none"
    /\ Settled(a) => Settled(a)'
    /\ row[a].expired => row'[a].expired

LEMMA RowsGrow ==
    ASSUME IInv, [Next]_vars, NEW a \in Artifacts
    PROVE  Grows(a)
<1>1. CASE UNCHANGED row
  BY <1>1 DEF Grows, Settled
<1>2. CASE \E p \in Publications : RecordUnwritten(p) \/ RecordReady(p)
  <2>1. PICK p \in Publications : RecordUnwritten(p) \/ RecordReady(p)
    BY <1>2
  <2>2. Writing(p) /\ pub[p].at \in Artifacts /\ row[pub[p].at].status = "pending"
    BY <2>1 DEF RecordUnwritten, RecordReady, IInv, Exclusive, Writing
  <2>3. QED
    BY <2>1, <2>2 DEF RecordUnwritten, RecordReady, IInv, Shape, Stored, Grows, Settled
<1>3. CASE \E p \in Publications, b \in Artifacts : RecordPending(p, b)
  BY <1>3 DEF RecordPending, IInv, Shape, Stored, Grows, Settled
<1>4. CASE AgeStep
  BY <1>4 DEF AgeStep, Expire, ClaimAges, IInv, Shape, Stored, Grows, Settled
<1>5. CASE \E w \in Workers, batch \in SUBSET Artifacts : ClaimExpired(w, batch)
  BY <1>5 DEF ClaimExpired, IInv, Shape, Stored, Grows, Settled
<1>6. CASE \E w \in Workers : MarkDeleted(w) \/ RecordDeletionFailure(w)
  <2>1. PICK w \in Workers : MarkDeleted(w) \/ RecordDeletionFailure(w)
    BY <1>6
  <2>2. worker[w].at \in worker[w].todo /\ worker[w].at \in Artifacts
    BY <2>1 DEF MarkDeleted, RecordDeletionFailure, IInv, AtWork, Shape, Tick
  <2>3. Settled(worker[w].at)
    BY <2>2 DEF IInv, InHand, Settled
  <2>4. QED
    BY <2>1, <2>2, <2>3
    DEF MarkDeleted, RecordDeletionFailure, IInv, Shape, Stored, Grows, Settled
<1>7. \/ UNCHANGED row \/ AgeStep
      \/ \E p \in Publications : RecordUnwritten(p) \/ RecordReady(p)
      \/ \E p \in Publications, b \in Artifacts : RecordPending(p, b)
      \/ \E w \in Workers, batch \in SUBSET Artifacts : ClaimExpired(w, batch)
      \/ \E w \in Workers : MarkDeleted(w) \/ RecordDeletionFailure(w)
  <2>1. CASE \E p \in Publications : PublishStep(p)
    BY <2>1 DEF PublishStep, LoadDefinition, CompileFails, WriteBytes, WriteFails,
       CleanupFails, RecordUnwrittenFails, CreateExecution, CreateFailed, FinishExecution,
       AnswerRun, PublisherDies
  <2>2. CASE \E w \in Workers : TickStep(w)
    BY <2>2 DEF TickStep, Discard, DiscardFails, WorkerDies
  <2>3. QED
    BY <2>1, <2>2, StepIs, EditKeeps, DownloadKeeps, DeliveryKeeps DEF vars
<1>8. QED
  BY <1>1, <1>2, <1>3, <1>4, <1>5, <1>6, <1>7

LEMMA RegisteredR ==
    ASSUME RInv, [Next]_vars
    PROVE  OnRecord'
<1>1. \A a \in Artifacts : Grows(a)
  BY RowsGrow DEF RInv
<1>2. ASSUME NEW a \in bytes' PROVE row'[a].status # "none"
  <2>1. CASE a \in bytes
    BY <2>1, <1>1 DEF RInv, OnRecord, Grows, IInv, Shape
  <2>2. CASE a \notin bytes
    <3>1. PICK p \in Publications : WriteBytes(p) \/ CleanupFails(p)
      <4>1. ~(bytes' \subseteq bytes)
        BY <1>2, <2>2
      <4>2. \E p \in Publications : PublishStep(p)
        <5>1. CASE \E w \in Workers : TickStep(w)
          BY <5>1, <4>1 DEF TickStep, ClaimExpired, Discard, DiscardFails, MarkDeleted,
             RecordDeletionFailure, WorkerDies
        <5>2. QED
          BY <4>1, <5>1, StepIs, EditKeeps, AgeKeeps, DownloadKeeps, DeliveryKeeps DEF vars
      <4>3. QED
        BY <4>1, <4>2 DEF PublishStep, LoadDefinition, RecordPending, CompileFails, WriteFails,
           RecordUnwritten, RecordUnwrittenFails, RecordReady, CreateExecution, CreateFailed,
           FinishExecution,
           AnswerRun, PublisherDies
    <3>2. a = pub[p].at /\ Writing(p)
      BY <3>1, <1>2, <2>2 DEF WriteBytes, CleanupFails, Writing
    <3>3. a \in Artifacts /\ row[a].status = "pending"
      BY <3>2 DEF RInv, IInv, Exclusive
    <3>4. QED
      BY <3>3, <1>1 DEF Grows
  <2>3. QED
    BY <2>1, <2>2
<1>3. QED
  BY <1>2 DEF OnRecord

LEMMA VanishedR ==
    ASSUME RInv, [Next]_vars
    PROVE  Vanished'
<1>1. \A a \in Artifacts : Grows(a)
  BY RowsGrow DEF RInv
<1>2. ASSUME NEW a \in Artifacts, Settled(a)', a \notin bytes' PROVE row'[a].expired
  <2>1. CASE Settled(a) /\ a \notin bytes
    BY <2>1, <1>1 DEF RInv, Vanished, Grows
  <2>2. CASE Settled(a) /\ a \in bytes
    <3>1. CASE \E p \in Publications : WriteFails(p)
      BY <2>2, <3>1, <1>2 DEF WriteFails, RInv, IInv, Exclusive, Writing, Settled
    <3>2. CASE \E w \in Workers, b \in Artifacts : Discard(w, b)
      <4>1. row[a].expired
        BY <2>2, <3>2, <1>2 DEF Discard, RInv, IInv, InHand
      <4>2. QED
        BY <4>1, <1>1 DEF Grows
    <3>3. CASE /\ ~\E p \in Publications : WriteFails(p)
               /\ ~\E w \in Workers, b \in Artifacts : Discard(w, b)
      <4>1. bytes \subseteq bytes'
        <5>1. CASE \E p \in Publications : PublishStep(p)
          BY <3>3, <5>1 DEF PublishStep, LoadDefinition, RecordPending, CompileFails,
             WriteBytes, RecordUnwritten, RecordUnwrittenFails, CleanupFails, RecordReady,
             CreateExecution, CreateFailed,
             FinishExecution, AnswerRun, PublisherDies
        <5>2. CASE \E w \in Workers : TickStep(w)
          BY <3>3, <5>2 DEF TickStep, ClaimExpired, DiscardFails, MarkDeleted,
             RecordDeletionFailure, WorkerDies
        <5>3. QED
          BY <5>1, <5>2, StepIs, EditKeeps, AgeKeeps, DownloadKeeps, DeliveryKeeps DEF vars
      <4>2. QED
        BY <4>1, <2>2, <1>2
    <3>4. QED
      BY <3>1, <3>2, <3>3
  <2>3. CASE ~Settled(a)
    <3>1. PICK p \in Publications : RecordReady(p) /\ pub[p].at = a
      <4>1. row'[a].status # row[a].status /\ row'[a].status \in {"ready", "deleted"}
        BY <1>2, <2>3 DEF Settled
      <4>2. CASE \E p \in Publications : PublishStep(p)
        <5>1. PICK p \in Publications : PublishStep(p)
          BY <4>2
        <5>2. RecordReady(p)
          BY <4>1, <5>1 DEF PublishStep, LoadDefinition, RecordPending, CompileFails,
             WriteBytes, WriteFails, RecordUnwritten, RecordUnwrittenFails, CleanupFails,
             CreateExecution, CreateFailed,
             FinishExecution, AnswerRun, PublisherDies, RInv, IInv, Shape, Stored
        <5>3. pub[p].at = a
          BY <4>1, <5>2 DEF RecordReady, RInv, IInv, Shape, Stored
        <5>4. QED
          BY <5>2, <5>3
      <4>3. CASE \E w \in Workers : TickStep(w)
        <5>1. PICK w \in Workers : TickStep(w)
          BY <4>3
        <5>2. MarkDeleted(w) /\ worker[w].at = a
          BY <4>1, <5>1 DEF TickStep, ClaimExpired, Discard, DiscardFails, MarkDeleted,
             RecordDeletionFailure, WorkerDies, RInv, IInv, Shape, Stored
        <5>3. a \in worker[w].todo
          BY <5>2 DEF MarkDeleted, RInv, IInv, AtWork
        <5>4. QED
          BY <5>3, <2>3 DEF RInv, IInv, InHand, Settled
      <4>4. CASE AgeStep
        BY <4>1, <4>4 DEF AgeStep, Expire, ClaimAges, RInv, IInv, Shape, Stored
      <4>5. QED
        BY <4>1, <4>2, <4>3, <4>4, StepIs, EditKeeps, DownloadKeeps, DeliveryKeeps DEF vars
    <3>2. a \in bytes /\ bytes' = bytes
      BY <3>1 DEF RecordReady, RInv, IInv, Exclusive
    <3>3. QED
      BY <3>2, <1>2
  <2>4. QED
    BY <2>1, <2>2, <2>3
<1>3. QED
  BY <1>2 DEF Vanished


-----------------------------------------------------------------------------
(* Publications and their executions *)

(* What a publication has done, told of one publication.                    *)
Truthful(p) ==
    /\ pub[p].left \in 0..2
    /\ Writing(p) => pub[p].left > 0
    /\ pub[p].pc # "idle" /\ pub[p].left = 0 => pub[p].docs # {}
    /\ \A a \in pub[p].docs : Settled(a)
    /\ pub[p].pc = "recorded" \/ execution[p].status = "completed" =>
         /\ execution[p].named
         /\ pub[p].kind = "saved" => pub[p].left = 0
    /\ execution[p].status = "completed" => pub[p].pc = "answered"
    /\ pub[p].pc = "answered" /\ pub[p].kind # "run" =>
         execution[p].status \in {"completed", "failed"}

LEMMA TruthfulStays ==
    ASSUME IInv, [Next]_vars, NEW p \in Publications, Truthful(p),
           pub'[p] = pub[p], execution'[p] = execution[p]
    PROVE  Truthful(p)'
<1>1. \A a \in pub[p].docs : Settled(a) => Settled(a)'
  BY RowsGrow DEF Grows, IInv, Shape, Publisher
<1>2. Writing(p)' <=> Writing(p)
  BY DEF Writing
<1>3. QED
  BY <1>1, <1>2 DEF Truthful

LEMMA PublicationIs ==
    ASSUME RInv, [Next]_vars, NEW p \in Publications, PublishStep(p)
    PROVE  /\ execution' \in [Publications -> ExecutionRow]
           /\ \A q \in Publications \ {p} : pub'[q] = pub[q] /\ execution'[q] = execution[q]
<1>1. /\ pub \in [Publications -> Publisher]
      /\ execution \in [Publications -> ExecutionRow]
  BY DEF RInv, IInv, Shape, Executing
<1>2. \A q \in Publications \ {p} : pub'[q] = pub[q]
  BY <1>1 DEF PublishStep, LoadDefinition, RecordPending, CompileFails, WriteBytes, WriteFails,
     RecordUnwritten, RecordUnwrittenFails, CleanupFails, Abandoned, RecordReady,
     CreateExecution, CreateFailed, FinishExecution, AnswerRun, PublisherDies
<1>3. /\ execution' \in [Publications -> ExecutionRow]
      /\ \A q \in Publications \ {p} : execution'[q] = execution[q]
  <2>1. CASE CreateExecution(p) \/ CreateFailed(p) \/ FinishExecution(p)
    <3>1. PICK next \in ExecutionRow : execution' = [execution EXCEPT ![p] = next]
      <4>1. CASE CreateExecution(p) \/ CreateFailed(p)
        BY <4>1 DEF CreateExecution, CreateFailed, ExecutionRow
      <4>2. CASE FinishExecution(p)
        <5>1. execution[p] \in ExecutionRow
          BY <1>1
        <5>2. \A s \in {"completed", "failed"} : [execution[p] EXCEPT !.status = s] \in ExecutionRow
          BY <5>1 DEF ExecutionRow
        <5>3. \E s \in {"completed", "failed"} :
                execution' = [execution EXCEPT ![p] = [execution[p] EXCEPT !.status = s]]
          BY <4>2, <1>1 DEF FinishExecution
        <5>4. QED
          BY <5>2, <5>3
      <4>3. QED
        BY <2>1, <4>1, <4>2
    <3>2. QED
      BY <3>1, <1>1
  <2>2. CASE UNCHANGED execution
    BY <2>2, <1>1
  <2>3. QED
    BY <2>1, <2>2 DEF PublishStep, LoadDefinition, RecordPending, CompileFails, WriteBytes,
       WriteFails, RecordUnwritten, RecordUnwrittenFails, CleanupFails, RecordReady,
       AnswerRun, PublisherDies
<1>4. QED
  BY <1>2, <1>3

LEMMA TruthfulR ==
    ASSUME RInv, [Next]_vars, NEW p \in Publications, PublishStep(p)
    PROVE  Truthful(p)'
<1>1. /\ pub \in [Publications -> Publisher] /\ pub[p] \in Publisher
      /\ execution \in [Publications -> ExecutionRow]
      /\ Truthful(p)
  BY DEF RInv, IInv, Shape, Executing, Truthful
<1>2. \A a \in Artifacts : Settled(a) => Settled(a)'
  BY RowsGrow DEF RInv, Grows
<1>3. pub[p].docs \subseteq Artifacts
  BY <1>1 DEF Publisher
<1>4. CASE \E k \in {"preview", "saved", "run"}, n \in 1..2 : LoadDefinition(p, k, n)
  BY <1>1, <1>2, <1>3, <1>4 DEF LoadDefinition, Truthful, Writing, Publisher
<1>5. CASE (\E a \in Artifacts : RecordPending(p, a)) \/ CompileFails(p)
  BY <1>1, <1>2, <1>3, <1>5 DEF RecordPending, CompileFails, Truthful, Writing, Publisher
<1>6. CASE \/ WriteBytes(p) \/ WriteFails(p) \/ CleanupFails(p)
           \/ RecordUnwritten(p) \/ RecordUnwrittenFails(p) \/ PublisherDies(p)
  BY <1>1, <1>2, <1>3, <1>6
  DEF WriteBytes, WriteFails, CleanupFails, RecordUnwritten, RecordUnwrittenFails, Abandoned,
      PublisherDies, Truthful, Writing, Publisher
<1>7. CASE RecordReady(p)
  <2>1. /\ pub'[p] = [pub[p] EXCEPT !.pc = "compiling", !.left = @ - 1, !.docs = @ \cup {pub[p].at}]
        /\ execution' = execution /\ pub[p].pc = "written"
        /\ row' = [row EXCEPT ![pub[p].at].status = "ready"]
    BY <1>1, <1>7 DEF RecordReady
  <2>2. /\ pub'[p].pc = "compiling" /\ pub'[p].left = pub[p].left - 1
        /\ pub'[p].docs = pub[p].docs \cup {pub[p].at} /\ pub'[p].kind = pub[p].kind
    BY <2>1, <1>1 DEF Publisher
  <2>3. \A a \in Artifacts : a = pub[p].at => Settled(a)'
    BY <2>1 DEF RInv, IInv, Shape, Stored, Settled
  <2>3a. pub[p].at \in Artifacts
    BY <2>1 DEF RInv, IInv, Exclusive, Writing
  <2>4. pub[p].left \in 1..2
    BY <1>1, <2>1 DEF Truthful, Writing
  <2>5. \A a \in pub'[p].docs : Settled(a)'
    BY <1>1, <1>2, <1>3, <2>2, <2>3, <2>3a DEF Truthful
  <2>6. execution'[p].status # "completed"
    BY <1>1, <2>1 DEF Truthful
  <2>7. QED
    BY <2>2, <2>4, <2>5, <2>6 DEF Truthful, Writing
<1>8. CASE CreateExecution(p)
  <2>1. /\ pub'[p] = [pub[p] EXCEPT !.pc = "recorded"] /\ pub[p].pc = "compiling"
        /\ execution'[p] = [status |-> "running", named |-> TRUE]
        /\ pub[p].left = 0 \/ pub[p].kind = "preview"
    BY <1>1, <1>8 DEF CreateExecution, AllWritten
  <2>2. /\ pub'[p].pc = "recorded" /\ pub'[p].left = pub[p].left
        /\ pub'[p].docs = pub[p].docs /\ pub'[p].kind = pub[p].kind
        /\ execution'[p].status = "running" /\ execution'[p].named
    BY <2>1, <1>1 DEF Publisher
  <2>3. QED
    BY <1>1, <1>2, <1>3, <2>1, <2>2 DEF Truthful, Writing
<1>9. CASE CreateFailed(p)
  <2>1. /\ pub'[p] = [pub[p] EXCEPT !.pc = "failed"] /\ pub[p].pc = "failing"
        /\ execution'[p] = [status |-> "running", named |-> FALSE]
    BY <1>1, <1>9 DEF CreateFailed
  <2>2. /\ pub'[p].pc = "failed" /\ pub'[p].left = pub[p].left
        /\ pub'[p].docs = pub[p].docs /\ pub'[p].kind = pub[p].kind
        /\ execution'[p].status = "running"
    BY <2>1, <1>1 DEF Publisher
  <2>3. QED
    BY <1>1, <1>2, <1>3, <2>1, <2>2 DEF Truthful, Writing
<1>10. CASE FinishExecution(p)
  <2>1. /\ pub'[p] = [pub[p] EXCEPT !.pc = "answered"] /\ pub[p].pc \in {"recorded", "failed"}
        /\ execution'[p] = [execution[p] EXCEPT
             !.status = IF pub[p].pc = "recorded" THEN "completed" ELSE "failed"]
    BY <1>1, <1>10 DEF FinishExecution
  <2>2. /\ pub'[p].pc = "answered" /\ pub'[p].left = pub[p].left
        /\ pub'[p].docs = pub[p].docs /\ pub'[p].kind = pub[p].kind
    BY <2>1, <1>1 DEF Publisher
  <2>3. /\ execution'[p].status = IF pub[p].pc = "recorded" THEN "completed" ELSE "failed"
        /\ execution'[p].named = execution[p].named
    BY <2>1, <1>1 DEF ExecutionRow
  <2>4. QED
    BY <1>1, <1>2, <1>3, <2>1, <2>2, <2>3 DEF Truthful, Writing
<1>11. CASE AnswerRun(p)
  <2>1. /\ pub'[p] = [pub[p] EXCEPT !.pc = "answered"] /\ pub[p].pc = "compiling"
        /\ execution'[p] = execution[p] /\ pub[p].kind = "run"
    BY <1>1, <1>11 DEF AnswerRun, AllWritten
  <2>2. /\ pub'[p].pc = "answered" /\ pub'[p].left = pub[p].left
        /\ pub'[p].docs = pub[p].docs /\ pub'[p].kind = "run"
    BY <2>1, <1>1 DEF Publisher
  <2>3. QED
    BY <1>1, <1>2, <1>3, <2>1, <2>2 DEF Truthful, Writing
<1>12. QED
  BY <1>4, <1>5, <1>6, <1>7, <1>8, <1>9, <1>10, <1>11 DEF PublishStep

LEMMA ExecutingR ==
    ASSUME RInv, [Next]_vars
    PROVE  Executing'
<1>1. \A p \in Publications : Truthful(p)
  BY DEF RInv, Executing, Truthful
<1>2. CASE UNCHANGED publishing
  <2>1. \A p \in Publications : Truthful(p)'
    BY <1>1, <1>2, TruthfulStays DEF RInv, publishing
  <2>2. execution' \in [Publications -> ExecutionRow]
    BY <1>2 DEF RInv, Executing, publishing
  <2>3. QED
    BY <2>1, <2>2 DEF Executing, Truthful
<1>3. ASSUME NEW p \in Publications, PublishStep(p) PROVE Executing'
  <2>1. Truthful(p)' /\ execution' \in [Publications -> ExecutionRow]
    BY <1>3, TruthfulR, PublicationIs
  <2>2. ASSUME NEW q \in Publications \ {p} PROVE Truthful(q)'
    BY <1>1, <1>3, PublicationIs, TruthfulStays DEF RInv
  <2>3. \A q \in Publications : Truthful(q)'
    BY <2>1, <2>2
  <2>4. QED
    BY <2>1, <2>3 DEF Executing, Truthful
<1>4. QED
  BY <1>2, <1>3, StepIs, EditKeeps, AgeKeeps, TickKeeps, DownloadKeeps, DeliveryKeeps
  DEF vars, publishing

(* A pending row belongs to the publication that wrote it down.             *)
Owns(p, a) == pub[p].at = a /\ pub[p].pc \in {"writing", "written", "unwritten", "dead"}

LEMMA OwnerStays ==
    ASSUME RInv, [Next]_vars, NEW p \in Publications, PublishStep(p), NEW q \in Publications,
           NEW a \in Artifacts, Owns(q, a), row'[a].status = "pending"
    PROVE  Owns(q, a)' \/ a \in stranded'
<1>1. pub \in [Publications -> Publisher] /\ row \in [Artifacts -> Stored]
  BY DEF RInv, IInv, Shape
<1>2. CASE q # p
  BY <1>2, PublicationIs DEF Owns
<1>3. CASE q = p /\ (WriteBytes(p) \/ WriteFails(p) \/ PublisherDies(p))
  BY <1>1, <1>3 DEF WriteBytes, WriteFails, PublisherDies, Owns, Publisher
<1>4. CASE q = p /\ (RecordUnwritten(p) \/ RecordReady(p))
  BY <1>1, <1>4 DEF RecordUnwritten, RecordUnwrittenFails, CleanupFails, RecordReady, Owns,
  Stored
<1>4a. CASE q = p /\ (CleanupFails(p) \/ RecordUnwrittenFails(p))
  BY <1>4a DEF CleanupFails, RecordUnwrittenFails, Owns
<1>5. CASE q = p /\ ~(\/ WriteBytes(p) \/ WriteFails(p) \/ PublisherDies(p)
                     \/ RecordUnwritten(p) \/ RecordReady(p)
                     \/ CleanupFails(p) \/ RecordUnwrittenFails(p))
  <2>1. pub[p].pc \in {"idle", "compiling", "failing", "recorded", "failed"}
    BY <1>5 DEF PublishStep, LoadDefinition, RecordPending, CompileFails, CreateExecution,
       CreateFailed, FinishExecution, AnswerRun, AllWritten
  <2>2. QED
    BY <2>1, <1>5 DEF Owns
<1>6. QED
  BY <1>2, <1>3, <1>4, <1>4a, <1>5

(* Nothing settles a row whose failed write was not cleaned up.             *)
LEMMA StrandedStays ==
    ASSUME [Next]_vars
    PROVE  stranded \subseteq stranded'
<1>1. CASE \E p \in Publications : PublishStep(p)
  BY <1>1 DEF PublishStep, LoadDefinition, RecordPending, CompileFails, WriteBytes, WriteFails,
     RecordUnwritten, RecordUnwrittenFails, CleanupFails, RecordReady, CreateExecution,
     CreateFailed, FinishExecution, AnswerRun, PublisherDies
<1>2. QED
  BY <1>1, StepIs, EditKeeps, AgeKeeps, TickKeeps, DownloadKeeps, DeliveryKeeps
  DEF vars, publishing

LEMMA PendingR ==
    ASSUME RInv, [Next]_vars
    PROVE  PendingIsOwned'
<1>0. stranded \subseteq stranded'
  BY StrandedStays
<1>1. \A a \in Artifacts : row[a].status = "pending" =>
        a \in stranded \/ \E q \in Publications : Owns(q, a)
  BY DEF RInv, PendingIsOwned, Owns
<1>2. ASSUME NEW a \in Artifacts, row'[a].status = "pending", a \notin stranded'
      PROVE  \E q \in Publications : Owns(q, a)'
  <2>1. CASE \E p \in Publications : PublishStep(p)
    <3>1. PICK p \in Publications : PublishStep(p)
      BY <2>1
    <3>2. CASE row[a].status = "pending"
      BY <3>1, <3>2, <1>0, <1>1, <1>2, OwnerStays
    <3>3. CASE row[a].status # "pending"
      <4>1. RecordPending(p, a)
        BY <3>1, <3>3, <1>2 DEF PublishStep, LoadDefinition, RecordPending, CompileFails,
           WriteBytes, WriteFails, RecordUnwritten, RecordUnwrittenFails, CleanupFails,
           RecordReady, CreateExecution, CreateFailed,
           FinishExecution, AnswerRun, PublisherDies, RInv, IInv, Shape, Stored
      <4>2. Owns(p, a)'
        BY <4>1 DEF RecordPending, Owns, RInv, IInv, Shape, Publisher
      <4>3. QED
        BY <4>2
    <3>4. QED
      BY <3>2, <3>3
  <2>2. CASE UNCHANGED pub /\ row[a].status = "pending"
    BY <2>2, <1>0, <1>1, <1>2 DEF Owns
  <2>3. CASE \E w \in Workers : TickStep(w)
    <3>1. row[a].status = "pending"
      BY <2>3, <1>2 DEF TickStep, ClaimExpired, Discard, DiscardFails, MarkDeleted,
         RecordDeletionFailure, WorkerDies, RInv, IInv, Shape, Stored
    <3>2. QED
      BY <2>2, <2>3, <3>1, TickKeeps DEF publishing
  <2>4. CASE AgeStep
    <3>1. row[a].status = "pending"
      <4>1. PICK b \in Artifacts : Expire(b) \/ ClaimAges(b)
        BY <2>4 DEF AgeStep
      <4>2. row'[a].status = row[a].status
        BY <4>1 DEF Expire, ClaimAges, RInv, IInv, Shape, Stored
      <4>3. QED
        BY <4>2, <1>2
    <3>2. QED
      BY <2>2, <2>4, <3>1, AgeKeeps DEF publishing
  <2>5. CASE UNCHANGED <<row, pub>>
    BY <2>2, <2>5, <1>2
  <2>6. QED
    BY <2>1, <2>3, <2>4, <2>5, StepIs, EditKeeps, DownloadKeeps, DeliveryKeeps
    DEF vars, publishing
<1>3. QED
  BY <1>2 DEF PendingIsOwned, Owns


-----------------------------------------------------------------------------
(* Downloads and deliveries *)

(* What a download was sent, told of one download.                          *)
Fetched(r) ==
    /\ reader[r].pc # "idle" => reader[r].at \in Artifacts
    /\ reader[r].pc \in {"opening", "sent"} => Settled(reader[r].at)
    /\ reader[r].pc = "broken" => row[reader[r].at].expired

LEMMA FetchedStays ==
    ASSUME RInv, [Next]_vars, NEW r \in Readers, Fetched(r), reader'[r] = reader[r]
    PROVE  Fetched(r)'
<1>1. CASE reader[r].pc = "idle"
  BY <1>1 DEF Fetched
<1>2. CASE reader[r].pc # "idle"
  <2>1. reader[r].at \in Artifacts
    BY <1>2 DEF Fetched
  <2>2. Grows(reader[r].at)
    BY <2>1, RowsGrow DEF RInv
  <2>3. QED
    BY <2>1, <2>2 DEF Fetched, Grows, Settled
<1>3. QED
  BY <1>1, <1>2

LEMMA DownloadingR ==
    ASSUME RInv, [Next]_vars
    PROVE  Downloading'
<1>1. reader \in [Readers -> Reader] /\ \A r \in Readers : Fetched(r)
  BY DEF RInv, Downloading, Fetched
<1>2. CASE UNCHANGED reader
  <2>1. \A r \in Readers : Fetched(r)'
    BY <1>1, <1>2, FetchedStays
  <2>2. QED
    BY <2>1, <1>1, <1>2 DEF Downloading, Fetched
<1>3. ASSUME NEW r \in Readers, DownloadStep(r) PROVE Downloading'
  <2>1. /\ reader' \in [Readers -> Reader]
        /\ \A q \in Readers \ {r} : reader'[q] = reader[q]
    BY <1>1, <1>3 DEF DownloadStep, Download, PathFor, Open, Reader
  <2>2. row' = row /\ bytes' = bytes
    BY <1>3, DownloadKeeps
  <2>3. Fetched(r)'
    <3>1. CASE \E a \in Artifacts : Download(r, a)
      BY <1>1, <3>1 DEF Download, Fetched, Reader
    <3>2. CASE PathFor(r)
      BY <1>1, <2>2, <3>2 DEF PathFor, Served, Fetched, Settled, Reader
    <3>3. CASE Open(r)
      <4>1. /\ reader[r].pc = "opening" /\ reader[r].at \in Artifacts /\ Settled(reader[r].at)
        BY <1>1, <3>3 DEF Open, Fetched
      <4>2. reader[r].at \notin bytes => row[reader[r].at].expired
        BY <4>1 DEF RInv, Vanished
      <4>3. /\ reader'[r].at = reader[r].at
            /\ reader'[r].pc = IF reader[r].at \in bytes THEN "sent" ELSE "broken"
        BY <1>1, <3>3 DEF Open, Reader
      <4>4. QED
        BY <4>1, <4>2, <4>3, <2>2 DEF Fetched, Settled
    <3>4. QED
      BY <1>3, <3>1, <3>2, <3>3 DEF DownloadStep
  <2>4. \A q \in Readers \ {r} : Fetched(q)'
    BY <1>1, <2>1, FetchedStays
  <2>5. QED
    BY <2>1, <2>3, <2>4 DEF Downloading, Fetched
<1>4. QED
  BY <1>2, <1>3, StepIs, EditKeeps, AgeKeeps, PublishKeeps, TickKeeps, DeliveryKeeps
  DEF vars, clients

(* What a delivery record says, told of one delivery.                       *)
Counted(d) ==
    /\ delivery[d].contacts <= MaxSends
    /\ delivery[d].pc = "sending" => delivery[d].contacts < MaxSends
    /\ delivery[d].pc \in {"idle", "refused", "read"} => delivery[d].contacts = 0
    /\ delivery[d].pc \in Contacted => delivery[d].contacts = delivery[d].count + 1
    /\ delivery[d].pc = "dead" =>
         delivery[d].contacts \in {delivery[d].count, delivery[d].count + 1}
    /\ delivery[d].pc \notin Contacted \cup {"dead"} => delivery[d].contacts = delivery[d].count
    /\ delivery[d].pc = "over" => delivery[d].status \in {"sent", "failed"}
    /\ delivery[d].status = "sent" => delivery[d].pc = "over"

LEMMA CountedR ==
    ASSUME RInv, NEW d \in Deliveries, DeliveryStep(d)
    PROVE  /\ delivery' \in [Deliveries -> Delivery]
           /\ \A e \in Deliveries \ {d} : delivery'[e] = delivery[e]
           /\ Counted(d)'
<1> DEFINE old == delivery[d]
<1>1. delivery \in [Deliveries -> Delivery] /\ Counted(d)
  BY DEF RInv, Delivering, Counted
<1>2. /\ old \in Delivery
      /\ old.contacts \in Nat /\ old.count \in Nat /\ MaxSends \in Nat \ {0}
  BY <1>1, PublishingAssumption DEF Delivery
<1>3. CASE \E a \in Artifacts : Deliver(d, a)
  BY <1>1, <1>2, <1>3 DEF Deliver, Delivery, Sending, Counted, Contacted
<1>4. CASE CreateDelivery(d) \/ DeliveryDies(d)
  BY <1>1, <1>2, <1>4 DEF CreateDelivery, DeliveryDies, Delivery, Sending, Counted, Contacted
<1>5. CASE \E o \in Contacted : Send(d, o)
  BY <1>1, <1>2, <1>5 DEF Send, Delivery, Sending, Counted, Contacted
<1>6. CASE RecordAttempt(d)
  <2> DEFINE status == IF old.pc = "delivered" THEN "sent" ELSE "failed"
             pc == IF old.pc = "retryable" /\ old.contacts < MaxSends THEN "sending" ELSE "over"
             next == [old EXCEPT !.count = @ + 1, !.status = status, !.pc = pc]
  <2>1. delivery' = [delivery EXCEPT ![d] = next] /\ old.pc \in Contacted
    BY <1>1, <1>6 DEF RecordAttempt, Contacted
  <2>2. /\ next.pc = pc /\ next.status = status
        /\ next.count = old.count + 1 /\ next.contacts = old.contacts
    BY <1>2 DEF Delivery
  <2>3. next \in Delivery
    <3>1. status \in {"sent", "failed"} /\ pc \in {"sending", "over"} /\ old.count + 1 \in Nat
      BY <1>2
    <3> HIDE DEF status, pc
    <3>2. QED
      BY <3>1, <1>2 DEF Delivery, Sending
  <2> HIDE DEF next
  <2>4. /\ delivery' \in [Deliveries -> Delivery] /\ delivery'[d] = next
        /\ \A e \in Deliveries \ {d} : delivery'[e] = delivery[e]
    BY <1>1, <2>1, <2>3
  <2>5. old.contacts = old.count + 1 /\ old.contacts <= MaxSends
    BY <1>1, <2>1 DEF Counted
  <2>6. QED
    BY <1>2, <2>2, <2>4, <2>5 DEF Counted, Contacted
<1>7. QED
  BY <1>3, <1>4, <1>5, <1>6 DEF DeliveryStep, Contacted

LEMMA DeliveringR ==
    ASSUME RInv, [Next]_vars
    PROVE  Delivering'
<1>1. CASE UNCHANGED delivery
  BY <1>1 DEF RInv, Delivering
<1>2. ASSUME NEW d \in Deliveries, DeliveryStep(d) PROVE Delivering'
  <2>1. \A e \in Deliveries : Counted(e)
    BY DEF RInv, Delivering, Counted
  <2>2. \A e \in Deliveries \ {d} : Counted(e)'
    BY <1>2, <2>1, CountedR DEF Counted
  <2>3. QED
    BY <1>2, <2>2, CountedR DEF Delivering, Counted
<1>3. QED
  BY <1>1, <1>2, StepIs, EditKeeps, AgeKeeps, PublishKeeps, TickKeeps, DownloadKeeps
  DEF vars, clients

-----------------------------------------------------------------------------
(* Deletion attempts *)

LEMMA FailingCounts ==
    ASSUME NEW a
    PROVE  IsFiniteSet(Failing(a)) /\ Cardinality(Failing(a)) \in Nat
<1>1. Failing(a) \subseteq Workers
  BY DEF Failing
<1>2. QED
  BY <1>1, FS_Subset, FS_CardinalityType, PublishingAssumption

LEMMA FaultsRise ==
    ASSUME Failures, [Next]_vars
    PROVE  faults' \in 0..MaxFaults /\ faults' >= faults
<1>1. MaxFaults \in Nat /\ faults \in Nat /\ faults <= MaxFaults
  BY PublishingAssumption DEF Failures
<1>2. CASE Fault
  BY <1>1, <1>2 DEF Fault
<1>3. CASE UNCHANGED faults
  BY <1>1, <1>3
<1>4. Fault \/ UNCHANGED faults
  <2>1. CASE \E p \in Publications : PublishStep(p)
    BY <2>1 DEF PublishStep, LoadDefinition, RecordPending, CompileFails, WriteBytes, WriteFails,
       RecordUnwritten, RecordUnwrittenFails, CleanupFails, RecordReady, CreateExecution,
       CreateFailed, FinishExecution, AnswerRun,
       PublisherDies
  <2>2. CASE \E w \in Workers : TickStep(w)
    BY <2>2 DEF TickStep, ClaimExpired, Discard, DiscardFails, MarkDeleted,
       RecordDeletionFailure, WorkerDies
  <2>3. CASE AgeStep
    BY <2>3 DEF AgeStep, Expire, ClaimAges
  <2>4. CASE \E d \in Deliveries : DeliveryStep(d)
    BY <2>4 DEF DeliveryStep, Deliver, CreateDelivery, RecordAttempt, DeliveryDies, Send
  <2>5. QED
    BY <2>1, <2>2, <2>3, <2>4, StepIs, EditKeeps, DownloadKeeps DEF vars
<1>5. QED
  BY <1>2, <1>3, <1>4

LEMMA FailuresR ==
    ASSUME RInv, [Next]_vars
    PROVE  Failures'
<1>1. /\ row \in [Artifacts -> Stored] /\ worker \in [Workers -> Tick]
      /\ \A a \in Artifacts : row[a].attempts \in Nat
      /\ faults \in Nat
  BY PublishingAssumption DEF RInv, IInv, Shape, Stored, Failures
<1>2. faults' \in 0..MaxFaults /\ faults' \in Nat /\ faults' >= faults
  BY FaultsRise, PublishingAssumption DEF RInv
<1>3. \A a \in Artifacts : row[a].attempts + Cardinality(Failing(a)) <= faults
  BY DEF RInv, Failures
<1>4. ASSUME NEW a \in Artifacts, row'[a].attempts = row[a].attempts, Failing(a)' \subseteq Failing(a)
      PROVE  row'[a].attempts + Cardinality(Failing(a)') <= faults'
  <2>1. /\ Cardinality(Failing(a)') \in Nat /\ Cardinality(Failing(a)) \in Nat
        /\ Cardinality(Failing(a)') <= Cardinality(Failing(a))
    BY <1>4, FailingCounts, FS_Subset, FS_CardinalityType
  <2>2. QED
    BY <2>1, <1>1, <1>2, <1>3, <1>4
<1>5. ASSUME NEW a \in Artifacts PROVE row'[a].attempts + Cardinality(Failing(a)') <= faults'
  <2>1. CASE \E w \in Workers, b \in Artifacts : DiscardFails(w, b)
    <3>1. PICK w \in Workers, b \in Artifacts : DiscardFails(w, b)
      BY <2>1
    <3>2. /\ worker' = [worker EXCEPT ![w].pc = "undeleted", ![w].at = b]
          /\ row' = row /\ faults' = faults + 1
      BY <3>1 DEF DiscardFails, Fault
    <3>3. Failing(a)' \subseteq Failing(a) \cup {w}
      BY <3>2, <1>1 DEF Failing
    <3>4. /\ IsFiniteSet(Failing(a) \cup {w})
          /\ Cardinality(Failing(a) \cup {w}) \in Nat
          /\ Cardinality(Failing(a) \cup {w}) <= Cardinality(Failing(a)) + 1
      <4>1. CASE w \in Failing(a)
        <5>1. Failing(a) \cup {w} = Failing(a)
          BY <4>1
        <5>2. QED
          BY <5>1, FailingCounts
      <4>2. CASE w \notin Failing(a)
        <5>1. /\ IsFiniteSet(Failing(a) \cup {w})
              /\ Cardinality(Failing(a) \cup {w}) = Cardinality(Failing(a)) + 1
          BY <4>2, FailingCounts, FS_AddElement
        <5>2. QED
          BY <5>1, FailingCounts
      <4>3. QED
        BY <4>1, <4>2
    <3>5. /\ Cardinality(Failing(a)') \in Nat
          /\ Cardinality(Failing(a)') <= Cardinality(Failing(a) \cup {w})
      BY <3>3, <3>4, FS_Subset, FS_CardinalityType
    <3>6. Cardinality(Failing(a)) \in Nat
      BY FailingCounts
    <3>7. QED
      BY <3>2, <3>4, <3>5, <3>6, <1>1, <1>3
  <2>2. CASE \E w \in Workers : RecordDeletionFailure(w)
    <3>1. PICK w \in Workers : RecordDeletionFailure(w)
      BY <2>2
    <3> DEFINE b == worker[w].at
    <3>2. /\ b \in Artifacts /\ worker[w].pc = "undeleted"
          /\ row' = [row EXCEPT ![b].attempts = @ + 1, ![b].claim = "none"]
          /\ worker' = [worker EXCEPT ![w] = Onward(w)] /\ faults' = faults
      BY <3>1 DEF RecordDeletionFailure, RInv, IInv, AtWork, Shape, Tick
    <3>3. /\ worker'[w].pc # "undeleted"
          /\ \A v \in Workers \ {w} : worker'[v] = worker[v]
      BY <3>2, OnwardTodo DEF RInv, IInv
    <3>4. Failing(a)' = Failing(a) \ {w}
      BY <3>3 DEF Failing
    <3>5. CASE a # b
      <4>1. row'[a].attempts = row[a].attempts
        BY <3>2, <3>5, <1>1
      <4>2. QED
        BY <4>1, <3>4, <1>4
    <3>6. CASE a = b
      <4>1. w \in Failing(a)
        BY <3>2, <3>6 DEF Failing
      <4>2. Cardinality(Failing(a)') = Cardinality(Failing(a)) - 1
        BY <4>1, <3>4, FailingCounts, FS_RemoveElement
      <4>3. row'[a].attempts = row[a].attempts + 1
        BY <3>2, <3>6, <1>1 DEF Stored
      <4>4. QED
        BY <4>2, <4>3, <3>2, <1>1, <1>3, FailingCounts
    <3>7. QED
      BY <3>5, <3>6
  <2>3. CASE /\ ~\E w \in Workers, b \in Artifacts : DiscardFails(w, b)
             /\ ~\E w \in Workers : RecordDeletionFailure(w)
    <3>1. CASE \E w \in Workers : TickStep(w)
      <4>1. PICK w \in Workers : TickStep(w)
        BY <3>1
      <4>2. row'[a].attempts = row[a].attempts
        BY <4>1, <2>3, <1>1 DEF TickStep, ClaimExpired, Discard, MarkDeleted, WorkerDies, Stored
      <4>3. /\ worker'[w].pc # "undeleted"
            /\ \A v \in Workers \ {w} : worker'[v] = worker[v]
        <5>1. CASE MarkDeleted(w)
          BY <5>1, OnwardTodo DEF MarkDeleted, RInv, IInv
        <5>2. CASE ~MarkDeleted(w)
          BY <5>2, <4>1, <2>3, <1>1 DEF TickStep, ClaimExpired, Discard, WorkerDies, Tick
        <5>3. QED
          BY <5>1, <5>2
      <4>4. Failing(a)' \subseteq Failing(a)
        BY <4>3 DEF Failing
      <4>5. QED
        BY <4>2, <4>4, <1>4
    <3>2. CASE UNCHANGED worker /\ row'[a].attempts = row[a].attempts
      <4>1. Failing(a)' = Failing(a)
        BY <3>2 DEF Failing
      <4>2. QED
        BY <4>1, <3>2, <1>4
    <3>3. CASE AgeStep
      <4>1. PICK b \in Artifacts : Expire(b) \/ ClaimAges(b)
        BY <3>3 DEF AgeStep
      <4>2. row'[a].attempts = row[a].attempts
        BY <4>1, <1>1 DEF Expire, ClaimAges, Stored
      <4>3. QED
        BY <4>2, <3>2, <3>3, AgeKeeps
    <3>4. CASE \E p \in Publications : PublishStep(p)
      <4>1. PICK p \in Publications : PublishStep(p)
        BY <3>4
      <4>2. row'[a].attempts = row[a].attempts
        BY <4>1, <1>1 DEF PublishStep, LoadDefinition, RecordPending, CompileFails, WriteBytes,
           WriteFails, RecordUnwritten, RecordUnwrittenFails, CleanupFails, RecordReady,
           CreateExecution, CreateFailed,
           FinishExecution, AnswerRun, PublisherDies, Stored
      <4>3. QED
        BY <4>1, <4>2, <3>2, PublishKeeps DEF retention
    <3>5. QED
      BY <3>1, <3>2, <3>3, <3>4, StepIs, EditKeeps, DownloadKeeps, DeliveryKeeps
      DEF vars, retention
  <2>4. QED
    BY <2>1, <2>2, <2>3
<1>6. QED
  BY <1>2, <1>5 DEF Failures

-----------------------------------------------------------------------------
LEMMA NextR == RInv /\ [Next]_vars => RInv'
<1> SUFFICES ASSUME RInv, [Next]_vars PROVE RInv'
  OBVIOUS
<1>1. IInv'
  BY NextInv DEF RInv
<1>2. Editing' /\ Editions' /\ EditionsAreUnique'
  BY EditingR
<1>3. Executing' /\ PendingIsOwned'
  BY ExecutingR, PendingR
<1>4. OnRecord' /\ Vanished' /\ Failures'
  BY RegisteredR, VanishedR, FailuresR
<1>5. Downloading' /\ Delivering'
  BY DownloadingR, DeliveringR
<1>6. QED
  BY <1>1, <1>2, <1>3, <1>4, <1>5 DEF RInv

LEMMA RecordsInvariant == Spec => []RInv
BY InitR, NextR, PTL DEF Spec

(* Every record agrees with what was done, for any number of requests: two  *)
(* edits share a version only where a stale write set it back, a completed  *)
(* execution registered every document it lists, a pending row has a        *)
(* publication that is writing it or died, or is left by a failed write     *)
(* that was not cleaned up, a download sends only what was published, and a *)
(* delivery's attempt count trails its contacts by one at most              *)
(* (reports/store.py, routes/reports.py, artifacts/, deliveries/).          *)
THEOREM RecordsAreAlwaysTrue == Spec => []RecordsAreTrue
<1>1. ASSUME RInv PROVE RecordsAreTrue
  <2>1. TypeOK
    <3>1. report \in [version : 1..(Cardinality(Edits) + 1), archived : BOOLEAN, investigate : BOOLEAN]
      <4>1. /\ report \in [version : Nat \ {0}, archived : BOOLEAN, investigate : BOOLEAN]
            /\ report.version <= Cardinality(Done) + 1
        BY <1>1 DEF RInv, Editing
      <4>2. /\ Cardinality(Done) <= Cardinality(Edits)
            /\ Cardinality(Done) \in Nat /\ Cardinality(Edits) \in Nat
        BY EditsCount, PublishingAssumption
      <4>3. report.version \in 1..(Cardinality(Edits) + 1)
        BY <4>1, <4>2
      <4>4. QED
        BY <4>1, <4>3
    <3>2. \A e \in Edits : /\ edit[e].pc \in {"idle", "read", "done", "conflict"}
                           /\ edit[e].expected \in 0..Cardinality(Edits)
      BY <1>1, EditsCount, PublishingAssumption DEF RInv, Editing, Edition
    <3>3. row \in [Artifacts -> Row]
      <4>1. \A a \in Artifacts : row[a].attempts \in 0..(MaxAttempts + MaxFaults)
        <5>1. ASSUME NEW a \in Artifacts PROVE row[a].attempts \in 0..(MaxAttempts + MaxFaults)
          <6>1. /\ row[a].attempts \in Nat /\ Cardinality(Failing(a)) \in Nat
                /\ row[a].attempts + Cardinality(Failing(a)) <= faults
                /\ faults \in 0..MaxFaults
                /\ MaxFaults \in Nat /\ MaxAttempts \in Nat
            BY <1>1, FailingCounts, PublishingAssumption DEF RInv, IInv, Shape, Stored, Failures
          <6>2. QED
            BY <6>1
        <5>2. QED
          BY <5>1
      <4>2. QED
        BY <1>1, <4>1 DEF RInv, IInv, Shape, Stored, Statuses, Row
    <3>4. bytes \subseteq {a \in Artifacts : row[a].status # "none"}
      BY <1>1 DEF RInv, IInv, Shape, OnRecord
    <3>5. /\ \A p \in Publications : pub[p].docs \subseteq Artifacts /\ pub[p].left \in 0..2
          /\ execution \in [Publications ->
               [status : {"none", "running", "completed", "failed"}, named : BOOLEAN]]
          /\ \A w \in Workers : worker[w].todo \subseteq Artifacts
      BY <1>1 DEF RInv, IInv, Shape, Publisher, Tick, Executing, ExecutionRow
    <3>6. \A d \in Deliveries :
             delivery[d].contacts \in 0..MaxSends /\ delivery[d].count \in 0..MaxSends
      BY <1>1, PublishingAssumption DEF RInv, Delivering, Delivery, Sending, Contacted
    <3>7. faults \in 0..MaxFaults
      BY <1>1 DEF RInv, Failures
    <3>8. QED
      BY <3>1, <3>2, <3>3, <3>4, <3>5, <3>6, <3>7 DEF TypeOK
  <2>2. ExecutionsTellTheTruth
    BY <1>1 DEF RInv, Executing, Settled, ExecutionsTellTheTruth
  <2>3. ReadersSeePublished
    BY <1>1 DEF RInv, Downloading, Settled, ReadersSeePublished
  <2>4. AttemptsAreContacts
    <3>1. ASSUME NEW d \in Deliveries
          PROVE  delivery[d].contacts - delivery[d].count \in {0, 1}
      BY <1>1 DEF RInv, Delivering, Delivery
    <3>2. QED
      BY <1>1, <3>1 DEF RInv, Delivering, Contacted, AttemptsAreContacts
  <2>5. QED
    BY <1>1, <2>1, <2>2, <2>3, <2>4 DEF RInv, RecordsAreTrue
<1>2. QED
  BY <1>1, RecordsInvariant, PTL

-----------------------------------------------------------------------------
(* Natural numbers                                                           *)

LEMMA LeastOf ==
    ASSUME NEW T \in SUBSET Nat, T # {}
    PROVE  \E n \in T : \A m \in T : n <= m
<1> DEFINE R == OpToRel(<, Nat)
<1>1. \A x, y \in Nat : <<x, y>> \in R <=> x < y
  BY DEF OpToRel
<1>2. IsWellFoundedOn(R, Nat)
  BY NatLessThanWellFounded
<1> HIDE DEF R
<1>3. PICK n \in T : \A m \in T : ~(<<m, n>> \in R)
  BY <1>2, WFMin
<1>4. \A m \in T : n <= m
  <2> TAKE m \in T
  <2>1. ~(m < n)
    BY <1>1, <1>3
  <2>2. QED
    BY <2>1
<1>5. QED
  BY <1>4

(* What holds of 0, and of n + 1 whenever it holds of n                      *)
LEMMA Induction ==
    ASSUME NEW S, 0 \in S, \A n \in Nat : n \in S => n + 1 \in S
    PROVE  \A n \in Nat : n \in S
<1> DEFINE T == {n \in Nat : n \notin S}
<1> SUFFICES ASSUME T # {} PROVE FALSE
  OBVIOUS
<1>1. PICK n \in T : \A m \in T : n <= m
  <2>1. T \in SUBSET Nat
    OBVIOUS
  <2> HIDE DEF T
  <2>2. QED
    BY <2>1, LeastOf
<1>2. n # 0 /\ n - 1 \in Nat /\ n - 1 \notin T
  BY <1>1
<1>3. QED
  BY <1>1, <1>2


LEMMA LeastIs ==
    ASSUME NEW T \in SUBSET Nat, T # {}
    PROVE  Min(T) \in T /\ \A m \in T : Min(T) <= m
BY LeastOf DEF Min

LEMMA LesserOfTwo ==
    ASSUME NEW a \in Nat, NEW b \in Nat
    PROVE  Min({a, b}) = IF a <= b THEN a ELSE b
<1> DEFINE Least2(x) == x \in {a, b} /\ \A y \in {a, b} : x <= y
           lesser == IF a <= b THEN a ELSE b
<1>1. Min({a, b}) = CHOOSE x : Least2(x)
  BY DEF Min
<1>2. \A x : Least2(x) <=> x = lesser
  OBVIOUS
<1> HIDE DEF Least2, lesser
<1>3. (CHOOSE x : Least2(x)) = lesser
  BY <1>2
<1>4. QED
  BY <1>1, <1>3 DEF lesser

LEMMA MaxOfTwo ==
    ASSUME NEW a \in Nat, NEW b \in Nat
    PROVE  Max({a, b}) = IF a <= b THEN b ELSE a
<1> DEFINE Greatest(x) == x \in {a, b} /\ \A y \in {a, b} : x >= y
           greater == IF a <= b THEN b ELSE a
<1>1. Max({a, b}) = CHOOSE x : Greatest(x)
  BY DEF Max
<1>2. \A x : Greatest(x) <=> x = greater
  OBVIOUS
<1> HIDE DEF Greatest, greater
<1>3. (CHOOSE x : Greatest(x)) = greater
  BY <1>2
<1>4. QED
  BY <1>1, <1>3 DEF greater

(* A function that starts at a and takes a step for each of 1..n *)
Steps(f, a, step, n) == f[0] = a /\ \A i \in 1..n : f[i] = step[i][f[i - 1]]

LEMMA StepsExist ==
    ASSUME NEW X, NEW a \in X, NEW n \in Nat, NEW step \in [1..n -> [X -> X]]
    PROVE  \E f \in [0..n -> X] : Steps(f, a, step, n)
<1> USE DEF Steps
<1> DEFINE Goes(f, m) == f[0] = a /\ \A i \in 1..m : f[i] = step[i][f[i - 1]]
           Good(m) == \E f \in [0..m -> X] : Goes(f, m)
           T == {m \in Nat : m <= n => Good(m)}
<1>1. 0 \in T
  <2>1. PICK f : f = [i \in 0..0 |-> a]
    OBVIOUS
  <2>2. f \in [0..0 -> X] /\ Goes(f, 0)
    BY <2>1
  <2>3. QED
    BY <2>2
<1>2. ASSUME NEW m \in Nat, m \in T PROVE m + 1 \in T
  <2> SUFFICES ASSUME m + 1 <= n PROVE Good(m + 1)
    OBVIOUS
  <2>1. PICK f \in [0..m -> X] : Goes(f, m)
    BY <1>2
  <2> DEFINE last == step[m + 1][f[m]]
             g == [i \in 0..(m + 1) |-> IF i = m + 1 THEN last ELSE f[i]]
  <2>2. f[m] \in X /\ m + 1 \in 1..n
    OBVIOUS
  <2>3. last \in X
    BY <2>2
  <2>4. g \in [0..(m + 1) -> X]
    <3> HIDE DEF last
    <3>1. QED
      BY <2>3
  <2>5. /\ \A i \in 0..m : g[i] = f[i]
        /\ g[m + 1] = last
    <3> HIDE DEF last
    <3>1. QED
      OBVIOUS
  <2> HIDE DEF g
  <2>6. Goes(g, m + 1)
    <3>1. g[0] = a
      BY <2>1, <2>5
    <3>2. ASSUME NEW i \in 1..(m + 1) PROVE g[i] = step[i][g[i - 1]]
      <4>1. i - 1 \in 0..m /\ g[i - 1] = f[i - 1]
        BY <2>5
      <4>2. CASE i = m + 1
        <5>1. g[i] = last /\ i - 1 = m
          BY <2>5, <4>2
        <5>2. QED
          BY <4>1, <4>2, <5>1
      <4>3. CASE i # m + 1
        <5>1. i \in 1..m /\ i \in 0..m
          BY <4>3
        <5>2. QED
          BY <2>1, <2>5, <4>1, <5>1
      <4>4. QED
        BY <4>2, <4>3
    <3>3. QED
      BY <3>1, <3>2
  <2>7. QED
    BY <2>4, <2>6
<1> HIDE DEF Good
<1>3. \A m \in Nat : m \in T
  <2> HIDE DEF T
  <2>1. QED
    BY <1>1, <1>2, Induction
<1>4. QED
  BY <1>3 DEF Good

(* Two recursive definitions with the same steps are of one function.        *)
SameSteps(f, h, n) == f[0] = h[0] /\ \A i \in 1..n : f[i - 1] = h[i - 1] => f[i] = h[i]

LEMMA Agree ==
    ASSUME NEW n \in Nat, NEW f, NEW h, SameSteps(f, h, n)
    PROVE  \A i \in 0..n : f[i] = h[i]
<1> USE DEF SameSteps
<1> DEFINE T == {i \in Nat : i \in 0..n => f[i] = h[i]}
<1>1. 0 \in T
  OBVIOUS
<1>2. ASSUME NEW i \in Nat, i \in T PROVE i + 1 \in T
  <2> SUFFICES ASSUME i + 1 \in 0..n PROVE f[i + 1] = h[i + 1]
    OBVIOUS
  <2>1. i + 1 \in 1..n /\ (i + 1) - 1 = i /\ i \in 0..n
    OBVIOUS
  <2>2. f[i] = h[i]
    BY <1>2, <2>1
  <2>3. f[(i + 1) - 1] = h[(i + 1) - 1] => f[i + 1] = h[i + 1]
    BY <2>1
  <2>4. QED
    BY <2>1, <2>2, <2>3
<1>3. \A i \in Nat : i \in T
  <2> HIDE DEF T
  <2>1. QED
    BY <1>1, <1>2, Induction
<1>4. QED
  BY <1>3

-----------------------------------------------------------------------------
(* Sums over finite sets                                                     *)

(* What holds of no elements, and of one more whenever it holds of some.      *)
LEMMA FiniteInduction ==
    ASSUME NEW D, IsFiniteSet(D), NEW G, {} \in G,
           \A A \in SUBSET D : A \in G => \A x \in D \ A : A \cup {x} \in G
    PROVE  \A A \in SUBSET D : A \in G
<1> DEFINE T == {n \in Nat : \A A \in SUBSET D : Cardinality(A) = n => A \in G}
<1>1. \A A \in SUBSET D : IsFiniteSet(A) /\ Cardinality(A) \in Nat
  BY FS_Subset, FS_CardinalityType
<1>2. 0 \in T
  <2>1. \A A \in SUBSET D : Cardinality(A) = 0 => A = {}
    BY <1>1, FS_EmptySet
  <2>2. QED
    BY <2>1
<1>3. ASSUME NEW n \in Nat, n \in T PROVE n + 1 \in T
  <2> SUFFICES ASSUME NEW A \in SUBSET D, Cardinality(A) = n + 1 PROVE A \in G
    OBVIOUS
  <2>1. A # {}
    <3>1. Cardinality({}) = 0
      BY FS_EmptySet
    <3>2. QED
      BY <3>1
  <2>2. PICK x \in A : TRUE
    BY <2>1
  <2>3. Cardinality(A \ {x}) = n
    <3>1. IsFiniteSet(A)
      BY <1>1
    <3>2. Cardinality(A \ {x}) = Cardinality(A) - 1
      BY <2>2, <3>1, FS_RemoveElement
    <3>3. QED
      BY <3>2
  <2>4. A \ {x} \in SUBSET D /\ A \ {x} \in G
    BY <1>3, <2>3
  <2>5. x \in D \ (A \ {x}) /\ (A \ {x}) \cup {x} = A
    OBVIOUS
  <2>6. QED
    BY <2>4, <2>5
<1> HIDE DEF T
<1>4. \A n \in Nat : n \in T
  BY <1>2, <1>3, Induction
<1>5. QED
  BY <1>1, <1>4 DEF T

(* A function of the subsets of a set that adds up the values on each, taking *)
(* away the element that CHOOSE picks.                                        *)
Pick(s) == CHOOSE x \in s : TRUE
Adds(h, f, s) == h[s] = IF s = {} THEN 0 ELSE f[Pick(s)] + h[s \ {Pick(s)}]
AddsOn(h, f, S) == h \in [SUBSET S -> Int] /\ \A s \in SUBSET S : Adds(h, f, s)
Iterates(h, f, S) == h = [s \in SUBSET S |-> IF s = {} THEN 0 ELSE f[Pick(s)] + h[s \ {Pick(s)}]]
AreNumbers(f, S) == \A x \in S : f[x] \in Int

LEMMA SumIs ==
    ASSUME NEW f, NEW S
    PROVE  SumFunctionOnSet(f, S) = (CHOOSE h : Iterates(h, f, S))[S]
BY DEF SumFunctionOnSet, FoldFunctionOnSet, MapThenFoldSet, Iterates, Pick

LEMMA Picked == ASSUME NEW s, s # {} PROVE Pick(s) \in s
BY DEF Pick

LEMMA AddsExist ==
    ASSUME NEW S, IsFiniteSet(S), NEW f, AreNumbers(f, S)
    PROVE  \E h : AddsOn(h, f, S)
<1> DEFINE Small(n) == {s \in SUBSET S : Cardinality(s) <= n}
           Good(n) == \E h \in [Small(n) -> Int] : \A s \in Small(n) : Adds(h, f, s)
           T == {n \in Nat : Good(n)}
<1>1. \A s \in SUBSET S : IsFiniteSet(s) /\ Cardinality(s) \in Nat /\ Cardinality(s) <= Cardinality(S)
  BY FS_Subset, FS_CardinalityType
<1>8. \A s \in SUBSET S : Cardinality(s) = 0 => s = {}
  BY <1>1, FS_EmptySet
<1>9. \A s \in SUBSET S : s # {} => Pick(s) \in s /\ s \ {Pick(s)} \in SUBSET S
  BY Picked
<1>10. \A s \in SUBSET S : s # {} => Cardinality(s \ {Pick(s)}) = Cardinality(s) - 1
  BY <1>1, <1>9, FS_RemoveElement
<1>2. 0 \in T
  <2> DEFINE h == [s \in Small(0) |-> 0]
  <2>1. \A s \in Small(0) : s = {}
    <3>1. \A s \in Small(0) : s \in SUBSET S /\ Cardinality(s) <= 0
      OBVIOUS
    <3>2. QED
      BY <1>1, <1>8, <3>1
  <2>2. h \in [Small(0) -> Int] /\ \A s \in Small(0) : Adds(h, f, s)
    BY <2>1 DEF Adds
  <2>3. QED
    BY <2>2
<1>3. ASSUME NEW n \in Nat, n \in T PROVE n + 1 \in T
  <2>10. Good(n)
    BY <1>3
  <2>1. PICK g \in [Small(n) -> Int] : \A s \in Small(n) : Adds(g, f, s)
    BY <2>10
  <2> DEFINE h == [s \in Small(n + 1) |-> IF s = {} THEN 0 ELSE f[Pick(s)] + g[s \ {Pick(s)}]]
  <2>2. \A s \in Small(n) : s \in Small(n + 1)
    BY <1>1
  <2>3. \A s \in Small(n + 1) : s # {} => Pick(s) \in s /\ s \ {Pick(s)} \in Small(n)
    <3> SUFFICES ASSUME NEW s \in SUBSET S, Cardinality(s) <= n + 1, s # {}
                 PROVE  Pick(s) \in s /\ s \ {Pick(s)} \in SUBSET S /\ Cardinality(s \ {Pick(s)}) <= n
      OBVIOUS
    <3>1. Cardinality(s \ {Pick(s)}) = Cardinality(s) - 1 /\ Cardinality(s) \in Nat
      BY <1>1, <1>10
    <3>2. QED
      BY <1>9, <3>1
  <2>4. h \in [Small(n + 1) -> Int]
    <3>1. \A s \in Small(n + 1) : s # {} => f[Pick(s)] \in Int /\ g[s \ {Pick(s)}] \in Int
      BY <2>1, <2>3 DEF AreNumbers
    <3>2. \A s \in Small(n + 1) : (IF s = {} THEN 0 ELSE f[Pick(s)] + g[s \ {Pick(s)}]) \in Int
      BY <3>1
    <3> HIDE DEF Small
    <3>3. QED
      BY <3>2
  <2>5. \A s \in Small(n) : h[s] = g[s]
    BY <2>1, <2>2 DEF Adds
  <2>6. \A s \in Small(n + 1) : h[s] = IF s = {} THEN 0 ELSE f[Pick(s)] + g[s \ {Pick(s)}]
    OBVIOUS
  <2> HIDE DEF h, Small
  <2>7. \A s \in Small(n + 1) : Adds(h, f, s)
    BY <2>3, <2>5, <2>6 DEF Adds
  <2>8. Good(n + 1)
    BY <2>4, <2>7
  <2>9. QED
    BY <2>8
<1> HIDE DEF T
<1>4. Cardinality(S) \in T
  BY <1>2, <1>3, Induction, FS_CardinalityType
<1>5. Small(Cardinality(S)) = SUBSET S
  BY <1>1
<1>6. Good(Cardinality(S))
  BY <1>4 DEF T
<1> HIDE DEF Small
<1>7. QED
  BY <1>5, <1>6 DEF AddsOn

(* The sum depends on the values alone.                                      *)
BothAdd(h, f, g, k, S) == \A s \in SUBSET S : Adds(h, f, s) /\ Adds(g, k, s)

LEMMA AddsAgree ==
    ASSUME NEW S, IsFiniteSet(S), NEW f, NEW k, \A x \in S : f[x] = k[x],
           NEW h, NEW g, BothAdd(h, f, g, k, S)
    PROVE  \A s \in SUBSET S : h[s] = g[s]
<1> USE DEF BothAdd
<1> DEFINE T == {n \in Nat : \A s \in SUBSET S : Cardinality(s) = n => h[s] = g[s]}
<1>1. \A s \in SUBSET S : IsFiniteSet(s) /\ Cardinality(s) \in Nat
  BY FS_Subset, FS_CardinalityType
<1>2. 0 \in T
  <2>1. \A s \in SUBSET S : Cardinality(s) = 0 => s = {}
    BY <1>1, FS_EmptySet
  <2>2. QED
    BY <2>1 DEF Adds
<1>3. ASSUME NEW n \in Nat, n \in T PROVE n + 1 \in T
  <2> SUFFICES ASSUME NEW s \in SUBSET S, Cardinality(s) = n + 1 PROVE h[s] = g[s]
    OBVIOUS
  <2>1. s # {}
    <3>1. Cardinality({}) = 0
      BY FS_EmptySet
    <3>2. QED
      BY <3>1
  <2>2. Pick(s) \in s
    BY <2>1, Picked
  <2>3. Cardinality(s \ {Pick(s)}) = n
    <3> DEFINE p == Pick(s)
    <3>1. p \in s
      BY <2>2
    <3> HIDE DEF p
    <3>2. IsFiniteSet(s)
      BY <1>1
    <3>3. Cardinality(s \ {p}) = Cardinality(s) - 1
      BY <3>1, <3>2, FS_RemoveElement
    <3>4. Cardinality(s \ {p}) = n
      BY <3>3
    <3>5. QED
      BY <3>4 DEF p
  <2>4. s \ {Pick(s)} \in SUBSET S /\ h[s \ {Pick(s)}] = g[s \ {Pick(s)}]
    BY <1>3, <2>3
  <2>5. QED
    BY <2>1, <2>2, <2>4 DEF Adds
<1> HIDE DEF T
<1>4. \A n \in Nat : n \in T
  BY <1>2, <1>3, Induction
<1>5. QED
  BY <1>1, <1>4 DEF T

LEMMA IteratesAdds ==
    ASSUME NEW h, NEW f, NEW S, Iterates(h, f, S)
    PROVE  \A s \in SUBSET S : Adds(h, f, s)
<1> TAKE s \in SUBSET S
<1> DEFINE g == [t \in SUBSET S |-> IF t = {} THEN 0 ELSE f[Pick(t)] + h[t \ {Pick(t)}]]
<1>1. h = g
  BY DEF Iterates
<1>2. g[s] = IF s = {} THEN 0 ELSE f[Pick(s)] + h[s \ {Pick(s)}]
  OBVIOUS
<1> HIDE DEF g
<1>3. QED
  BY <1>1, <1>2 DEF Adds

LEMMA SumAdds ==
    ASSUME NEW S, IsFiniteSet(S), NEW f, AreNumbers(f, S)
    PROVE  \E h : AddsOn(h, f, S) /\ SumFunctionOnSet(f, S) = h[S]
<1> DEFINE g == CHOOSE h : Iterates(h, f, S)
<1>1. PICK h : AddsOn(h, f, S)
  BY AddsExist
<1>2. Iterates(h, f, S)
  BY <1>1 DEF AddsOn, Adds, Iterates
<1>3. Iterates(g, f, S)
  BY <1>2
<1>4. SumFunctionOnSet(f, S) = g[S]
  BY SumIs
<1> HIDE DEF g
<1>5. \A s \in SUBSET S : Adds(g, f, s)
  BY <1>3, IteratesAdds
<1>6. BothAdd(h, f, g, f, S)
  BY <1>1, <1>5 DEF AddsOn, BothAdd
<1>8. \A s \in SUBSET S : h[s] = g[s]
  BY <1>6, AddsAgree
<1>7. QED
  BY <1>1, <1>4, <1>8

(* Any element may be taken away first.                                      *)
LEMMA AddsAnyway ==
    ASSUME NEW S, IsFiniteSet(S), NEW f, AreNumbers(f, S), NEW h, AddsOn(h, f, S)
    PROVE  \A s \in SUBSET S : \A x \in s : h[s] = f[x] + h[s \ {x}]
<1> DEFINE T == {n \in Nat : \A s \in SUBSET S : Cardinality(s) = n => \A x \in s : h[s] = f[x] + h[s \ {x}]}
<1>1. \A s \in SUBSET S : IsFiniteSet(s) /\ Cardinality(s) \in Nat /\ h[s] \in Int
  BY FS_Subset, FS_CardinalityType DEF AddsOn
<1>2. 0 \in T
  <2>1. \A s \in SUBSET S : Cardinality(s) = 0 => s = {}
    BY <1>1, FS_EmptySet
  <2>2. QED
    BY <2>1
<1>3. ASSUME NEW n \in Nat, n \in T PROVE n + 1 \in T
  <2> SUFFICES ASSUME NEW s \in SUBSET S, Cardinality(s) = n + 1, NEW x \in s PROVE h[s] = f[x] + h[s \ {x}]
    OBVIOUS
  <2> DEFINE p == Pick(s)
  <2>1. p \in s
    BY Picked
  <2>2. h[s] = f[p] + h[s \ {p}]
    BY <2>1 DEF AddsOn, Adds
  <2> HIDE DEF p
  <2>3. CASE x = p
    BY <2>2, <2>3
  <2>4. CASE x # p
    <3>1. Cardinality(s \ {p}) = n /\ Cardinality(s \ {x}) = n
      BY <1>1, <2>1, FS_RemoveElement
    <3>2. h[s \ {p}] = f[x] + h[(s \ {p}) \ {x}]
      <4>1. s \ {p} \in SUBSET S /\ x \in s \ {p}
        BY <2>4
      <4>2. QED
        BY <1>3, <3>1, <4>1
    <3>3. h[s \ {x}] = f[p] + h[(s \ {x}) \ {p}]
      <4>1. s \ {x} \in SUBSET S /\ p \in s \ {x}
        BY <2>1, <2>4
      <4>2. QED
        BY <1>3, <3>1, <4>1
    <3>4. (s \ {p}) \ {x} = (s \ {x}) \ {p} /\ (s \ {x}) \ {p} \in SUBSET S
      OBVIOUS
    <3>5. f[x] \in Int /\ f[p] \in Int /\ h[(s \ {x}) \ {p}] \in Int
      BY <1>1, <2>1, <3>4 DEF AreNumbers
    <3> DEFINE rest == h[(s \ {x}) \ {p}]
    <3>6. h[s \ {p}] = f[x] + rest /\ h[s \ {x}] = f[p] + rest /\ rest \in Int
      BY <3>2, <3>3, <3>4, <3>5
    <3> HIDE DEF rest
    <3>7. QED
      BY <2>2, <3>5, <3>6
  <2>5. QED
    BY <2>3, <2>4
<1> HIDE DEF T
<1>4. \A n \in Nat : n \in T
  BY <1>2, <1>3, Induction
<1>5. QED
  BY <1>1, <1>4 DEF T

LEMMA SumNone == \A f : SumFunctionOnSet(f, {}) = 0
<1> TAKE f
<1>1. PICK h : AddsOn(h, f, {}) /\ SumFunctionOnSet(f, {}) = h[{}]
  BY FS_EmptySet, SumAdds DEF AreNumbers
<1>2. QED
  BY <1>1 DEF AddsOn, Adds

(* The sum over a set is that of one element and of the others.              *)
LEMMA SumMore ==
    ASSUME NEW S, IsFiniteSet(S), NEW f, AreNumbers(f, S), NEW x \in S
    PROVE  /\ SumFunctionOnSet(f, S) = f[x] + SumFunctionOnSet(f, S \ {x})
           /\ SumFunctionOnSet(f, S \ {x}) \in Int
<1> DEFINE R == S \ {x}
<1>1. PICK h : AddsOn(h, f, S) /\ SumFunctionOnSet(f, S) = h[S]
  BY SumAdds
<1>2. IsFiniteSet(R) /\ AreNumbers(f, R)
  BY FS_Subset DEF AreNumbers
<1> HIDE DEF R
<1>3. PICK g : AddsOn(g, f, R) /\ SumFunctionOnSet(f, R) = g[R]
  BY <1>2, SumAdds
<1>4. h[S] = f[x] + h[S \ {x}]
  BY <1>1, AddsAnyway
<1>5. \A s \in SUBSET R : Adds(h, f, s) /\ Adds(g, f, s)
  <2>1. \A s \in SUBSET R : s \in SUBSET S
    BY DEF R
  <2>2. QED
    BY <1>1, <1>3, <2>1 DEF AddsOn
<1>9. BothAdd(h, f, g, f, R)
  BY <1>5 DEF BothAdd
<1>10. \A s \in SUBSET R : h[s] = g[s]
  BY <1>2, <1>9, AddsAgree
<1>6. h[R] = g[R]
  BY <1>10
<1>7. g[R] \in Int
  BY <1>3 DEF AddsOn
<1>8. QED
  BY <1>1, <1>3, <1>4, <1>6, <1>7 DEF R

LEMMA SumIsInt ==
    ASSUME NEW S, IsFiniteSet(S), NEW f, AreNumbers(f, S)
    PROVE  SumFunctionOnSet(f, S) \in Int
<1>1. PICK h : AddsOn(h, f, S) /\ SumFunctionOnSet(f, S) = h[S]
  BY SumAdds
<1>2. QED
  BY <1>1 DEF AddsOn

LEMMA SumsAgree ==
    ASSUME NEW S, IsFiniteSet(S), NEW f, AreNumbers(f, S), NEW k, \A x \in S : f[x] = k[x]
    PROVE  SumFunctionOnSet(f, S) = SumFunctionOnSet(k, S)
<1>1. PICK h : AddsOn(h, f, S) /\ SumFunctionOnSet(f, S) = h[S]
  BY SumAdds
<1>2. AreNumbers(k, S)
  BY DEF AreNumbers
<1>3. PICK g : AddsOn(g, k, S) /\ SumFunctionOnSet(k, S) = g[S]
  BY <1>2, SumAdds
<1>6. BothAdd(h, f, g, k, S)
  BY <1>1, <1>3 DEF AddsOn, BothAdd
<1>4. h[S] = g[S]
  BY <1>6, AddsAgree
<1>5. QED
  BY <1>1, <1>3, <1>4

-----------------------------------------------------------------------------
(* Figures that add up: of two sets without a row in common, what both say   *)
(* together is the sum of what each says.                                    *)
Measures(F, T) ==
    /\ \A A \in SUBSET T : F[A] \in Int
    /\ \A A, B \in SUBSET T : A \cap B = {} => F[A \cup B] = F[A] + F[B]

LEMMA NoneMeasured == ASSUME NEW T, NEW F, Measures(F, T) PROVE F[{}] = 0
<1>1. F[{}] \in Int /\ F[{} \cup {}] = F[{}] + F[{}]
  BY DEF Measures
<1> DEFINE x == F[{}]
<1>2. {} \cup {} = {}
  OBVIOUS
<1>3. x = x + x
  BY <1>1, <1>2, Zenon
<1>4. x \in Int
  BY <1>1
<1> HIDE DEF x
<1>5. x = 0
  BY <1>3, <1>4
<1>6. QED
  BY <1>5 DEF x

(* The union of some parts of a set                                          *)
Together(p, A) == UNION {p[j] : j \in A}
ApartOn(p, J, T) == (\A j \in J : p[j] \in SUBSET T) /\ \A i, j \in J : i # j => p[i] \cap p[j] = {}

(* What adds up for two parts adds up for any finite number of them.         *)
LEMMA PartsAddUp ==
    ASSUME NEW T, NEW F, Measures(F, T), NEW J, IsFiniteSet(J), NEW p, ApartOn(p, J, T), NEW f,
           \A j \in J : f[j] = F[p[j]]
    PROVE  F[Together(p, J)] = SumFunctionOnSet(f, J)
<1> DEFINE G == {A \in SUBSET J : F[Together(p, A)] = SumFunctionOnSet(f, A)}
<1>1. {} \in G
  <2>1. Together(p, {}) = {}
    BY DEF Together
  <2>2. QED
    BY <2>1, NoneMeasured, SumNone
<1>2. ASSUME NEW A \in SUBSET J, A \in G, NEW x \in J \ A PROVE A \cup {x} \in G
  <2> DEFINE B == A \cup {x}
  <2>1. Together(p, B) = Together(p, A) \cup p[x]
    BY DEF Together
  <2>2. Together(p, A) \cap p[x] = {} /\ Together(p, A) \in SUBSET T /\ p[x] \in SUBSET T
    BY DEF Together, ApartOn
  <2>3. F[Together(p, B)] = F[Together(p, A)] + F[p[x]] /\ F[Together(p, A)] \in Int /\ F[p[x]] \in Int
    BY <2>1, <2>2 DEF Measures
  <2>4. IsFiniteSet(B) /\ B \in SUBSET J /\ x \in B /\ B \ {x} = A
    BY FS_Subset
  <2>5. AreNumbers(f, B)
    BY <2>4 DEF AreNumbers, Measures, ApartOn
  <2> HIDE DEF B
  <2>6. SumFunctionOnSet(f, B) = f[x] + SumFunctionOnSet(f, A)
    <3>1. SumFunctionOnSet(f, B) = f[x] + SumFunctionOnSet(f, B \ {x})
      BY <2>4, <2>5, SumMore
    <3>2. QED
      BY <2>4, <3>1
  <2>7. F[Together(p, A)] = SumFunctionOnSet(f, A) /\ f[x] = F[p[x]]
    BY <1>2
  <2>8. F[Together(p, B)] = SumFunctionOnSet(f, B)
    BY <2>3, <2>6, <2>7
  <2>9. QED
    BY <2>4, <2>8 DEF B
<1> HIDE DEF G
<1>3. J \in G
  BY <1>1, <1>2, FiniteInduction
<1>4. QED
  BY <1>3 DEF G

Counts(U) == [A \in SUBSET U |-> Cardinality(A)]
Sums(U, f) == [A \in SUBSET U |-> SumFunctionOnSet(f, A)]

LEMMA CountsMeasure == ASSUME NEW U, IsFiniteSet(U) PROVE Measures(Counts(U), U)
<1>1. \A A \in SUBSET U : IsFiniteSet(A) /\ Cardinality(A) \in Nat
  BY FS_Subset, FS_CardinalityType
<1>2. ASSUME NEW A \in SUBSET U, NEW B \in SUBSET U, A \cap B = {}
      PROVE  Cardinality(A \cup B) = Cardinality(A) + Cardinality(B)
  <2>1. IsFiniteSet(A) /\ IsFiniteSet(B)
    BY <1>1
  <2>2. Cardinality(A \cup B) = Cardinality(A) + Cardinality(B) - Cardinality(A \cap B)
    BY <2>1, FS_Union
  <2>3. Cardinality(A \cap B) = 0
    BY <1>2, FS_EmptySet
  <2>4. QED
    BY <1>1, <2>2, <2>3
<1>3. QED
  BY <1>1, <1>2 DEF Measures, Counts

LEMMA SumsMeasure == ASSUME NEW U, IsFiniteSet(U), NEW f, AreNumbers(f, U) PROVE Measures(Sums(U, f), U)
<1>1. \A A \in SUBSET U : IsFiniteSet(A) /\ AreNumbers(f, A)
  BY FS_Subset DEF AreNumbers
<1>2. \A A \in SUBSET U : SumFunctionOnSet(f, A) \in Int
  BY <1>1, SumIsInt
<1>3. ASSUME NEW A \in SUBSET U, NEW B \in SUBSET U, A \cap B = {}
      PROVE  SumFunctionOnSet(f, A \cup B) = SumFunctionOnSet(f, A) + SumFunctionOnSet(f, B)
  <2> DEFINE G == {C \in SUBSET B : SumFunctionOnSet(f, A \cup C) = SumFunctionOnSet(f, A) + SumFunctionOnSet(f, C)}
  <2>1. {} \in G
    <3>1. A \cup {} = A
      OBVIOUS
    <3>2. QED
      BY <1>2, <3>1, SumNone
  <2>2. ASSUME NEW C \in SUBSET B, C \in G, NEW x \in B \ C PROVE C \cup {x} \in G
    <3> DEFINE D == C \cup {x}
               E == A \cup D
    <3>1. D \in SUBSET U /\ E \in SUBSET U /\ x \in D /\ x \in E /\ D \ {x} = C /\ E \ {x} = A \cup C /\ D \in SUBSET B
      BY <1>3
    <3> HIDE DEF D, E
    <3>2. SumFunctionOnSet(f, D) = f[x] + SumFunctionOnSet(f, C)
      BY <1>1, <3>1, SumMore
    <3>3. SumFunctionOnSet(f, E) = f[x] + SumFunctionOnSet(f, A \cup C)
      BY <1>1, <3>1, SumMore
    <3>4. SumFunctionOnSet(f, A \cup C) = SumFunctionOnSet(f, A) + SumFunctionOnSet(f, C)
      BY <2>2
    <3>5. SumFunctionOnSet(f, A) \in Int /\ SumFunctionOnSet(f, C) \in Int /\ f[x] \in Int
      BY <1>2, <3>1 DEF AreNumbers
    <3>6. SumFunctionOnSet(f, E) = SumFunctionOnSet(f, A) + SumFunctionOnSet(f, D)
      BY <3>2, <3>3, <3>4, <3>5
    <3>7. QED
      BY <3>1, <3>6 DEF D, E
  <2> HIDE DEF G
  <2>3. IsFiniteSet(B) /\ B \in SUBSET B
    BY <1>1
  <2>4. B \in G
    BY <2>1, <2>2, <2>3, FiniteInduction
  <2>5. QED
    BY <2>4 DEF G
<1>4. QED
  BY <1>2, <1>3 DEF Measures, Sums

(* A figure of the rows that some choice leaves of a table                   *)
Chooses(g, T, U) ==
    /\ g \in [SUBSET T -> SUBSET U]
    /\ \A A, B \in SUBSET T : A \cap B = {} => g[A \cup B] = g[A] \cup g[B] /\ g[A] \cap g[B] = {}

LEMMA ChosenMeasure ==
    ASSUME NEW T, NEW U, NEW F, Measures(F, U), NEW g, Chooses(g, T, U), NEW H,
           \A A \in SUBSET T : H[A] = F[g[A]]
    PROVE  Measures(H, T)
<1>1. \A A \in SUBSET T : g[A] \in SUBSET U
  BY DEF Chooses
<1>2. \A A \in SUBSET T : H[A] = F[g[A]] /\ F[g[A]] \in Int
  BY <1>1 DEF Measures
<1>3. ASSUME NEW A \in SUBSET T, NEW B \in SUBSET T, A \cap B = {} PROVE H[A \cup B] = H[A] + H[B]
  <2>1. g[A \cup B] = g[A] \cup g[B] /\ g[A] \cap g[B] = {}
    BY <1>3 DEF Chooses
  <2>2. F[g[A] \cup g[B]] = F[g[A]] + F[g[B]]
    BY <1>1, <2>1 DEF Measures
  <2>3. A \cup B \in SUBSET T
    OBVIOUS
  <2>4. QED
    BY <1>2, <2>1, <2>2, <2>3
<1>5. QED
  BY <1>2, <1>3 DEF Measures

(* Rows of a table that are of one kind are counted, or their values summed.  *)
LEMMA KindCounted ==
    ASSUME NEW T, IsFiniteSet(T), NEW K, NEW H, \A A \in SUBSET T : H[A] = Cardinality(A \cap K)
    PROVE  Measures(H, T)
<1> DEFINE g == [A \in SUBSET T |-> A \cap K]
<1>1. Chooses(g, T, T)
  BY DEF Chooses
<1>2. \A A \in SUBSET T : g[A] = A \cap K /\ A \cap K \in SUBSET T
  OBVIOUS
<1> HIDE DEF g
<1>5. \A A \in SUBSET T : Counts(T)[g[A]] = Cardinality(A \cap K)
  BY <1>2 DEF Counts
<1>3. \A A \in SUBSET T : H[A] = Counts(T)[g[A]]
  BY <1>5
<1> DEFINE F == Counts(T)
<1>6. Measures(F, T)
  BY CountsMeasure
<1>7. \A A \in SUBSET T : H[A] = F[g[A]]
  BY <1>3
<1> HIDE DEF F
<1>4. QED
  BY <1>1, <1>6, <1>7, ChosenMeasure

LEMMA KindSummed ==
    ASSUME NEW T, IsFiniteSet(T), NEW K, NEW f, AreNumbers(f, T), NEW H,
           \A A \in SUBSET T : H[A] = SumFunctionOnSet(f, A \cap K)
    PROVE  Measures(H, T)
<1> DEFINE g == [A \in SUBSET T |-> A \cap K]
<1>1. Chooses(g, T, T)
  BY DEF Chooses
<1>2. \A A \in SUBSET T : g[A] = A \cap K /\ A \cap K \in SUBSET T
  OBVIOUS
<1> HIDE DEF g
<1>5. \A A \in SUBSET T : Sums(T, f)[g[A]] = SumFunctionOnSet(f, A \cap K)
  BY <1>2 DEF Sums
<1>3. \A A \in SUBSET T : H[A] = Sums(T, f)[g[A]]
  BY <1>5
<1> DEFINE F == Sums(T, f)
<1>6. Measures(F, T)
  BY SumsMeasure
<1>7. \A A \in SUBSET T : H[A] = F[g[A]]
  BY <1>3
<1> HIDE DEF F
<1>4. QED
  BY <1>1, <1>6, <1>7, ChosenMeasure

-----------------------------------------------------------------------------
(* What each metric counts or sums                                           *)

(* SUM over the values that a function gives the rows                        *)
Totals(rows, f) ==
    LET known == {r \in rows : f[r] # Null}
    IN  IF known = {} THEN Null ELSE SumFunction([r \in known |-> f[r]])

LEMMA TotalsAre ==
    ASSUME NEW rows, IsFiniteSet(rows), NEW f, AreNumbers(f, rows)
    PROVE  /\ Totals(rows, f) = IF rows = {} THEN Null ELSE SumFunctionOnSet(f, rows)
           /\ ZeroIfNull(Totals(rows, f)) = SumFunctionOnSet(f, rows)
           /\ SumFunctionOnSet(f, rows) \in Int
<1>1. {r \in rows : f[r] # Null} = rows
  BY MetricsAssumption DEF AreNumbers
<1> DEFINE k == [r \in rows |-> f[r]]
<1>2. SumFunction(k) = SumFunctionOnSet(k, rows)
  BY DEF SumFunction
<1>3. \A r \in rows : f[r] = k[r]
  OBVIOUS
<1>4. Totals(rows, f) = IF rows = {} THEN Null ELSE SumFunction(k)
  BY <1>1 DEF Totals
<1> HIDE DEF k
<1>5. SumFunctionOnSet(f, rows) = SumFunctionOnSet(k, rows)
  BY <1>3, SumsAgree
<1>6. SumFunctionOnSet(f, rows) \in Int
  BY SumIsInt
<1>7. SumFunctionOnSet(f, {}) = 0
  BY SumNone
<1>8. QED
  BY <1>2, <1>4, <1>5, <1>6, <1>7, MetricsAssumption DEF ZeroIfNull

LEMMA TotalIsTotals ==
    ASSUME NEW rows
    PROVE  /\ Total(rows, Amount) = Totals(rows, [r \in rows |-> r.total])
           /\ Total(rows, Profit) = Totals(rows, [r \in rows |-> r.line - r.cost * r.quantity])
           /\ Total(rows, Line) = Totals(rows, [r \in rows |-> r.line])
           /\ Total(rows, Quantity) = Totals(rows, [r \in rows |-> r.quantity])
           /\ Total(rows, Rating) = Totals(rows, [r \in rows |-> r.rating])
           /\ Total(rows, DeliveryDays) = Totals(rows, [r \in rows |-> DeliveryDays(r)])
<1> DEFINE a == [r \in rows |-> r.total]
           p == [r \in rows |-> r.line - r.cost * r.quantity]
           l == [r \in rows |-> r.line]
           q == [r \in rows |-> r.quantity]
           g == [r \in rows |-> r.rating]
           d == [r \in rows |-> DeliveryDays(r)]
<1>1. \A r \in rows : a[r] = Amount(r) /\ p[r] = Profit(r) /\ l[r] = Line(r) /\ q[r] = Quantity(r)
                      /\ g[r] = Rating(r) /\ d[r] = DeliveryDays(r)
  BY DEF Amount, Profit, Line, Quantity, Rating
<1> HIDE DEF a, p, l, q, g, d
<1>2. Total(rows, Amount) = Totals(rows, a)
  <2>1. {r \in rows : a[r] # Null} = {r \in rows : Amount(r) # Null}
    BY <1>1
  <2>2. [r \in {s \in rows : Amount(s) # Null} |-> a[r]] = [r \in {s \in rows : Amount(s) # Null} |-> Amount(r)]
    BY <1>1
  <2>3. QED
    BY <2>1, <2>2 DEF Total, Totals
<1>3. Total(rows, Profit) = Totals(rows, p)
  <2>1. {r \in rows : p[r] # Null} = {r \in rows : Profit(r) # Null}
    BY <1>1
  <2>2. [r \in {s \in rows : Profit(s) # Null} |-> p[r]] = [r \in {s \in rows : Profit(s) # Null} |-> Profit(r)]
    BY <1>1
  <2>3. QED
    BY <2>1, <2>2 DEF Total, Totals
<1>4. Total(rows, Line) = Totals(rows, l)
  <2>1. {r \in rows : l[r] # Null} = {r \in rows : Line(r) # Null}
    BY <1>1
  <2>2. [r \in {s \in rows : Line(s) # Null} |-> l[r]] = [r \in {s \in rows : Line(s) # Null} |-> Line(r)]
    BY <1>1
  <2>3. QED
    BY <2>1, <2>2 DEF Total, Totals
<1>5. Total(rows, Quantity) = Totals(rows, q)
  <2>1. {r \in rows : q[r] # Null} = {r \in rows : Quantity(r) # Null}
    BY <1>1
  <2>2. [r \in {s \in rows : Quantity(s) # Null} |-> q[r]] = [r \in {s \in rows : Quantity(s) # Null} |-> Quantity(r)]
    BY <1>1
  <2>3. QED
    BY <2>1, <2>2 DEF Total, Totals
<1>6. Total(rows, Rating) = Totals(rows, g)
  <2>1. {r \in rows : g[r] # Null} = {r \in rows : Rating(r) # Null}
    BY <1>1
  <2>2. [r \in {s \in rows : Rating(s) # Null} |-> g[r]] = [r \in {s \in rows : Rating(s) # Null} |-> Rating(r)]
    BY <1>1
  <2>3. QED
    BY <2>1, <2>2 DEF Total, Totals
<1>7. Total(rows, DeliveryDays) = Totals(rows, d)
  <2>1. {r \in rows : d[r] # Null} = {r \in rows : DeliveryDays(r) # Null}
    BY <1>1
  <2>2. [r \in {s \in rows : DeliveryDays(s) # Null} |-> d[r]] = [r \in {s \in rows : DeliveryDays(s) # Null} |-> DeliveryDays(r)]
    BY <1>1
  <2>3. QED
    BY <2>1, <2>2 DEF Total, Totals
<1>8. QED
  BY <1>2, <1>3, <1>4, <1>5, <1>6, <1>7 DEF a, p, l, q, g, d

LEMMA FiniteImage ==
    ASSUME NEW S, IsFiniteSet(S), NEW f
    PROVE  LET image == {f[x] : x \in S} IN IsFiniteSet(image) /\ Cardinality(image) <= Cardinality(S)
<1> DEFINE image == {f[x] : x \in S}
           g == [x \in S |-> f[x]]
<1>1. g \in Surjection(S, image)
  BY DEF Surjection
<1> HIDE DEF g, image
<1>2. IsFiniteSet(image) /\ Cardinality(image) <= Cardinality(S)
  BY <1>1, FS_Surjection
<1>3. QED
  BY <1>2 DEF image

(* The items of orders, each beside its order                                *)
ItemOf(o, i) == [id |-> <<o.id, i.id>>, at |-> o.at, label |-> o.label, line |-> i.line, cost |-> i.cost, quantity |-> i.quantity]

LEMMA ItemsOfOrders ==
    ASSUME NEW T
    PROVE  ItemRows(T) = UNION {{ItemOf(o, i) : i \in o.items} : o \in T}
BY DEF ItemRows, ItemOf

LEMMA ItemsAreRows ==
    ASSUME NEW T, IsTable("orders", T)
    PROVE  /\ IsFiniteSet(ItemRows(T))
           /\ \A r \in ItemRows(T) : r.line \in Int /\ r.cost \in Int /\ r.quantity \in Int
           /\ \A A \in SUBSET T : ItemRows(A) \in SUBSET ItemRows(T)
           /\ \A A, B \in SUBSET T : A \cap B = {} =>
                 ItemRows(A \cup B) = ItemRows(A) \cup ItemRows(B) /\ ItemRows(A) \cap ItemRows(B) = {}
<1> DEFINE of(o) == {ItemOf(o, i) : i \in o.items}
           all == {of(o) : o \in T}
<1>1. IsFiniteSet(T) /\ \A o \in T : HasKeys(o.items) /\ \A i \in o.items : i.line \in Int /\ i.cost \in Int /\ i.quantity \in Int
  BY DEF IsTable, IsRow, HasKeys
<1>2. \A r, s \in T : r.id = s.id => r = s
  BY DEF IsTable, HasKeys
<1>3. \A A \in SUBSET T : \A x : x \in ItemRows(A) <=> \E o \in A : \E i \in o.items : x = ItemOf(o, i)
  BY ItemsOfOrders
<1>4. \A o \in T : IsFiniteSet(of(o))
  <2> TAKE o \in T
  <2> DEFINE f == [i \in o.items |-> ItemOf(o, i)]
  <2>0. HasKeys(o.items)
    BY <1>1
  <2>1. IsFiniteSet(o.items)
    BY <2>0 DEF HasKeys
  <2>2. of(o) = {f[i] : i \in o.items}
    OBVIOUS
  <2> HIDE DEF f
  <2>3. IsFiniteSet({f[i] : i \in o.items})
    BY <2>1, FiniteImage
  <2>4. QED
    BY <2>2, <2>3
<1>5. IsFiniteSet(all)
  <2> DEFINE f == [o \in T |-> of(o)]
  <2>1. all = {f[o] : o \in T}
    OBVIOUS
  <2> HIDE DEF f, all
  <2>2. QED
    BY <1>1, <2>1, FiniteImage
<1>6. IsFiniteSet(UNION all)
  <2>1. \A S \in all : IsFiniteSet(S)
    BY <1>4
  <2> HIDE DEF all
  <2>2. QED
    BY <1>5, <2>1, FS_UNION
<1>7. ItemRows(T) = UNION all
  BY ItemsOfOrders
<1>8. \A o, i : ItemOf(o, i).id[1] = o.id /\ ItemOf(o, i).line = i.line /\ ItemOf(o, i).cost = i.cost /\ ItemOf(o, i).quantity = i.quantity
  BY DEF ItemOf
<1>9. ASSUME NEW r \in ItemRows(T) PROVE r.line \in Int /\ r.cost \in Int /\ r.quantity \in Int
  <2>1. PICK o \in T : \E i \in o.items : r = ItemOf(o, i)
    BY <1>3
  <2>2. PICK i \in o.items : r = ItemOf(o, i)
    BY <2>1
  <2>3. i.line \in Int /\ i.cost \in Int /\ i.quantity \in Int
    BY <1>1
  <2>4. QED
    BY <1>8, <2>2, <2>3
<1>10. ASSUME NEW A \in SUBSET T, NEW B \in SUBSET T, A \cap B = {}
       PROVE  ItemRows(A \cup B) = ItemRows(A) \cup ItemRows(B) /\ ItemRows(A) \cap ItemRows(B) = {}
  <2>1. A \cup B \in SUBSET T
    OBVIOUS
  <2>2. \A x : x \in ItemRows(A \cup B) <=> x \in ItemRows(A) \/ x \in ItemRows(B)
    BY <1>3, <2>1
  <2>3. ASSUME NEW x, x \in ItemRows(A), x \in ItemRows(B) PROVE FALSE
    <3>1. PICK o \in A : \E i \in o.items : x = ItemOf(o, i)
      BY <1>3, <2>3
    <3>2. PICK q \in B : \E i \in q.items : x = ItemOf(q, i)
      BY <1>3, <2>3
    <3>3. x.id[1] = o.id
      BY <1>8, <3>1
    <3>4. x.id[1] = q.id
      BY <1>8, <3>2
    <3>5. o = q
      BY <1>2, <3>3, <3>4
    <3>6. QED
      BY <1>10, <3>5
  <2>4. QED
    BY <2>2, <2>3
<1>11. \A A \in SUBSET T : ItemRows(A) \in SUBSET ItemRows(T)
  <2>1. T \in SUBSET T
    OBVIOUS
  <2>2. QED
    BY <1>3, <2>1
<1>12. QED
  BY <1>6, <1>7, <1>9, <1>10, <1>11

LEMMA ItemsSummed ==
    ASSUME NEW T, IsTable("orders", T), NEW K, NEW f, AreNumbers(f, ItemRows(T)), NEW H,
           \A A \in SUBSET T : H[A] = SumFunctionOnSet(f, ItemRows(A \cap K))
    PROVE  Measures(H, T)
<1> DEFINE U == ItemRows(T)
           g == [A \in SUBSET T |-> ItemRows(A \cap K)]
           F == Sums(U, f)
<1>1. \A A \in SUBSET T : A \cap K \in SUBSET T
  OBVIOUS
<1>2. \A A \in SUBSET T : ItemRows(A \cap K) \in SUBSET U
  BY <1>1, ItemsAreRows
<1>3. Chooses(g, T, U)
  <2>1. g \in [SUBSET T -> SUBSET U]
    BY <1>2
  <2>2. ASSUME NEW A \in SUBSET T, NEW B \in SUBSET T, A \cap B = {}
        PROVE  g[A \cup B] = g[A] \cup g[B] /\ g[A] \cap g[B] = {}
    <3>1. (A \cup B) \cap K = (A \cap K) \cup (B \cap K) /\ (A \cap K) \cap (B \cap K) = {}
      BY <2>2
    <3>2. g[A \cup B] = ItemRows((A \cap K) \cup (B \cap K)) /\ g[A] = ItemRows(A \cap K) /\ g[B] = ItemRows(B \cap K)
      BY <3>1
    <3> HIDE DEF g
    <3>3. ItemRows((A \cap K) \cup (B \cap K)) = ItemRows(A \cap K) \cup ItemRows(B \cap K)
          /\ ItemRows(A \cap K) \cap ItemRows(B \cap K) = {}
      <4> DEFINE C == A \cap K
                 D == B \cap K
      <4>1. C \in SUBSET T /\ D \in SUBSET T /\ C \cap D = {}
        BY <1>1, <3>1
      <4> HIDE DEF C, D
      <4>2. ItemRows(C \cup D) = ItemRows(C) \cup ItemRows(D) /\ ItemRows(C) \cap ItemRows(D) = {}
        BY <4>1, ItemsAreRows
      <4>3. QED
        BY <4>2 DEF C, D
    <3>4. QED
      BY <3>2, <3>3
  <2>3. QED
    BY <2>1, <2>2 DEF Chooses
<1>4. \A A \in SUBSET T : g[A] = ItemRows(A \cap K) /\ F[g[A]] = SumFunctionOnSet(f, ItemRows(A \cap K))
  BY <1>2 DEF Sums
<1>5. Measures(F, U)
  BY ItemsAreRows, SumsMeasure
<1> HIDE DEF U, g, F
<1>6. \A A \in SUBSET T : H[A] = F[g[A]]
  BY <1>4
<1>7. QED
  BY <1>3, <1>5, <1>6, ChosenMeasure

LEMMA TotalOfSome ==
    ASSUME NEW T, IsFiniteSet(T), NEW f, AreNumbers(f, T), NEW rows \in SUBSET T, NEW k, \A r \in rows : k[r] = f[r]
    PROVE  /\ ZeroIfNull(Totals(rows, k)) = SumFunctionOnSet(f, rows)
           /\ Totals(rows, k) = IF rows = {} THEN Null ELSE SumFunctionOnSet(f, rows)
<1>1. IsFiniteSet(rows)
  BY FS_Subset
<1>2. AreNumbers(k, rows)
  BY DEF AreNumbers
<1>3. SumFunctionOnSet(k, rows) = SumFunctionOnSet(f, rows)
  BY <1>1, <1>2, SumsAgree
<1>4. QED
  BY <1>1, <1>2, <1>3, TotalsAre

(* The columns that are summed                                               *)
Amounts(T) == [r \in T |-> r.total]
Profits(T) == [r \in T |-> r.line - r.cost * r.quantity]
Lines(T) == [r \in T |-> r.line]
Quantities(T) == [r \in T |-> r.quantity]

LEMMA AmountTotal ==
    ASSUME NEW T, IsFiniteSet(T), AreNumbers(Amounts(T), T), NEW rows \in SUBSET T
    PROVE  /\ ZeroIfNull(Total(rows, Amount)) = SumFunctionOnSet(Amounts(T), rows)
           /\ Total(rows, Amount) = IF rows = {} THEN Null ELSE SumFunctionOnSet(Amounts(T), rows)
<1> DEFINE k == [r \in rows |-> r.total]
<1>1. \A r \in rows : k[r] = Amounts(T)[r]
  BY DEF Amounts
<1>2. Total(rows, Amount) = Totals(rows, k)
  BY TotalIsTotals
<1> HIDE DEF k
<1>3. QED
  BY <1>1, <1>2, TotalOfSome

LEMMA ItemTotals ==
    ASSUME NEW T, IsTable("orders", T), NEW A \in SUBSET T
    PROVE  LET all == ItemRows(T) rows == ItemRows(A)
           IN  /\ AreNumbers(Profits(all), all) /\ AreNumbers(Lines(all), all) /\ AreNumbers(Quantities(all), all)
               /\ ZeroIfNull(Total(rows, Profit)) = SumFunctionOnSet(Profits(all), rows)
               /\ ZeroIfNull(Total(rows, Line)) = SumFunctionOnSet(Lines(all), rows)
               /\ ZeroIfNull(Total(rows, Quantity)) = SumFunctionOnSet(Quantities(all), rows)
<1> DEFINE all == ItemRows(T)
           rows == ItemRows(A)
           p == [r \in rows |-> r.line - r.cost * r.quantity]
           l == [r \in rows |-> r.line]
           q == [r \in rows |-> r.quantity]
<1>1. IsFiniteSet(all) /\ rows \in SUBSET all /\ \A r \in all : r.line \in Int /\ r.cost \in Int /\ r.quantity \in Int
  BY ItemsAreRows
<1>2. Total(rows, Profit) = Totals(rows, p) /\ Total(rows, Line) = Totals(rows, l) /\ Total(rows, Quantity) = Totals(rows, q)
  BY TotalIsTotals
<1> HIDE DEF all, rows
<1>3. \A r \in all : r.line - r.cost * r.quantity \in Int
  <2> TAKE r \in all
  <2>1. r.line \in Int /\ r.cost \in Int /\ r.quantity \in Int
    BY <1>1
  <2>2. QED
    BY <2>1
<1>4. AreNumbers(Profits(all), all) /\ AreNumbers(Lines(all), all) /\ AreNumbers(Quantities(all), all)
  BY <1>1, <1>3 DEF AreNumbers, Profits, Lines, Quantities
<1>5. \A r \in rows : p[r] = Profits(all)[r] /\ l[r] = Lines(all)[r] /\ q[r] = Quantities(all)[r]
  BY <1>1 DEF Profits, Lines, Quantities
<1> HIDE DEF p, l, q
<1>6. ZeroIfNull(Totals(rows, p)) = SumFunctionOnSet(Profits(all), rows)
  BY <1>1, <1>4, <1>5, TotalOfSome
<1>7. ZeroIfNull(Totals(rows, l)) = SumFunctionOnSet(Lines(all), rows)
  BY <1>1, <1>4, <1>5, TotalOfSome
<1>8. ZeroIfNull(Totals(rows, q)) = SumFunctionOnSet(Quantities(all), rows)
  BY <1>1, <1>4, <1>5, TotalOfSome
<1>9. QED
  BY <1>2, <1>4, <1>6, <1>7, <1>8 DEF all, rows

(* The fields that add up                                                    *)
CountedFields ==
    {<<"revenue", "order_count">>, <<"orders", "order_count">>, <<"average_order_value", "order_count">>,
     <<"refund_rate", "refunded_order_count">>, <<"refund_rate", "delivered_order_count">>,
     <<"cancellation_rate", "cancelled_order_count">>, <<"cancellation_rate", "total_order_count">>,
     <<"payment_failure_count", "failure_count">>, <<"payment_success_rate", "success_count">>,
     <<"payment_success_rate", "attempt_count">>, <<"conversion_rate", "converted_session_count">>,
     <<"conversion_rate", "session_count">>, <<"late_delivery_rate", "late_count">>,
     <<"late_delivery_rate", "delivered_count">>, <<"average_delivery_time", "shipment_count">>,
     <<"average_review_rating", "review_count">>, <<"new_customers", "new_customer_count">>}
Summed ==
    {<<"revenue", "revenue">>, <<"average_order_value", "total_revenue">>,
     <<"payment_failure_count", "failed_amount">>}
ItemsSum ==
    {<<"gross_profit", "gross_profit">>, <<"gross_profit", "line_revenue">>, <<"gross_margin_pct", "gross_profit">>,
     <<"gross_margin_pct", "line_revenue">>, <<"units_sold", "units_sold">>}

LEMMA FieldsAre ==
    ASSUME NEW m \in MetricNames, NEW rows, NEW f
    PROVE  f \in AdditiveFields(Values(m, rows)) <=> <<m, f>> \in CountedFields \cup Summed \cup ItemsSum
<1> USE DEF AdditiveFields, Values, CountedFields, Summed, ItemsSum
<1>1. CASE m = "revenue" BY <1>1 DEF Revenue
<1>2. CASE m = "orders" BY <1>2
<1>3. CASE m = "gross_profit" BY <1>3 DEF GrossProfit
<1>4. CASE m = "gross_margin_pct" BY <1>4 DEF GrossMargin
<1>5. CASE m = "units_sold" BY <1>5 DEF UnitsSold
<1>6. CASE m = "average_order_value" BY <1>6 DEF AverageOrderValue
<1>7. CASE m = "customer_count" BY <1>7 DEF CustomerCount
<1>8. CASE m = "repeat_purchase_rate" BY <1>8 DEF RepeatCustomerRate
<1>9. CASE m = "refund_rate" BY <1>9 DEF RefundRate
<1>10. CASE m = "cancellation_rate" BY <1>10 DEF CancellationRate
<1>11. CASE m = "payment_failure_count" BY <1>11 DEF PaymentFailure
<1>12. CASE m = "payment_success_rate" BY <1>12 DEF PaymentSuccess
<1>13. CASE m = "conversion_rate" BY <1>13 DEF ConversionRate
<1>14. CASE m = "late_delivery_rate" BY <1>14 DEF LateDelivery
<1>15. CASE m = "average_delivery_time" BY <1>15 DEF AverageDeliveryTime
<1>16. CASE m = "average_review_rating" BY <1>16 DEF AverageReview
<1>17. CASE m = "new_customers" BY <1>17 DEF NewCustomers
<1>18. QED
  BY <1>1, <1>2, <1>3, <1>4, <1>5, <1>6, <1>7, <1>8, <1>9, <1>10, <1>11, <1>12, <1>13, <1>14, <1>15, <1>16, <1>17
     DEF MetricNames

(* Rows of one kind: a field counts those of them that are in a table        *)
Kind(m, f, T) ==
    CASE f \in {"total_order_count", "attempt_count", "session_count", "delivered_count", "shipment_count",
                "review_count", "new_customer_count"} -> T
      [] f \in {"order_count", "delivered_order_count"} -> {o \in T : o.status = "delivered"}
      [] f = "refunded_order_count" -> {o \in T : o.status = "delivered" /\ Processed(o) # {}}
      [] f = "cancelled_order_count" -> {o \in T : o.status = "cancelled"}
      [] f = "failure_count" -> {p \in T : p.status = "failed"}
      [] f = "success_count" -> {p \in T : p.status = "completed"}
      [] f = "converted_session_count" -> {s \in T : s.converted = "true"}
      [] f = "late_count" -> {s \in T : s.expected # Null /\ s.at > s.expected}

LEMMA CountedIs ==
    ASSUME NEW T, NEW A \in SUBSET T, NEW m, NEW f, <<m, f>> \in CountedFields
    PROVE  Values(m, A)[f] = Cardinality(A \cap Kind(m, f, T))
<1>1. CASE m = "revenue" /\ f = "order_count"
  <2>1. A \cap {o \in T : o.status = "delivered"} = Delivered(A)
    BY DEF Delivered
  <2>2. Kind(m, f, T) = {o \in T : o.status = "delivered"}
    BY <1>1 DEF Kind
  <2>3. Values(m, A)[f] = Cardinality(Delivered(A))
    BY <1>1 DEF Values, Revenue
  <2>4. QED
    BY <2>1, <2>2, <2>3
<1>2. CASE m = "orders" /\ f = "order_count"
  <2>1. A \cap {o \in T : o.status = "delivered"} = Delivered(A)
    BY DEF Delivered
  <2>2. Kind(m, f, T) = {o \in T : o.status = "delivered"}
    BY <1>2 DEF Kind
  <2>3. Values(m, A)[f] = Cardinality(Delivered(A))
    BY <1>2 DEF Values, Revenue
  <2>4. QED
    BY <2>1, <2>2, <2>3
<1>3. CASE m = "average_order_value" /\ f = "order_count"
  <2>1. A \cap {o \in T : o.status = "delivered"} = Delivered(A)
    BY DEF Delivered
  <2>2. Kind(m, f, T) = {o \in T : o.status = "delivered"}
    BY <1>3 DEF Kind
  <2>3. Values(m, A)[f] = Cardinality(Delivered(A))
    BY <1>3 DEF Values, AverageOrderValue, Revenue
  <2>4. QED
    BY <2>1, <2>2, <2>3
<1>4. CASE m = "refund_rate" /\ f = "refunded_order_count"
  <2>1. A \cap {o \in T : o.status = "delivered" /\ Processed(o) # {}} = RefundedOrders(A)
    BY DEF RefundedOrders, Delivered
  <2>2. Kind(m, f, T) = {o \in T : o.status = "delivered" /\ Processed(o) # {}}
    BY <1>4 DEF Kind
  <2>3. Values(m, A)[f] = Cardinality(RefundedOrders(A))
    BY <1>4 DEF Values, RefundRate
  <2>4. QED
    BY <2>1, <2>2, <2>3
<1>5. CASE m = "refund_rate" /\ f = "delivered_order_count"
  <2>1. A \cap {o \in T : o.status = "delivered"} = Delivered(A)
    BY DEF Delivered
  <2>2. Kind(m, f, T) = {o \in T : o.status = "delivered"}
    BY <1>5 DEF Kind
  <2>3. Values(m, A)[f] = Cardinality(Delivered(A))
    BY <1>5 DEF Values, RefundRate
  <2>4. QED
    BY <2>1, <2>2, <2>3
<1>6. CASE m = "cancellation_rate" /\ f = "cancelled_order_count"
  <2>1. A \cap {o \in T : o.status = "cancelled"} = {o \in A : o.status = "cancelled"}
    OBVIOUS
  <2>2. Kind(m, f, T) = {o \in T : o.status = "cancelled"}
    BY <1>6 DEF Kind
  <2>3. Values(m, A)[f] = Cardinality({o \in A : o.status = "cancelled"})
    BY <1>6 DEF Values, CancellationRate
  <2>4. QED
    BY <2>1, <2>2, <2>3
<1>7. CASE m = "payment_failure_count" /\ f = "failure_count"
  <2>1. A \cap {o \in T : o.status = "failed"} = {o \in A : o.status = "failed"}
    OBVIOUS
  <2>2. Kind(m, f, T) = {o \in T : o.status = "failed"}
    BY <1>7 DEF Kind
  <2>3. Values(m, A)[f] = Cardinality({o \in A : o.status = "failed"})
    BY <1>7 DEF Values, PaymentFailure
  <2>4. QED
    BY <2>1, <2>2, <2>3
<1>8. CASE m = "payment_success_rate" /\ f = "success_count"
  <2>1. A \cap {o \in T : o.status = "completed"} = {o \in A : o.status = "completed"}
    OBVIOUS
  <2>2. Kind(m, f, T) = {o \in T : o.status = "completed"}
    BY <1>8 DEF Kind
  <2>3. Values(m, A)[f] = Cardinality({o \in A : o.status = "completed"})
    BY <1>8 DEF Values, PaymentSuccess
  <2>4. QED
    BY <2>1, <2>2, <2>3
<1>9. CASE m = "conversion_rate" /\ f = "converted_session_count"
  <2>1. A \cap {o \in T : o.converted = "true"} = {o \in A : o.converted = "true"}
    OBVIOUS
  <2>2. Kind(m, f, T) = {o \in T : o.converted = "true"}
    BY <1>9 DEF Kind
  <2>3. Values(m, A)[f] = Cardinality({o \in A : o.converted = "true"})
    BY <1>9 DEF Values, ConversionRate
  <2>4. QED
    BY <2>1, <2>2, <2>3
<1>10. CASE m = "late_delivery_rate" /\ f = "late_count"
  <2>1. A \cap {o \in T : o.expected # Null /\ o.at > o.expected} = {o \in A : o.expected # Null /\ o.at > o.expected}
    OBVIOUS
  <2>2. Kind(m, f, T) = {o \in T : o.expected # Null /\ o.at > o.expected}
    BY <1>10 DEF Kind
  <2>3. Values(m, A)[f] = Cardinality({o \in A : o.expected # Null /\ o.at > o.expected})
    BY <1>10 DEF Values, LateDelivery
  <2>4. QED
    BY <2>1, <2>2, <2>3
<1>11. ASSUME <<m, f>> \in {<<"cancellation_rate", "total_order_count">>, <<"payment_success_rate", "attempt_count">>,
             <<"conversion_rate", "session_count">>, <<"late_delivery_rate", "delivered_count">>,
             <<"average_delivery_time", "shipment_count">>, <<"average_review_rating", "review_count">>,
             <<"new_customers", "new_customer_count">>}
       PROVE Values(m, A)[f] = Cardinality(A \cap Kind(m, f, T))
  <2>1. A \cap T = A
    OBVIOUS
  <2>2. Kind(m, f, T) = T
    BY <1>11 DEF Kind
  <2>3. Values(m, A)[f] = Cardinality(A)
    BY <1>11 DEF Values, CancellationRate, PaymentSuccess, ConversionRate, LateDelivery, AverageDeliveryTime, AverageReview, NewCustomers
  <2>4. QED
    BY <2>1, <2>2, <2>3
<1>12. QED
  BY <1>1, <1>2, <1>3, <1>4, <1>5, <1>6, <1>7, <1>8, <1>9, <1>10, <1>11 DEF CountedFields

(* What a field says of each part of a table                                 *)
Figure(m, f, T) == [A \in SUBSET T |-> Additive(Values(m, A), f)]

LEMMA CountsAddUp ==
    ASSUME NEW T, IsFiniteSet(T), NEW m, NEW f, <<m, f>> \in CountedFields
    PROVE  Measures(Figure(m, f, T), T)
<1> DEFINE K == Kind(m, f, T)
<1>1. \A A \in SUBSET T : Values(m, A)[f] = Cardinality(A \cap K)
  BY CountedIs
<1>2. \A A \in SUBSET T : Cardinality(A \cap K) \in Nat
  <2> HIDE DEF K
  <2>1. \A A \in SUBSET T : A \cap K \in SUBSET T
    OBVIOUS
  <2>2. QED
    BY <2>1, FS_Subset, FS_CardinalityType
<1> HIDE DEF K
<1>3. \A A \in SUBSET T : Additive(Values(m, A), f) = Cardinality(A \cap K)
  BY <1>1, <1>2, MetricsAssumption DEF Additive, ZeroIfNull
<1>4. \A A \in SUBSET T : Figure(m, f, T)[A] = Cardinality(A \cap K)
  BY <1>3 DEF Figure
<1>5. QED
  BY <1>4, KindCounted

SumsKind(K, m, f, T) == \A A \in SUBSET T : Additive(Values(m, A), f) = SumFunctionOnSet(Amounts(T), A \cap K)

LEMMA SummedIs ==
    ASSUME NEW T, IsFiniteSet(T), AreNumbers(Amounts(T), T), NEW m, NEW f, <<m, f>> \in Summed
    PROVE  \E K : SumsKind(K, m, f, T)
<1> DEFINE D == {o \in T : o.status = "delivered"}
           N == {o \in T : o.status = "failed"}
<1>1. \A A \in SUBSET T : A \cap D = Delivered(A) /\ Delivered(A) \in SUBSET T
  BY DEF Delivered
<1>2. \A A \in SUBSET T : A \cap N = {o \in A : o.status = "failed"} /\ {o \in A : o.status = "failed"} \in SUBSET T
  OBVIOUS
<1> HIDE DEF D, N
<1>3. \A A \in SUBSET T : ZeroIfNull(Total(Delivered(A), Amount)) = SumFunctionOnSet(Amounts(T), A \cap D)
  BY <1>1, AmountTotal
<1>4. \A A \in SUBSET T : ZeroIfNull(Total({o \in A : o.status = "failed"}, Amount)) = SumFunctionOnSet(Amounts(T), A \cap N)
  BY <1>2, AmountTotal
<1>5. CASE f \in {"revenue", "total_revenue"}
  <2>1. \A A \in SUBSET T : Values(m, A)[f] = Total(Delivered(A), Amount)
    BY <1>5 DEF Summed, Values, Revenue, AverageOrderValue
  <2>2. SumsKind(D, m, f, T)
    BY <1>3, <2>1 DEF Additive, SumsKind
  <2>3. QED
    BY <2>2
<1>6. CASE f = "failed_amount"
  <2>1. \A A \in SUBSET T : Values(m, A)[f] = Total({o \in A : o.status = "failed"}, Amount)
    BY <1>6 DEF Summed, Values, PaymentFailure
  <2>2. SumsKind(N, m, f, T)
    BY <1>4, <2>1 DEF Additive, SumsKind
  <2>3. QED
    BY <2>2
<1>7. f \in {"revenue", "total_revenue"} \/ f = "failed_amount"
  BY DEF Summed
<1>8. QED
  BY <1>5, <1>6, <1>7

LEMMA SumsAddUp ==
    ASSUME NEW T, IsFiniteSet(T), AreNumbers(Amounts(T), T), NEW m, NEW f, <<m, f>> \in Summed
    PROVE  Measures(Figure(m, f, T), T)
<1>1. PICK K : SumsKind(K, m, f, T)
  BY SummedIs
<1>2. \A A \in SUBSET T : Figure(m, f, T)[A] = SumFunctionOnSet(Amounts(T), A \cap K)
  BY <1>1 DEF Figure, SumsKind
<1>3. QED
  BY <1>2, KindSummed

LEMMA ItemsAddUp ==
    ASSUME NEW T, IsTable("orders", T), NEW m, NEW f, <<m, f>> \in ItemsSum
    PROVE  Measures(Figure(m, f, T), T)
<1> DEFINE D == {o \in T : o.status = "delivered"}
           all == ItemRows(T)
           k == CASE f = "gross_profit" -> Profits(all) [] f = "line_revenue" -> Lines(all) [] OTHER -> Quantities(all)
<1>1. \A A \in SUBSET T : A \cap D = Delivered(A) /\ Delivered(A) \in SUBSET T
  BY DEF Delivered
<1>2. T \in SUBSET T
  OBVIOUS
<1>3. AreNumbers(Profits(all), all) /\ AreNumbers(Lines(all), all) /\ AreNumbers(Quantities(all), all)
  BY <1>2, ItemTotals
<1>4. \A A \in SUBSET T :
        /\ ZeroIfNull(Total(ItemRows(Delivered(A)), Profit)) = SumFunctionOnSet(Profits(all), ItemRows(Delivered(A)))
        /\ ZeroIfNull(Total(ItemRows(Delivered(A)), Line)) = SumFunctionOnSet(Lines(all), ItemRows(Delivered(A)))
        /\ ZeroIfNull(Total(ItemRows(Delivered(A)), Quantity)) = SumFunctionOnSet(Quantities(all), ItemRows(Delivered(A)))
  BY <1>1, ItemTotals
<1> HIDE DEF all, D
<1>5. AreNumbers(k, all)
  BY <1>3
<1>6. \A A \in SUBSET T : Additive(Values(m, A), f) = SumFunctionOnSet(k, ItemRows(Delivered(A)))
  <2>1. CASE f = "gross_profit"
    <3>1. \A A \in SUBSET T : Values(m, A)[f] = Total(ItemRows(Delivered(A)), Profit)
      BY <2>1 DEF ItemsSum, Values, GrossProfit, GrossMargin
    <3>2. k = Profits(all)
      BY <2>1
    <3>3. QED
      BY <1>4, <3>1, <3>2 DEF Additive
  <2>2. CASE f = "line_revenue"
    <3>1. \A A \in SUBSET T : Values(m, A)[f] = Total(ItemRows(Delivered(A)), Line)
      BY <2>2 DEF ItemsSum, Values, GrossProfit, GrossMargin
    <3>2. k = Lines(all)
      BY <2>2
    <3>3. QED
      BY <1>4, <3>1, <3>2 DEF Additive
  <2>3. CASE f = "units_sold"
    <3>1. \A A \in SUBSET T : Values(m, A)[f] = Total(ItemRows(Delivered(A)), Quantity)
      BY <2>3 DEF ItemsSum, Values, UnitsSold
    <3>2. k = Quantities(all)
      BY <2>3
    <3>3. QED
      BY <1>4, <3>1, <3>2 DEF Additive
  <2>4. QED
    BY <2>1, <2>2, <2>3 DEF ItemsSum
<1> HIDE DEF k
<1>7. \A A \in SUBSET T : Figure(m, f, T)[A] = SumFunctionOnSet(k, ItemRows(A \cap D))
  BY <1>1, <1>6 DEF Figure
<1>8. QED
  BY <1>5, <1>7, ItemsSummed DEF all

(* Every additive field of every metric adds up over the rows of its table.  *)
LEMMA FiguresAddUp ==
    ASSUME NEW m \in MetricNames, NEW T, IsTable(Source(m), T), NEW rows, NEW f \in AdditiveFields(Values(m, rows))
    PROVE  Measures(Figure(m, f, T), T)
<1>1. IsFiniteSet(T)
  BY DEF IsTable, HasKeys
<1>2. <<m, f>> \in CountedFields \cup Summed \cup ItemsSum
  BY FieldsAre
<1>3. CASE <<m, f>> \in CountedFields
  BY <1>1, <1>3, CountsAddUp
<1>4. CASE <<m, f>> \in Summed
  <2>1. Source(m) \in {"orders", "payments"}
    BY <1>4 DEF Summed, Source
  <2>2. \A r \in T : r.total \in Int
    BY <2>1 DEF IsTable, IsRow
  <2>3. AreNumbers(Amounts(T), T)
    BY <2>2 DEF AreNumbers, Amounts
  <2>4. QED
    BY <1>1, <1>4, <2>3, SumsAddUp
<1>5. CASE <<m, f>> \in ItemsSum
  <2>1. Source(m) = "orders"
    BY <1>5 DEF ItemsSum, Source
  <2>2. QED
    BY <1>5, <2>1, ItemsAddUp
<1>6. QED
  BY <1>2, <1>3, <1>4, <1>5

-----------------------------------------------------------------------------
(* Halves, groups and filters of a report                                    *)

LEMMA SomeSelected ==
    ASSUME NEW T, NEW period, NEW filters
    PROVE  Selected(T, period, filters) \in SUBSET T
BY DEF Selected

LEMMA FigureOf ==
    ASSUME NEW m, NEW f, NEW T, NEW A \in SUBSET T
    PROVE  Figure(m, f, T)[A] = Additive(Values(m, A), f)
BY DEF Figure

LEMMA CustomersOfBoth ==
    ASSUME NEW A, NEW B, IsFiniteSet(A), IsFiniteSet(B)
    PROVE  /\ Cardinality(Customers(A \cup B)) \in Nat
           /\ Cardinality(Customers(A)) \in Nat
           /\ Cardinality(Customers(B)) \in Nat
           /\ Cardinality(Customers(A \cup B)) <= Cardinality(Customers(A)) + Cardinality(Customers(B))
           /\ Cardinality(Customers(A \cup B)) >= Cardinality(Customers(A))
           /\ Cardinality(Customers(A \cup B)) >= Cardinality(Customers(B))
<1> DEFINE C == Customers(A)
           D == Customers(B)
           E == Customers(A \cup B)
<1>1. E = C \cup D
  BY DEF Customers, Delivered
<1>2. IsFiniteSet(C)
  <2> DEFINE f == [o \in A |-> o.customer]
  <2>1. C \in SUBSET {f[o] : o \in A}
    BY DEF Customers, Delivered
  <2> HIDE DEF f, C
  <2>2. IsFiniteSet({f[o] : o \in A})
    BY FiniteImage
  <2>3. QED
    BY <2>1, <2>2, FS_Subset
<1>3. IsFiniteSet(D)
  <2> DEFINE f == [o \in B |-> o.customer]
  <2>1. D \in SUBSET {f[o] : o \in B}
    BY DEF Customers, Delivered
  <2> HIDE DEF f, D
  <2>2. IsFiniteSet({f[o] : o \in B})
    BY FiniteImage
  <2>3. QED
    BY <2>1, <2>2, FS_Subset
<1> HIDE DEF C, D, E
<1>4. IsFiniteSet(E) /\ Cardinality(E) = Cardinality(C) + Cardinality(D) - Cardinality(C \cap D)
  BY <1>1, <1>2, <1>3, FS_Union
<1>5. Cardinality(C) \in Nat /\ Cardinality(D) \in Nat /\ Cardinality(E) \in Nat
  BY <1>2, <1>3, <1>4, FS_CardinalityType
<1>6. Cardinality(C \cap D) \in Nat
  BY <1>2, FS_Subset, FS_CardinalityType
<1>7. Cardinality(C) <= Cardinality(E) /\ Cardinality(D) <= Cardinality(E)
  BY <1>1, <1>4, FS_Subset
<1>8. Cardinality(E) <= Cardinality(C) + Cardinality(D)
  BY <1>4, <1>5, <1>6
<1>9. QED
  BY <1>5, <1>7, <1>8 DEF C, D, E

LEMMA CustomersCounted ==
    ASSUME NEW m \in MetricNames, NEW rows
    PROVE  "customer_count" \in DOMAIN Values(m, rows) =>
               /\ Values(m, rows).customer_count = Cardinality(Customers(rows))
               /\ m \in {"customer_count", "repeat_purchase_rate"}
<1> USE DEF Values
<1>1. CASE m = "customer_count" BY <1>1 DEF CustomerCount
<1>2. CASE m = "repeat_purchase_rate" BY <1>2 DEF RepeatCustomerRate
<1>3. CASE m \in {"revenue", "orders"} BY <1>3 DEF Revenue
<1>4. CASE m = "gross_profit" BY <1>4 DEF GrossProfit
<1>5. CASE m = "gross_margin_pct" BY <1>5 DEF GrossMargin
<1>6. CASE m = "units_sold" BY <1>6 DEF UnitsSold
<1>7. CASE m = "average_order_value" BY <1>7 DEF AverageOrderValue
<1>8. CASE m = "refund_rate" BY <1>8 DEF RefundRate
<1>9. CASE m = "cancellation_rate" BY <1>9 DEF CancellationRate
<1>10. CASE m = "payment_failure_count" BY <1>10 DEF PaymentFailure
<1>11. CASE m = "payment_success_rate" BY <1>11 DEF PaymentSuccess
<1>12. CASE m = "conversion_rate" BY <1>12 DEF ConversionRate
<1>13. CASE m = "late_delivery_rate" BY <1>13 DEF LateDelivery
<1>14. CASE m = "average_delivery_time" BY <1>14 DEF AverageDeliveryTime
<1>15. CASE m = "average_review_rating" BY <1>15 DEF AverageReview
<1>16. CASE m = "new_customers" BY <1>16 DEF NewCustomers
<1>17. QED
  BY <1>1, <1>2, <1>3, <1>4, <1>5, <1>6, <1>7, <1>8, <1>9, <1>10, <1>11, <1>12, <1>13, <1>14, <1>15, <1>16
     DEF MetricNames

LEMMA DayOfRow == ASSUME NEW m \in MetricNames, NEW T, IsTable(Source(m), T), NEW r \in T PROVE Day(r.at)
<1>1. Source(m) \in {"orders", "payments", "web_sessions", "shipments", "reviews", "customers"}
  BY DEF Source
<1>2. IsRow(Source(m), r)
  BY DEF IsTable
<1>3. QED
  BY <1>1, <1>2 DEF IsRow, Day

(* The halves of a period have no row in common and none is in neither.      *)
LEMMA HalvesApart ==
    ASSUME NEW m \in MetricNames, NEW T, IsTable(Source(m), T), NEW period, NEW filters,
           period = [start |-> period.start, end |-> period.end],
           period.start \in Int, period.end \in Int, NEW middle \in (period.start + 1)..(period.end - 1)
    PROVE  LET A == Selected(T, [period EXCEPT !.end = middle], filters)
               B == Selected(T, [period EXCEPT !.start = middle], filters)
           IN  A \cap B = {} /\ A \cup B = Selected(T, period, filters)
<1> DEFINE p == [period EXCEPT !.end = middle]
           q == [period EXCEPT !.start = middle]
<1>1. p.start = period.start /\ p.end = middle /\ q.start = middle /\ q.end = period.end
  OBVIOUS
<1> HIDE DEF p, q
<1>2. \A r \in T : /\ InPeriod(r.at, period) <=> InPeriod(r.at, p) \/ InPeriod(r.at, q)
                   /\ ~(InPeriod(r.at, p) /\ InPeriod(r.at, q))
  <2> TAKE r \in T
  <2>1. Day(r.at)
    BY DayOfRow
  <2>2. QED
    BY <1>1, <2>1 DEF Day, InPeriod
<1>3. \A r : /\ r \in Selected(T, period, filters) <=> r \in T /\ InPeriod(r.at, period) /\ PassesAll(r, filters)
             /\ r \in Selected(T, p, filters) <=> r \in T /\ InPeriod(r.at, p) /\ PassesAll(r, filters)
             /\ r \in Selected(T, q, filters) <=> r \in T /\ InPeriod(r.at, q) /\ PassesAll(r, filters)
  BY DEF Selected
<1>4. Selected(T, p, filters) \cap Selected(T, q, filters) = {}
  BY <1>2, <1>3
<1>5. Selected(T, p, filters) \cup Selected(T, q, filters) = Selected(T, period, filters)
  BY <1>2, <1>3
<1>6. QED
  BY <1>4, <1>5 DEF p, q

(* For every metric, table and period: what counts or sums rows is the sum of *)
(* what it is for two halves of the period, wherever it is cut, and a         *)
(* customer of both halves counts once (semantics/metrics.py, compiler.py:188). *)
THEOREM HalvesAdd ==
    ASSUME NEW m \in MetricNames, NEW T, IsTable(Source(m), T), NEW period, NEW filters,
           period = [start |-> period.start, end |-> period.end], period.start \in Int, period.end \in Int
    PROVE  HalvesAddUp(m, T, period, filters)
<1> SUFFICES ASSUME NEW middle \in (period.start + 1)..(period.end - 1)
    PROVE  LET whole == Ungrouped(m, T, period, filters)
               before == Ungrouped(m, T, [period EXCEPT !.end = middle], filters)
               after == Ungrouped(m, T, [period EXCEPT !.start = middle], filters)
           IN  /\ \A f \in AdditiveFields(whole) : Additive(whole, f) = Additive(before, f) + Additive(after, f)
               /\ "customer_count" \in DOMAIN whole =>
                     /\ whole.customer_count <= before.customer_count + after.customer_count
                     /\ whole.customer_count >= Max({before.customer_count, after.customer_count})
  BY DEF HalvesAddUp
<1> DEFINE A == Selected(T, [period EXCEPT !.end = middle], filters)
           B == Selected(T, [period EXCEPT !.start = middle], filters)
           C == Selected(T, period, filters)
<1>1. A \in SUBSET T /\ B \in SUBSET T /\ C \in SUBSET T
  BY SomeSelected
<1>2. A \cap B = {} /\ A \cup B = C
  BY HalvesApart
<1> HIDE DEF A, B, C
<1>3. ASSUME NEW f \in AdditiveFields(Values(m, C))
      PROVE  Additive(Values(m, C), f) = Additive(Values(m, A), f) + Additive(Values(m, B), f)
  <2>1. Measures(Figure(m, f, T), T)
    BY FiguresAddUp
  <2>2. Figure(m, f, T)[C] = Figure(m, f, T)[A] + Figure(m, f, T)[B]
    BY <1>1, <1>2, <2>1 DEF Measures
  <2>3. QED
    BY <1>1, <2>2, FigureOf
<1>4. ASSUME "customer_count" \in DOMAIN Values(m, C)
      PROVE  /\ Values(m, C).customer_count <= Values(m, A).customer_count + Values(m, B).customer_count
             /\ Values(m, C).customer_count >= Max({Values(m, A).customer_count, Values(m, B).customer_count})
  <2> DEFINE a == Cardinality(Customers(A))
             b == Cardinality(Customers(B))
             c == Cardinality(Customers(C))
  <2>1. m \in {"customer_count", "repeat_purchase_rate"} /\ Values(m, C).customer_count = c
    BY <1>4, CustomersCounted
  <2>2. Values(m, A).customer_count = a /\ Values(m, B).customer_count = b
    <3>1. "customer_count" \in DOMAIN Values(m, A) /\ "customer_count" \in DOMAIN Values(m, B)
      BY <2>1 DEF Values, CustomerCount, RepeatCustomerRate
    <3>2. QED
      BY <3>1, CustomersCounted
  <2>3. IsFiniteSet(A) /\ IsFiniteSet(B)
    BY <1>1, FS_Subset DEF IsTable, HasKeys
  <2>4. a \in Nat /\ b \in Nat /\ c \in Nat /\ c <= a + b /\ c >= a /\ c >= b
    BY <1>2, <2>3, CustomersOfBoth
  <2> HIDE DEF a, b, c
  <2>5. c >= Max({a, b})
    BY <2>4, MaxOfTwo
  <2>6. QED
    BY <2>1, <2>2, <2>4, <2>5
<1>5. QED
  BY <1>3, <1>4 DEF Ungrouped, A, B, C

(* The rows of each bucket                                                   *)
InBucket(rows, dimension, b) == {r \in rows : Bucket(r, dimension) = b}

(* For every metric, table and dimension: the groups of a report account for  *)
(* each row of the ungrouped one, without a label too (compiler.py:98-120).   *)
THEOREM GroupsAdd ==
    ASSUME NEW m \in MetricNames, NEW T, IsTable(Source(m), T), NEW period, NEW filters, NEW dimension
    PROVE  GroupsAddUp(m, T, period, filters, dimension)
<1> DEFINE rows == Selected(T, period, filters)
           groups == Grouped(m, T, period, filters, dimension)
           J == {Bucket(r, dimension) : r \in rows}
           p == [b \in J |-> InBucket(rows, dimension, b)]
<1>1. rows \in SUBSET T
  BY SomeSelected
<1>2. groups = [b \in J |-> Values(m, InBucket(rows, dimension, b))]
  BY DEF Grouped, InBucket
<1>3. IsFiniteSet(T)
  BY DEF IsTable, HasKeys
<1> HIDE DEF rows
<1>4. IsFiniteSet(J)
  <2> DEFINE g == [r \in rows |-> Bucket(r, dimension)]
  <2>1. J = {g[r] : r \in rows}
    OBVIOUS
  <2>2. IsFiniteSet(rows)
    BY <1>1, <1>3, FS_Subset
  <2> HIDE DEF g, J
  <2>3. QED
    BY <2>1, <2>2, FiniteImage
<1>5. ApartOn(p, J, T)
  <2>1. \A b \in J : p[b] \in SUBSET T
    BY <1>1 DEF InBucket
  <2>2. \A b, c \in J : b # c => p[b] \cap p[c] = {}
    BY DEF InBucket
  <2>3. QED
    BY <2>1, <2>2 DEF ApartOn
<1>6. Together(p, J) = rows
  <2>1. \A b \in J : p[b] = InBucket(rows, dimension, b)
    OBVIOUS
  <2>2. \A r \in rows : Bucket(r, dimension) \in J
    OBVIOUS
  <2> HIDE DEF p, J
  <2>3. \A r \in rows : r \in Together(p, J)
    BY <2>1, <2>2 DEF Together, InBucket
  <2>4. \A r \in Together(p, J) : r \in rows
    BY <2>1 DEF Together, InBucket
  <2>5. QED
    BY <2>3, <2>4
<1>7. DOMAIN groups = J /\ \A b \in J : groups[b] = Values(m, p[b])
  BY <1>2
<1> HIDE DEF groups, J, p
<1>8. ASSUME NEW f \in AdditiveFields(Values(m, rows))
      PROVE  Additive(Values(m, rows), f) = SumFunction([b \in DOMAIN groups |-> Additive(groups[b], f)])
  <2> DEFINE k == [b \in J |-> Additive(groups[b], f)]
  <2>1. Measures(Figure(m, f, T), T)
    BY FiguresAddUp
  <2>2. \A b \in J : k[b] = Figure(m, f, T)[p[b]]
    <3>1. \A b \in J : p[b] \in SUBSET T
      BY <1>5 DEF ApartOn
    <3>2. QED
      BY <1>7, <3>1, FigureOf
  <2>3. SumFunction(k) = SumFunctionOnSet(k, J)
    BY DEF SumFunction
  <2>4. k = [b \in DOMAIN groups |-> Additive(groups[b], f)]
    BY <1>7
  <2> DEFINE F == Figure(m, f, T)
  <2> HIDE DEF k, F
  <2>5. F[Together(p, J)] = SumFunctionOnSet(k, J)
    <3>1. Measures(F, T) /\ \A b \in J : k[b] = F[p[b]]
      BY <2>1, <2>2 DEF F
    <3>2. QED
      BY <1>4, <1>5, <3>1, PartsAddUp
  <2>6. F[rows] = Additive(Values(m, rows), f)
    BY <1>1, FigureOf DEF F
  <2>7. QED
    BY <1>6, <2>3, <2>4, <2>5, <2>6
<1>9. QED
  BY <1>8 DEF GroupsAddUp, Ungrouped, rows, groups

(* The rows of a period that one filter lets pass                            *)
OneFilter(op, v) == <<[operator |-> op, value |-> v]>>

LEMMA FilteredRows ==
    ASSUME NEW T, NEW period
    PROVE  \A r, v :
             /\ r \in Selected(T, period, OneFilter("eq", v)) <=> r \in T /\ InPeriod(r.at, period) /\ r.label # Null /\ r.label = v
             /\ r \in Selected(T, period, OneFilter("ne", v)) <=> r \in T /\ InPeriod(r.at, period) /\ r.label # Null /\ r.label # v
             /\ r \in Selected(T, period, OneFilter("in", v)) <=> r \in T /\ InPeriod(r.at, period) /\ r.label # Null /\ r.label \in v
             /\ r \in Selected(T, period, OneFilter("not_in", v)) <=> r \in T /\ InPeriod(r.at, period) /\ r.label # Null /\ r.label \notin v
<1> TAKE r, v
<1>1. \A f : DOMAIN <<f>> = {1} /\ <<f>>[1] = f
  OBVIOUS
<1>2. \A op : PassesAll(r, OneFilter(op, v)) <=> Passes(r, [operator |-> op, value |-> v])
  <2> TAKE op
  <2> DEFINE g == [operator |-> op, value |-> v]
  <2>1. DOMAIN OneFilter(op, v) = {1} /\ OneFilter(op, v)[1] = g
    BY DEF OneFilter
  <2> HIDE DEF g
  <2>2. PassesAll(r, OneFilter(op, v)) <=> Passes(r, g)
    BY <2>1 DEF PassesAll
  <2>3. QED
    BY <2>2 DEF g
<1>3. /\ Passes(r, [operator |-> "eq", value |-> v]) <=> r.label # Null /\ r.label = v
      /\ Passes(r, [operator |-> "ne", value |-> v]) <=> r.label # Null /\ r.label # v
      /\ Passes(r, [operator |-> "in", value |-> v]) <=> r.label # Null /\ r.label \in v
      /\ Passes(r, [operator |-> "not_in", value |-> v]) <=> r.label # Null /\ r.label \notin v
  BY DEF Passes
<1>4. \A op : r \in Selected(T, period, OneFilter(op, v)) <=> r \in T /\ InPeriod(r.at, period) /\ PassesAll(r, OneFilter(op, v))
  BY DEF Selected
<1>5. QED
  BY <1>2, <1>3, <1>4

LEMMA LabelledRows ==
    ASSUME NEW T, NEW period
    PROVE  \A r : r \in Selected({s \in T : s.label # Null}, period, <<>>) <=>
                  r \in T /\ InPeriod(r.at, period) /\ r.label # Null
BY DEF Selected, PassesAll

(* For every metric, table and finite set of labels: a filter and its opposite *)
(* split the rows that have a label (compiler.py:122-157).                    *)
LEMMA FiltersAdd ==
    ASSUME NEW m \in MetricNames, NEW T, IsTable(Source(m), T), NEW period, NEW values, IsFiniteSet(values)
    PROVE  FiltersSplit(m, T, period, values)
<1> DEFINE by(op, v) == Selected(T, period, OneFilter(op, v))
           rows == Selected({s \in T : s.label # Null}, period, <<>>)
           p == [v \in values |-> by("eq", v)]
           among == by("in", values)
           others == by("not_in", values)
<1>1. rows \in SUBSET T /\ \A op, v : by(op, v) \in SUBSET T
  BY DEF Selected
<1>2. \A v : by("eq", v) \cap by("ne", v) = {} /\ by("eq", v) \cup by("ne", v) = rows
  <2> TAKE v
  <2>1. \A r : /\ r \in by("eq", v) <=> r \in rows /\ r.label = v
               /\ r \in by("ne", v) <=> r \in rows /\ r.label # v
    BY FilteredRows, LabelledRows
  <2> HIDE DEF by, rows
  <2>2. QED
    BY <2>1
<1>3. among \cap others = {} /\ among \cup others = rows
  <2>1. \A r : /\ r \in among <=> r \in rows /\ r.label \in values
               /\ r \in others <=> r \in rows /\ r.label \notin values
    BY FilteredRows, LabelledRows
  <2> HIDE DEF among, others, rows
  <2>2. QED
    BY <2>1
<1>4. ApartOn(p, values, T) /\ Together(p, values) = among
  <2>1. \A r : /\ r \in among <=> r \in rows /\ r.label \in values
               /\ \A v : r \in by("eq", v) <=> r \in rows /\ r.label = v
    BY FilteredRows, LabelledRows
  <2>2. \A v \in values : p[v] = by("eq", v)
    OBVIOUS
  <2> HIDE DEF by, rows, among, p
  <2>3. \A v, w \in values : v # w => p[v] \cap p[w] = {}
    BY <2>1, <2>2
  <2>4. \A v \in values : p[v] \in SUBSET T
    BY <1>1, <2>2
  <2>5. \A r : r \in Together(p, values) <=> r \in among
    BY <2>1, <2>2 DEF Together
  <2>6. QED
    BY <2>3, <2>4, <2>5 DEF ApartOn
<1>5. \A v \in values : p[v] = by("eq", v)
  OBVIOUS
<1> HIDE DEF by, rows, among, others, p
<1>6. among \in SUBSET T /\ others \in SUBSET T
  BY <1>1 DEF among, others, by
<1>7. ASSUME NEW f \in AdditiveFields(Values(m, rows))
      PROVE  /\ \A v \in values : Additive(Values(m, rows), f) = Additive(Values(m, by("eq", v)), f) + Additive(Values(m, by("ne", v)), f)
             /\ Additive(Values(m, among), f) = SumFunction([v \in values |-> Additive(Values(m, by("eq", v)), f)])
             /\ Additive(Values(m, rows), f) = Additive(Values(m, among), f) + Additive(Values(m, others), f)
  <2> DEFINE F == Figure(m, f, T)
             k == [v \in values |-> Additive(Values(m, by("eq", v)), f)]
  <2>1. Measures(F, T)
    BY FiguresAddUp
  <2>2. \A A \in SUBSET T : F[A] = Additive(Values(m, A), f)
    BY FigureOf
  <2>3. \A v \in values : k[v] = Additive(Values(m, by("eq", v)), f)
    OBVIOUS
  <2>4. SumFunction(k) = SumFunctionOnSet(k, values)
    BY DEF SumFunction
  <2> HIDE DEF F, k
  <2>5. \A v \in values : k[v] = F[p[v]]
    BY <1>1, <1>5, <2>2, <2>3
  <2>6. F[Together(p, values)] = SumFunctionOnSet(k, values)
    BY <1>4, <2>1, <2>5, PartsAddUp
  <2>7. Additive(Values(m, among), f) = SumFunction(k)
    BY <1>4, <1>6, <2>2, <2>4, <2>6
  <2>8. F[rows] = F[among] + F[others]
    BY <1>3, <1>6, <2>1 DEF Measures
  <2>9. \A v \in values : F[rows] = F[by("eq", v)] + F[by("ne", v)]
    BY <1>1, <1>2, <2>1 DEF Measures
  <2>10. QED
    BY <1>1, <1>6, <2>2, <2>7, <2>8, <2>9 DEF k
<1>8. QED
  BY <1>7 DEF FiltersSplit, Ungrouped, OneFilter, by, rows, among, others

-----------------------------------------------------------------------------
(* Rates and averages                                                        *)

LEMMA Quotient ==
    ASSUME NEW a \in Int, NEW b \in Nat, b # 0
    PROVE  a \div b \in Int /\ b * (a \div b) <= a /\ a < b * (a \div b) + b
<1>1. b > 0
  OBVIOUS
<1>2. QED
  BY <1>1

LEMMA Scaled ==
    ASSUME NEW a \in Int, NEW b \in Int, NEW c \in Nat, a <= b
    PROVE  c * a <= c * b /\ c * a \in Int /\ c * b \in Int
OBVIOUS

LEMMA StrictlyLess ==
    ASSUME NEW a \in Int, NEW b \in Int, NEW c \in Nat, c * a < c * b
    PROVE  a < b
<1> SUFFICES ASSUME b <= a PROVE FALSE
  OBVIOUS
<1>1. c * b <= c * a /\ c * a \in Int /\ c * b \in Int
  BY Scaled
<1>2. QED
  BY <1>1

(* A quotient of at least one number and at most another, rounded half up     *)
LEMMA RoundedBetween ==
    ASSUME NEW x \in Int, NEW y \in Nat, y # 0, NEW lo \in Int, NEW hi \in Int, y * lo <= x, x <= y * hi
    PROVE  LET q == (200 * x + y) \div (2 * y) IN q \in Int /\ 100 * lo <= q /\ q <= 100 * hi
<1> DEFINE q == (200 * x + y) \div (2 * y)
           a == y * lo
           b == y * hi
           c == y * q
<1>1. a \in Int /\ b \in Int /\ a <= x /\ x <= b
  OBVIOUS
<1>2. q \in Int /\ (2 * y) * q <= 200 * x + y /\ 200 * x + y < (2 * y) * q + 2 * y
  <2>1. 200 * x + y \in Int /\ 2 * y \in Nat /\ 2 * y # 0
    OBVIOUS
  <2>2. QED
    BY <2>1, Quotient
<1> HIDE DEF q
<1>3. c \in Int /\ (2 * y) * q = 2 * c
  BY <1>2
<1>4. y * (100 * lo) = 100 * a /\ y * (100 * hi) = 100 * b /\ y * (q + 1) = c + y /\ y * (100 * hi + 1) = 100 * b + y
  BY <1>2
<1> HIDE DEF a, b, c
<1>5. 100 * a < c + y /\ c < 100 * b + y
  BY <1>1, <1>2, <1>3
<1>6. y * (100 * lo) < y * (q + 1) /\ y * q < y * (100 * hi + 1)
  BY <1>4, <1>5 DEF c
<1>7. 100 * lo < q + 1
  BY <1>2, <1>6, StrictlyLess
<1>8. q < 100 * hi + 1
  BY <1>2, <1>6, StrictlyLess
<1>9. QED
  BY <1>2, <1>7, <1>8 DEF q

LEMMA RatioBetween ==
    ASSUME NEW x \in Int, NEW y \in Nat, y # 0, NEW lo \in Int, NEW hi \in Int, y * lo <= x, x <= y * hi
    PROVE  100 * lo <= RoundedRatio(100, x, y) /\ RoundedRatio(100, x, y) <= 100 * hi
<1>1. x # Null /\ y # Null
  BY MetricsAssumption
<1>2. CASE x >= 0
  <2> DEFINE q == (200 * x + y) \div (2 * y)
  <2>1. q \in Int /\ 100 * lo <= q /\ q <= 100 * hi
    BY RoundedBetween
  <2>2. RoundedRatio(100, x, y) = 1 * ((1 * (2 * 100 * x) + y) \div (2 * y))
    BY <1>1, <1>2 DEF RoundedRatio
  <2>3. 1 * (2 * 100 * x) + y = 200 * x + y
    OBVIOUS
  <2>4. RoundedRatio(100, x, y) = 1 * q
    BY <2>2, <2>3
  <2> HIDE DEF q
  <2>5. QED
    BY <2>1, <2>4
<1>3. CASE x < 0
  <2> DEFINE z == -x
             q == (200 * z + y) \div (2 * y)
  <2>1. z \in Int /\ y * (-hi) <= z /\ z <= y * (-lo)
    <3>1. y * (-hi) = -(y * hi) /\ y * (-lo) = -(y * lo)
      OBVIOUS
    <3>2. QED
      BY <3>1
  <2>2. RoundedRatio(100, x, y) = -1 * ((-1 * (2 * 100 * x) + y) \div (2 * y))
    BY <1>1, <1>3 DEF RoundedRatio
  <2>3. -1 * (2 * 100 * x) + y = 200 * z + y
    OBVIOUS
  <2>4. RoundedRatio(100, x, y) = -1 * q
    BY <2>2, <2>3
  <2> HIDE DEF z
  <2>5. -hi \in Int /\ -lo \in Int
    OBVIOUS
  <2>6. q \in Int /\ 100 * (-hi) <= q /\ q <= 100 * (-lo)
    BY <2>1, <2>5, RoundedBetween
  <2> HIDE DEF q
  <2>7. QED
    BY <2>4, <2>6
<1>4. QED
  BY <1>2, <1>3

LEMMA NoRatio == \A s, x : RoundedRatio(s, x, 0) = Null
BY Zenon DEF RoundedRatio

LEMMA WithinRate == ASSUME NEW q \in Int, -1 < q, q < 10001 PROVE q \in Percents
BY DEF Percents

(* A part of a whole as a rate                                               *)
LEMMA RateOfPart ==
    ASSUME NEW x, NEW y, x \in Nat, y \in Nat, x <= y
    PROVE  (y = 0 => Percent(x, y) = Null) /\ (y # 0 => Percent(x, y) \in Percents)
<1>1. x # Null /\ y # Null
  BY MetricsAssumption
<1>2. y = 0 => Percent(x, y) = Null
  BY NoRatio DEF Percent
<1>3. y # 0 => Percent(x, y) \in Percents
  <2> HAVE y # 0
  <2> DEFINE q == (20000 * x + y) \div (2 * y)
             c == y * q
  <2>1. q \in Int /\ (2 * y) * q <= 20000 * x + y /\ 20000 * x + y < (2 * y) * q + 2 * y
    <3> DEFINE a == 20000 * x + y
               b == 2 * y
    <3>1. a \in Int
      OBVIOUS
    <3>2. b \in Nat
      OBVIOUS
    <3>3. b # 0
      OBVIOUS
    <3> HIDE DEF a, b
    <3>4. a \div b \in Int /\ b * (a \div b) <= a /\ a < b * (a \div b) + b
      BY <3>1, <3>2, <3>3, Quotient
    <3>5. QED
      BY <3>4 DEF a, b
  <2>2. Percent(x, y) = 1 * ((1 * (2 * 10000 * x) + y) \div (2 * y))
    BY <1>1 DEF Percent, RoundedRatio
  <2>3. 1 * (2 * 10000 * x) + y = 20000 * x + y
    OBVIOUS
  <2>4. Percent(x, y) = 1 * q
    BY <2>2, <2>3
  <2> HIDE DEF q
  <2>5. c \in Int /\ (2 * y) * q = 2 * c /\ y * (-1) = -y /\ y * 10001 = 10001 * y
    BY <2>1
  <2> HIDE DEF c
  <2>6. c < 10001 * y /\ -y < c
    BY <2>1, <2>5
  <2>7. y * q < y * 10001 /\ y * (-1) < y * q
    BY <2>5, <2>6 DEF c
  <2>8. q < 10001
    BY <2>1, <2>7, StrictlyLess
  <2>9. -1 < q
    BY <2>1, <2>7, StrictlyLess
  <2>11. Percent(x, y) = q
    BY <2>1, <2>4
  <2>12. q \in Percents
    BY <2>1, <2>8, <2>9, WithinRate
  <2>10. QED
    BY <2>11, <2>12
<1>4. QED
  BY <1>2, <1>3

(* A share of some rows, in hundredths of a percent                           *)
IsShare(A, p) == (A = {} => p = Null) /\ (A # {} => p \in Percents)
IsRate(p, y) == (y = 0 => p = Null) /\ (y # 0 => p \in Percents)

LEMMA RateIs ==
    ASSUME NEW x, NEW y, x \in Nat, y \in Nat, x <= y
    PROVE  IsRate(Percent(x, y), y)
<1>1. (y = 0 => Percent(x, y) = Null) /\ (y # 0 => Percent(x, y) \in Percents)
  BY RateOfPart
<1>2. QED
  BY <1>1 DEF IsRate

LEMMA RateOfRows ==
    ASSUME NEW A, IsFiniteSet(A), NEW B \in SUBSET A
    PROVE  IsShare(A, Percent(Cardinality(B), Cardinality(A)))
<1>1. IsFiniteSet(B) /\ Cardinality(B) <= Cardinality(A)
  BY FS_Subset
<1>2. Cardinality(A) \in Nat /\ Cardinality(B) \in Nat
  BY <1>1, FS_CardinalityType
<1>3. Cardinality(A) = 0 <=> A = {}
  BY FS_EmptySet
<1> DEFINE x == Percent(Cardinality(B), Cardinality(A))
<1>5. (Cardinality(A) = 0 => x = Null) /\ (Cardinality(A) # 0 => x \in Percents)
  <2> DEFINE a == Cardinality(A)
             b == Cardinality(B)
  <2>1. a \in Nat /\ b \in Nat /\ b <= a
    BY <1>1, <1>2
  <2> HIDE DEF a, b
  <2>2. IsRate(Percent(b, a), a)
    BY <2>1, RateIs
  <2>3. QED
    BY <2>2 DEF a, b, IsRate
<1> HIDE DEF x
<1>6. IsShare(A, x)
  BY <1>3, <1>5 DEF IsShare
<1>7. QED
  BY <1>6 DEF x

LEMMA CustomersOf ==
    ASSUME NEW A, IsFiniteSet(A)
    PROVE  IsFiniteSet(Customers(A)) /\ (Customers(A) = {} <=> Delivered(A) = {})
<1> DEFINE f == [o \in A |-> o.customer]
<1>1. Customers(A) \in SUBSET {f[o] : o \in A}
  BY DEF Customers, Delivered
<1> HIDE DEF f
<1>2. IsFiniteSet({f[o] : o \in A})
  BY FiniteImage
<1>3. IsFiniteSet(Customers(A))
  BY <1>1, <1>2, FS_Subset
<1>4. Customers(A) = {} <=> Delivered(A) = {}
  BY DEF Customers
<1>5. QED
  BY <1>3, <1>4

LEMMA RatesShare ==
    ASSUME NEW m \in MetricNames, NEW T, IsTable(Source(m), T), NEW period, NEW filters
    PROVE  RatesAreShares(m, T, period, filters)
<1> DEFINE rows == Selected(T, period, filters)
           none == IF m \in {"refund_rate", "repeat_purchase_rate"} THEN Delivered(rows) = {} ELSE rows = {}
           Good == "rate" \in DOMAIN Values(m, rows) /\ m # "gross_margin_pct" =>
                       IF none THEN Values(m, rows).rate = Null ELSE Values(m, rows).rate \in Percents
<1>1. IsFiniteSet(rows)
  <2>1. IsFiniteSet(T) /\ rows \in SUBSET T
    BY SomeSelected DEF IsTable, HasKeys
  <2>2. QED
    BY <2>1, FS_Subset
<1> SUFFICES Good
  BY DEF RatesAreShares
<1> HIDE DEF rows
<1>2. IsFiniteSet(Delivered(rows)) /\ Delivered(rows) \in SUBSET rows
  BY <1>1, FS_Subset DEF Delivered
<1>3. CASE m = "repeat_purchase_rate"
  <2> DEFINE A == Customers(rows)
             B == RepeatCustomers(rows)
  <2>1. IsFiniteSet(A) /\ (A = {} <=> Delivered(rows) = {})
    BY <1>1, CustomersOf
  <2>2. B \in SUBSET A
    BY DEF RepeatCustomers
  <2>3. Values(m, rows).rate = Percent(Cardinality(B), Cardinality(A))
    BY <1>3 DEF Values, RepeatCustomerRate
  <2> HIDE DEF A, B
  <2>4. IF A = {} THEN Values(m, rows).rate = Null ELSE Values(m, rows).rate \in Percents
    <3>1. IsShare(A, Percent(Cardinality(B), Cardinality(A)))
      BY <2>1, <2>2, RateOfRows
    <3>2. QED
      BY <2>3, <3>1 DEF IsShare
  <2>5. QED
    BY <1>3, <2>1, <2>4
<1>4. CASE m = "refund_rate"
  <2> DEFINE A == Delivered(rows)
             B == RefundedOrders(rows)
  <2>2. B \in SUBSET A
    BY DEF RefundedOrders
  <2>3. Values(m, rows).rate = Percent(Cardinality(B), Cardinality(A))
    BY <1>4 DEF Values, RefundRate
  <2>6. IsFiniteSet(A)
    BY <1>2
  <2>7. A = Delivered(rows)
    OBVIOUS
  <2> HIDE DEF A, B
  <2>4. IF A = {} THEN Values(m, rows).rate = Null ELSE Values(m, rows).rate \in Percents
    <3>1. IsShare(A, Percent(Cardinality(B), Cardinality(A)))
      BY <2>2, <2>6, RateOfRows
    <3>2. QED
      BY <2>3, <3>1 DEF IsShare
  <2>5. QED
    BY <1>4, <2>4, <2>7
<1>5. CASE m \in {"cancellation_rate", "payment_success_rate", "conversion_rate", "late_delivery_rate"}
  <2> DEFINE B == CASE m = "cancellation_rate" -> {o \in rows : o.status = "cancelled"}
                    [] m = "payment_success_rate" -> {p \in rows : p.status = "completed"}
                    [] m = "conversion_rate" -> {s \in rows : s.converted = "true"}
                    [] OTHER -> {s \in rows : s.expected # Null /\ s.at > s.expected}
  <2>1. B \in SUBSET rows
    BY <1>5
  <2>2. Values(m, rows).rate = Percent(Cardinality(B), Cardinality(rows))
    <3>1. CASE m = "cancellation_rate" BY <3>1 DEF Values, CancellationRate
    <3>2. CASE m = "payment_success_rate" BY <3>2 DEF Values, PaymentSuccess
    <3>3. CASE m = "conversion_rate" BY <3>3 DEF Values, ConversionRate
    <3>4. CASE m = "late_delivery_rate" BY <3>4 DEF Values, LateDelivery
    <3>5. QED
      BY <1>5, <3>1, <3>2, <3>3, <3>4
  <2> HIDE DEF B
  <2>3. IF rows = {} THEN Values(m, rows).rate = Null ELSE Values(m, rows).rate \in Percents
    <3>1. IsShare(rows, Percent(Cardinality(B), Cardinality(rows)))
      BY <1>1, <2>1, RateOfRows
    <3>2. QED
      BY <2>2, <3>1 DEF IsShare
  <2>4. QED
    BY <1>5, <2>3
<1>6. CASE m \notin {"repeat_purchase_rate", "refund_rate", "cancellation_rate", "payment_success_rate",
                    "conversion_rate", "late_delivery_rate", "gross_margin_pct"}
  <2>1. "rate" \notin DOMAIN Values(m, rows)
    <3> USE DEF Values
    <3>1. CASE m \in {"revenue", "orders"} BY <3>1 DEF Revenue
    <3>2. CASE m = "gross_profit" BY <3>2 DEF GrossProfit
    <3>3. CASE m = "units_sold" BY <3>3 DEF UnitsSold
    <3>4. CASE m = "average_order_value" BY <3>4 DEF AverageOrderValue
    <3>5. CASE m = "customer_count" BY <3>5 DEF CustomerCount
    <3>6. CASE m = "payment_failure_count" BY <3>6 DEF PaymentFailure
    <3>7. CASE m = "average_delivery_time" BY <3>7 DEF AverageDeliveryTime
    <3>8. CASE m = "average_review_rating" BY <3>8 DEF AverageReview
    <3>9. CASE m = "new_customers" BY <3>9 DEF NewCustomers
    <3> HIDE DEF Values
    <3>10. QED
      BY <1>6, <3>1, <3>2, <3>3, <3>4, <3>5, <3>6, <3>7, <3>8, <3>9 DEF MetricNames
  <2>2. QED
    BY <2>1
<1>7. CASE m = "gross_margin_pct"
  BY <1>7
<1> HIDE DEF Good, none
<1>8. QED
  BY <1>3, <1>4, <1>5, <1>6, <1>7

LEMMA FiniteExtremes ==
    ASSUME NEW S, IsFiniteSet(S), S # {}, S \subseteq Int
    PROVE  /\ \E n \in S : \A x \in S : n <= x
           /\ \E n \in S : \A x \in S : x <= n
<1> DEFINE HasEnds(A) == (\E n \in A : \A x \in A : n <= x) /\ (\E n \in A : \A x \in A : x <= n)
           G == {A \in SUBSET S : A # {} => HasEnds(A)}
<1>1. {} \in G
  OBVIOUS
<1>2. ASSUME NEW A \in SUBSET S, A \in G, NEW y \in S \ A PROVE A \cup {y} \in G
  <2> DEFINE B == A \cup {y}
  <2>1. CASE A = {}
    <3>1. B = {y} /\ y \in Int
      BY <2>1
    <3>2. HasEnds(B)
      BY <3>1
    <3>3. QED
      BY <3>2
  <2>2. CASE A # {}
    <3>1. HasEnds(A)
      BY <1>2, <2>2
    <3>2. PICK n \in A : \A x \in A : n <= x
      BY <3>1
    <3>3. PICK k \in A : \A x \in A : x <= k
      BY <3>1
    <3>4. \E i \in B : \A x \in B : i <= x
      <4> DEFINE i == IF n <= y THEN n ELSE y
      <4>1. i \in B /\ \A x \in B : i <= x
        BY <3>2
      <4>2. QED
        BY <4>1
    <3>5. \E i \in B : \A x \in B : x <= i
      <4> DEFINE i == IF y <= k THEN k ELSE y
      <4>1. i \in B /\ \A x \in B : x <= i
        BY <3>3
      <4>2. QED
        BY <4>1
    <3>6. QED
      BY <3>4, <3>5
  <2>3. QED
    BY <2>1, <2>2
<1> HIDE DEF G
<1>3. S \in G
  BY <1>1, <1>2, FiniteInduction
<1>4. QED
  BY <1>3 DEF G

LEMMA ExtremesAre ==
    ASSUME NEW S, IsFiniteSet(S), S # {}, S \subseteq Int
    PROVE  /\ Min(S) \in S /\ \A x \in S : Min(S) <= x
           /\ Max(S) \in S /\ \A x \in S : x <= Max(S)
<1>1. Min(S) \in S /\ \A x \in S : Min(S) <= x
  BY FiniteExtremes DEF Min
<1>2. PICK n \in S : \A x \in S : n >= x
  BY FiniteExtremes
<1>3. Max(S) \in S /\ \A x \in S : Max(S) >= x
  BY <1>2 DEF Max
<1>4. QED
  BY <1>1, <1>3

LEMMA OneMore ==
    ASSUME NEW n \in Nat, NEW lo \in Int, NEW hi \in Int, NEW s \in Int, NEW v \in Int,
           n * lo <= s, s <= n * hi, lo <= v, v <= hi
    PROVE  (n + 1) * lo <= v + s /\ v + s <= (n + 1) * hi
<1>1. (n + 1) * lo = n * lo + lo /\ (n + 1) * hi = n * hi + hi /\ n * lo \in Int /\ n * hi \in Int
  OBVIOUS
<1>2. QED
  BY <1>1

LEMMA SumBetween ==
    ASSUME NEW S, IsFiniteSet(S), NEW f, NEW lo \in Int, NEW hi \in Int,
           \A x \in S : f[x] \in Int /\ lo <= f[x] /\ f[x] <= hi
    PROVE  Cardinality(S) * lo <= SumFunctionOnSet(f, S) /\ SumFunctionOnSet(f, S) <= Cardinality(S) * hi
<1> DEFINE Good(A) == Cardinality(A) * lo <= SumFunctionOnSet(f, A) /\ SumFunctionOnSet(f, A) <= Cardinality(A) * hi
           G == {A \in SUBSET S : Good(A)}
<1>1. {} \in G
  <2>1. Cardinality({}) = 0 /\ SumFunctionOnSet(f, {}) = 0
    BY FS_EmptySet, SumNone
  <2>2. QED
    BY <2>1
<1>2. ASSUME NEW A \in SUBSET S, A \in G, NEW y \in S \ A PROVE A \cup {y} \in G
  <2> DEFINE B == A \cup {y}
  <2>1. IsFiniteSet(A) /\ Cardinality(A) \in Nat
    BY FS_Subset, FS_CardinalityType
  <2>2. IsFiniteSet(B) /\ Cardinality(B) = Cardinality(A) + 1
    BY <2>1, FS_AddElement
  <2>3. y \in B /\ B \ {y} = A /\ B \in SUBSET S
    OBVIOUS
  <2> HIDE DEF B
  <2>4. AreNumbers(f, B)
    BY <2>3 DEF AreNumbers
  <2>5. SumFunctionOnSet(f, B) = f[y] + SumFunctionOnSet(f, A) /\ SumFunctionOnSet(f, A) \in Int
    BY <2>2, <2>3, <2>4, SumMore
  <2>6. Good(A)
    BY <1>2
  <2>7. f[y] \in Int /\ lo <= f[y] /\ f[y] <= hi
    OBVIOUS
  <2>8. Good(B)
    BY <2>1, <2>2, <2>5, <2>6, <2>7, OneMore
  <2>9. QED
    BY <2>3, <2>8 DEF B
<1> HIDE DEF G
<1>3. S \in G
  BY <1>1, <1>2, FiniteInduction
<1>4. QED
  BY <1>3 DEF G

LEMMA NonNegativeSum ==
    ASSUME NEW S, IsFiniteSet(S), NEW f, \A x \in S : f[x] \in Nat
    PROVE  SumFunctionOnSet(f, S) >= 0
<1> DEFINE G == {A \in SUBSET S : SumFunctionOnSet(f, A) \in Nat}
<1>1. {} \in G
  BY SumNone
<1>2. ASSUME NEW A \in SUBSET S, A \in G, NEW y \in S \ A PROVE A \cup {y} \in G
  <2> DEFINE B == A \cup {y}
  <2>1. IsFiniteSet(B) /\ y \in B /\ B \ {y} = A /\ B \in SUBSET S
    BY FS_Subset
  <2> HIDE DEF B
  <2>2. AreNumbers(f, B)
    BY <2>1 DEF AreNumbers
  <2>3. SumFunctionOnSet(f, B) = f[y] + SumFunctionOnSet(f, A)
    BY <2>1, <2>2, SumMore
  <2>4. SumFunctionOnSet(f, A) \in Nat
    BY <1>2
  <2>5. f[y] \in Nat
    OBVIOUS
  <2>6. SumFunctionOnSet(f, B) \in Nat
    BY <2>3, <2>4, <2>5
  <2>7. QED
    BY <2>1, <2>6 DEF B
<1> HIDE DEF G
<1>3. S \in G
  BY <1>1, <1>2, FiniteInduction
<1>4. QED
  BY <1>3 DEF G

(* The mean of some values, in hundredths, lies between their extremes.      *)
LEMMA MeanBetween ==
    ASSUME NEW S, IsFiniteSet(S), NEW f, AreNumbers(f, S), S # {}, NEW seen, seen = {f[x] : x \in S}
    PROVE  LET mean == RoundedRatio(100, SumFunctionOnSet(f, S), Cardinality(S))
           IN  100 * Min(seen) <= mean /\ mean <= 100 * Max(seen)
<1> DEFINE lo == Min(seen)
           hi == Max(seen)
           n == Cardinality(S)
           s == SumFunctionOnSet(f, S)
<1>1. IsFiniteSet(seen)
  BY FiniteImage
<1>2. seen # {} /\ seen \subseteq Int
  BY DEF AreNumbers
<1>3. lo \in seen /\ hi \in seen /\ \A x \in seen : lo <= x /\ x <= hi
  BY <1>1, <1>2, ExtremesAre
<1>4. n \in Nat /\ n # 0
  BY FS_CardinalityType, FS_EmptySet
<1>5. s \in Int
  BY SumIsInt
<1> HIDE DEF lo, hi
<1>6. lo \in Int /\ hi \in Int
  BY <1>2, <1>3
<1>7. \A x \in S : f[x] \in Int /\ lo <= f[x] /\ f[x] <= hi
  BY <1>3 DEF AreNumbers
<1>8. n * lo <= s /\ s <= n * hi
  BY <1>6, <1>7, SumBetween
<1> HIDE DEF n, s
<1>9. 100 * lo <= RoundedRatio(100, s, n) /\ RoundedRatio(100, s, n) <= 100 * hi
  BY <1>4, <1>5, <1>6, <1>8, RatioBetween
<1>10. QED
  BY <1>9 DEF lo, hi, n, s

LEMMA NoMean == \A y : RoundedRatio(100, Null, y) = Null
BY Zenon DEF RoundedRatio

(* Mean of the values of some rows as a metric gives it                      *)
LEMMA MeanOfTotals ==
    ASSUME NEW rows, IsFiniteSet(rows), NEW f, AreNumbers(f, rows), NEW seen, seen = {f[x] : x \in rows}
    PROVE  LET mean == RoundedRatio(100, Totals(rows, f), Cardinality(rows))
           IN  IF seen = {} THEN mean = Null ELSE 100 * Min(seen) <= mean /\ mean <= 100 * Max(seen)
<1>1. Totals(rows, f) = IF rows = {} THEN Null ELSE SumFunctionOnSet(f, rows)
  BY TotalsAre
<1>2. seen = {} <=> rows = {}
  OBVIOUS
<1>3. CASE rows = {}
  <2>1. RoundedRatio(100, Totals(rows, f), Cardinality(rows)) = Null
    BY <1>1, <1>3, NoMean
  <2>2. QED
    BY <1>2, <1>3, <2>1
<1>4. CASE rows # {}
  <2> DEFINE mean == RoundedRatio(100, SumFunctionOnSet(f, rows), Cardinality(rows))
  <2>1. 100 * Min(seen) <= mean /\ mean <= 100 * Max(seen)
    BY <1>4, MeanBetween
  <2>2. RoundedRatio(100, Totals(rows, f), Cardinality(rows)) = mean
    BY <1>1, <1>4
  <2> HIDE DEF mean
  <2>3. QED
    BY <1>2, <1>4, <2>1, <2>2
<1>5. QED
  BY <1>3, <1>4

(* For every metric and table: an average lies between the least and the      *)
(* greatest of what it averages, and is NULL of nothing (metrics.py:478-502). *)
LEMMA AveragesBetween ==
    ASSUME NEW m \in MetricNames, NEW T, IsTable(Source(m), T), NEW period, NEW filters
    PROVE  AveragesLieBetween(m, T, period, filters)
<1> DEFINE rows == Selected(T, period, filters)
           Between(mean, seen) == IF seen = {} THEN mean = Null ELSE 100 * Min(seen) <= mean /\ mean <= 100 * Max(seen)
           seen == CASE m = "average_order_value" -> {o.total : o \in Delivered(rows)}
                     [] m = "average_delivery_time" -> {DeliveryDays(r) : r \in rows} \ {Null}
                     [] m = "average_review_rating" -> {r.rating : r \in rows}
                     [] OTHER -> {}
           Good == "average" \in DOMAIN Values(m, rows) => Between(Values(m, rows).average, seen)
<1> SUFFICES Good
  BY DEF AveragesLieBetween
<1>1. IsFiniteSet(rows)
  <2>1. IsFiniteSet(T) /\ rows \in SUBSET T
    BY SomeSelected DEF IsTable, HasKeys
  <2>2. QED
    BY <2>1, FS_Subset
<1>2. \A r \in rows : IsRow(Source(m), r) /\ r.at # Null
  BY DEF Selected, InPeriod, IsTable
<1> HIDE DEF rows
<1>3. CASE m = "average_order_value"
  <2> DEFINE D == Delivered(rows)
             f == [r \in D |-> r.total]
  <2>1. D \in SUBSET rows
    BY DEF Delivered
  <2>2. \A r \in rows : r.total \in Int
    BY <1>2, <1>3 DEF Source, IsRow
  <2>3. Total(D, Amount) = Totals(D, f)
    BY TotalIsTotals
  <2>4. seen = {f[r] : r \in D}
    BY <1>3
  <2>5. AreNumbers(f, D)
    BY <2>1, <2>2 DEF AreNumbers
  <2>6. Values(m, rows).average = RoundedRatio(100, Total(D, Amount), Cardinality(D))
    BY <1>3 DEF Values, AverageOrderValue, Revenue
  <2>7. IsFiniteSet(D)
    BY <1>1, <2>1, FS_Subset
  <2> HIDE DEF D, f, seen
  <2>8. Between(RoundedRatio(100, Totals(D, f), Cardinality(D)), seen)
    BY <2>4, <2>5, <2>7, MeanOfTotals
  <2>9. QED
    BY <2>3, <2>6, <2>8
<1>4. CASE m = "average_review_rating"
  <2> DEFINE f == [r \in rows |-> r.rating]
  <2>2. \A r \in rows : r.rating \in Int
    BY <1>2, <1>4 DEF Source, IsRow
  <2>3. Total(rows, Rating) = Totals(rows, f)
    BY TotalIsTotals
  <2>4. seen = {f[r] : r \in rows}
    BY <1>4
  <2>5. AreNumbers(f, rows)
    BY <2>2 DEF AreNumbers
  <2>6. Values(m, rows).average = RoundedRatio(100, Total(rows, Rating), Cardinality(rows))
    BY <1>4 DEF Values, AverageReview
  <2> HIDE DEF f, seen
  <2>8. Between(RoundedRatio(100, Totals(rows, f), Cardinality(rows)), seen)
    BY <1>1, <2>4, <2>5, MeanOfTotals
  <2>9. QED
    BY <2>3, <2>6, <2>8
<1>5. CASE m = "average_delivery_time"
  <2> DEFINE D == {s \in rows : DeliveryDays(s) # Null}
             f == [r \in D |-> DeliveryDays(r)]
  <2>1. D \in SUBSET rows
    OBVIOUS
  <2>2. \A r \in D : DeliveryDays(r) \in Int
    <3> TAKE r \in D
    <3>1. r.at \in Int
      BY <1>2, <1>5 DEF Source, IsRow, Day
    <3>2. r.shipped # Null /\ DeliveryDays(r) = r.at - r.shipped
      BY DEF DeliveryDays
    <3>3. r.shipped \in Int
      BY <1>2, <1>5, <3>2 DEF Source, IsRow, Day
    <3>4. QED
      BY <3>1, <3>2, <3>3
  <2>3. Total(D, DeliveryDays) = Totals(D, f)
    BY TotalIsTotals
  <2>4. seen = {f[r] : r \in D}
    BY <1>5
  <2>5. AreNumbers(f, D)
    BY <2>2 DEF AreNumbers
  <2>6. Values(m, rows).average = RoundedRatio(100, Total(D, DeliveryDays), Cardinality(D))
    BY <1>5 DEF Values, AverageDeliveryTime
  <2>7. IsFiniteSet(D)
    BY <1>1, <2>1, FS_Subset
  <2> HIDE DEF D, f, seen
  <2>8. Between(RoundedRatio(100, Totals(D, f), Cardinality(D)), seen)
    BY <2>4, <2>5, <2>7, MeanOfTotals
  <2>9. QED
    BY <2>3, <2>6, <2>8
<1>6. CASE m \notin {"average_order_value", "average_review_rating", "average_delivery_time"}
  <2>1. "average" \notin DOMAIN Values(m, rows)
    <3> USE DEF Values
    <3>1. CASE m \in {"revenue", "orders"} BY <3>1 DEF Revenue
    <3>2. CASE m = "gross_profit" BY <3>2 DEF GrossProfit
    <3>3. CASE m = "gross_margin_pct" BY <3>3 DEF GrossMargin
    <3>4. CASE m = "units_sold" BY <3>4 DEF UnitsSold
    <3>5. CASE m = "customer_count" BY <3>5 DEF CustomerCount
    <3>6. CASE m = "repeat_purchase_rate" BY <3>6 DEF RepeatCustomerRate
    <3>7. CASE m = "refund_rate" BY <3>7 DEF RefundRate
    <3>8. CASE m = "cancellation_rate" BY <3>8 DEF CancellationRate
    <3>9. CASE m = "payment_failure_count" BY <3>9 DEF PaymentFailure
    <3>10. CASE m = "payment_success_rate" BY <3>10 DEF PaymentSuccess
    <3>11. CASE m = "conversion_rate" BY <3>11 DEF ConversionRate
    <3>12. CASE m = "late_delivery_rate" BY <3>12 DEF LateDelivery
    <3>13. CASE m = "new_customers" BY <3>13 DEF NewCustomers
    <3> HIDE DEF Values
    <3>14. QED
      BY <1>6, <3>1, <3>2, <3>3, <3>4, <3>5, <3>6, <3>7, <3>8, <3>9, <3>10, <3>11, <3>12, <3>13 DEF MetricNames
  <2> HIDE DEF seen
  <2>2. QED
    BY <2>1
<1> HIDE DEF Good, seen
<1>7. QED
  BY <1>3, <1>4, <1>5, <1>6

-----------------------------------------------------------------------------
(* Growth and attainment                                                     *)

LEMMA RevenueIs ==
    ASSUME NEW T, IsTable("orders", T), NEW A \in SUBSET T
    PROVE  Revenue(A).revenue = Null \/ Revenue(A).revenue \in Nat
<1> DEFINE D == Delivered(A)
           f == [r \in D |-> r.total]
<1>1. D \in SUBSET T
  BY DEF Delivered
<1>2. IsFiniteSet(D)
  BY <1>1, FS_Subset DEF IsTable, HasKeys
<1>3. \A r \in D : r.total \in Nat
  BY <1>1 DEF IsTable, IsRow
<1>4. Revenue(A).revenue = Totals(D, f)
  BY TotalIsTotals DEF Revenue
<1>5. \A r \in D : f[r] \in Nat
  BY <1>3
<1> HIDE DEF D, f
<1>6. AreNumbers(f, D)
  BY <1>5 DEF AreNumbers
<1>7. SumFunctionOnSet(f, D) \in Nat
  <2>1. SumFunctionOnSet(f, D) \in Int
    BY <1>2, <1>6, SumIsInt
  <2>2. SumFunctionOnSet(f, D) >= 0
    BY <1>2, <1>5, NonNegativeSum
  <2>3. QED
    BY <2>1, <2>2
<1>8. Totals(D, f) = IF D = {} THEN Null ELSE SumFunctionOnSet(f, D)
  BY <1>2, <1>6, TotalsAre
<1>9. QED
  BY <1>4, <1>7, <1>8

(* A ratio above zero is of a positive number.                               *)
LEMMA PositiveRatio ==
    ASSUME NEW x \in Int, NEW y \in Nat, Percent(x, y) # Null, Percent(x, y) > 0
    PROVE  x > 0
<1>1. y # 0
  BY NoRatio DEF Percent
<1>2. x # Null /\ y # Null
  BY MetricsAssumption
<1> SUFFICES ASSUME x <= 0 PROVE FALSE
  OBVIOUS
<1>3. CASE x = 0
  <2> DEFINE q == y \div (2 * y)
  <2>1. Percent(0, y) = 1 * ((1 * (2 * 10000 * 0) + y) \div (2 * y))
    BY <1>1, <1>2, <1>3 DEF Percent, RoundedRatio
  <2>2. 1 * (2 * 10000 * 0) + y = y
    OBVIOUS
  <2>3. Percent(x, y) = 1 * q
    BY <1>3, <2>1, <2>2
  <2>4. q \in Int /\ (2 * y) * q <= y
    <3>1. 2 * y \in Nat /\ 2 * y # 0
      BY <1>1
    <3>2. QED
      BY <3>1, Quotient
  <2> HIDE DEF q
  <2>5. q > 0
    BY <2>3, <2>4
  <2>6. (2 * y) * 1 <= (2 * y) * q
    <3>1. 2 * y \in Nat /\ 1 <= q
      BY <2>4, <2>5
    <3>2. QED
      BY <2>4, <3>1, Scaled
  <2>7. QED
    <3> DEFINE c == (2 * y) * q
    <3>1. c <= y /\ 2 * y <= c /\ c \in Int
      BY <2>4, <2>6
    <3> HIDE DEF c
    <3>2. QED
      BY <1>1, <3>1
<1>4. CASE x < 0
  <2> DEFINE a == -1 * (2 * 10000 * x) + y
             b == 2 * y
             q == a \div b
  <2>1. Percent(x, y) = -1 * q
    BY <1>1, <1>2, <1>4 DEF Percent, RoundedRatio
  <2>2. a \in Int /\ a >= 0
    BY <1>4
  <2>3. b \in Nat
    OBVIOUS
  <2>7. b # 0
    BY <1>1
  <2> HIDE DEF a, b
  <2>4. q \in Int /\ a < b * q + b
    BY <2>2, <2>3, <2>7, Quotient
  <2> HIDE DEF q
  <2>5. b * (-1) < b * q
    <3> DEFINE c == b * q
    <3>1. c \in Int /\ a < c + b /\ b * (-1) = -b
      BY <2>3, <2>4
    <3> HIDE DEF c
    <3>2. -b < c
      BY <2>2, <2>3, <3>1
    <3>3. QED
      BY <3>1, <3>2 DEF c
  <2>6. -1 < q
    BY <2>3, <2>4, <2>5, StrictlyLess
  <2>8. QED
    BY <2>1, <2>4, <2>6
<1>5. QED
  BY <1>3, <1>4

LEMMA GrowthChain ==
    ASSUME NEW T, IsTable("orders", T), NEW start \in Int, NEW end \in Int, NEW filters
    PROVE  GrowthChains(T, [start |-> start, end |-> end], filters)
<1> DEFINE period == [start |-> start, end |-> end]
           prior == PriorPeriod(period)
           before == [start |-> start - (end - start), end |-> start]
           growth == RevenueGrowth(T, period, filters)
           c == Revenue(Selected(T, period, filters)).revenue
           p == Revenue(Selected(T, prior, filters)).revenue
<1>1. prior = [start |-> 2 * start - end, end |-> start]
  BY DEF PriorPeriod
<1>2. 2 * start - end = start - (end - start)
  OBVIOUS
<1>3. prior = before
  BY <1>1, <1>2
<1>4. prior.end = start /\ prior.end - prior.start = end - start
  BY <1>1
<1>5. growth.prior_revenue = p /\ growth.current_revenue = c
      /\ growth.rate = IF c = Null \/ p = Null THEN Null ELSE Percent(c - p, p)
  BY DEF RevenueGrowth
<1>6. RevenueGrowth(T, before, filters).current_revenue = Revenue(Selected(T, before, filters)).revenue
  BY DEF RevenueGrowth
<1>7. growth.prior_revenue = RevenueGrowth(T, before, filters).current_revenue
  BY <1>3, <1>5, <1>6
<1>8. (c = Null \/ c \in Nat) /\ (p = Null \/ p \in Nat)
  BY SomeSelected, RevenueIs
<1> HIDE DEF c, p, growth, prior, before
<1>9. ASSUME growth.rate # Null, growth.rate > 0 PROVE growth.current_revenue > growth.prior_revenue
  <2>1. c \in Nat /\ p \in Nat /\ growth.rate = Percent(c - p, p)
    BY <1>5, <1>8, <1>9
  <2> DEFINE x == c - p
  <2>2. x \in Int
    BY <2>1
  <2>3. Percent(x, p) # Null /\ Percent(x, p) > 0
    BY <1>9, <2>1
  <2> HIDE DEF x
  <2>4. x > 0
    BY <2>1, <2>2, <2>3, PositiveRatio
  <2>5. c > p
    BY <2>1, <2>4 DEF x
  <2>6. QED
    BY <1>5, <2>5
<1>10. QED
  BY <1>4, <1>7, <1>9 DEF GrowthChains, growth, prior, before

LEMMA MonthIs ==
    ASSUME NEW at \in Int, NEW m \in Int
    PROVE  at \div MonthDays = m <=> m * MonthDays <= at /\ at < (m + 1) * MonthDays
<1> DEFINE M == MonthDays
           q == at \div M
<1>1. M \in Nat /\ M # 0
  BY MetricsAssumption
<1>2. q \in Int /\ M * q <= at /\ at < M * q + M
  BY <1>1, Quotient
<1> HIDE DEF q
<1>3. m * M = M * m /\ (m + 1) * M = M * m + M /\ M * m \in Int
  BY <1>1
<1>4. ASSUME q = m PROVE m * M <= at /\ at < (m + 1) * M
  BY <1>2, <1>3, <1>4
<1>5. ASSUME m * M <= at, at < (m + 1) * M PROVE q = m
  <2>1. M * q < M * (m + 1) /\ M * m < M * (q + 1)
    <3> DEFINE a == M * q
               b == M * m
    <3>1. a \in Int /\ b \in Int /\ M * (m + 1) = b + M /\ M * (q + 1) = a + M
      BY <1>1, <1>2
    <3>2. a <= at /\ at < a + M /\ b <= at /\ at < b + M
      BY <1>2, <1>3, <1>5
    <3> HIDE DEF a, b
    <3>3. a < b + M /\ b < a + M
      BY <1>1, <3>1, <3>2
    <3>4. QED
      BY <3>1, <3>3 DEF a, b
  <2>2. q < m + 1
    BY <1>1, <1>2, <2>1, StrictlyLess
  <2>3. m < q + 1
    BY <1>1, <1>2, <2>1, StrictlyLess
  <2>4. QED
    BY <1>2, <2>2, <2>3
<1>6. QED
  BY <1>4, <1>5 DEF q, M

LEMMA MonthsWithin ==
    ASSUME NEW months \in Nat, NEW m \in 0..(months - 1)
    PROVE  /\ 0 <= m * MonthDays /\ m * MonthDays < months * MonthDays
           /\ (m + 1) * MonthDays <= months * MonthDays
           /\ m * MonthDays \in Int /\ (m + 1) * MonthDays \in Int /\ months * MonthDays \in Int
<1> DEFINE M == MonthDays
<1>1. M \in Nat /\ M # 0
  BY MetricsAssumption
<1>2. M * 0 <= M * m /\ M * (m + 1) <= M * months
  BY <1>1, Scaled
<1>3. m * M = M * m /\ (m + 1) * M = M * (m + 1) /\ months * M = M * months /\ M * (m + 1) = M * m + M /\ M * 0 = 0
      /\ M * m \in Int /\ M * months \in Int
  BY <1>1
<1>4. QED
  BY <1>1, <1>2, <1>3

LEMMA DeliveredTwice == ASSUME NEW A PROVE Delivered(Delivered(A)) = Delivered(A)
BY DEF Delivered

(* For every table and targets: a month is reported if it has orders or a     *)
(* target, with the actuals the metrics themselves give (metrics.py:212-267). *)
LEMMA AttainmentIs ==
    ASSUME NEW T, IsTable("orders", T), NEW targets, NEW months \in Nat
    PROVE  AttainmentAgrees(T, targets, months)
<1> DEFINE whole == [start |-> 0, end |-> months * MonthDays]
           told == TargetAttainment(T, targets, whole, <<>>)
           month(m) == [start |-> m * MonthDays, end |-> (m + 1) * MonthDays]
           rows == Delivered(Selected(T, whole, <<>>))
           wanted == {t \in targets : InPeriod(t.month * MonthDays, whole)}
           of(m) == {o \in rows : MonthOfRow(o) = m}
           S(m) == Selected(T, month(m), <<>>)
<1> SUFFICES ASSUME NEW m \in 0..(months - 1)
    PROVE  /\ m \in DOMAIN told <=> (Revenue(S(m)).order_count > 0 \/ \E t \in targets : t.month = m)
           /\ m \in DOMAIN told =>
                 /\ told[m].revenue_actual = Revenue(S(m)).revenue
                 /\ told[m].gross_profit_actual = GrossProfit(S(m)).gross_profit
  BY DEF AttainmentAgrees, Ungrouped, Values
<1>1. DOMAIN told = AttainedMonths(rows, wanted)
  BY DEF TargetAttainment
<1>2. m \in DOMAIN told => /\ told[m].revenue_actual = Revenue(of(m)).revenue
                             /\ told[m].gross_profit_actual = GrossProfit(of(m)).gross_profit
  BY DEF TargetAttainment
<1>3. \A r : /\ r \in rows <=> r \in T /\ InPeriod(r.at, whole) /\ r.status = "delivered"
             /\ r \in Delivered(S(m)) <=> r \in T /\ InPeriod(r.at, month(m)) /\ r.status = "delivered"
  BY DEF Selected, Delivered, PassesAll
<1>4. of(m) = Delivered(S(m))
  <2>1. \A r \in T : InPeriod(r.at, whole) /\ MonthOfRow(r) = m <=> InPeriod(r.at, month(m))
    <3> TAKE r \in T
    <3>1. r.at \in Int /\ r.at # Null
      BY MetricsAssumption DEF IsTable, IsRow
    <3>2. MonthOfRow(r) = m <=> m * MonthDays <= r.at /\ r.at < (m + 1) * MonthDays
      BY <3>1, MonthIs DEF MonthOfRow
    <3>3. InPeriod(r.at, whole) <=> 0 <= r.at /\ r.at < months * MonthDays
      BY <3>1 DEF InPeriod
    <3>4. InPeriod(r.at, month(m)) <=> m * MonthDays <= r.at /\ r.at < (m + 1) * MonthDays
      BY <3>1 DEF InPeriod
    <3> DEFINE a == m * MonthDays
               b == (m + 1) * MonthDays
               c == months * MonthDays
    <3>5. 0 <= a /\ b <= c /\ a \in Int /\ b \in Int /\ c \in Int
      BY MonthsWithin
    <3> HIDE DEF a, b, c
    <3>6. a <= r.at /\ r.at < b => 0 <= r.at /\ r.at < c
      BY <3>1, <3>5
    <3>7. QED
      BY <3>2, <3>3, <3>4, <3>6 DEF a, b, c
  <2> HIDE DEF rows, S, month, whole
  <2>2. \A r : r \in of(m) <=> r \in rows /\ MonthOfRow(r) = m
    OBVIOUS
  <2> HIDE DEF of
  <2>3. QED
    BY <1>3, <2>1, <2>2
<1>5. Revenue(Delivered(S(m))) = Revenue(S(m)) /\ GrossProfit(Delivered(S(m))) = GrossProfit(S(m))
  BY DeliveredTwice DEF Revenue, GrossProfit
<1>6. Revenue(S(m)).order_count > 0 <=> Delivered(S(m)) # {}
  <2> DEFINE D == Delivered(S(m))
  <2>1. Revenue(S(m)).order_count = Cardinality(D)
    BY DEF Revenue
  <2>2. D \in SUBSET T
    BY DEF Delivered, Selected
  <2> HIDE DEF D
  <2>3. IsFiniteSet(D)
    BY <2>2, FS_Subset DEF IsTable, HasKeys
  <2>4. Cardinality(D) \in Nat /\ (Cardinality(D) = 0 <=> D = {})
    BY <2>3, FS_CardinalityType, FS_EmptySet
  <2>5. Cardinality(D) > 0 <=> D # {}
    BY <2>4
  <2>6. QED
    BY <2>1, <2>5 DEF D
<1>7. \A t \in targets : t.month = m => t \in wanted
  <2>1. m * MonthDays # Null /\ 0 <= m * MonthDays /\ m * MonthDays < months * MonthDays
    BY MonthsWithin, MetricsAssumption
  <2>2. InPeriod(m * MonthDays, whole)
    BY <2>1 DEF InPeriod
  <2>3. QED
    BY <2>2
<1>8. m \in AttainedMonths(rows, wanted) <=> of(m) # {} \/ \E t \in wanted : t.month = m
  BY DEF AttainedMonths
<1>9. wanted \subseteq targets
  OBVIOUS
<1> HIDE DEF told, rows, wanted, of, S
<1>10. QED
  BY <1>1, <1>2, <1>4, <1>5, <1>6, <1>7, <1>8, <1>9

-----------------------------------------------------------------------------
(* Requests                                                                  *)

LEMMA TurnedAround ==
    ASSUME NEW S, NEW q \in Seq(S)
    PROVE  /\ DOMAIN Reversed(q) = DOMAIN q
           /\ \A i \in DOMAIN q : \E j \in DOMAIN q : Reversed(q)[j] = q[i]
           /\ \A i \in DOMAIN q : \E j \in DOMAIN q : q[j] = Reversed(q)[i]
<1>1. DOMAIN q = 1..Len(q) /\ Len(q) \in Nat
  BY LenProperties
<1>2. DOMAIN Reversed(q) = DOMAIN q /\ \A i \in DOMAIN q : Reversed(q)[i] = q[Len(q) + 1 - i]
  BY DEF Reversed
<1>3. \A i \in DOMAIN q : Len(q) + 1 - i \in DOMAIN q /\ Len(q) + 1 - (Len(q) + 1 - i) = i
  BY <1>1
<1>4. \A i \in DOMAIN q : Reversed(q)[Len(q) + 1 - i] = q[i]
  BY <1>2, <1>3
<1>5. QED
  BY <1>2, <1>3, <1>4

(* What is asked of each part of a request                                   *)
GroupsBy(metric, d, grain) == d \in DimensionSpecs(metric) /\ (d = "period" => grain \in Grains(metric))
FiltersBy(metric, f) ==
    f.field \in FilterSpecs(metric) /\ f.operator \in FilterOperators(f.field) /\ CheckValueType(f)

LEMMA CompilesEach ==
    ASSUME NEW metric, NEW r
    PROVE  Compiles(metric, r) <=>
              /\ metric \notin Documented
              /\ \A i \in DOMAIN r.dimensions : GroupsBy(metric, r.dimensions[i], r.grain)
              /\ \A i \in DOMAIN r.filters : FiltersBy(metric, r.filters[i])
BY DEF Compiles, GroupsBy, FiltersBy

FilterType == [field : STRING, operator : STRING, listed : BOOLEAN, value : Seq(STRING)]

LEMMA FilterTurned ==
    ASSUME NEW metric, NEW f \in FilterType
    PROVE  FiltersBy(metric, f) <=> FiltersBy(metric, Turned(f))
<1> DEFINE g == [f EXCEPT !.value = Reversed(@)]
<1>1. g.field = f.field /\ g.operator = f.operator /\ g.value = Reversed(f.value) /\ f.value \in Seq(STRING)
  BY DEF FilterType
<1> HIDE DEF g
<1>2. CheckValueType(g) <=> CheckValueType(f)
  <2>1. /\ DOMAIN g.value = DOMAIN f.value
        /\ \A i \in DOMAIN f.value : \E j \in DOMAIN f.value : g.value[j] = f.value[i]
        /\ \A i \in DOMAIN f.value : \E j \in DOMAIN f.value : f.value[j] = g.value[i]
    BY <1>1, TurnedAround
  <2>2. QED
    BY <1>1, <2>1 DEF CheckValueType
<1>3. FiltersBy(metric, f) <=> FiltersBy(metric, g)
  BY <1>1, <1>2 DEF FiltersBy
<1>4. Turned(f) = IF f.listed THEN g ELSE f
  BY DEF Turned, g
<1>5. QED
  BY <1>3, <1>4

(* For every metric and request: it compiles exactly if it does with its      *)
(* dimensions and the members of its lists in reverse, and exactly if it does *)
(* with its filters in reverse (compiler.py:79-219).                          *)
LEMMA AnyOrderCompiles ==
    ASSUME NEW metric, NEW r, IsRequest(r)
    PROVE  CompilesInAnyOrder(metric, r)
<1> DEFINE turn == [i \in DOMAIN r.filters |-> Turned(r.filters[i])]
           turned == [r EXCEPT !.dimensions = Reversed(@), !.filters = [i \in DOMAIN @ |-> Turned(@[i])]]
           other == [r EXCEPT !.filters = Reversed(@)]
<1>1. r.dimensions \in Seq(STRING) /\ r.filters \in Seq(FilterType)
  BY DEF IsRequest, FilterType
<1>2. turned.dimensions = Reversed(r.dimensions) /\ turned.filters = turn /\ turned.grain = r.grain
  <2>1. turned.dimensions = Reversed(r.dimensions)
    BY DEF IsRequest
  <2>2. turned.grain = r.grain
    BY DEF IsRequest
  <2>3. "filters" \in DOMAIN r /\ "dimensions" # "filters"
    BY DEF IsRequest
  <2>4. turned.filters = turn
    BY <2>3
  <2>5. QED
    BY <2>1, <2>2, <2>4
<1>3. other.dimensions = r.dimensions /\ other.filters = Reversed(r.filters) /\ other.grain = r.grain
  BY DEF IsRequest
<1>4. \A i \in DOMAIN r.filters : r.filters[i] \in FilterType
  BY <1>1, ElementOfSeq, LenProperties
<1>5. DOMAIN turn = DOMAIN r.filters /\
      \A i \in DOMAIN r.filters : turn[i] = Turned(r.filters[i])
  OBVIOUS
<1>6. CompilesInAnyOrder(metric, r) <=> Compiles(metric, r) = Compiles(metric, turned) /\ Compiles(metric, r) = Compiles(metric, other)
  BY DEF CompilesInAnyOrder
<1> HIDE DEF turn, turned, other
<1>7. \A i \in DOMAIN r.filters : FiltersBy(metric, turn[i]) <=> FiltersBy(metric, r.filters[i])
  BY <1>4, <1>5, FilterTurned
<1>8. Compiles(metric, r) <=> Compiles(metric, turned)
  <2>1. /\ DOMAIN turned.dimensions = DOMAIN r.dimensions
        /\ \A i \in DOMAIN r.dimensions : \E j \in DOMAIN r.dimensions : turned.dimensions[j] = r.dimensions[i]
        /\ \A i \in DOMAIN r.dimensions : \E j \in DOMAIN r.dimensions : r.dimensions[j] = turned.dimensions[i]
    BY <1>1, <1>2, TurnedAround
  <2>2. (\A i \in DOMAIN r.dimensions : GroupsBy(metric, r.dimensions[i], r.grain))
        <=> (\A i \in DOMAIN turned.dimensions : GroupsBy(metric, turned.dimensions[i], turned.grain))
    BY <1>2, <2>1
  <2>3. (\A i \in DOMAIN r.filters : FiltersBy(metric, r.filters[i]))
        <=> (\A i \in DOMAIN turned.filters : FiltersBy(metric, turned.filters[i]))
    BY <1>2, <1>5, <1>7
  <2>4. QED
    BY <2>2, <2>3, CompilesEach
<1>9. Compiles(metric, r) <=> Compiles(metric, other)
  <2>1. /\ DOMAIN other.filters = DOMAIN r.filters
        /\ \A i \in DOMAIN r.filters : \E j \in DOMAIN r.filters : other.filters[j] = r.filters[i]
        /\ \A i \in DOMAIN r.filters : \E j \in DOMAIN r.filters : r.filters[j] = other.filters[i]
    BY <1>1, <1>3, TurnedAround
  <2>2. (\A i \in DOMAIN r.filters : FiltersBy(metric, r.filters[i]))
        <=> (\A i \in DOMAIN other.filters : FiltersBy(metric, other.filters[i]))
    BY <2>1
  <2>3. QED
    BY <1>3, <2>2, CompilesEach
<1>10. Compiles(metric, r) \in BOOLEAN /\ Compiles(metric, turned) \in BOOLEAN /\ Compiles(metric, other) \in BOOLEAN
  BY DEF Compiles
<1>11. QED
  BY <1>6, <1>8, <1>9, <1>10

(* The names under which one filter's values are bound                       *)
ValueNames(r, i) == IF r.filters[i].listed THEN {<<i - 1, j - 1>> : j \in DOMAIN r.filters[i].value} ELSE {<<i - 1>>}
NumberOfNames(r) == [i \in DOMAIN r.filters |-> IF r.filters[i].listed THEN Len(r.filters[i].value) ELSE 1]

LEMMA NamesCounted ==
    ASSUME NEW r, IsRequest(r), NEW i \in DOMAIN r.filters
    PROVE  /\ IsFiniteSet(ValueNames(r, i)) /\ Cardinality(ValueNames(r, i)) = NumberOfNames(r)[i]
           /\ \A x \in ValueNames(r, i) : x[1] = i - 1
<1> DEFINE v == r.filters[i].value
           n == Len(v)
<1>1. r.filters \in Seq(FilterType)
  BY DEF IsRequest, FilterType
<1>2. i \in 1..Len(r.filters) /\ Len(r.filters) \in Nat
  BY <1>1, LenProperties
<1>3. r.filters[i] \in FilterType
  BY <1>1, <1>2, ElementOfSeq
<1>4. v \in Seq(STRING)
  BY <1>3 DEF FilterType
<1>5. n \in Nat /\ DOMAIN v = 1..n
  BY <1>4, LenProperties
<1>6. NumberOfNames(r)[i] = IF r.filters[i].listed THEN n ELSE 1
  BY DEF NumberOfNames
<1>7. CASE r.filters[i].listed
  <2> DEFINE k == i - 1
             S == {<<k, j - 1>> : j \in 1..n}
             f == [j \in 1..n |-> <<k, j - 1>>]
  <2>1. ValueNames(r, i) = S
    BY <1>5, <1>7 DEF ValueNames
  <2>2. k \in Int
    BY <1>2
  <2> HIDE DEF k, n
  <2>3. \A j \in 1..n : f[j] = <<k, j - 1>> /\ f[j] \in S
    OBVIOUS
  <2>4. \A x \in S : \E j \in 1..n : f[j] = x
    OBVIOUS
  <2>5. \A j, h \in 1..n : f[j] = f[h] => j = h
    <3> SUFFICES ASSUME NEW j \in 1..n, NEW h \in 1..n, f[j] = f[h] PROVE j = h
      OBVIOUS
    <3>1. <<k, j - 1>> = <<k, h - 1>>
      BY <2>3
    <3>2. j - 1 = h - 1
      BY <3>1
    <3>3. j \in Int /\ h \in Int
      BY <1>5
    <3>4. QED
      BY <3>2, <3>3
  <2>6. f \in Bijection(1..n, S)
    <3>1. f \in [1..n -> S]
      BY <2>3
    <3> HIDE DEF f, S
    <3>2. f \in Surjection(1..n, S)
      BY <2>4, <3>1 DEF Surjection
    <3>3. f \in Injection(1..n, S)
      BY <2>5, <3>1 DEF Injection, IsInjective
    <3>4. QED
      BY <3>2, <3>3 DEF Bijection
  <2>7. ExistsBijection(1..n, S)
    BY <2>6 DEF ExistsBijection
  <2>8. \A x \in S : x[1] = k
    OBVIOUS
  <2> HIDE DEF S, f
  <2>9. Cardinality(S) = n
    BY <1>5, <2>7, FS_CountingElements
  <2>10. IsFiniteSet(S)
    BY <1>5, <2>7, FS_NatBijection
  <2>11. QED
    BY <1>6, <1>7, <2>1, <2>8, <2>9, <2>10 DEF k
<1>8. CASE ~ r.filters[i].listed
  <2>1. ValueNames(r, i) = {<<i - 1>>}
    BY <1>8 DEF ValueNames
  <2>2. IsFiniteSet({<<i - 1>>}) /\ Cardinality({<<i - 1>>}) = 1
    BY FS_Singleton
  <2>3. \A x \in {<<i - 1>>} : x[1] = i - 1
    OBVIOUS
  <2>4. QED
    BY <1>6, <1>8, <2>1, <2>2, <2>3
<1>9. QED
  BY <1>7, <1>8

LEMMA AllAreBound ==
    ASSUME NEW r, IsRequest(r)
    PROVE  EveryValueIsBound(r)
<1> DEFINE J == DOMAIN r.filters
           p == [i \in J |-> ValueNames(r, i)]
           U == Bound(r)
           f == NumberOfNames(r)
           F == Counts(U)
<1>1. IsFiniteSet(J) /\ J \subseteq Int
  <2>1. r.filters \in Seq(FilterType)
    BY DEF IsRequest, FilterType
  <2>2. J = 1..Len(r.filters) /\ Len(r.filters) \in Nat
    BY <2>1, LenProperties
  <2>3. IsFiniteSet(1..Len(r.filters))
    BY <2>2, FS_Interval
  <2>4. QED
    BY <2>2, <2>3
<1>2. U = UNION {ValueNames(r, i) : i \in J}
  BY DEF Bound, ValueNames
<1>3. \A i \in J : p[i] = ValueNames(r, i)
  OBVIOUS
<1>4. \A i \in J : IsFiniteSet(ValueNames(r, i)) /\ Cardinality(ValueNames(r, i)) = f[i] /\ \A x \in ValueNames(r, i) : x[1] = i - 1
  BY NamesCounted
<1> HIDE DEF J, p, U, f
<1>5. Together(p, J) = U
  <2>1. \A x : x \in Together(p, J) <=> x \in U
    BY <1>2, <1>3 DEF Together
  <2>2. QED
    BY <2>1
<1>6. ApartOn(p, J, U)
  <2>1. \A i \in J : p[i] \in SUBSET U
    BY <1>2, <1>3
  <2>2. ASSUME NEW i \in J, NEW j \in J, i # j, NEW x, x \in p[i], x \in p[j] PROVE FALSE
    <3>1. x[1] = i - 1 /\ x[1] = j - 1
      BY <1>3, <1>4, <2>2
    <3>2. i \in Int /\ j \in Int
      BY <1>1
    <3>3. QED
      BY <2>2, <3>1, <3>2
  <2>3. \A i, j \in J : i # j => p[i] \cap p[j] = {}
    BY <2>2
  <2>4. QED
    BY <2>1, <2>3 DEF ApartOn
<1>7. IsFiniteSet(U)
  <2> DEFINE all == {p[i] : i \in J}
  <2>1. IsFiniteSet(all)
    BY <1>1, FiniteImage
  <2>2. \A S \in all : IsFiniteSet(S)
    BY <1>3, <1>4
  <2>3. UNION all = U
    BY <1>5 DEF Together
  <2> HIDE DEF all
  <2>4. QED
    BY <2>1, <2>2, <2>3, FS_UNION
<1>8. Measures(F, U)
  BY <1>7, CountsMeasure
<1>9. \A i \in J : f[i] = F[p[i]]
  <2>1. \A i \in J : p[i] \in SUBSET U
    BY <1>6 DEF ApartOn
  <2>2. \A i \in J : F[p[i]] = Cardinality(p[i])
    BY <2>1 DEF Counts
  <2>3. QED
    BY <1>3, <1>4, <2>2
<1>10. F[U] = Cardinality(U)
  BY DEF Counts
<1> HIDE DEF F
<1>15. IsFiniteSet(J)
  BY <1>1
<1>11. F[Together(p, J)] = SumFunctionOnSet(f, J)
  BY <1>6, <1>8, <1>9, <1>15, PartsAddUp
<1>12. Cardinality(U) = SumFunctionOnSet(f, J)
  BY <1>5, <1>10, <1>11
<1>13. SumFunction(f) = SumFunctionOnSet(f, J)
  BY DEF f, J, NumberOfNames, SumFunction
<1>14. QED
  BY <1>12, <1>13 DEF EveryValueIsBound, U, f, NumberOfNames

-----------------------------------------------------------------------------
(* Truncated results                                                         *)

LEMMA BytesOfMore ==
    ASSUME NEW sizes \in Seq(Nat), NEW k \in 1..Len(sizes)
    PROVE  /\ Bytes(sizes, k) = Bytes(sizes, k - 1) + sizes[k]
           /\ sizes[k] \in Nat
           /\ Bytes(sizes, 0) = 0
<1>1. Len(sizes) \in Nat
  BY LenProperties
<1>2. \A j \in 1..Len(sizes) : sizes[j] \in Nat
  BY ElementOfSeq
<1>3. IsFiniteSet(1..k)
  BY <1>1, FS_Interval
<1>4. AreNumbers(sizes, 1..k)
  BY <1>1, <1>2 DEF AreNumbers
<1>5. (1..k) \ {k} = 1..(k - 1) /\ k \in 1..k
  BY <1>1
<1>6. SumFunctionOnSet(sizes, 1..k) = sizes[k] + SumFunctionOnSet(sizes, (1..k) \ {k})
      /\ SumFunctionOnSet(sizes, (1..k) \ {k}) \in Int
  BY <1>3, <1>4, <1>5, SumMore
<1>7. 1..0 = {}
  OBVIOUS
<1>8. SumFunctionOnSet(sizes, 1..0) = 0
  BY <1>7, SumNone
<1> DEFINE s == SumFunctionOnSet(sizes, 1..(k - 1))
<1>9. SumFunctionOnSet(sizes, 1..k) = sizes[k] + s /\ s \in Int
  BY <1>5, <1>6
<1>10. sizes[k] \in Nat
  BY <1>2
<1> HIDE DEF s
<1>11. SumFunctionOnSet(sizes, 1..k) = s + sizes[k]
  BY <1>9, <1>10
<1>12. QED
  BY <1>8, <1>10, <1>11 DEF Bytes, s

(* For every result and limits: what is returned keeps both limits, says      *)
(* whether rows are missing, and stops only at one (sql/executor.py:68-125).  *)
LEMMA TruncationTold ==
    ASSUME NEW sizes \in Seq(Nat), NEW limits, limits.rows \in Nat, limits.bytes \in Nat
    PROVE  TruncationIsTold(sizes, limits)
<1> DEFINE n == Len(sizes)
           over == {k \in 1..n : ~ Fits(k - 1, Bytes(sizes, k - 1), sizes[k], limits)}
           got == ExecuteQuery(sizes, limits)
<1>1. n \in Nat
  BY LenProperties
<1>2. Bytes(sizes, 0) = 0
  <2>1. 1..0 = {}
    OBVIOUS
  <2>2. QED
    BY <2>1, SumNone DEF Bytes
<1>3. \A k \in 1..n : k \notin over => k <= limits.rows /\ Bytes(sizes, k) <= limits.bytes
  <2> TAKE k \in 1..n
  <2>1. Bytes(sizes, k) = Bytes(sizes, k - 1) + sizes[k]
    BY BytesOfMore
  <2>2. QED
    BY <1>1, <2>1 DEF Fits
<1>4. \A k \in over : k \in 1..n /\ (k - 1 >= limits.rows \/ ~(Bytes(sizes, k) <= limits.bytes))
  <2> TAKE k \in over
  <2>1. Bytes(sizes, k) = Bytes(sizes, k - 1) + sizes[k]
    BY BytesOfMore
  <2>2. QED
    BY <1>1, <2>1 DEF Fits
<1>5. got = IF over = {} THEN [rows |-> n, truncated |-> FALSE] ELSE [rows |-> Min(over) - 1, truncated |-> TRUE]
  BY DEF ExecuteQuery
<1>6. over \in SUBSET Nat
  BY <1>1
<1> HIDE DEF over, got
<1>7. CASE over = {}
  <2>1. got.rows = n /\ got.truncated = FALSE
    BY <1>5, <1>7
  <2>2. n <= limits.rows /\ Bytes(sizes, n) <= limits.bytes
    <3>1. CASE n = 0
      BY <1>2, <3>1
    <3>2. CASE n # 0
      BY <1>1, <1>3, <1>7, <3>2
    <3>3. QED
      BY <3>1, <3>2
  <2>3. ~ (n < n)
    BY <1>1
  <2>6. got.truncated = FALSE /\ ~ (got.rows < n)
    BY <2>1, <2>3
  <2>5. got.truncated <=> got.rows < n
    BY <2>6
  <2>4. QED
    BY <2>1, <2>2, <2>5 DEF TruncationIsTold, got
<1>8. CASE over # {}
  <2> DEFINE k == Min(over)
  <2>1. k \in over /\ \A j \in over : k <= j
    BY <1>6, <1>8, LeastIs
  <2>2. got.rows = k - 1 /\ got.truncated = TRUE
    BY <1>5, <1>8
  <2> HIDE DEF k
  <2>3. k \in 1..n /\ (k - 1 >= limits.rows \/ ~(Bytes(sizes, k) <= limits.bytes))
    BY <1>4, <2>1
  <2>4. k - 1 <= limits.rows /\ Bytes(sizes, k - 1) <= limits.bytes
    <3>1. CASE k = 1
      BY <1>2, <3>1
    <3>2. CASE k # 1
      <4>1. k - 1 \in 1..n /\ k - 1 \notin over
        BY <1>1, <2>1, <2>3, <3>2
      <4>2. QED
        BY <1>3, <4>1
    <3>3. QED
      BY <3>1, <3>2
  <2>5. Bytes(sizes, k) \in Int
    <3>1. IsFiniteSet(1..k) /\ AreNumbers(sizes, 1..k)
      <4>1. IsFiniteSet(1..k)
        BY <1>1, <2>3, FS_Interval
      <4>2. \A j \in 1..n : sizes[j] \in Nat
        BY ElementOfSeq
      <4>3. AreNumbers(sizes, 1..k)
        BY <1>1, <2>3, <4>2 DEF AreNumbers
      <4>4. QED
        BY <4>1, <4>3
    <3>2. QED
      BY <3>1, SumIsInt DEF Bytes
  <2>6. k - 1 = limits.rows \/ Bytes(sizes, k) > limits.bytes
    BY <1>1, <2>3, <2>4, <2>5
  <2>7. k - 1 < n /\ (k - 1) + 1 = k
    BY <1>1, <2>3
  <2>8. QED
    BY <2>2, <2>4, <2>6, <2>7 DEF TruncationIsTold, got
<1>9. QED
  BY <1>7, <1>8

-----------------------------------------------------------------------------
(* Questions about figures                                                   *)

(* A question has the parts its topic asks for, taken from the instance.     *)
Asked(q) ==
    /\ q.of = "orders" => q.table \in Tables(OrderRows)
    /\ q.of = "attainment" => q.table \in Tables(OrderRows)
    /\ q.of = "others" => q.source \in DOMAIN OtherRows /\ q.table \in Tables(OtherRows[q.source])
    /\ q.of = "compile" => \E c \in CompileRequests : q.request = c.request
    /\ q.of = "execute" => q.sizes \in RowSizes /\ q.limits \in Limits

LEMMA AskedFirst == QuestionInit => Asked(asked)
BY DEF QuestionInit, Nothing, Asked

LEMMA AskedNext == ASSUME [QuestionNext]_questionVars, Asked(asked) PROVE Asked(asked)'
<1>1. CASE AskSchedule BY <1>1 DEF AskSchedule, Asked
<1>2. CASE AskPeriod BY <1>2 DEF AskPeriod, Asked
<1>3. CASE AskOrders BY <1>3 DEF AskOrders, Asked
<1>4. CASE AskAttainment BY <1>4 DEF AskAttainment, Asked
<1>5. CASE AskOthers BY <1>5 DEF AskOthers, Asked
<1>6. CASE AskCompile BY <1>6 DEF AskCompile, Asked
<1>7. CASE AskExecute BY <1>7 DEF AskExecute, Asked
<1>8. CASE AskLayout BY <1>8 DEF AskLayout, Asked
<1>9. CASE AskDocument BY <1>9 DEF AskDocument, Asked
<1>10. CASE AskGuard BY <1>10 DEF AskGuard, Asked
<1>11. CASE AskFiles BY <1>11 DEF AskFiles, Asked
<1>12. CASE AskCapture BY <1>12 DEF AskCapture, Asked
<1>13. CASE AskRecall BY <1>13 DEF AskRecall, Asked
<1>14. CASE AskMemory BY <1>14 DEF AskMemory, Asked
<1>15. CASE AskDelegate BY <1>15 DEF AskDelegate, Asked
<1>16. CASE AskPrice BY <1>16 DEF AskPrice, Asked
<1>17. CASE AskContext BY <1>17 DEF AskContext, Asked
<1>18. CASE AskCall BY <1>18 DEF AskCall, CallsOf, Asked
<1>19. CASE AskAttempts BY <1>19 DEF AskAttempts, Asked
<1>20. CASE AskProcess BY <1>20 DEF AskProcess, Asked
<1>21. CASE AskCatalog BY <1>21 DEF AskCatalog, Asked
<1>22. CASE AskJoins BY <1>22 DEF AskJoins, Asked
<1>23. CASE AskTrace BY <1>23 DEF AskTrace, Asked
<1>24. CASE AskOutput BY <1>24 DEF AskOutput, Asked
<1>25. CASE Answered BY <1>25 DEF Answered, Nothing, Asked
<1>26. CASE UNCHANGED questionVars BY <1>26 DEF questionVars
<1>27. QED
  BY <1>1, <1>2, <1>3, <1>4, <1>5, <1>6, <1>7, <1>8, <1>9, <1>10, <1>11, <1>12, <1>13,
     <1>14, <1>15, <1>16, <1>17, <1>18, <1>19, <1>20, <1>21, <1>22, <1>23, <1>24, <1>25, <1>26
     DEF QuestionNext

(* Every question of a behaviour is such a question.                         *)
LEMMA AlwaysAsked == QuestionSpec => []Asked(asked)
BY AskedFirst, AskedNext, PTL DEF QuestionSpec

(* The table of a question, and the metrics asked of it                      *)
LEMMA TableAsked ==
    ASSUME Asked(asked), NEW m \in TableMetrics
    PROVE  m \in MetricNames /\ IsTable(Source(m), asked.table)
<1>1. CASE asked.of = "orders"
  <2>1. m \in MetricNames /\ Source(m) = "orders"
    BY <1>1 DEF TableMetrics, OrderMetrics
  <2>2. IsTable("orders", asked.table)
    BY <1>1, FigureQuestions DEF Asked
  <2>3. QED
    BY <2>1, <2>2
<1>2. CASE asked.of = "others"
  <2>1. m \in MetricNames /\ Source(m) = asked.source
    BY <1>2 DEF TableMetrics
  <2>2. IsTable(asked.source, asked.table)
    BY <1>2, FigureQuestions DEF Asked
  <2>3. QED
    BY <2>1, <2>2
<1>3. QED
  BY <1>1, <1>2 DEF TableMetrics

LEMMA WholePeriodIs ==
    /\ WholePeriod = [start |-> WholePeriod.start, end |-> WholePeriod.end]
    /\ WholePeriod.start \in Int /\ WholePeriod.end \in Int
BY DEF WholePeriod

LEMMA TablesHold ==
    ASSUME Asked(asked)
    PROVE  HalvesOK /\ GroupsOK /\ FiltersOK /\ RatesOK /\ AveragesOK
<1>1. \A m \in TableMetrics : m \in MetricNames /\ IsTable(Source(m), asked.table)
  BY TableAsked
<1>2. HalvesOK
  <2> DEFINE p == WholePeriod
  <2>1. p = [start |-> p.start, end |-> p.end] /\ p.start \in Int /\ p.end \in Int
    BY WholePeriodIs
  <2> HIDE DEF p
  <2>2. \A m \in TableMetrics : HalvesAddUp(m, asked.table, p, NoFilter)
    BY <1>1, <2>1, HalvesAdd
  <2>3. QED
    BY <2>2 DEF HalvesOK, p
<1>3. GroupsOK
  BY <1>1, GroupsAdd DEF GroupsOK
<1>4. FiltersOK
  <2>1. IsFiniteSet(Labels)
    <3>1. Labels = {"a"} \cup {"b"}
      BY DEF Labels
    <3>2. IsFiniteSet({"a"})
      BY FS_Singleton
    <3>3. QED
      BY <3>1, <3>2, FS_AddElement
  <2>2. QED
    BY <1>1, <2>1, FiltersAdd DEF FiltersOK
<1>5. RatesOK
  BY <1>1, RatesShare DEF RatesOK
<1>6. AveragesOK
  BY <1>1, AveragesBetween DEF AveragesOK
<1>7. QED
  BY <1>2, <1>3, <1>4, <1>5, <1>6

LEMMA FiguresFollow == Asked(asked) => FiguresOK
<1> SUFFICES ASSUME Asked(asked) PROVE FiguresOK
  OBVIOUS
<1>1. HalvesOK /\ GroupsOK /\ FiltersOK /\ RatesOK /\ AveragesOK
  BY TablesHold
<1>2. GrowthOK
  <2> SUFFICES ASSUME asked.of = "orders", NEW end \in 2..3
               PROVE  GrowthChains(asked.table, [start |-> end - 1, end |-> end], NoFilter)
    BY DEF GrowthOK
  <2>1. IsTable("orders", asked.table)
    BY FigureQuestions DEF Asked
  <2>2. end - 1 \in Int /\ end \in Int
    OBVIOUS
  <2>3. QED
    BY <2>1, <2>2, GrowthChain
<1>3. AttainmentOK
  <2> SUFFICES ASSUME asked.of = "attainment" PROVE AttainmentAgrees(asked.table, asked.targets, 2)
    BY DEF AttainmentOK
  <2>1. IsTable("orders", asked.table)
    BY FigureQuestions DEF Asked
  <2>2. QED
    BY <2>1, AttainmentIs
<1>4. CompileOK /\ BoundOK
  <2> SUFFICES ASSUME asked.of = "compile"
               PROVE  CompilesInAnyOrder(asked.metric, asked.request) /\ EveryValueIsBound(asked.request)
    BY DEF CompileOK, BoundOK
  <2>1. IsRequest(asked.request)
    BY FigureQuestions DEF Asked
  <2>2. QED
    BY <2>1, AnyOrderCompiles, AllAreBound
<1>5. TruncationOK
  <2> SUFFICES ASSUME asked.of = "execute" PROVE TruncationIsTold(asked.sizes, asked.limits)
    BY DEF TruncationOK
  <2>1. asked.sizes \in Seq(Nat) /\ asked.limits.rows \in Nat /\ asked.limits.bytes \in Nat
    BY FigureQuestions DEF Asked
  <2>2. QED
    BY <2>1, TruncationTold
<1>6. QED
  BY <1>1, <1>2, <1>3, <1>4, <1>5 DEF FiguresOK

(* Every figure of every question adds up: the halves of a period, the groups *)
(* of a dimension and the sides of a filter account for each row once, rates *)
(* and averages stay within what they are of, growth and attainment agree    *)
(* with the metrics they are made of, a request is compiled and bound whole, *)
(* and a cut result says so (analytics/semantics, analytics/sql/executor.py). *)
THEOREM FiguresAlwaysHold == QuestionSpec => []FiguresOK
<1>1. QuestionSpec => []Asked(asked)
  BY AlwaysAsked
<1>2. []Asked(asked) => []FiguresOK
  BY FiguresFollow, PTL
<1>3. QED
  BY <1>1, <1>2

=============================================================================
