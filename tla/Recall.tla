--------------------------------- MODULE Recall ---------------------------------
(* What a run remembers of earlier runs and hands to its specialists: which  *)
(* memories are kept and selected, and what comes back from delegated work.  *)
EXTENDS Integers, Sequences, FiniteSets, SequencesExt, FiniteSetsExt
CONSTANTS ParentIterations, SubagentIterations, MaxParallel, MaxResult      \* limits of a parent run

NoSession == "no session"

(* A memory: workspace, session, type, the words of its content and of its   *)
(* metadata, its tags, and a number that grows with its creation time.       *)
MemoryTypes == {"working", "episodic", "long_term"}
TypeWeight(type) == CASE type = "long_term" -> 3 [] type = "episodic" -> 2 [] type = "working" -> 1
WordWeight == 100
TagWeight == 25
MaxRetrieved == 5

ListMemories(store, workspace, type) == {m \in store : m.workspace = workspace /\ m.type = type}

(* Mutant: working memories of other sessions are recalled too. *)
CandidatesOfAnySession(store, r) ==
    {m \in UNION {ListMemories(store, r.workspace, t) : t \in r.types} : m.created >= r.created_after}

(* A request: workspace, session, words, types, tags, the time it starts at  *)
CandidateMemories(store, r) ==
    {m \in UNION {ListMemories(store, r.workspace, t) : t \in r.types} :
        m.session \in {NoSession, r.session} /\ m.created >= r.created_after}

Overlap(m, r) == Cardinality(r.words \cap m.words)
TagMatches(m, r) == Cardinality(r.tags \cap m.tags)
Relevant(m, r) == r.words = {} \/ Overlap(m, r) > 0 \/ TagMatches(m, r) > 0
Score(m, r) == WordWeight * Overlap(m, r) + TagWeight * TagMatches(m, r) + TypeWeight(m.type)

(* Memories of different times; of one time, the code takes them by their id *)
IsStore(store) ==
    /\ IsFiniteSet(store)
    /\ \A m \in store : m.type \in MemoryTypes /\ m.created \in Int
    /\ \A m, n \in store : m.created = n.created => m = n
IsRecallRequest(r) == IsFiniteSet(r.words) /\ IsFiniteSet(r.tags) /\ r.limit \in 1..MaxRetrieved

(* Every ranked memory also scores one for each ranked memory as old or      *)
(* older; the best come first, the newer of two that are as good.            *)
RankedMemories(store, r) == {m \in CandidateMemories(store, r) : Relevant(m, r)}
RecencyBonus(m, ranked) == Cardinality({n \in ranked : n.created <= m.created})
RankedAbove(points, m) ==
    {n \in DOMAIN points : points[n] > points[m] \/ (points[n] = points[m] /\ n.created > m.created)}
Retrieve(store, r) ==
    LET ranked == RankedMemories(store, r)
        points == [m \in ranked |-> Score(m, r) + RecencyBonus(m, ranked)]
    IN [i \in 1..Min({Cardinality(ranked), r.limit}) |-> CHOOSE m \in ranked : Cardinality(RankedAbove(points, m)) = i - 1]

----------------------------------------------------------------------------
(* The elements of a sequence at some of its indices, in order               *)
Chosen(s, indices) ==
    LET chosen[i \in 0..Len(s)] ==
            IF i = 0 THEN <<>> ELSE IF i \in indices THEN Append(chosen[i - 1], s[i]) ELSE chosen[i - 1]
    IN chosen[Len(s)]

(* What a completed run leaves: its decisions as long-term memories, its     *)
(* answer as an episodic one when it tells of a lasting outcome. A text is   *)
(* its words in lower case, the flaws that rule it out and whether it is     *)
(* blank or tells of an outcome.                                             *)
Extract(run) ==
    IF ~run.completed THEN <<>>
    ELSE LET decided == Chosen(run.decisions, {i \in DOMAIN run.decisions : ~run.decisions[i].blank})
         IN [i \in DOMAIN decided |-> [type |-> "long_term", text |-> decided[i]]]
            \o IF run.answer.outcome THEN <<[type |-> "episodic", text |-> run.answer]>> ELSE <<>>

(* The flaws such a text can have, in the order they are looked for          *)
Flaws == <<"credential_material", "content_too_short", "private_reasoning_content",
           "transient_execution_history", "generic_assistant_prose">>
MemoryText(words) == [words : words, flaws : SUBSET Range(Flaws), blank : BOOLEAN, outcome : BOOLEAN]
CompletedRun(workspaces, words) ==
    [completed : BOOLEAN, workspace : workspaces, decisions : Seq(MemoryText(words)), answer : MemoryText(words)]
RejectionReason(candidate) ==
    LET found == {i \in DOMAIN Flaws : Flaws[i] \in candidate.text.flaws}
    IN IF found = {} THEN "kept" ELSE Flaws[Min(found)]

(* The durable memories of a workspace are a sequence, oldest first; nothing *)
(* is kept of a run without workspace.                                       *)
IsDuplicate(memories, workspace, candidate) ==
    \E m \in Range(memories) :
        m.workspace = workspace /\ m.type = candidate.type /\ m.text.words = candidate.text.words
Consider(memories, workspace, candidate) ==
    IF RejectionReason(candidate) # "kept" \/ IsDuplicate(memories, workspace, candidate) THEN memories
    ELSE Append(memories, [workspace |-> workspace, type |-> candidate.type, text |-> candidate.text])
Considered(memories, workspace, candidates) ==
    LET after[i \in 0..Len(candidates)] ==
            IF i = 0 THEN memories ELSE Consider(after[i - 1], workspace, candidates[i])
    IN after[Len(candidates)]
CaptureCompletedRun(memories, run) ==
    IF ~run.completed \/ run.workspace = "none" THEN memories
    ELSE Considered(memories, run.workspace, Extract(run))
AfterRuns(runs) ==
    LET after[i \in 0..Len(runs)] == IF i = 0 THEN <<>> ELSE CaptureCompletedRun(after[i - 1], runs[i])
    IN after[Len(runs)]

----------------------------------------------------------------------------
(* Delegated work. A specialist asks for an iteration limit of its own or    *)
(* none (0); its run ends in a state or raises.                              *)
SubagentRequest(objectives) == [objective : objectives, ends : STRING, length : Nat, override : Nat]
ChildIterations(override) == Min({IF override = 0 THEN ParentIterations ELSE override, SubagentIterations})

(* A text is its length; one over the limit is cut to it, ellipsis included  *)
BoundedText(length) == Min({length, MaxResult})

(* What comes back of one request: never an exception, and a text only of a  *)
(* run that ended, as answer or as error.                                    *)
SubagentResult(request) ==
    [objective |-> request.objective,
     success |-> request.ends = "completed",
     answer |-> IF request.ends = "completed" THEN BoundedText(request.length) ELSE 0,
     error |-> IF request.ends \in {"raises", "completed"} THEN 0 ELSE BoundedText(request.length)]
ExecuteParallel(requests) ==
    IF Len(requests) \notin 1..MaxParallel THEN <<>> ELSE [i \in DOMAIN requests |-> SubagentResult(requests[i])]

(* Nothing of another workspace or another session is ever selected.         *)
SelectionIsScoped(store, r) ==
    \A m \in Range(Retrieve(store, r)) : m.workspace = r.workspace /\ m.session \in {NoSession, r.session}

(* A memory that shares nothing with the question changes nothing in what is *)
(* selected, and what is selected shares something with it.                  *)
NoiseIsIgnored(store, r) ==
    LET related == {m \in store : r.words = {} \/ (r.words \cap m.words) \cup (r.tags \cap m.tags) # {}}
    IN Retrieve(store, r) = Retrieve(related, r) /\ Range(Retrieve(store, r)) \subseteq related

(* With too few memories for their age to outweigh a word, one that shares   *)
(* all the words and tags another shares, and a word more, is selected       *)
(* before it (memory/retrieval.py:59-69).                                    *)
RelevanceComesFirst(store, r) ==
    LET chosen == Retrieve(store, r)
    IN Cardinality(store) < WordWeight - 1 => \A m \in store : \A j \in DOMAIN chosen :
        /\ m \in CandidateMemories(store, r)
        /\ (r.tags \cap chosen[j].tags) \subseteq m.tags
        /\ (r.words \cap chosen[j].words) \subseteq m.words
        /\ Overlap(m, r) > Overlap(chosen[j], r)
        => \E i \in 1..(j - 1) : chosen[i] = m

(* No workspace keeps the same words twice under one type, nor a text with a *)
(* flaw, and what one workspace keeps does not depend on what others ran.    *)
MemoriesAreCurated(runs) ==
    LET kept == AfterRuns(runs)
        of(s, w) == Chosen(s, {i \in DOMAIN s : s[i].workspace = w})
    IN /\ \A i, j \in DOMAIN kept :
            i # j => <<kept[i].workspace, kept[i].type, kept[i].text.words>> # <<kept[j].workspace, kept[j].type, kept[j].text.words>>
       /\ \A m \in Range(kept) : m.text.flaws = {}
       /\ \A w \in {m.workspace : m \in Range(kept)} : of(kept, w) = AfterRuns(of(runs, w))

(* A batch has a result for each request, in order, whatever became of the   *)
(* others; no text in it is over the bound, and no specialist may run longer *)
(* than it asks to or than its parent lets it.                               *)
SiblingsAreKept(requests) ==
    LET results == ExecuteParallel(requests)
    IN Len(requests) \in 1..MaxParallel =>
        /\ Len(results) = Len(requests)
        /\ \A i \in DOMAIN requests :
            /\ results[i].objective = requests[i].objective /\ results[i].success = (requests[i].ends = "completed")
            /\ results[i].answer <= MaxResult /\ results[i].error <= MaxResult
            /\ ChildIterations(requests[i].override) \in 1..SubagentIterations
            /\ requests[i].override > 0 => ChildIterations(requests[i].override) <= requests[i].override
=============================================================================
