------------------------------- MODULE ToolTrace -------------------------------
(* What a run's trace tells of its tool calls: the events the executor and the *)
(* observer of each family of tools record, the figures derived from them, and *)
(* what of an output is kept (tools/execution, observability/tracer.py,        *)
(* core/logging.py).                                                           *)
EXTENDS Guards, Integers, FiniteSets, SequencesExt

(* A call: its tool, whether its arguments are valid, what the policy says      *)
(* ("raises" when it fails), whether a human approved it, how the tool ends and *)
(* how many artifacts it registered by then.                                    *)
UnknownTool == "unknown"
IsKnown(x) == x.tool # UnknownTool
Reaches(x) == IsKnown(x) /\ x.valid
IsPermitted(x) == x.decision = "allow" \/ (x.approved /\ x.decision = "require_approval")
IsExecuted(x) == Reaches(x) /\ IsPermitted(x)
Succeeds(x) == IsExecuted(x) /\ x.ends = "success"
Registered(x) == IF IsExecuted(x) THEN x.made ELSE 0
(* What a tool has made by then: a report is an artifact, and only tools that *)
(* register artifacts make one.                                                *)
IsCall(x) ==
    /\ x.made \in Nat
    /\ Succeeds(x) /\ x.tool = "generate_report" => x.made > 0
    /\ Succeeds(x) /\ x.tool = "register_artifact" => x.made = 1
    /\ Succeeds(x) /\ x.tool \notin {"analyze_dataset", "generate_report", "register_artifact"} => x.made = 0
IsCallHistory(calls) == calls \in Seq(Range(calls)) /\ \A x \in Range(calls) : IsCall(x)

FailureCategory(x) ==
    CASE ~IsKnown(x) -> "unknown_failure"
      [] IsKnown(x) /\ ~x.valid -> "tool_validation_error"
      [] Reaches(x) /\ x.decision = "raises" -> "policy_failure"
      [] Reaches(x) /\ x.decision # "raises" /\ ~IsPermitted(x) -> "security_denial"
      [] IsExecuted(x) -> x.ends

(* An event, about query number q when it is about one                          *)
Event(type) == [type |-> type, query |-> 0]
QueryEvent(type, q) == [type |-> type, query |-> q]
CountOf(events, types) == Cardinality({i \in DOMAIN events : events[i].type \in types})

NextQuery(trace) == CountOf(trace, {"query_validation_started"}) + 1

OnTraceStart(x, q) ==
    CASE x.tool = "query_database" -> <<QueryEvent("query_validation_started", q)>>
      [] x.tool = "analyze_dataset" -> <<Event("analysis_started")>>
      [] OTHER -> <<>>

OfEach(n, events) ==
    LET times[i \in 0..n] == IF i = 0 THEN <<>> ELSE times[i - 1] \o events
    IN times[n]
QueryEnds(x, q) ==
    IF Succeeds(x) THEN <<QueryEvent("query_validated", q), QueryEvent("query_started", q), QueryEvent("query_finished", q)>>
    ELSE IF FailureCategory(x) = "database_query_rejected" THEN <<QueryEvent("query_rejected", q)>>
    ELSE <<QueryEvent("query_failed", q)>>
AnalysisEnds(x) ==
    IF Succeeds(x) THEN <<Event("analysis_finished")>> \o OfEach(x.made, <<Event("artifact_created"), Event("chart_created")>>)
    ELSE <<Event("analysis_failed")>>
ReportEnds(x) ==
    IF Succeeds(x) THEN <<Event("artifact_created"), Event("report_created")>> \o OfEach(x.made - 1, <<Event("artifact_created")>>)
    ELSE <<>>
ArtifactEnds(x) == IF Succeeds(x) THEN <<Event("artifact_created")>> ELSE <<>>
OnTraceFinish(x, q) ==
    CASE x.tool = "query_database" -> QueryEnds(x, q)
      [] x.tool = "analyze_dataset" -> AnalysisEnds(x)
      [] x.tool = "generate_report" -> ReportEnds(x)
      [] x.tool = "register_artifact" -> ArtifactEnds(x)
      [] x.tool \in SchemaTools -> <<Event("schema_inspected")>>
      [] OTHER -> <<>>

AuthorizeEvents(x) ==
    <<Event("policy_evaluated")>> \o IF x.decision = "raises" THEN <<Event("operation_failed")>> ELSE <<>>
FinishEvents(x) ==
    IF Succeeds(x) THEN <<Event("tool_finished")>> ELSE <<Event("tool_failed"), Event("operation_failed")>>

(* The events one call adds to the trace of its run                             *)
EventsOf(trace, x) ==
    LET q == NextQuery(trace)
    IN <<Event("tool_started")>>
       \o (IF Reaches(x) THEN OnTraceStart(x, q) \o AuthorizeEvents(x) ELSE <<>>)
       \o FinishEvents(x)
       \o (IF IsKnown(x) THEN OnTraceFinish(x, q) ELSE <<>>)
TraceOf(calls) ==
    LET after[i \in 0..Len(calls)] == IF i = 0 THEN <<>> ELSE after[i - 1] \o EventsOf(after[i - 1], calls[i])
    IN after[Len(calls)]

(* The figures of a trace that count its queries                                *)
DeriveMetrics(trace) ==
    [queries |-> CountOf(trace, {"query_finished"}), rejected |-> CountOf(trace, {"query_rejected"})]

----------------------------------------------------------------------------
(* An output: a list and a mapping of leaves. A leaf holds a credential, is a   *)
(* long or a short text, a number, not a finite one, or an object that JSON     *)
(* does not have; the name of a key may be sensitive.                           *)
SafeLeaf(leaf) ==
    CASE leaf = "credential" -> "redacted"
      [] leaf = "long" -> "cut"
      [] leaf = "infinity" -> "non_finite"
      [] leaf = "object" -> "unsupported"
      [] OTHER -> leaf
SensitiveKeys == {"password", "token"}
SafeObservation(v) ==
    [list |-> [i \in DOMAIN v.list |-> SafeLeaf(v.list[i])],
     mapping |-> [k \in DOMAIN v.mapping |-> IF k \in SensitiveKeys THEN "redacted" ELSE SafeLeaf(v.mapping[k])]]
LeavesOf(v) == Range(v.list) \cup {v.mapping[k] : k \in DOMAIN v.mapping}

----------------------------------------------------------------------------
(* The events of the k-th call, read off the trace                              *)
StartsIn(trace) == {i \in DOMAIN trace : trace[i].type = "tool_started"}
StartOf(trace, k) == CHOOSE i \in StartsIn(trace) : Cardinality({j \in StartsIn(trace) : j < i}) = k - 1
EndFrom(trace, from) ==
    LET later == {j \in StartsIn(trace) : j > from}
    IN IF later = {} THEN Len(trace) ELSE (CHOOSE j \in later : \A l \in later : j <= l) - 1
PartOf(trace, k) == SubSeq(trace, StartOf(trace, k), EndFrom(trace, StartOf(trace, k)))
QueryOutcomes == {"query_finished", "query_rejected", "query_failed"}
AnalysisOutcomes == {"analysis_finished", "analysis_failed"}

(* Every call is told of from its start to one end, and whatever it starts is    *)
(* ended before the next call, finished only if the call is                     *)
(* (tools/execution/executor.py:334-381, observers.py:277-369).                 *)
CallsAreClosed(calls) ==
    LET trace == TraceOf(calls)
    IN /\ Cardinality(StartsIn(trace)) = Len(calls)
       /\ \A k \in DOMAIN calls :
            LET part == PartOf(trace, k)
            IN /\ CountOf(part, {"tool_finished", "tool_failed"}) = 1
               /\ CountOf(part, {"query_validation_started"}) <= CountOf(part, QueryOutcomes)
               /\ CountOf(part, {"query_started"}) = CountOf(part, {"query_finished"})
               /\ CountOf(part, {"analysis_started"}) <= CountOf(part, AnalysisOutcomes)
               /\ CountOf(part, QueryOutcomes \cup AnalysisOutcomes) <= 1
               /\ CountOf(part, {"query_finished", "analysis_finished"}) <= CountOf(part, {"tool_finished"})
               /\ CountOf(part, {"tool_failed"}) <= CountOf(part, {"operation_failed"})

(* No two queries that began share a number, so a citation means one query; one   *)
(* whose arguments were invalid never began and takes the number of the next.    *)
QueriesAreNumbered(calls) ==
    LET trace == TraceOf(calls)
        begun == {i \in DOMAIN trace : trace[i].type = "query_validation_started"}
    IN /\ \A i, j \in begun : i < j => trace[i].query < trace[j].query
       /\ \A i \in DOMAIN trace : trace[i].type \in {"query_finished", "query_rejected"} =>
             \E j \in begun : j < i /\ trace[j].query = trace[i].query

(* The figures count each query once, and a report's queries are among them.      *)
MetricsCountCalls(calls) ==
    LET metrics == DeriveMetrics(TraceOf(calls))
        queries == {k \in DOMAIN calls : calls[k].tool = "query_database"}
    IN /\ metrics.queries = Cardinality({k \in queries : Succeeds(calls[k])})
       /\ metrics.queries + metrics.rejected + CountOf(TraceOf(calls), {"query_failed"}) = Cardinality(queries)

(* Every artifact of a run is told of, once, unless the call that made it failed  *)
(* over a later one (tools/database/analyze.py:53-62, report.py:34-47).          *)
ArtifactsAreTold(calls) ==
    \A k \in DOMAIN calls :
        LET told == CountOf(PartOf(TraceOf(calls), k), {"artifact_created"})
        IN told = Registered(calls[k]) \/ (told = 0 /\ ~Succeeds(calls[k]))

(* An observation is JSON without a credential, of the same shape as the output,   *)
(* so that values still stand under their columns, and making it again changes     *)
(* nothing (core/logging.py:119-137).                                            *)
ObservationIsSafe(v) ==
    LET safe == SafeObservation(v)
    IN /\ LeavesOf(safe) \cap {"credential", "long", "infinity", "object"} = {}
       /\ DOMAIN safe.list = DOMAIN v.list /\ DOMAIN safe.mapping = DOMAIN v.mapping
       /\ \A k \in DOMAIN v.mapping \cap SensitiveKeys : safe.mapping[k] = "redacted"
       /\ SafeObservation(safe) = safe
=============================================================================
