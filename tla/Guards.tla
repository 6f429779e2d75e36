--------------------------------- MODULE Guards ---------------------------------
(* What stands between a tool call a model asks for and its effect: the      *)
(* security policy and the validation in the tool executor.                  *)
EXTENDS Sequences, SequencesExt

----------------------------------------------------------------------------
(* Tools and their capabilities. A tool without one is internal to the run.  *)
NoCapability == "none"
PathTools == {"list_files", "read_file", "write_file"}
RepositoryTools == {"get_repository_tree", "search_files", "get_changed_files", "git_inspect"}
SchemaTools == {"list_tables", "describe_table", "get_table_relationships", "search_schema"}
CapabilityForTool(tool) ==
    CASE tool = "calculator" -> "calculator.evaluate"
      [] tool \in {"list_files", "read_file"} -> "filesystem.read"
      [] tool = "write_file" -> "filesystem.write"
      [] tool = "run_command" -> "command.execute"
      [] tool = "python_exec" -> "python.execute"
      [] tool \in RepositoryTools -> "repository.read"
      [] tool = "register_artifact" -> "artifact.create"
      [] tool = "web_search" -> "web.search"
      [] tool \in SchemaTools -> "database.schema.read"
      [] tool = "query_database" -> "database.query.read"
      [] tool = "analyze_dataset" -> "analytics.python.execute"
      [] tool \in {"generate_report", "create_chart"} -> "analytics.report.create"
      [] tool \in {"list_metrics", "describe_metric"} -> "database.metric.read"
      [] OTHER -> NoCapability
CapabilitiesForTools(tools) == {CapabilityForTool(t) : t \in tools} \ {NoCapability}

(* What an action is aimed at: an ordinary name, one that looks like          *)
(* production, or one SecurityResource refuses: empty or over 512 characters. *)
ActionTargets == {"plain", "production", "empty", "long"}
ResourceForTool(tool, target) ==
    IF tool \in PathTools \cup {"run_command", "register_artifact"} THEN target
    ELSE IF tool \in SchemaTools /\ target # "empty" THEN target
    ELSE "plain"
Nameable(resource) == resource \in {"plain", "production"}

RiskLevels == {"low", "medium", "high", "critical"}
IsProductionTarget(environment, resource) == environment = "production" \/ resource = "production"
Assess(environment, capability, resource) ==
    IF capability = NoCapability \/ IsProductionTarget(environment, resource) THEN "critical"
    ELSE IF capability \in {"calculator.evaluate", "filesystem.read", "repository.read", "web.search",
                            "database.schema.read", "database.metric.read"} THEN "low"
    ELSE IF capability = "repository.write" THEN "high" ELSE "medium"
RiskDecision(level) ==
    IF level \in {"low", "medium"} THEN "allow" ELSE IF level = "high" THEN "require_approval" ELSE "deny"

----------------------------------------------------------------------------
(* The security policy: rules in order, the first that matches decides.      *)
Whoever == "*"
Rule(decision, capability, name, type) == [decision |-> decision, capability |-> capability, name |-> name, type |-> type]
Matches(rule, subject, capability) ==
    /\ rule.name \in {Whoever, subject.name} /\ rule.type \in {Whoever, subject.type}
    /\ rule.capability \in {Whoever, capability}

PrimaryPolicy == <<Rule("allow", Whoever, Whoever, "primary"), Rule("allow", Whoever, Whoever, "system")>>
Gated == {"filesystem.write", "command.execute", "python.execute", "artifact.create"}
WithHumanApprovalGates(rules) == SetToSeq({Rule("require_approval", c, Whoever, Whoever) : c \in Gated}) \o rules
WithSpecialist(rules, name, tools) ==
    rules \o SetToSeq({Rule("allow", c, name, "specialist") : c \in CapabilitiesForTools(tools)})

Evaluate(rules, environment, subject, capability, resource) ==
    LET i == SelectInSeq(rules, LAMBDA r : Matches(r, subject, capability))
    IN IF i = 0 THEN "deny"
       ELSE IF capability = NoCapability /\ subject.type \in {"primary", "system"} THEN "allow"
       ELSE IF rules[i].decision # "allow" THEN rules[i].decision
       ELSE RiskDecision(Assess(environment, capability, resource))

----------------------------------------------------------------------------
(* The tool executor. A call has a tool, its arguments and the type of each  *)
(* value; every tool takes a required text and an optional whole number.     *)
MatchesJsonType(type, expected) ==
    CASE expected = "number" -> type \in {"integer", "float"}
      [] expected \in {"string", "integer", "boolean", "array", "object"} -> type = expected
      [] OTHER -> TRUE
Takes(schema, arguments) ==
    /\ schema.required \subseteq DOMAIN arguments
    /\ schema.closed => DOMAIN arguments \subseteq DOMAIN schema.types
    /\ \A name \in DOMAIN arguments \cap DOMAIN schema.types : MatchesJsonType(arguments[name], schema.types[name])
Schema == [required |-> {"target"}, types |-> [target |-> "string", count |-> "integer"], closed |-> TRUE]
ValidArguments(arguments) == Takes(Schema, arguments)

(* A specialist's registry holds its own tools, its parent's every tool.     *)
AllTools == {"calculator", "run_command", "python_exec", "register_artifact", "web_search", "query_database",
             "analyze_dataset", "generate_report", "create_chart", "list_metrics", "describe_metric",
             "update_investigation_plan"} \cup PathTools \cup RepositoryTools \cup SchemaTools
RestrictedTo(subject, granted) == IF subject.type = "specialist" THEN AllTools \cap granted ELSE AllTools

(* An executor: the rules of its policy, where it runs, the tools granted to *)
(* the specialist, and whether evaluating the policy raises.                 *)
PolicyOf(x, subject) ==
    LET base == IF x.gates THEN WithHumanApprovalGates(PrimaryPolicy) ELSE PrimaryPolicy
    IN IF subject.type = "specialist" THEN WithSpecialist(base, subject.name, x.granted) ELSE base
Decide(x, subject, call) ==
    IF x.broken THEN "deny"
    ELSE Evaluate(PolicyOf(x, subject), x.environment, subject, CapabilityForTool(call.tool),
                  ResourceForTool(call.tool, call.target))

(* Mutant: the policy is asked before the arguments are looked at. *)
EvaluatePolicyUnchecked(x, subject, call) ==
    IF call.tool \notin RestrictedTo(subject, x.granted) THEN "none" ELSE Decide(x, subject, call)

(* What the runner asks before it calls a tool: a decision, "none" for a call *)
(* the executor refuses by itself, "raises" for a target without a name.     *)
EvaluatePolicy(x, subject, call) ==
    IF call.tool \notin RestrictedTo(subject, x.granted) \/ ~ValidArguments(call.arguments) THEN "none"
    ELSE IF ~Nameable(ResourceForTool(call.tool, call.target)) THEN "raises"
    ELSE Decide(x, subject, call)

(* What becomes of the call: "runs", "fails" with a result, or "raises".     *)
ExecuteTool(x, subject, call, approved) ==
    IF call.tool \notin RestrictedTo(subject, x.granted) \/ ~ValidArguments(call.arguments) THEN "fails"
    ELSE IF ~Nameable(ResourceForTool(call.tool, call.target)) THEN "raises"
    ELSE LET decision == Decide(x, subject, call)
         IN IF decision = "allow" \/ (approved /\ decision = "require_approval") THEN "runs" ELSE "fails"

(* The decision asked for in advance is the one the call then meets: what is *)
(* allowed runs, what needs approval runs with it and only then, and neither *)
(* a denial nor a policy that fails is ever overridden.                      *)
GateAgreesWithCall(x, subject, call) ==
    LET decision == EvaluatePolicy(x, subject, call)
        plain == ExecuteTool(x, subject, call, FALSE)
        granted == ExecuteTool(x, subject, call, TRUE)
    IN /\ (decision = "allow") = (plain = "runs")
       /\ (decision \in {"allow", "require_approval"}) = (granted = "runs")
       /\ (decision = "raises") = (plain = "raises")
       /\ x.broken => granted # "runs"

(* A specialist runs only the tools its own definition lists.                *)
SpecialistIsConfined(x, subject, call, approved) ==
    subject.type = "specialist" /\ ExecuteTool(x, subject, call, approved) = "runs" => call.tool \in x.granted

(* Behind the gates no agent writes, runs code or makes an artifact without  *)
(* an approval.                                                              *)
SensitiveIsApproved(x, subject, call, approved) ==
    x.gates /\ CapabilityForTool(call.tool) \in Gated /\ ExecuteTool(x, subject, call, approved) = "runs" => approved

(* In production only approved actions run, and tools internal to the run    *)
(* (docs/reference/limitations.md:20-26).                                    *)
ProductionIsClosed(x, subject, call, approved) ==
    x.environment = "production" /\ CapabilityForTool(call.tool) # NoCapability
    /\ ExecuteTool(x, subject, call, approved) = "runs" => approved /\ x.gates
=============================================================================
