------------------------------- MODULE ModelCalls -------------------------------
(* One request to the language model: the context it is shown, the functions *)
(* it is offered, the action its call is turned into, and what it costs.     *)
EXTENDS Guards, Integers, FiniteSets, SequencesExt, FiniteSetsExt
CONSTANTS RecentObservations, MaxIterations, MaxToolCalls, MaxErrors,     \* limits of the run
          MaxDelegations, MaxCitations                                    \* of an action
ASSUME CallsAssumption == RecentObservations \in Nat \ {0} /\ MaxDelegations \in Nat /\ MaxCitations \in Nat

----------------------------------------------------------------------------
(* Prices, in thousandths of a dollar per million tokens; long context has   *)
(* its own rates. Tokens are counted in thousands.                           *)
NoPrice == -1
ModelPricing(input, output, cached, write, long) ==
    [input |-> input, output |-> output, cached |-> cached, write |-> write, long |-> long]
IsPricing(p) ==
    /\ p \in [input : Nat, output : Nat, cached : Nat \cup {NoPrice}, write : Nat \cup {NoPrice}, long : BOOLEAN]
    /\ p.cached <= p.input
OpenAIModelPrices ==
    [n \in {"gpt-5.4", "gpt-5.4-pro", "gpt-5.4-mini", "gpt-5.4-nano", "gpt-5.5", "gpt-5.5-pro",
            "gpt-5.6-sol", "gpt-5.6-terra", "gpt-5.6-luna"} |->
        CASE n = "gpt-5.4" -> ModelPricing(2500, 15000, 250, NoPrice, TRUE)
          [] n \in {"gpt-5.4-pro", "gpt-5.5-pro"} -> ModelPricing(30000, 180000, 30000, NoPrice, TRUE)
          [] n = "gpt-5.4-mini" -> ModelPricing(750, 4500, 75, NoPrice, FALSE)
          [] n = "gpt-5.4-nano" -> ModelPricing(200, 1250, 20, NoPrice, FALSE)
          [] n = "gpt-5.5" -> ModelPricing(5000, 30000, 500, NoPrice, TRUE)
          [] n = "gpt-5.6-sol" -> ModelPricing(5000, 30000, 500, 6250, TRUE)
          [] n = "gpt-5.6-terra" -> ModelPricing(2000, 12000, 200, 2500, TRUE)
          [] n = "gpt-5.6-luna" -> ModelPricing(200, 1200, 20, 250, TRUE)]
LongContextInputThreshold == 272

(* A model as reported: a name, perhaps with the date of a snapshot          *)
Unsupported == "unsupported"
NormalizeModel(model) ==
    IF model.name = "gpt-5.6" /\ ~model.dated THEN "gpt-5.6-sol"
    ELSE IF model.name \in DOMAIN OpenAIModelPrices THEN model.name ELSE Unsupported

NoCost == -1
Unpriced == ModelPricing(NoPrice, NoPrice, NoPrice, NoPrice, FALSE)
Usage == [input : Nat, cached : Nat, output : Nat, write : Nat]
(* Twice the cost, which keeps the rate of one and a half whole              *)
TwiceTheCost(p, u) ==
    LET long == p.long /\ u.input > LongContextInputThreshold
        input == IF long THEN 4 ELSE 2
        output == IF long THEN 3 ELSE 2
    IN IF u.cached > u.input \/ (u.cached > 0 /\ p.cached = NoPrice) \/ (u.write > 0 /\ p.write = NoPrice) THEN NoCost
       ELSE (u.input - u.cached) * p.input * input + u.output * p.output * output
            + (IF u.cached > 0 THEN u.cached * p.cached * input ELSE 0)
            + (IF u.write > 0 THEN u.write * p.write * input ELSE 0)

(* The registry has prices of the caller's own beside these. A model that is *)
(* priced here is charged these prices even when the caller replaced them.   *)
RegistryGet(custom, model) ==
    LET normal == NormalizeModel(model)
        key == IF normal # Unsupported THEN normal ELSE IF model.dated THEN Unsupported ELSE model.name
    IN IF key \in DOMAIN custom THEN custom[key]
       ELSE IF key \in DOMAIN OpenAIModelPrices THEN OpenAIModelPrices[key] ELSE Unpriced
EstimateCost(custom, model, u) ==
    LET pricing == RegistryGet(custom, model)
        normal == NormalizeModel(model)
    IN IF pricing = Unpriced \/ (u.cached > 0 /\ pricing.cached = NoPrice) \/ (u.write > 0 /\ pricing.write = NoPrice)
       THEN NoCost
       ELSE IF normal # Unsupported THEN TwiceTheCost(OpenAIModelPrices[normal], u)
       ELSE TwiceTheCost([pricing EXCEPT !.long = FALSE], u)

(* A request is never cheaper than the same request with less of anything in *)
(* it, nor dearer for having found its input in the cache.                   *)
CostsAreOrdered(custom, model, u) ==
    LET cost(v) == EstimateCost(custom, model, v)
        cheaper == {[u EXCEPT !.output = @ - 1], [u EXCEPT !.write = @ - 1], [u EXCEPT !.input = @ - 1],
                    [u EXCEPT !.input = @ - 1, !.cached = @ - 1], [u EXCEPT !.cached = @ + 1]}
    IN \A v \in cheaper :
        (\A k \in DOMAIN v : v[k] >= 0) /\ v.cached <= v.input /\ cost(u) # NoCost /\ cost(v) # NoCost => cost(v) <= cost(u)

----------------------------------------------------------------------------
(* The context. An observation has content, which says how far it may be     *)
(* trusted; a summary covers the first observations of the run.              *)
NoSummary == -1
AreNumbered(observations) ==
    /\ observations = [i \in 1..Len(observations) |-> observations[i]] /\ Len(observations) \in Nat
    /\ \A i, j \in DOMAIN observations : observations[i].sequence = observations[j].sequence => i = j
LastOf(s, n) == IF Len(s) <= n THEN s ELSE SubSeq(s, Len(s) - n + 1, Len(s))
SelectForState(state) ==
    IF state.summarized = NoSummary \/ state.summarized < Max({Len(state.observations) - RecentObservations, 0})
    THEN state.observations ELSE LastOf(state.observations, RecentObservations)

Untrusted == {"untrusted_external", "retrieved_memory"}
ObservationView(o) ==
    IF o.source = "tool" /\ o.trust \in Untrusted
    THEN [sequence |-> o.sequence, plain |-> {}, evidence |-> o.content]
    ELSE [sequence |-> o.sequence, plain |-> o.content, evidence |-> {}]

RuntimeStatus(state) ==
    [current |-> state.iterations + 1,
     iterations |-> Max({MaxIterations - state.iterations, 0}),
     tool_calls |-> Max({MaxToolCalls - state.tool_calls, 0}),
     errors |-> Max({MaxErrors - state.errors, 0})]
BuildContext(state, skills) ==
    [summary |-> state.summarized, status |-> RuntimeStatus(state),
     available_skills |-> skills \ state.loaded, loaded_skills |-> state.loaded,
     observations |-> [i \in DOMAIN SelectForState(state) |-> ObservationView(SelectForState(state)[i])]]

(* Nothing the run has seen is missing from what the model is shown: it is   *)
(* among the observations, or the summary covers it.                         *)
NothingForgotten(state, skills) ==
    LET context == BuildContext(state, skills)
        shown == {context.observations[i].sequence : i \in DOMAIN context.observations}
    IN \A i \in DOMAIN state.observations : state.observations[i].sequence \in shown \/ i <= context.summary

(* What a tool brought in from outside is shown as evidence, never as plain  *)
(* output, and shown once.                                                   *)
EvidenceIsSeparate(state, skills) ==
    \A i \in DOMAIN state.observations, j \in DOMAIN BuildContext(state, skills).observations :
        LET o == state.observations[i]
            v == BuildContext(state, skills).observations[j]
        IN v.sequence = o.sequence =>
               /\ v.plain \cup v.evidence = o.content /\ v.plain \cap v.evidence = {}
               /\ o.source = "tool" /\ o.trust \in Untrusted => v.plain = {}

----------------------------------------------------------------------------
(* The functions offered. A value is its JSON type, a text and a number of   *)
(* entries; a function permits a set of values for each of its parameters,   *)
(* and the provider holds a strict one to them (external).                   *)
Value(type, text, size) == [type |-> type, text |-> text, size |-> size]
EmptyText == "blank"
Texts == {Value("string", "text", 0), Value("string", EmptyText, 0)}
NullValue == Value("null", EmptyText, 0)
OneOf(names) == {Value("string", n, 0) : n \in names}
ListOf(least, most) == {Value("array", EmptyText, n) : n \in least..most}
ValuesOfType(type) ==
    CASE type = "string" -> Texts
      [] type = "number" -> {Value("integer", EmptyText, 1), Value("float", EmptyText, 1)}
      [] OTHER -> {Value(type, EmptyText, 1)}

(* A tool: its name, the types of its arguments, those required, those whose *)
(* own structure strict mode can express, whether no others are taken        *)
JsonTypes == {"string", "number", "integer", "boolean", "array", "object"}
IsTool(tool) ==
    /\ tool.types = [p \in DOMAIN tool.types |-> tool.types[p]] /\ "reasoning_summary" \notin DOMAIN tool.types
    /\ \A p \in DOMAIN tool.types : tool.types[p] \in JsonTypes \cup {"$ref"}
    /\ tool.required \subseteq DOMAIN tool.types
StrictCompatible(tool) ==
    /\ tool.closed
    /\ \A p \in DOMAIN tool.types : tool.types[p] # "$ref" /\ (tool.types[p] \in {"object", "array"} => p \in tool.simple)
Function(action, name, permits, strict) == [action |-> action, name |-> name, permits |-> permits, strict |-> strict]
WithReasoning(permits) ==
    [p \in DOMAIN permits \cup {"reasoning_summary"} |-> IF p = "reasoning_summary" THEN Texts ELSE permits[p]]
ToolFunction(tool) ==
    Function("use_tool", tool.name,
             WithReasoning([p \in DOMAIN tool.types |->
                 ValuesOfType(tool.types[p]) \cup IF p \in tool.required \/ tool.types[p] = "$ref" THEN {} ELSE {NullValue}]),
             StrictCompatible(tool))
LoadSkillFunction(skills) == Function("load_skill", "load_skill", WithReasoning([skill_name |-> OneOf(skills)]), TRUE)
Optional == Texts \cup {NullValue}
DelegateFunction(agents) ==
    Function("delegate", "delegate",
             WithReasoning([agent_name |-> OneOf(agents), objective |-> Texts, context |-> Optional,
                            constraints |-> Optional, expected_output |-> Optional]), TRUE)
DelegateParallelFunction(agents, most) ==
    Function("delegate_parallel", "delegate_parallel", WithReasoning([delegations |-> ListOf(2, most)]), TRUE)
FinishFunction ==
    Function("finish", "finish", WithReasoning([final_answer |-> Texts, citations |-> ListOf(0, MaxCitations), caveats |-> ListOf(0, 1)]), TRUE)
FunctionDefinitions(c) ==
    {ToolFunction(t) : t \in c.tools}
    \cup (IF c.skills = {} THEN {} ELSE {LoadSkillFunction(c.skills)})
    \cup (IF c.agents = {} THEN {} ELSE {DelegateFunction(c.agents)})
    \cup (IF c.agents = {} \/ c.max_parallel < 2 THEN {} ELSE {DelegateParallelFunction(c.agents, c.max_parallel)})
    \cup {FinishFunction}

(* A call the provider may return for an offered function; it sometimes      *)
(* leaves out the summary of its reasoning.                                  *)
Permitted(f, arguments) ==
    /\ DOMAIN arguments \cup {"reasoning_summary"} = DOMAIN f.permits
    /\ \A p \in DOMAIN arguments : arguments[p] \in f.permits[p]
WithoutBlanks(arguments) == \A p \in DOMAIN arguments : p # "reasoning_summary" => arguments[p] # Value("string", EmptyText, 0)

(* The action such a call becomes: what it names, and its arguments          *)
Given(arguments, names) == [p \in DOMAIN arguments \cap names |-> arguments[p]]
(* Mutant: arguments that are null are passed on. *)
ToAgentActionAsCalled(f, arguments) ==
    [type |-> f.action, name |-> f.name, arguments |-> Given(arguments, DOMAIN arguments \ {"reasoning_summary"})]
ToAgentAction(f, arguments) ==
    [type |-> f.action, name |-> f.name,
     arguments |-> Given(arguments, {p \in DOMAIN arguments \ {"reasoning_summary"} : f.action # "use_tool" \/ arguments[p] # NullValue})]

(* What an agent action requires of its payload.                             *)
Filled(action, p) == p \in DOMAIN action.arguments /\ action.arguments[p].type = "string" /\ action.arguments[p].text # EmptyText
ValidAction(action) ==
    /\ action.type = "load_skill" => Filled(action, "skill_name")
    /\ action.type = "delegate" => Filled(action, "agent_name") /\ Filled(action, "objective")
    /\ action.type = "delegate_parallel" => action.arguments["delegations"].size \in 2..MaxDelegations
    /\ action.type = "finish" => Filled(action, "final_answer") /\ action.arguments["citations"].size <= MaxCitations

Types(arguments) == [p \in DOMAIN arguments |-> arguments[p].type]
Carriable(c, action) ==
    CASE action.type = "use_tool" -> \E t \in c.tools : t.name = action.name /\ Takes(t, Types(action.arguments))
      [] action.type = "load_skill" -> action.arguments["skill_name"].text \in c.skills
      [] action.type = "delegate" -> action.arguments["agent_name"].text \in c.agents
      [] action.type = "delegate_parallel" -> action.arguments["delegations"].size <= c.max_parallel
      [] action.type = "finish" -> TRUE

(* What is offered can be called, and whatever the model may return for a    *)
(* strict function, its texts filled, is an action the runtime can take.     *)
OfferedCallsWork(c, f, arguments) ==
    /\ \A p \in DOMAIN f.permits : f.permits[p] # {}
    /\ f.strict /\ Permitted(f, arguments) /\ WithoutBlanks(arguments) =>
           LET action == ToAgentAction(f, arguments) IN ValidAction(action) /\ Carriable(c, action)

(* Every call a tool takes can be expressed through the function offered.    *)
ToolCallsAreOffered(tool, arguments) ==
    Takes(tool, Types(arguments)) /\ (\A p \in DOMAIN arguments : p \in DOMAIN tool.types /\ arguments[p] # NullValue) =>
        LET f == ToolFunction(tool)
            call == [p \in DOMAIN f.permits |->
                        IF p \in DOMAIN arguments THEN arguments[p]
                        ELSE IF p = "reasoning_summary" THEN Value("string", "text", 0) ELSE NullValue]
        IN f.strict => Permitted(f, call) /\ ToAgentAction(f, call).arguments = arguments
=============================================================================
