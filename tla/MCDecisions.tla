------------------------------ MODULE MCDecisions ------------------------------
EXTENDS Decisions

(* Two years, the second a leap year *)
Year == <<31, 28, 31, 30, 31, 30, 31, 31, 30, 31, 30, 31>>
MCMonthLengths == Year \o [Year EXCEPT ![2] = 29]

(* Schedules at half past two at night and at noon *)
MCSchedules == [kind : Kinds, time : {5, 24}, day_of_week : {0, 1, 7}, day_of_month : {0, 1, 28}, month_of_quarter : {0, 1, 3}]
(* Clocks that go forward and back by an hour at two, one that never changes *)
Change == HalfHours * 86 + 4
MCZones == {[before |-> z[1], after |-> z[2], at |-> Change - z[1]] :
               z \in {<<2, 4>>, <<4, 2>>, <<-2, -4>>, <<-4, -2>>, <<2, 2>>}}
MCInstants == (HalfHours * 86 - 24)..(HalfHours * 87)

MCTodays == 365..730
MCLastDayCounts == {1, 366}

Item(id, line, cost, quantity) == [id |-> id, line |-> line, cost |-> cost, quantity |-> quantity]
Processed2 == {[id |-> 1, status |-> "processed"], [id |-> 2, status |-> "processed"]}
MCOrderRows ==
    {[status |-> s, customer |-> c, at |-> d, label |-> l, total |-> t, refunds |-> r,
      items |-> IF t = 0 THEN {} ELSE {Item(1, 2, 1, 1), Item(2, 1, 1, 2)}] :
        s \in {"delivered", "cancelled"}, c \in {"c", "d"}, d \in 0..2, l \in {"a", Null}, t \in {0, 3},
        r \in {{}, Processed2}}
MCOtherRows ==
    [payments |-> [status : {"failed", "completed", "pending"}, at : 0..3, label : {"a", "b", Null}, total : {1, 2}],
     web_sessions |-> [converted : {"true", "false", Null}, at : 0..3, label : {"a", "b", Null}],
     shipments |-> [at : {Null, 1, 2, 3}, shipped : {Null, 0, 1}, expected : {Null, 1, 2}, label : {"a", Null}],
     reviews |-> [rating : {1, 4, 5}, at : 0..3, label : {"a", "b", Null}],
     customers |-> [at : 0..3, label : {"a", "b", Null}]]
MCTargets == {{}, {[month |-> 0, revenue_target |-> 0], [month |-> 1, revenue_target |-> 3]}}

Filter(field, op, value) == [field |-> field, operator |-> op, listed |-> op \in Members, value |-> value]
Tags == {"text", "number", "flag"}
Ones == {<<x>> : x \in Tags}
MCFilters ==
    {Filter(f, op, v) : f \in {"country", "campaign_id", "carrier"}, op \in {"eq", "gt"}, v \in Ones}
    \cup {Filter(f, "in", v) : f \in {"country", "campaign_id"}, v \in {<<>>} \cup Ones \cup (Tags \X Tags)}
MCRequests ==
    {[metric |-> m, request |-> [dimensions |-> d, filters |-> f, grain |-> g]] :
        m \in {"revenue", "net_revenue", "target_attainment", "late_delivery_rate"},
        d \in {<<>>, <<"period">>, <<"country", "period">>, <<"period", "period">>},
        f \in {<<>>} \cup {<<a>> : a \in MCFilters} \cup {<<a, b>> : a, b \in MCFilters},
        g \in {"month"}}
MCRowSizes == UNION {[1..n -> 1..3] : n \in 0..4}
MCLimits == [rows : 1..3, bytes : {2, 4, 6}]

D(type, units, rows, cites, hinted) == [type |-> type, units |-> units, rows |-> rows, cites |-> cites, hinted |-> hinted]
MCDisplays == {D("kpi", 3, 0, {"q"}, TRUE), D("kpi", 8, 0, {"q"}, FALSE),
               D("table", 1, 60, {"q"}, FALSE), D("line", 1, 2, {"q"}, FALSE), D("line", 1, 2, {"q"}, TRUE),
               D("bar", 1, 2, {"q"}, FALSE), D("bar", 1, 2, {"q", "lost"}, TRUE), D("pie", 1, 2, {"q"}, FALSE)}
MCDisplayLists == UNION {[1..n -> MCDisplays] : n \in 0..4}
MCAnswers ==
    LET kinds == {"blank", "heading", "bullet", "number", "text"}
    IN {[i \in DOMAIN k |-> [kind |-> k[i], id |-> i]] : k \in UNION {[1..n -> kinds] : n \in 0..3}}
MCPublishRequests == [metrics : {0, 1}, narrative : NarrativeStatuses \cup {Unsaid}]

MCCallTools == AllTools \cup {"unknown"}
MCCallArguments ==
    {[target |-> "string"], [target |-> "string", count |-> "integer"], [target |-> "string", count |-> "float"],
     [target |-> "array"], [count |-> "integer"], [target |-> "string", other |-> "string"]}
MCGrants == {{}, {"read_file"}, {"write_file", "query_database"}}

Place(p, kind) == [p |-> p, kind |-> kind]
Tree(a, f, l) ==
    LET here == {Place(<<"w", "a">>, a), Place(<<"w", "a", "f">>, IF a = "dir" THEN f ELSE "none"), Place(<<"o", "f">>, "file")}
        link == IF l = <<>> THEN {} ELSE {<<"w", "l">>}
    IN [dirs |-> {<<>>, <<"w">>, <<"o">>} \cup {x.p : x \in {y \in here : y.kind = "dir"}},
        files |-> [p \in {x.p : x \in {y \in here : y.kind = "file"}} |-> [size |-> 1, text |-> TRUE]],
        links |-> [p \in link |-> l]]
MCFileTrees ==
    {Tree(a, f, l) : a \in {"none", "dir", "file"}, f \in {"none", "file"},
                     l \in {<<>>, <<"o">>, <<"o", "f">>, <<"o", "x">>, <<"w">>, <<"w", "a">>, <<"w", "x">>}}
MCPathRequests ==
    {[absolute |-> FALSE, names |-> n] : n \in UNION {[1..k -> {"a", "l", "f", ".."}] : k \in 0..3}}
    \cup {[absolute |-> TRUE, names |-> <<"w", "a">>]}
MCContents == {[size |-> 0, text |-> TRUE], [size |-> 1, text |-> FALSE], [size |-> 2, text |-> TRUE], [size |-> 3, text |-> TRUE]}
MCChunks == UNION {[1..n -> 1..3] : n \in 0..4}
MCCaptureLimits == 1..6

Memory(w, s, t, words, tags) == [workspace |-> w, session |-> s, type |-> t, words |-> words, tags |-> tags]
MCMemories ==
    {Memory("W", NoSession, "long_term", words, {}) : words \in SUBSET {"x", "y"}}
    \cup {Memory("W", NoSession, "episodic", words, {}) : words \in {{}, {"x"}}}
    \cup {Memory("W", "S", "episodic", {"x"}, tags) : tags \in {{}, {"g"}}} \cup {Memory("W", "T", "episodic", {"x"}, {"g"})}
    \cup {Memory("V", NoSession, "long_term", {"x", "y"}, {"g"})}
MCStores == {{[created |-> i] @@ m[i] : i \in DOMAIN m} : m \in UNION {[1..n -> MCMemories] : n \in 0..3}}
MCRecallRequests ==
    [workspace : {"W"}, session : {NoSession, "S"}, words : SUBSET {"x", "y"}, types : {{"episodic", "long_term"}},
     tags : {{}, {"g"}}, created_after : {1, 2}, limit : {1, 3}]

Text(words, flaws) == [words |-> words, flaws |-> flaws, blank |-> FALSE, outcome |-> FALSE]
BlankText == [Text("", {"content_too_short"}) EXCEPT !.blank = TRUE]
Outcome == [Text("a", {}) EXCEPT !.outcome = TRUE]
MCTexts == {Text("a", {}), Text("b", {}), Text("b", {"content_too_short"}), BlankText}
MCRuns == [completed : {TRUE}, workspace : {"W", "V", "none"},
           decisions : {<<>>} \cup {<<a>> : a \in MCTexts} \cup {<<a, b>> : a, b \in MCTexts},
           answer : {Outcome, Text("b", {})}]
         \cup {[completed |-> FALSE, workspace |-> "W", decisions |-> <<Text("a", {})>>, answer |-> Outcome]}
MCRunHistories == UNION {[1..n -> MCRuns] : n \in 0..2}

MCBatches ==
    LET one == [ends : {"completed", "raises", "iteration_limit"}, length : {1, 5}, override : {0, 1, 4}]
    IN {[i \in DOMAIN b |-> [objective |-> i] @@ b[i]] : b \in UNION {[1..n -> one] : n \in 0..3}}

MCCustomPrices ==
    {<<>>, [n \in {"own"} |-> ModelPricing(10, 20, NoPrice, NoPrice, TRUE)],
     [n \in {"own", "gpt-5.5"} |-> ModelPricing(10, 20, 5, 15, FALSE)]}
MCModels == [name : DOMAIN OpenAIModelPrices \cup {"gpt-5.6", "own"}, dated : BOOLEAN]
MCUsages == [input : {0, 1, 271, 272, 273}, cached : {0, 1, 2, 272, 273}, output : 0..1, write : 0..1]

MCObservation(source, trust) == [source |-> source, trust |-> trust, content |-> {"c"}]
MCObservations == {MCObservation("tool", t) : t \in {"tool_output", "untrusted_external", "retrieved_memory"}}
                  \cup {MCObservation("subagent", "none")}
MCRunStates ==
    [observations : {[i \in DOMAIN o |-> [sequence |-> i] @@ o[i]] : o \in UNION {[1..n -> MCObservations] : n \in 0..4}},
     summarized : {NoSummary} \cup 0..3, iterations : {0}, tool_calls : {1}, errors : {0}, loaded : {{}, {"s"}}]

MCToolKinds ==
    {[name |-> "t", types |-> [p \in {"p"} |-> x] @@ [q \in {"q"} |-> y], required |-> r, closed |-> c, simple |-> s] :
        x, y \in {"string", "number", "object", "$ref"}, r \in {{}, {"p"}, {"p", "q"}}, c \in BOOLEAN, s \in {{}, {"p"}}}
MCOffers == [tools : {{t} : t \in ToolKinds}, skills : {{}}, agents : {{}}, max_parallel : {1}]
            \cup [tools : {{}}, skills : {{}, {"s"}}, agents : {{}, {"a"}}, max_parallel : 1..3]

MCAttempts == UNION {{[i \in 1..n |-> [at |-> t[i], keys |-> k[i]]] :
                         t \in {u \in [1..n -> 0..4] : \A i \in 1..(n - 1) : u[i] <= u[i + 1]},
                         k \in [1..n -> {<<"ip">>, <<"ip", "user">>, <<"other", "user">>}]} : n \in 0..4}
MCProcesses ==
    [starts : BOOLEAN, code : {0, 1}, leader : [ends : {1, 5, 9}, obeys : BOOLEAN],
     other : [ends : {0, 3, 5, 9}, obeys : BOOLEAN, holds : BOOLEAN]]
MCChartSizes == UNION {[1..n -> 1..2] : n \in 0..3}

(* Two tables that share a column name, reviewed in every way                *)
Column(name, word) == [name |-> name, words |-> {word}, key |-> FALSE, refers |-> NoTable, stem |-> NoStem, ends |-> "other", number |-> FALSE]
MCDatabases ==
    {("orders" :> [words |-> {"order"}, columns |-> o]) @@ ("users" :> [words |-> {"user"}, columns |-> u]) :
        o \in {{Column("a", "amount")}, {Column("a", "amount"), Column("m", "mail")}},
        u \in {{Column("m", "mail")}, {Column("a", "amount"), Column("m", "mail")}}}
Reviews == UNION {[n -> BOOLEAN] : n \in SUBSET {"a", "m"}}
MCCatalogs ==
    {("orders" :> [active |-> TRUE, excluded |-> x]) @@ rest :
        x \in Reviews, rest \in {<<>>} \cup {"users" :> [active |-> b, excluded |-> y] : b \in BOOLEAN, y \in Reviews}}
Select(tables, columns) ==
    [statements |-> 1, kind |-> "select", prohibited |-> {}, ctes |-> {}, tables |-> tables, columns |-> columns, whole |-> {}]
From(name, alias) == [name |-> name, alias |-> alias, schema |-> DefaultSchema]
MCStatements ==
    {Select({From("orders", "orders")} \cup t, {[qualifier |-> q, name |-> n, exact |-> x]}) :
        t \in {{}, {From("users", "u")}}, q \in {Unqualified, "orders", "u"}, n \in {"a", "m"}, x \in BOOLEAN}
    \cup {[Select({From("orders", "orders"), From("users", "u")}, c) EXCEPT !.whole = w] :
              c \in {{}, {[qualifier |-> "u", name |-> "m", exact |-> TRUE]}}, w \in SUBSET {"orders", "u"}}
    \cup {[Select({From("orders", "orders"), From("c", "c")}, {[qualifier |-> Unqualified, name |-> "m", exact |-> TRUE]}) EXCEPT !.ctes = {"c"}],
          [Select({From("orders", "orders")}, {}) EXCEPT !.kind = "insert"],
          [Select({From("orders", "orders")}, {}) EXCEPT !.prohibited = {"into"}],
          [Select({[From("orders", "orders") EXCEPT !.schema = "other"]}, {}) EXCEPT !.statements = 1]}

Key(name, key) == [Column(name, "key") EXCEPT !.key = key, !.ends = "id", !.number = TRUE]
Reference(name, refers, stem) == [Column(name, "key") EXCEPT !.refers = refers, !.stem = stem, !.ends = "id", !.number = TRUE]
Secret(words) == [Column("secret", "secret") EXCEPT !.words = words]
Profile(columns) == [words |-> {}, columns |-> columns]
MCProfiled ==
    {("orders" :> Profile({Key("id", TRUE), Reference("order_id", NoTable, "order"), Reference("user_id", refers, "user"), secret}))
     @@ ("user" :> Profile({Key("id", a)})) @@ ("users" :> Profile({Key("id", b)})) @@ ("order" :> Profile({Key("number", TRUE)})) :
        refers \in {NoTable, "users"}, a, b \in BOOLEAN,
        secret \in {Secret(w) : w \in {{"password", "email"}, {"salary", "token"}, {"email"}, {"code"}}}}

Call(tool, valid, decision, approved, ends, made) ==
    [tool |-> tool, valid |-> valid, decision |-> decision, approved |-> approved, ends |-> ends, made |-> made]
TracedTools == {"query_database", "analyze_dataset", "generate_report", "register_artifact", "list_tables", "read_file"}
MCCalls ==
    {Call(t, FALSE, "allow", FALSE, "success", 0) : t \in TracedTools \cup {"unknown"}}
    \cup {Call(t, TRUE, d, FALSE, "success", 0) : t \in TracedTools, d \in {"deny", "require_approval", "raises"}}
    \cup {Call("register_artifact", TRUE, "require_approval", TRUE, "success", 1)}
    \cup {Call("generate_report", TRUE, "allow", FALSE, "success", n) : n \in 2..3}
    \cup {Call("analyze_dataset", TRUE, "allow", FALSE, "success", n) : n \in 0..2}
    \cup {Call(t, TRUE, "allow", FALSE, "artifact_registration_failed", n) : t \in {"generate_report", "analyze_dataset"}, n \in 0..2}
    \cup {Call("query_database", TRUE, "allow", FALSE, e, 0) : e \in {"success", "database_query_rejected", "database_timeout"}}
    \cup {Call(t, TRUE, "allow", FALSE, e, 0) : t \in {"list_tables", "read_file"}, e \in {"success", "tool_failure"}}
MCCallHistories == UNION {[1..n -> MCCalls] : n \in 0..2}
                   \cup [1..3 -> {c \in MCCalls : c.tool = "query_database"}]

Leaves == {"credential", "long", "short", "number", "infinity", "object"}
MCOutputs == [list : UNION {[1..n -> Leaves] : n \in 0..2}, mapping : UNION {[k -> Leaves] : k \in SUBSET {"password", "revenue"}}]
=============================================================================
