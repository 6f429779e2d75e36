-------------------------------- MODULE Catalog --------------------------------
(* What a run learns of a workspace's database and may ask of it: the         *)
(* governed inspector, the validator of its queries, and the joins that       *)
(* profiling proposes (datasources/governed_inspector.py, tool_integration.py,*)
(* profiling.py, analytics/sql/validator.py).                                 *)
EXTENDS Integers, Sequences, FiniteSets, SequencesExt, FiniteSetsExt

(* A database: its tables with the words of their names and their columns. A  *)
(* column: its name with the words in it, whether it is the primary key, the  *)
(* table its foreign key refers to, the stem of a name "<stem>_id", what its   *)
(* name ends on and whether its type is a number.                             *)
NoTable == "no table"
NoStem == "no stem"
NamesOf(columns) == {c.name : c \in columns}
IsDatabase(db) ==
    /\ NoTable \notin DOMAIN db
    /\ db = [t \in DOMAIN db |-> [words |-> db[t].words, columns |-> db[t].columns]]
    /\ \A t \in DOMAIN db : \A c, d \in db[t].columns :
          (c.name = d.name => c = d) /\ (c.stem # NoStem => c.ends = "id")

(* A catalog: by table, whether it is active and which of the columns a human *)
(* reviewed are excluded.                                                     *)
ActiveTables(catalog) == {t \in DOMAIN catalog : catalog[t].active}
Approved(catalog, t) == {n \in DOMAIN catalog[t].excluded : ~catalog[t].excluded[n]}

ListTables(db, catalog) == DOMAIN db \cap ActiveTables(catalog)

DescribeTable(db, catalog, t) == {c \in db[t].columns : c.name \in Approved(catalog, t)}

SearchSchema(db, catalog, word) ==
    {t \in ListTables(db, catalog) :
        word \in db[t].words \/ \E c \in DescribeTable(db, catalog, t) : word \in c.words}

(* The columns a query may not name, from the tables that could be described  *)
(* when the tools of the run were built.                                      *)
BlockedColumns(db, catalog, unreadable) ==
    [t \in ListTables(db, catalog) \ unreadable |-> NamesOf(db[t].columns) \ Approved(catalog, t)]

----------------------------------------------------------------------------
(* A statement after parsing: how many there are, its kind, the prohibited    *)
(* nodes and functions in it, the names of its CTEs, its tables [name, alias, *)
(* schema], its column references [qualifier, name, exact], exact when        *)
(* written letter for letter as the catalog has it and not in another case    *)
(* that the database takes for the same, and the aliases it asks the whole    *)
(* row of ("*", "t.*", "t").                                                  *)
Unqualified == ""
DefaultSchema == ""
PermittedSchemas == {DefaultSchema, "public"}

(* The table of the statement under an alias (of one scope, aliases differ),  *)
(* or the alias itself                                                        *)
RealTable(s, qualifier) ==
    IF \E t \in s.tables : t.alias = qualifier THEN (CHOOSE t \in s.tables : t.alias = qualifier).name ELSE qualifier
IsBlocked(blocked, t, name) == t \in DOMAIN blocked /\ name \in blocked[t]
(* In a statement tables go under different names, none of them empty.        *)
Aliased(s) ==
    /\ \A t \in s.tables : t.alias # Unqualified
    /\ \A t, u \in s.tables : t.alias = u.alias => t = u
    /\ s.whole \subseteq {t.alias : t \in s.tables}

(* Names are compared letter for letter, and a whole row names no column.     *)
ExcludedColumnReference(s, blocked) ==
    \E c \in {d \in s.columns : d.exact} :
        IF c.qualifier # Unqualified THEN IsBlocked(blocked, RealTable(s, c.qualifier), c.name)
        ELSE \E t \in s.tables : IsBlocked(blocked, t.name, c.name)

BaseTables(s) == {t \in s.tables : ~(t.name \in s.ctes /\ t.schema = DefaultSchema)}
Validate(s, allowed, blocked) ==
    /\ s.statements = 1 /\ s.kind = "select" /\ s.prohibited = {}
    /\ \A t \in BaseTables(s) : t.schema \in PermittedSchemas /\ t.name \in allowed
    /\ ~ExcludedColumnReference(s, blocked)

(* query_database of a run whose tools were built over this database          *)
GovernedQuery(db, catalog, unreadable, s) ==
    Validate(s, ListTables(db, catalog), BlockedColumns(db, catalog, unreadable))

----------------------------------------------------------------------------
(* Profiling: the joins proposed for the selected tables                      *)
SelectedColumns(db, selected) ==
    {p \in selected \X UNION {db[t].columns : t \in selected} : p[2] \in db[p[1]].columns}
ForeignKeys(db, selected) ==
    {[source |-> p[1], column |-> p[2].name, target |-> p[2].refers, how |-> "foreign_key"] :
        p \in {p \in SelectedColumns(db, selected) : p[2].refers # NoTable}}

(* The first of stem, stem + "s", stem + "es" that has a primary key "id"      *)
Forms(stem) == <<stem, stem \o "s", stem \o "es">>
HasKey(table) == \E c \in table.columns : c.key /\ c.name = "id"
MatchingTable(db, stem, selected, except) ==
    LET fits == {i \in 1..3 : Forms(stem)[i] \in selected \ {except} /\ HasKey(db[Forms(stem)[i]])}
    IN IF fits = {} THEN NoTable ELSE Forms(stem)[Min(fits)]

Guesses(db, selected) ==
    {g \in {[source |-> p[1], column |-> p[2].name, target |-> MatchingTable(db, p[2].stem, selected, p[1]), how |-> "inferred"] :
                p \in {p \in SelectedColumns(db, selected) :
                           ~p[2].key /\ p[2].refers = NoTable /\ p[2].stem # NoStem}} :
        g.target # NoTable}
DiscoverRelationships(db, selected) == ForeignKeys(db, selected) \cup Guesses(db, selected)

SuggestRole(c) ==
    CASE c.key -> "primary_key"
      [] ~c.key /\ c.refers # NoTable -> "identifier"
      [] ~c.key /\ c.refers = NoTable /\ c.ends = "time" -> "time"
      [] ~c.key /\ c.refers = NoTable /\ c.ends = "id" -> "identifier"
      [] ~c.key /\ c.refers = NoTable /\ c.ends = "other" -> IF c.number THEN "measure" ELSE "dimension"

(* Words that make a column sensitive, in the order they are looked for        *)
SensitiveNameHints ==
    <<<<"password", "authentication_secret">>, <<"token", "authentication_secret">>, <<"tax_id", "restricted">>,
      <<"salary", "financial_data">>, <<"email", "personal_data">>>>
Severity == <<"internal", "personal_data", "financial_data", "restricted", "authentication_secret">>
SensitiveClassifications == {Severity[i] : i \in 2..5}
SuggestSensitivity(c) ==
    LET found == {i \in DOMAIN SensitiveNameHints : SensitiveNameHints[i][1] \in c.words}
    IN IF found = {} THEN "internal" ELSE SensitiveNameHints[Min(found)][2]
MaySample(sensitivity) == sensitivity \notin SensitiveClassifications

----------------------------------------------------------------------------
(* The database without what the catalog does not approve of                   *)
Governed(db, catalog) ==
    [t \in ListTables(db, catalog) |->
        [db[t] EXCEPT !.columns = {c \in @ : c.name \in Approved(catalog, t)}]]

(* What is not approved leaves no trace in any answer: the run is told the      *)
(* same as over a database that has nothing else (governed_inspector.py:9-15). *)
HiddenLeavesNoTrace(db, catalog, words) ==
    LET governed == Governed(db, catalog)
    IN /\ ListTables(db, catalog) = DOMAIN governed
       /\ \A t \in DOMAIN governed : DescribeTable(db, catalog, t) = governed[t].columns
       /\ \A w \in words : SearchSchema(db, catalog, w) = SearchSchema(governed, catalog, w)

(* The columns a query reads of one of its tables, and those among them it      *)
(* names as the catalog does                                                    *)
Refers(c, t) == c.qualifier \in {Unqualified, t.alias}
ColumnsNamed(db, s, t) ==
    {n \in NamesOf(db[t.name].columns) : \E c \in s.columns : c.exact /\ c.name = n /\ Refers(c, t)}
ColumnsRead(db, s, t) ==
    {n \in NamesOf(db[t.name].columns) :
        t.alias \in s.whole \/ \E c \in s.columns : c.name = n /\ Refers(c, t)}

(* A column a permitted query reads that is not approved is one it does not     *)
(* name as the catalog does, whichever table of the query a name is resolved    *)
(* to, when all tables could be described (tool_integration.py:57-66). Columns  *)
(* read in a whole row or named in another case are not looked at.              *)
NamedIsApproved(db, catalog, s) ==
    GovernedQuery(db, catalog, {}, s) =>
        \A t \in BaseTables(s) :
            \A n \in ColumnsRead(db, s, t) \ NamesOf(Governed(db, catalog)[t.name].columns) :
                n \notin ColumnsNamed(db, s, t)

(* What the run is told of, it can ask for: a plain query of described columns  *)
(* is not refused for what the database has besides.                           *)
DescribedCanBeQueried(db, catalog, unreadable, s) ==
    (/\ s.statements = 1 /\ s.kind = "select" /\ s.prohibited = {} /\ s.ctes = {}
     /\ \A t \in s.tables : t.schema \in PermittedSchemas /\ t.name \in ListTables(db, catalog)
     /\ \A c \in s.columns : \E t \in s.tables :
            c.qualifier = t.alias /\ c.name \in NamesOf(DescribeTable(db, catalog, t.name)))
        => GovernedQuery(db, catalog, unreadable, s)

(* A reviewer is shown one proposal for a column, to a table that has the key;  *)
(* selecting more tables takes no proposal away but may prefer another table,   *)
(* and no column that is proposed as a join is proposed to be summed.           *)
ProposalsAreSound(db, selected) ==
    LET joins == DiscoverRelationships(db, selected)
    IN /\ \A i, j \in joins : i.source = j.source /\ i.column = j.column => i = j
       /\ \A j \in joins : j.how = "inferred" =>
             j.target \in selected \ {j.source} /\ HasKey(db[j.target])
       /\ \A t \in selected : \A j \in DiscoverRelationships(db, selected \ {t}) :
             \E i \in joins : i.source = j.source /\ i.column = j.column
       /\ \A j \in joins : \A c \in db[j.source].columns :
             c.name = j.column => SuggestRole(c) \in {"primary_key", "identifier"}

Rank(sensitivity) == CHOOSE i \in DOMAIN Severity : Severity[i] = sensitivity

(* A column whose name gives it away twice is taken for the more sensitive of   *)
(* the two, and what is sensitive is not sampled.                              *)
MostSensitiveWins(c) ==
    \A i \in DOMAIN SensitiveNameHints : SensitiveNameHints[i][1] \in c.words =>
        /\ Rank(SuggestSensitivity(c)) >= Rank(SensitiveNameHints[i][2])
        /\ ~MaySample(SuggestSensitivity(c))
=============================================================================
