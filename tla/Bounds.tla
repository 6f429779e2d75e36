--------------------------------- MODULE Bounds ---------------------------------
(* What is bounded in time: attempts at an authentication endpoint, and the  *)
(* child processes that run a command or a piece of Python.                  *)
EXTENDS Integers, Sequences, FiniteSets, SequencesExt, FiniteSetsExt
CONSTANTS RateLimit, Window,          \* attempts allowed, and in how long
          Timeout, Grace,             \* of a child process, and between SIGTERM and SIGKILL
          MaxCharts, MaxChartSize     \* collected from one execution
ASSUME BoundsAssumption ==
    /\ RateLimit \in Nat /\ Window \in Int /\ Timeout \in Nat /\ Grace \in Nat
    /\ MaxCharts \in Nat /\ MaxChartSize \in Nat

----------------------------------------------------------------------------
(* The sliding window of one key holds the times of the attempts it let      *)
(* pass; those that are too old leave it at its front.                       *)
Check(hits, now) ==
    LET young == {i \in 1..Len(hits) : now - hits[i] <= Window}
        kept == IF young = {} THEN <<>> ELSE SubSeq(hits, Min(young), Len(hits))
    IN IF Len(kept) >= RateLimit THEN [allowed |-> FALSE, hits |-> kept] ELSE [allowed |-> TRUE, hits |-> Append(kept, now)]

(* An attempt is checked under each of its keys, which differ, in order, up  *)
(* to the first that refuses it.                                             *)
EnforceRateLimit(limiter, keys, now) ==
    LET busy == {i \in DOMAIN keys : ~Check(limiter[keys[i]], now).allowed}
        checked == {keys[i] : i \in IF busy = {} THEN DOMAIN keys ELSE 1..Min(busy)}
    IN [allowed |-> busy = {},
        limiter |-> [k \in DOMAIN limiter |-> IF k \in checked THEN Check(limiter[k], now).hits ELSE limiter[k]]]

(* Attempts one after the other: when, under which of some keys K            *)
IsHistory(attempts, K) ==
    /\ attempts \in Seq([at : Int, keys : Seq(K)])
    /\ \A i, j \in DOMAIN attempts : i <= j => attempts[i].at <= attempts[j].at

Keys(attempts) == UNION {ToSet(attempts[i].keys) : i \in DOMAIN attempts}
AfterAttempts(attempts) ==
    LET after[i \in 0..Len(attempts)] ==
            IF i = 0 THEN [allowed |-> TRUE, limiter |-> [k \in Keys(attempts) |-> <<>>]]
            ELSE EnforceRateLimit(after[i - 1].limiter, attempts[i].keys, attempts[i].at)
    IN after
AttemptOutcomes(attempts) == LET after == AfterAttempts(attempts) IN [i \in DOMAIN attempts |-> after[i].allowed]

(* The attempts under a key in the window that ends with attempt i           *)
Recent(attempts, i, k) ==
    {j \in 1..i : k \in ToSet(attempts[j].keys) /\ attempts[i].at - attempts[j].at <= Window}

(* No key ever sees more than the limit succeed within a window, and a       *)
(* caller is refused only when the others were, or it was, busier than that: *)
(* refused attempts of its own do not lock it out.                           *)
AttemptsAreLimited(attempts) ==
    LET allowed == AttemptOutcomes(attempts)
    IN \A i \in DOMAIN attempts :
        LET passed(k) == {j \in Recent(attempts, i, k) : allowed[j]}
            refusedElsewhere(k) == {j \in Recent(attempts, i, k) : ~allowed[j] /\ Len(attempts[j].keys) > 1}
        IN /\ \A k \in ToSet(attempts[i].keys) : Cardinality(passed(k)) <= RateLimit
           /\ ~allowed[i] => \E k \in ToSet(attempts[i].keys) :
                  Cardinality(passed(k)) + Cardinality(refusedElsewhere(k) \ {i}) >= RateLimit

----------------------------------------------------------------------------
(* Mutant: only the process itself is signalled, not its group. *)
TerminateLeader(p) == [leader |-> {"term", "kill"}, group |-> {}]

(* A child process: its leader ends by itself at some time (or later than    *)
(* any time of the instance), with a code, and may obey SIGTERM; so may a    *)
(* descendant it leaves in its process group, which may hold the output.     *)
Process == [ends : Nat, obeys : BOOLEAN]
ChildProcess ==
    [starts : BOOLEAN, code : Int, leader : Process, other : [ends : Nat, obeys : BOOLEAN, holds : BOOLEAN]]
Terminate(p) ==
    LET stubborn == ~p.leader.obeys /\ p.leader.ends > Timeout + Grace
        signals == IF stubborn THEN {"term", "kill"} ELSE {"term"}
    IN [leader |-> signals, group |-> signals]
Ends(q, signals) ==
    Min({q.ends} \cup (IF "term" \in signals /\ q.obeys THEN {Timeout} ELSE {})
                 \cup (IF "kill" \in signals THEN {Timeout + Grace} ELSE {}))

(* What execute reports, when it does, and whether anything is left running: *)
(* it reads both pipes to their end before it returns.                       *)
RunChild(p) ==
    IF ~p.starts THEN [at |-> 0, success |-> FALSE, timed_out |-> FALSE, returned |-> FALSE, left |-> FALSE]
    ELSE LET late == p.leader.ends > Timeout
             sent == IF late THEN Terminate(p) ELSE [leader |-> {}, group |-> {}]
             leader == Ends(p.leader, sent.leader)
             other == Ends(p.other, sent.group)
             at == Max({leader} \cup IF p.other.holds THEN {other} ELSE {})
         IN [at |-> at, success |-> ~late /\ p.code = 0, timed_out |-> late, returned |-> ~late, left |-> other > at]

(* A success is a leader that ended in time by itself; a process killed for  *)
(* its time is told as such; execute returns in time unless a descendant     *)
(* holds the output; and after a SIGKILL nothing is left of the group.       *)
ChildIsBounded(p) ==
    LET r == RunChild(p)
    IN /\ r.success => p.leader.ends <= Timeout /\ p.code = 0
       /\ r.timed_out => ~r.success /\ ~r.returned
       /\ r.at > Timeout + Grace => p.other.holds /\ p.other.ends > Timeout + Grace
       /\ p.starts /\ p.leader.ends > Timeout + Grace /\ ~p.leader.obeys => ~r.left /\ r.at <= Timeout + Grace

----------------------------------------------------------------------------
(* A Python execution: "fails" is the step that goes wrong before the code   *)
(* runs, or nothing; the charts it leaves have sizes, and some cannot *)
(* be copied. The first chart out of bounds ends the collection.             *)
CollectCharts(sizes, unreadable) ==
    LET bad == {i \in DOMAIN sizes : i > MaxCharts \/ sizes[i] > MaxChartSize}
        upto == IF bad = {} THEN Len(sizes) ELSE Min(bad) - 1
    IN (1..upto) \ unreadable
ExecutePython(e) ==
    IF e.fails # "nothing" THEN [success |-> FALSE, charts |-> {}]
    ELSE LET r == RunChild(e.process)
         IN [success |-> r.success, charts |-> IF r.success THEN CollectCharts(e.sizes, e.unreadable) ELSE {}]

(* Only a success has charts, few and small ones, each at its own number; a  *)
(* readable one is missing only behind one that is too large or too many.    *)
ChartsAreBounded(e) ==
    LET r == ExecutePython(e)
        lost == {i \in DOMAIN e.sizes : i \notin r.charts /\ i \notin e.unreadable}
    IN /\ r.charts # {} => r.success /\ e.fails = "nothing"
       /\ Cardinality(r.charts) <= MaxCharts /\ \A i \in r.charts : e.sizes[i] <= MaxChartSize
       /\ \A i \in lost : r.success => i > MaxCharts \/ \E j \in 1..i : e.sizes[j] > MaxChartSize
=============================================================================
