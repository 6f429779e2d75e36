----------------------------- MODULE MCScheduler ----------------------------
(* Instances of Scheduler for TLC. *)
EXTENDS Scheduler, TLC

CONSTANTS s1, s2, s3, w1, w2, w3, e1, e2, often, seldom, utc, local

(* In ticks: a rule fires every two, another every three. *)
MCPeriod == [rule \in Rules |-> IF rule = often THEN 2 ELSE 3]
MCOffset == [zone \in Zones |-> IF zone = local THEN 1 ELSE 0]
MCFirstConfig == [s \in Schedules |->
    [rule |-> IF s = s3 THEN seldom ELSE often, zone |-> utc]]

(* The workers differ in nothing but their name, nor do the requests. *)
Symmetry == Permutations(Workers) \cup Permutations(Editors)

=============================================================================
