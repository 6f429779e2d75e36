----------------------------- MODULE MCAgentRun -----------------------------
(* Instances of AgentRun for TLC, the mutants of its definitions included. *)
EXTENDS AgentRun

CONSTANTS c1, c2, o1, b1, i1, i2, q1, t1, noplan

MCBatchSize == [b \in Batches |-> 2]

=============================================================================
