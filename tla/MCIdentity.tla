----------------------------- MODULE MCIdentity -----------------------------
(* Instances of Identity for TLC. *)
EXTENDS Identity, TLC

CONSTANTS u1, u2, a, b, c, s1, s2, t1, t2, r1, r2

(* An account whose hash has outdated parameters, and an id to register. *)
MCFirstUsers == [u \in Users |->
    IF u = u1 THEN [email |-> a, password |-> 0, outdated |-> TRUE, verified |-> TRUE, pending |-> None]
    ELSE NoRow]

Symmetry == Permutations(Requests) \cup Permutations(Sessions) \cup Permutations(Tokens)

=============================================================================
