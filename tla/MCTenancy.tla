------------------------------ MODULE MCTenancy -----------------------------
(* Instances of Tenancy for TLC. *)
EXTENDS Tenancy, TLC

CONSTANTS u1, u2, u3, acme, globex, t1, r1, r2

(* One workspace with an owner and an admin, a slug nobody has taken, and  *)
(* a user who is a member of neither.                                      *)
MCFirstMembers == [w \in Workspaces |-> [u \in Users |->
    IF w = globex THEN NoRow
    ELSE IF u = u2 THEN [role |-> "admin", status |-> "active"]
    ELSE IF u = u1 THEN [role |-> "owner", status |-> "active"]
    ELSE NoRow]]

Symmetry == Permutations(Requests)

=============================================================================
