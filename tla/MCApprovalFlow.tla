--------------------------- MODULE MCApprovalFlow ---------------------------
(* Instances of ApprovalFlow for TLC. *)
EXTENDS ApprovalFlow

CONSTANTS a1, a2, r1, r2

=============================================================================
