---------------------------- MODULE MCPublishing ----------------------------
(* Two documents, one of them under legal hold, two retention ticks, two    *)
(* edits, a publication, a download and a delivery.                         *)
EXTENDS Publishing, TLC
=============================================================================
