---------------------------- MODULE MCFullRefresh ----------------------------
(* Small instances of FullRefresh for TLC. *)
EXTENDS FullRefresh
=============================================================================
