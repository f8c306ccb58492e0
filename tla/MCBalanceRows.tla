---------------------------- MODULE MCBalanceRows ----------------------------
(* Small instances of BalanceRows for TLC. *)
EXTENDS BalanceRows
=============================================================================
