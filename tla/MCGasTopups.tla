----------------------------- MODULE MCGasTopups -----------------------------
(* Small instances of GasTopups for TLC. *)
EXTENDS GasTopups
=============================================================================
