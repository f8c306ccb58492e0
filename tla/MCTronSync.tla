----------------------------- MODULE MCTronSync -----------------------------
(* Small instances of TronSync for TLC.  Their parameters are scalars, and *)
(* a set of backups given as model values.                                 *)
EXTENDS TronSync
=============================================================================
