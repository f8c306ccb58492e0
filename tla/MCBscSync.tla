------------------------------ MODULE MCBscSync ------------------------------
(* Small instances of BscSync for TLC.                                     *)
EXTENDS BscSync, TLC
\* Every process has a sync key of its own.
OwnKeys == [p \in Backups \cup {Main} |-> p]
Symmetry == Permutations(Backups)
=============================================================================
