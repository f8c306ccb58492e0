---------------------------- MODULE MCTronActions ----------------------------
(* A small instance of TronActions for TLC: rules over midnight, up to it  *)
(* and from it, a plain name, none.                                        *)
EXTENDS TronActions

SomeSettings == {[name |-> "catfee"], [start |-> 22, end |-> 24]}
SomeDefaults == {[name |-> ""], [start |-> 22, end |-> 6]}
SomeHours == {6, 23}
=============================================================================
