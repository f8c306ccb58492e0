------------------------------- MODULE MCAlerts -------------------------------
(* A small instance of Alerts for TLC: a transfer told of once and again. *)
EXTENDS Alerts

CONSTANT a1
OneAddress == [t \in Transfers |-> a1]
=============================================================================
