-------------------------- MODULE MCTransferRecords --------------------------
(* A small instance of TransferRecords for TLC: a USDT call with two       *)
(* transfers, a call of another contract, a TRX transfer.                  *)
EXTENDS TransferRecords

CONSTANTS alice, bob, carol

Leg(from, to) == [from |-> from, to |-> to]
ThreeTransactions == <<
    [kind |-> "usdt", call |-> {bob, carol}, legs |-> <<Leg(bob, carol), Leg(bob, alice)>>],
    [kind |-> "other", call |-> {alice}, legs |-> <<Leg(carol, alice)>>],
    [kind |-> "trx", call |-> {}, legs |-> <<Leg(alice, bob)>>] >>
=============================================================================
