----------------------------- MODULE BlockLedger -----------------------------
(***************************************************************************)
(* What block synchronisation promises, whoever does it: a watermark runs  *)
(* over the chain; a block below it has been processed, is on the books as *)
(* owed, or was given up by the one who owed it.  It leaves the books only *)
(* in one of these ways.                                                   *)
(***************************************************************************)
EXTENDS SyncCursor

VARIABLES
    high,       \* the watermark; NoRow before the first cursor is saved
    processed,  \* blocks that were handled
    owed,       \* blocks somebody has promised to handle
    forfeited   \* blocks whose promise was broken by a failure

ledger == <<high, processed, owed, forfeited>>

Init == high = NoRow /\ processed = {} /\ owed = {} /\ forfeited = {}

\* The watermark is set for the first time; what lies below is not covered.
Begin ==
    /\ high = NoRow
    /\ high' \in Nat
    /\ UNCHANGED <<processed, owed, forfeited>>

\* One block is handled.
Process ==
    /\ \E x \in processed' : processed' = processed \cup {x}
    /\ UNCHANGED <<high, owed, forfeited>>

\* Blocks are put on the books.
Owe ==
    /\ owed \subseteq owed'
    /\ UNCHANGED <<high, processed, forfeited>>

\* Blocks on the books are handled, and blocks are struck off, every one of them
\* handled by then or given up before.
Settle ==
    /\ processed \subseteq processed' /\ processed' \ processed \subseteq owed
    /\ owed' \subseteq owed
    /\ owed \ owed' \subseteq processed' \cup forfeited
    /\ UNCHANGED <<high, forfeited>>

\* A failure: promises are given up, nothing else leaves the books.
Forfeit ==
    /\ forfeited \subseteq forfeited' /\ forfeited' \ forfeited \subseteq owed
    /\ owed' \subseteq owed
    /\ owed \ owed' \subseteq forfeited'
    /\ UNCHANGED <<high, processed>>

\* The watermark passes blocks only when each is accounted for.
Advance ==
    /\ high # NoRow
    /\ high' \in Nat
    /\ high' > high
    /\ Between(high, high') \subseteq processed \cup owed \cup forfeited
    /\ UNCHANGED <<processed, owed, forfeited>>

Next == Begin \/ Process \/ Owe \/ Settle \/ Forfeit \/ Advance

Spec == Init /\ [][Next]_ledger
=============================================================================
