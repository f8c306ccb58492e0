----------------------------- MODULE SyncCursor -----------------------------
(***************************************************************************)
(* The arithmetic every block scanner of the repository shares:            *)
(* internal/service/sync_cursor.go and the initial-cursor rules that the   *)
(* scanners repeat.  Blocks are natural numbers; a row that is absent from *)
(* the table sync_state is the value NoRow.                                *)
(***************************************************************************)
EXTENDS Integers

\* GetLastBlock's exists = false.
NoRow == -1

\* A value of sync_state.last_block, or no row.
RowValue == Nat \cup {NoRow}

\* Blocks from+1 .. to, the ones a cursor passes when it moves from -> to.
Between(from, to) == (from + 1) .. to

\* shouldSkipToLatestBlock: more than `threshold` blocks behind.
ShouldSkip(current, latest, threshold) ==
    /\ latest > current
    /\ latest - current > threshold

\* Where a scanner with no row starts: the newest block, or the configured
\* start block when that one is older.
InitialBlock(startBlock, latest) ==
    IF startBlock > 0 /\ startBlock < latest THEN startBlock ELSE latest

\* Nothing is left to scan between a cursor and a target.
ReachedPast(cursor, target) == cursor > target
ReachedEarly(cursor, target) == cursor + 1 >= target
Reached(cursor, target) == cursor >= target

\* The reset position of a repair, never below genesis.
BeforeGapInclusive(from) == from
BeforeGap(from) == IF from - 1 < 0 THEN 0 ELSE from - 1
=============================================================================
