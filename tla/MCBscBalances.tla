--------------------------- MODULE MCBscBalances ----------------------------
(* Small instances of BscBalances for TLC.                                 *)
EXTENDS BscBalances
\* Accounts that may be empty of either asset, and whose amounts differ else.
MaybeOne == {0, 1}
MaybeTwo == {0, 2}
=============================================================================
