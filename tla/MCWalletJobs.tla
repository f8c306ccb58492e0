----------------------------- MODULE MCWalletJobs -----------------------------
(* A small instance of WalletJobs for TLC: clients are alike, so are       *)
(* mnemonics.                                                              *)
EXTENDS WalletJobs, TLC

Alike == Permutations(Clients) \cup Permutations(Tags)
=============================================================================
