--------------------------- MODULE MCStatisticsService ---------------------------
(* Threads are alike, and so are accounts. *)
EXTENDS StatisticsServiceProperties, TLC

Symmetry == Permutations(Threads) \cup Permutations(Accounts)
================================================================================
