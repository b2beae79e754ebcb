-------------------------- MODULE MCBatchedIngestion --------------------------
(* Constants of BatchedIngestion for TLC: calls of every interesting size  *)
(* for batches of 3 rows and a queue of 4.                                 *)
EXTENDS BatchedIngestion, TLC

CONSTANTS close1, close2, none, small1, medium, exact, huge

MCRows ==
    none :> 0 @@ small1 :> 1 @@ medium :> 2 @@ exact :> 3 @@ huge :> 5

MCRecords == [r \in Request |-> {<<r, i>> : i \in 1..MCRows[r]}]
===============================================================================
