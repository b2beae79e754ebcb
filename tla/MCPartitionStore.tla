--------------------------- MODULE MCPartitionStore ---------------------------
(* Constants of PartitionStore for TLC.  A row is its event time and a     *)
(* number; days have two ticks and rows are kept for one day.              *)
EXTENDS PartitionStore, TLC

CONSTANTS i1, i2

MCTimeOf(r) == r[1]

(* i1 has a row older than any plan and one of the first day of the plan,  *)
(* i2 one of the day after.                                                *)
MCCarries == i1 :> {<<1, 1>>, <<2, 2>>} @@ i2 :> {<<5, 3>>}
===============================================================================
