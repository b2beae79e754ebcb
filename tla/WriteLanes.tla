------------------------------ MODULE WriteLanes ------------------------------
(* The coordinator of BatchedIngestion with the limits it has when it is    *)
(* created without options, on the pool of connections that queries, health *)
(* probes and retention share with it.                                      *)
EXTENDS BatchedIngestion

DefaultMaxBatchRows == 4000
DefaultMaxQueuedRows == 200000
DefaultMaxConcurrentWrites == 5

(* The connections of the pool unless DB_POOL_MAX says otherwise.           *)
PoolConnections == 4

(* Each call of these carries one record. *)
OneRecord == [r \in Request |-> {r}]

(* One connection of the pool is left to queries, whatever is written: the  *)
(* statements in flight hold, or wait for, less than all of them.           *)
LaneReserved == Cardinality(writes) < PoolConnections
===============================================================================
