------------------------ MODULE MCRetentionMaintenance ------------------------
(* Constants of RetentionMaintenance for TLC. *)
EXTENDS RetentionMaintenance

CONSTANTS i1, i2, s1, s2
===============================================================================
