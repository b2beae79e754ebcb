--------------------------- MODULE MCServerLifecycle ---------------------------
(* Constants of ServerLifecycle for TLC. *)
EXTENDS ServerLifecycle

CONSTANTS r1, r2, m1, m2
================================================================================
