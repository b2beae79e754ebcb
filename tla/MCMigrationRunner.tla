-------------------------- MODULE MCMigrationRunner --------------------------
(* Constants of MigrationRunner for TLC: an older and a newer build, and    *)
(* one in which a migration was edited.                                     *)
EXTENDS MigrationRunner, TLC

CONSTANTS older, newer, edited, s1, s2

M(v, c) == [version |-> v, contents |-> c]

MCLocal ==
    older :> {M(1, "a")} @@ newer :> {M(1, "a"), M(2, "b")} @@ edited :> {M(1, "x")}
================================================================================
