---------------------------- MODULE MCMigrations ----------------------------
(* Migrations for TLC: a file that can be repeated, one like 005_user_avatar.sql, whose
   first statement cannot, and a third one, which j2's image has edited and the older
   image of j3 lacks. *)
EXTENDS Migrations

CONSTANTS j1, j2, j3

MCStatements == [f \in Files |-> IF f = 3 THEN 1 ELSE 2]
MCOnce == {<<2, 1>>}
MCChecksum ==
    [j \in Jobs |-> [f \in 1..(IF j = j3 THEN 2 ELSE 3) |-> IF f = 3 /\ j = j2 THEN "edited" ELSE "sum"]]
=============================================================================
