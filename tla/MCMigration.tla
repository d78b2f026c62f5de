---------------------------- MODULE MCMigration ----------------------------
(* Instances of Migration for TLC. *)
EXTENDS MigrationRefinement, TLC

CONSTANTS r1, r2, m1, m2

EachItsOwn == m1 :> r1 @@ m2 :> r2
Alone       == m1 :> r1
SameProcess == m1 :> r1 @@ m2 :> r1
=============================================================================
