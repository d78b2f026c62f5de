------------------------- MODULE MigrationRefinement -------------------------
(***************************************************************************)
(* Migration implements SchemaHistory, when no two goroutines of a replica *)
(* migrate and the migration schema is the default one: the advisory lock  *)
(* makes replicas apply versions as if one process did.                    *)
(***************************************************************************)
EXTENDS Migration

\* The versions between their SQL and their revision.
Applying == {NextFile(m) : m \in {n \in Migrators : pc[n] = "record"}}

History == INSTANCE SchemaHistory WITH
               recorded <- recorded[MigrationSchema],
               execs    <- execs[MigrationSchema],
               applying <- Applying

\* The schema has the history that SchemaHistory promises.
ImplementsHistory == History!Spec
=============================================================================
