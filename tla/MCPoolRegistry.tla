--------------------------- MODULE MCPoolRegistry ---------------------------
(* Instances of PoolRegistry for TLC. *)
EXTENDS PoolRegistryRefinement, TLC

AllCloudSQL == [k \in Keys |-> "cloudsql"]
AllEmbedded == [k \in Keys |-> "embedded"]

\* One key provisions test containers, the other Cloud SQL dialers.
DialerAndContainer ==
    LET c == CHOOSE k \in Keys : TRUE
    IN  [k \in Keys |-> IF k = c THEN "testcontainer" ELSE "cloudsql"]

\* One key has an embedded server, the other a database that is just there.
EmbeddedAndPlain ==
    LET c == CHOOSE k \in Keys : TRUE
    IN  [k \in Keys |-> IF k = c THEN "embedded" ELSE "plain"]

Symmetric == Permutations(Procs)
=============================================================================
