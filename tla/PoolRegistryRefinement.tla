----------------------- MODULE PoolRegistryRefinement -----------------------
(***************************************************************************)
(* PoolRegistry implements PoolLifecycle.  The backends of the abstract    *)
(* pools are the Cloud SQL dialers, the one kind of backend that the code  *)
(* ties to the entry of its own creation; other kinds count as none.       *)
(***************************************************************************)
EXTENDS PoolRegistry

FailPc == {"fail", "failRelease", "remove", "closeDoneErr"}

\* The creation of generation e has given up.
Failing(e) == \E p \in Procs : call[p] = e /\ pc[p] \in FailPc

Phase(e) ==
    CASE pg[e] = "closed"                            -> "closed"
      [] pg[e] = "open" /\ e \in cached               -> "serving"
      [] pg[e] = "open" /\ e \in done \ cached        -> "retired"
      [] pg[e] = "none" /\ (e \in done \/ Failing(e)) -> "failed"
      [] OTHER                                       -> "new"

Backend(e) == IF KindOf(e) = "cloudsql" THEN ext[e] ELSE "none"

phaseBar   == [e \in Entry |-> Phase(e)]
backendBar == [e \in Entry |-> Backend(e)]

Lifecycle == INSTANCE PoolLifecycle
    WITH Gen <- Entry, phase <- phaseBar, backend <- backendBar

\* Every pool of the registry lives the life that PoolLifecycle promises.
ImplementsLifecycle == Lifecycle!Spec
=============================================================================
