---------------------------- MODULE SchemaHistory ----------------------------
(***************************************************************************)
(* What runMigrations of postgres/migrate.go promises about one database,  *)
(* whatever replicas migrate it: versions are applied one at a time and in *)
(* order, each one is recorded once its SQL was executed, and what is      *)
(* recorded is never executed again.  An application that ends before its  *)
(* revision is written leaves its version to be executed once more.        *)
(***************************************************************************)
EXTENDS Naturals

CONSTANTS
    Latest,     \* the versions are 1 .. Latest
    Baselines   \* whether an existing schema may be taken for version 1

VARIABLES
    recorded,    \* versions the schema is known to have
    execs,       \* execs[v]: how often the SQL of v was executed
    applying,    \* the version that was executed and is not recorded yet
    interrupted  \* versions whose application ended there

history == <<recorded, execs, applying, interrupted>>

Init ==
    /\ recorded    = {}
    /\ execs       = [v \in 1 .. Latest |-> 0]
    /\ applying    = {}
    /\ interrupted = {}

Baseline ==
    /\ TRUE \in Baselines
    /\ applying = {}
    /\ recorded = {}
    /\ recorded' = (1 .. Latest) \cap {1}
    /\ UNCHANGED <<execs, applying, interrupted>>

\* v is the first version the schema does not have.
Execute(v) ==
    /\ applying = {}
    /\ v \notin recorded
    /\ 1 .. (v - 1) \subseteq recorded
    /\ execs' = [execs EXCEPT ![v] = @ + 1]
    /\ applying' = {v}
    /\ UNCHANGED <<recorded, interrupted>>

Record(v) ==
    /\ applying = {v}
    /\ recorded' = recorded \cup {v}
    /\ applying' = {}
    /\ UNCHANGED <<execs, interrupted>>

Interrupt(v) ==
    /\ applying = {v}
    /\ interrupted' = interrupted \cup {v}
    /\ applying' = {}
    /\ UNCHANGED <<recorded, execs>>

Next ==
    \/ Baseline
    \/ \E v \in 1 .. Latest : Execute(v) \/ Record(v) \/ Interrupt(v)

Spec == Init /\ [][Next]_history
=============================================================================
