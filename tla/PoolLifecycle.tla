--------------------------- MODULE PoolLifecycle ---------------------------
(***************************************************************************)
(* What postgres/pool.go promises about one pool and the backend it dials  *)
(* through, whatever goroutines handle them: the pool is handed out only   *)
(* between the end of its creation and the moment a closer takes it, it is *)
(* closed once and after that, and its backend is released last.           *)
(***************************************************************************)
CONSTANT Gen   \* generations: pools that may be created

VARIABLES
    phase,     \* phase[g]: "new", "serving", "retired", "closed" or "failed"
    backend    \* backend[g]: "none", "live" or "released"

lifecycle == <<phase, backend>>

Init ==
    /\ phase   = [g \in Gen |-> "new"]
    /\ backend = [g \in Gen |-> "none"]

Move(g, from, to) ==
    /\ phase[g] = from
    /\ phase' = [phase EXCEPT ![g] = to]
    /\ UNCHANGED backend

Acquire(g) ==
    /\ phase[g] = "new"
    /\ backend[g] = "none"
    /\ backend' = [backend EXCEPT ![g] = "live"]
    /\ UNCHANGED phase

Serve(g)  == Move(g, "new", "serving")
Fail(g)   == Move(g, "new", "failed")
Retire(g) == Move(g, "serving", "retired")
Close(g)  == Move(g, "retired", "closed")

Release(g) ==
    /\ phase[g] \in {"closed", "failed"}
    /\ backend[g] = "live"
    /\ backend' = [backend EXCEPT ![g] = "released"]
    /\ UNCHANGED phase

Next ==
    \E g \in Gen :
        \/ Acquire(g) \/ Serve(g) \/ Fail(g) \/ Retire(g) \/ Close(g) \/ Release(g)

Spec == Init /\ [][Next]_lifecycle

\* A backend is released only once its pool can no longer be in use.
ReleasedLast ==
    \A g \in Gen : backend[g] = "released" => phase[g] \in {"closed", "failed"}
=============================================================================
