--------------------------- MODULE MCEphemeralAuth ---------------------------
(* Instances of EphemeralAuth for TLC. *)
EXTENDS EphemeralAuth, TLC

CONSTANTS b1, t1, t2, i1, i2, u1, u2, p1, s1, s2

\* One browser with two tabs, behind one proxy.
OneBrowser == t1 :> b1 @@ t2 :> b1
Proxied    == b1 :> p1

TwoPlaces == {[ip |-> i1, ua |-> u1], [ip |-> i2, ua |-> u2]}

Release(key, ttl, scopes, required) ==
    [key |-> key, ttl |-> ttl, scopes |-> scopes, required |-> required, trustProxy |-> TRUE]

\* A lifetime above the maximum; then a new key, the default lifetime and a scope that the
\* routes ask for.
Rollout ==
    << Release("k1", 600, {"read"}, {}),
       Release("k2", 0, {"read", "write"}, {"write"}) >>
=============================================================================
