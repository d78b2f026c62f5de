---------------------------- MODULE MCPageServer ----------------------------
(* Instances of PageServer for TLC. *)
EXTENDS PageServer, TLC

CONSTANTS r1, g1, g2

Together == g1 :> r1 @@ g2 :> r1

\* One page per cache.
SmallCaches == [c \in Kinds |-> 1]
=============================================================================
