-------------------------- MODULE MCVersionManager --------------------------
(* Instances of VersionManager for TLC. *)
EXTENDS VersionManager, TLC

CONSTANTS r1, r2, g1, g2, g3

TwoAndOne == g1 :> r1 @@ g2 :> r1 @@ g3 :> r2
=============================================================================
