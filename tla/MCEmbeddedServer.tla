-------------------------- MODULE MCEmbeddedServer --------------------------
(* Instances of EmbeddedServer for TLC. *)
EXTENDS EmbeddedServer
=============================================================================
