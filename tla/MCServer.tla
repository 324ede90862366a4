----------------------------- MODULE MCServer -----------------------------
(* Server.tla for TLC. *)
EXTENDS Server
=============================================================================
