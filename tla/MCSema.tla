------------------------------- MODULE MCSema -------------------------------
(* Sema.tla for TLC. *)
EXTENDS Sema
=============================================================================
