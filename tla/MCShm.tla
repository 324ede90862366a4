------------------------------- MODULE MCShm -------------------------------
(* Shm.tla for TLC.  Open files are interchangeable. *)
EXTENDS Shm, TLC

FileSymmetry == Permutations(Files)
=============================================================================
