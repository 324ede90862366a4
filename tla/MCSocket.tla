------------------------------ MODULE MCSocket ------------------------------
(***************************************************************************)
(* Socket.tla for TLC: a process that mostly reads and one that mostly     *)
(* writes, explored in two parts: with input from the peer, and without.   *)
(***************************************************************************)
EXTENDS Socket

MCKinds == <<{"recv", "peek", "IN", "send"}, {"recv", "send", "OUT"}>>

VARIABLE part

(* Bound: with input, one send, of a whole buffer, and one process that     *)
(* also receives less than a whole buffer.                                  *)
BothWays == nSent' <= 2 /\ \A p \in Procs : op'[p].n = 1 => p = 1 /\ op'[p].k = "recv"

(* Bound: without input, all sends, and of the calls that wait for input    *)
(* one kind.                                                                *)
OutputOnly ==
  nIn' = 0 /\ \A p \in Procs : op'[p].k # "peek" /\ (op'[p].k = "recv" => op'[p].n = 1)

MCInit == part \in {"both", "output"} /\ Init

MCNext == \/ part = "both" /\ Next /\ BothWays /\ UNCHANGED part
          \/ part = "output" /\ Next /\ OutputOnly /\ UNCHANGED part

MCSpec == MCInit /\ [][MCNext]_<<part, vars>> /\ Fairness
=============================================================================
