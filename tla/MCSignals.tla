----------------------------- MODULE MCSignals -----------------------------
(* Signals.tla for TLC: signal 1 terminates by default, signal 2 is ignored *)
(* by default, and the handler of 2 also blocks 1.                          *)
EXTENDS Signals

MCSaMask == [s \in Sigs |-> IF s = 2 THEN {1} ELSE {}]
=============================================================================
