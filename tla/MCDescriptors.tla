--------------------------- MODULE MCDescriptors ---------------------------
(***************************************************************************)
(* Two kinds of open file for TLC, pipes and standard input.  They share   *)
(* no state, so it is enough to explore them one at a time.                *)
(***************************************************************************)
EXTENDS Pipe, Stdin

VARIABLE part

MCInit == part \in {"pipe", "stdin"} /\ Init /\ StdinInit
MCNext == \/ part = "pipe" /\ Next /\ UNCHANGED <<part, stdinVars>>
          \/ part = "stdin" /\ StdinNext /\ UNCHANGED <<part, vars>>

(* While standard input is explored the pipe stays in its initial state,    *)
(* where no process is in a call and nothing that is fair is enabled.       *)
MCSpec == MCInit /\ [][MCNext]_<<part, vars, stdinVars>> /\ Fairness
=============================================================================
