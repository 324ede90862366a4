----------------------------- MODULE MCProcess -----------------------------
(***************************************************************************)
(* The life of processes and the timer of one, for TLC.  They share no     *)
(* state, so it is enough to explore them one at a time.  Processes are    *)
(* explored in two parts: all of them without Close and kills, so that     *)
(* pids are used again, and with Close and kills fewer of them.            *)
(***************************************************************************)
EXTENDS Process, Alarm

VARIABLE part

MCInit == part \in {"processes", "close", "timer"} /\ Init /\ AlarmInit

(* Bound: a particular child is waited for only where there are several.    *)
WaitBound == \A p \in Procs : want'[p] \in {want[p], None} \/ Cardinality(children[p]) > 1

NoClose == kpc' = "open" /\ (pc' = pc => killed' = killed)

(* Bound: until Close begins, programs kill only processes that are blocked *)
(* in waitpid, where alone a kill changes what can happen next (a guest may *)
(* end in any case); from then on, the processes that Close kills too.      *)
KillBound ==
  \A p \in Procs : (pc' = pc /\ killed'[p] # killed[p]) =>
    IF kpc = "open" THEN pc[p] = "park" ELSE p \in running

(* Bound: with Close, three processes, two pids at a time. *)
FewProcesses == Cardinality(owners') <= 2 /\ \A p \in Procs : p > 3 => pc'[p] = "unborn"

MCNext == \/ part = "processes" /\ Next /\ WaitBound /\ NoClose /\ UNCHANGED <<part, alarmVars>>
          \/ part = "close" /\ Next /\ KillBound /\ FewProcesses /\ UNCHANGED <<part, alarmVars>>
          \/ part = "timer" /\ AlarmNext /\ UNCHANGED <<part, vars>>

(* While the timer is explored no process exists and nothing that is fair   *)
(* is enabled.                                                              *)
MCSpec == MCInit /\ [][MCNext]_<<part, vars, alarmVars>> /\ Fairness
=============================================================================
