---------------------------- MODULE AbstractSema ----------------------------
(***************************************************************************)
(* What a process may rely on when it uses a pgzero semaphore: an atomic   *)
(* counter.  Asking, acquiring, releasing, giving up after a signal and    *)
(* being killed are one step each; there are no channels, no wakeups and   *)
(* no program counters.  Sema.tla, the model of internal/kernel/sema.go,   *)
(* is shown to implement this specification.                               *)
(***************************************************************************)
EXTENDS Integers

CONSTANTS Procs,     \* processes that use the semaphore
          Initial,   \* the count it is created with
          MaxCount   \* bound on the count

VARIABLES count,     \* units available
          status     \* status[p]: outside, waiting for a unit, or gone

vars == <<count, status>>

Init == /\ count = Initial
        /\ status = [p \in Procs |-> "outside"]

Request(p) == /\ status[p] = "outside"
              /\ status' = [status EXCEPT ![p] = "waiting"]
              /\ UNCHANGED count

Acquire(p) == /\ status[p] = "waiting"
              /\ count > 0
              /\ count' = count - 1
              /\ status' = [status EXCEPT ![p] = "outside"]

TryAcquire(p) == /\ status[p] = "outside"
                 /\ count > 0
                 /\ count' = count - 1
                 /\ UNCHANGED status

Release(p) == /\ status[p] = "outside"
              /\ count < MaxCount
              /\ count' = count + 1
              /\ UNCHANGED status

Clear(p) == /\ status[p] = "outside"
            /\ count' = 0
            /\ UNCHANGED status

GiveUp(p) == /\ status[p] = "waiting"
             /\ status' = [status EXCEPT ![p] = "outside"]
             /\ UNCHANGED count

Vanish(p) == /\ status[p] # "gone"
             /\ status' = [status EXCEPT ![p] = "gone"]
             /\ UNCHANGED count

Next == \E p \in Procs : \/ Request(p) \/ Acquire(p) \/ TryAcquire(p)
                         \/ Release(p) \/ Clear(p)
                         \/ GiveUp(p)  \/ Vanish(p)

SomeAcquire == \E p \in Procs : Acquire(p)

SafeSpec == Init /\ [][Next]_vars

(* As long as a unit is available and somebody waits, somebody gets it. *)
Spec == SafeSpec /\ WF_vars(SomeAcquire)
=============================================================================
