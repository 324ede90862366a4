----------------------------- MODULE SemaProofs -----------------------------
(***************************************************************************)
(* Proofs about Sema.tla, for any number of processes and any bounds.      *)
(* NoLostWakeup and NoLostSignal are each inductive together with the      *)
(* type invariant; the refinement needs the type invariant alone.          *)
(***************************************************************************)
EXTENDS Sema, TLAPS

(* Every reachable state of the semaphore, its waiters and their signal     *)
(* flags is well typed: in particular tryLock never drives the count        *)
(* below zero.                                                              *)
THEOREM TypeCorrect == Spec => []TypeOK
<1>1. Init => TypeOK
  BY ConstAssumption DEF Init, TypeOK, Locations
<1>2. TypeOK /\ [Next]_vars => TypeOK'
  <2> SUFFICES ASSUME TypeOK, [Next]_vars PROVE TypeOK'
    OBVIOUS
  <2> USE ConstAssumption DEF TypeOK, Locations, Goto, sigVars
  <2>1. CASE UNCHANGED vars
    BY <2>1 DEF vars
  <2>2. ASSUME NEW p \in Procs, SemaLock(p) PROVE TypeOK'
    BY <2>2 DEF SemaLock
  <2>3. ASSUME NEW p \in Procs, Wait(p) PROVE TypeOK'
    BY <2>3 DEF Wait, TakeChannel
  <2>4. ASSUME NEW p \in Procs, LockTry(p) PROVE TypeOK'
    BY <2>4 DEF LockTry
  <2>5. ASSUME NEW p \in Procs, TryLock(p) PROVE TypeOK'
    BY <2>5 DEF TryLock
  <2>6. ASSUME NEW p \in Procs, Unlock(p) PROVE TypeOK'
    BY <2>6 DEF Unlock
  <2>7. ASSUME NEW p \in Procs, Notify(p) PROVE TypeOK'
    BY <2>7 DEF Notify, CloseChannel
  <2>8. ASSUME NEW p \in Procs, Reset(p) PROVE TypeOK'
    BY <2>8 DEF Reset
  <2>9. ASSUME NEW p \in Procs, BlockCheck(p) PROVE TypeOK'
    BY <2>9 DEF BlockCheck, Leave
  <2>10. ASSUME NEW p \in Procs, Select(p) PROVE TypeOK'
    BY <2>10 DEF Select, SelectDone, SelectSignal, SelectWoken, Leave
  <2>11. ASSUME NEW p \in Procs, Signal(p) PROVE TypeOK'
    BY <2>11 DEF Signal
  <2>12. ASSUME NEW p \in Procs, Post(p) PROVE TypeOK'
    BY <2>12 DEF Post
  <2>13. ASSUME NEW p \in Procs, Kill(p) PROVE TypeOK'
    BY <2>13 DEF Kill
  <2>14. ASSUME NEW p \in Procs, Dispatch(p) PROVE TypeOK'
    BY <2>14 DEF Dispatch
  <2>15. ASSUME NEW p \in Procs, StopGuest(p) PROVE TypeOK'
    BY <2>15 DEF StopGuest
  <2>16. QED
    BY <2>1, <2>2, <2>3, <2>4, <2>5, <2>6, <2>7, <2>8, <2>9, <2>10, <2>11,
       <2>12, <2>13, <2>14, <2>15 DEF Next
<1>3. QED
  BY <1>1, <1>2, PTL DEF Spec, SafeSpec

(* "No wakeup is ever lost" (notify.go): a waiter parked on the current     *)
(* channel while a unit is available is about to be woken by an unlock that *)
(* has incremented the count and has yet to notify.                         *)
THEOREM WakeupNeverLost == Spec => []NoLostWakeup
<1>1. Init => NoLostWakeup
  BY DEF Init, NoLostWakeup
<1>2. TypeOK /\ NoLostWakeup /\ [Next]_vars => NoLostWakeup'
  <2> SUFFICES ASSUME TypeOK, NoLostWakeup, [Next]_vars,
                      NEW r \in Procs,
                      pc'[r] \in {"check", "select"}, ch'[r] = "open", count' > 0
               PROVE  \E q \in Procs : pc'[q] = "notify"
    BY DEF NoLostWakeup
  <2> DEFINE Parked == pc[r] \in {"check", "select"} /\ ch[r] = "open" /\ count > 0
  <2>0. ASSUME Parked, \A q \in Procs : pc[q] = "notify" => pc'[q] = "notify"
        PROVE  \E q \in Procs : pc'[q] = "notify"
    BY <2>0 DEF NoLostWakeup
  <2> USE DEF TypeOK, Locations, Goto, sigVars
  <2> HIDE DEF Parked
  \* Steps that leave a waiter's location, its channel and the count alone,
  \* or change them in a way that only unparks it.
  <2>1. CASE UNCHANGED vars
    BY <2>0, <2>1 DEF vars, Parked
  <2>2. ASSUME NEW p \in Procs, SemaLock(p) \/ Wait(p)
        PROVE  \E q \in Procs : pc'[q] = "notify"
    BY <2>0, <2>2 DEF SemaLock, Wait, TakeChannel, Parked
  <2>3. ASSUME NEW p \in Procs, LockTry(p)
        PROVE  \E q \in Procs : pc'[q] = "notify"
    \* The waiter that fails tryLock does so because the count is zero.
    BY <2>0, <2>3, ConstAssumption DEF LockTry, Parked
  <2>4. ASSUME NEW p \in Procs, TryLock(p) \/ Reset(p)
        PROVE  \E q \in Procs : pc'[q] = "notify"
    BY <2>0, <2>4, ConstAssumption DEF TryLock, Reset, Parked
  <2>5. ASSUME NEW p \in Procs, Unlock(p)
        PROVE  \E q \in Procs : pc'[q] = "notify"
    \* The process that made the unit available is the one about to notify.
    BY <2>5 DEF Unlock
  <2>6. ASSUME NEW p \in Procs, Notify(p)
        PROVE  \E q \in Procs : pc'[q] = "notify"
    \* No channel is open after a notify.
    <3>1. ch'[r] # "open"
      BY <2>6 DEF Notify, CloseChannel
    <3>2. QED
      BY <3>1
  <2>7. ASSUME NEW p \in Procs, BlockCheck(p) \/ Select(p)
        PROVE  \E q \in Procs : pc'[q] = "notify"
    BY <2>0, <2>7
       DEF BlockCheck, Select, SelectDone, SelectSignal, SelectWoken, Leave, Parked
  <2>8. ASSUME NEW p \in Procs,
               Signal(p) \/ Post(p) \/ Kill(p) \/ Dispatch(p) \/ StopGuest(p)
        PROVE  \E q \in Procs : pc'[q] = "notify"
    BY <2>0, <2>8 DEF Signal, Post, Kill, Dispatch, StopGuest, Parked
  <2>9. QED
    BY <2>1, <2>2, <2>3, <2>4, <2>5, <2>6, <2>7, <2>8 DEF Next
<1>3. QED
  BY <1>1, <1>2, TypeCorrect, PTL DEF Spec, SafeSpec

(* A process parked in block with a deliverable signal has a wakeup token,  *)
(* or its sender is still to deliver one: Process.Signal sets the bit       *)
(* before it sends, and block re-reads the bits after every token.          *)
THEOREM SignalNeverLost == Spec => []NoLostSignal
<1>1. Init => NoLostSignal
  BY DEF Init, NoLostSignal
<1>2. TypeOK /\ NoLostSignal /\ [Next]_vars => NoLostSignal'
  <2> SUFFICES ASSUME TypeOK, NoLostSignal, [Next]_vars,
                      NEW r \in Procs, pc'[r] = "select", intr'[r]
               PROVE  sigWake'[r] \/ posting'[r] > 0
    BY DEF NoLostSignal
  <2> USE ConstAssumption DEF TypeOK, Locations, NoLostSignal, Goto, sigVars
  <2>1. CASE UNCHANGED vars
    BY <2>1 DEF vars
  <2>2. ASSUME NEW p \in Procs, SemaLock(p) \/ Wait(p) \/ LockTry(p) \/ TryLock(p)
        PROVE  sigWake'[r] \/ posting'[r] > 0
    BY <2>2 DEF SemaLock, Wait, LockTry, TryLock
  <2>3. ASSUME NEW p \in Procs, Unlock(p) \/ Notify(p) \/ Reset(p)
        PROVE  sigWake'[r] \/ posting'[r] > 0
    BY <2>3 DEF Unlock, Notify, Reset
  <2>4. ASSUME NEW p \in Procs, BlockCheck(p)
        PROVE  sigWake'[r] \/ posting'[r] > 0
    BY <2>4 DEF BlockCheck, Leave
  <2>5. ASSUME NEW p \in Procs, Select(p)
        PROVE  sigWake'[r] \/ posting'[r] > 0
    BY <2>5 DEF Select, SelectDone, SelectSignal, SelectWoken, Leave
  <2>6. ASSUME NEW p \in Procs, Signal(p)
        PROVE  sigWake'[r] \/ posting'[r] > 0
    BY <2>6 DEF Signal
  <2>7. ASSUME NEW p \in Procs, Post(p)
        PROVE  sigWake'[r] \/ posting'[r] > 0
    BY <2>7 DEF Post
  <2>8. ASSUME NEW p \in Procs, Kill(p) \/ Dispatch(p) \/ StopGuest(p)
        PROVE  sigWake'[r] \/ posting'[r] > 0
    BY <2>8 DEF Kill, Dispatch, StopGuest
  <2>9. QED
    BY <2>1, <2>2, <2>3, <2>4, <2>5, <2>6, <2>7, <2>8 DEF Next
<1>3. QED
  BY <1>1, <1>2, TypeCorrect, PTL DEF Spec, SafeSpec

(* The location of a process decides its abstract status. *)
LEMMA StatusStep ==
  ASSUME NEW p \in Procs, NEW from, NEW to, TypeOK, Goto(p, from, to)
  PROVE  /\ absStatus[p] = StatusOf(from)
         /\ absStatus' = [absStatus EXCEPT ![p] = StatusOf(to)]
         /\ StatusOf(from) = StatusOf(to) => absStatus' = absStatus
BY DEF absStatus, Goto, TypeOK

(* The semaphore built from a counter, a notifier and block is an atomic    *)
(* counter: every step of Sema is a step of AbstractSema or changes nothing *)
(* that AbstractSema can see.                                               *)
THEOREM ImplementsAtomicCounter == Spec => ImplementsSafely
<1>1. Init => Abs!Init
  BY DEF Init, Abs!Init, absStatus, StatusOf
<1>2. TypeOK /\ [Next]_vars => [Abs!Next]_(Abs!vars)
  <2> SUFFICES ASSUME TypeOK, [Next]_vars PROVE [Abs!Next]_(Abs!vars)
    OBVIOUS
  <2> DEFINE Quiet == UNCHANGED <<count, absStatus>>
  <2>0. ASSUME UNCHANGED pc PROVE absStatus' = absStatus
    BY <2>0 DEF absStatus
  <2>1. CASE UNCHANGED vars
    BY <2>0, <2>1 DEF vars, Abs!vars
  <2>2. ASSUME NEW p \in Procs, SemaLock(p) PROVE Abs!Request(p)
    BY <2>2, StatusStep DEF SemaLock, Abs!Request, StatusOf
  <2>3. ASSUME NEW p \in Procs, Wait(p) PROVE Quiet
    BY <2>3, StatusStep DEF Wait, StatusOf
  <2>4. ASSUME NEW p \in Procs, LockTry(p) PROVE Abs!Acquire(p) \/ Quiet
    <3>1. CASE count > 0 /\ Goto(p, "try", "guest") /\ count' = count - 1
      BY <3>1, StatusStep DEF Abs!Acquire, StatusOf
    <3>2. CASE Goto(p, "try", "check") /\ UNCHANGED count
      BY <3>2, StatusStep DEF StatusOf
    <3>3. QED
      BY <2>4, <3>1, <3>2 DEF LockTry
  <2>5. ASSUME NEW p \in Procs, TryLock(p) PROVE Abs!TryAcquire(p)
    BY <2>0, <2>5 DEF TryLock, Abs!TryAcquire, absStatus, StatusOf
  <2>6. ASSUME NEW p \in Procs, Unlock(p) PROVE Abs!Release(p)
    <3>1. absStatus[p] = "outside" /\ absStatus' = absStatus
      BY <2>6, StatusStep DEF Unlock, StatusOf
    <3>2. QED
      BY <2>6, <3>1 DEF Unlock, Abs!Release
  <2>7. ASSUME NEW p \in Procs, Notify(p) PROVE Quiet
    BY <2>7, StatusStep DEF Notify, StatusOf
  <2>8. ASSUME NEW p \in Procs, Reset(p) PROVE Abs!Clear(p)
    BY <2>0, <2>8 DEF Reset, Abs!Clear, absStatus, StatusOf
  <2>9. ASSUME NEW p \in Procs, BlockCheck(p)
        PROVE  Abs!Vanish(p) \/ Abs!GiveUp(p) \/ Quiet
    <3>1. CASE Goto(p, "check", "dead") /\ UNCHANGED count
      BY <3>1, StatusStep DEF Abs!Vanish, StatusOf
    <3>2. CASE Goto(p, "check", "guest") /\ UNCHANGED count
      BY <3>2, StatusStep DEF Abs!GiveUp, StatusOf
    <3>3. CASE Goto(p, "check", "select") /\ UNCHANGED count
      BY <3>3, StatusStep DEF StatusOf
    <3>4. QED
      BY <2>9, <3>1, <3>2, <3>3 DEF BlockCheck, Leave
  <2>10. ASSUME NEW p \in Procs, Select(p) PROVE Abs!Vanish(p) \/ Quiet
    <3>1. CASE SelectDone(p)
      BY <3>1, StatusStep DEF SelectDone, Leave, Abs!Vanish, StatusOf
    <3>2. CASE SelectSignal(p)
      BY <3>2, StatusStep DEF SelectSignal, StatusOf
    <3>3. CASE SelectWoken(p)
      BY <3>3, StatusStep DEF SelectWoken, Leave, StatusOf
    <3>4. QED
      BY <2>10, <3>1, <3>2, <3>3 DEF Select
  <2>11. ASSUME NEW p \in Procs, Signal(p) \/ Post(p) \/ Kill(p) \/ Dispatch(p) PROVE Quiet
    BY <2>0, <2>11 DEF Signal, Post, Kill, Dispatch
  <2>12. ASSUME NEW p \in Procs, StopGuest(p) PROVE Abs!Vanish(p)
    BY <2>12, StatusStep DEF StopGuest, Abs!Vanish, StatusOf
  <2>13. QED
    BY <2>1, <2>2, <2>3, <2>4, <2>5, <2>6, <2>7, <2>8, <2>9, <2>10, <2>11, <2>12
       DEF Next, Abs!Next, Abs!vars
<1>3. QED
  BY <1>1, <1>2, TypeCorrect, PTL DEF Spec, SafeSpec, ImplementsSafely, Abs!SafeSpec
=============================================================================
