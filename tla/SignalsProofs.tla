---------------------------- MODULE SignalsProofs ----------------------------
(***************************************************************************)
(* Proofs about Signals.tla, for any set of signals and of senders.        *)
(*                                                                         *)
(* None of the properties is inductive by itself.  They need to know in    *)
(* which part of the process's life the host may see the control block     *)
(* (Attachment), that the mask of ignored signals the host reads is the    *)
(* one the dispositions call for (IgnoredCurrent), and what is still to be *)
(* dispatched after a call was interrupted (EintrPending).                 *)
(***************************************************************************)
EXTENDS Signals, TLAPS

(* The control block is attached while the guest runs, early signals exist  *)
(* only while it is not, and only a running guest is inside a host call.    *)
Attachment ==
  /\ hpc # "none" => life = "run"
  /\ life = "boot" => ~reg /\ pending = {} /\ ~eintr
  /\ life = "run" => reg
  /\ reg => early = {} /\ life \in {"run", "stopped"}

IgnoredCurrent == life = "run" => ignored = IgnoredBy(disp)

(* After EINTR the guest is in a dispatch loop, with the signal that caused *)
(* it still to be dispatched.                                               *)
EintrPending ==
  (eintr /\ life = "run") =>
     hpc = "none" /\ OnTop("dispatch") /\ (pending \ blocked) \ ignored # {}

LEMMA EmptyStack == <<>> \in Seq(Frames)
OBVIOUS

LEMMA PopType ==
  ASSUME NEW S, NEW st \in Seq(S), NEW k \in {1, 2}, Len(st) >= k
  PROVE  SubSeq(st, 1, Len(st) - k) \in Seq(S)
OBVIOUS

(* Every reachable state is well typed: the call stack holds only frames,   *)
(* and the masks only signals.                                              *)
THEOREM TypeCorrect == Spec => []TypeOK
<1>1. Init => TypeOK
  BY EmptyStack DEF Init, TypeOK, Dispositions
<1>2. TypeOK /\ [Next]_vars => TypeOK'
  <2> SUFFICES ASSUME TypeOK, [Next]_vars PROVE TypeOK'
    OBVIOUS
  <2> USE SigAssumption DEF TypeOK, hostVars, guestVars, history
  <2>0. DispatchFrame \in Frames
    BY DEF DispatchFrame, Frames
  <2>a. ASSUME NEW d \in [Sigs -> Dispositions] PROVE IgnoredBy(d) \subseteq Sigs
    BY DEF IgnoredBy
  <2>b. ASSUME NEW m PROVE CheckSignals(stack, m) \in Seq(Frames)
    BY <2>0 DEF CheckSignals
  <2>c. stack # <<>> => Top \in Frames /\ Pop \in Seq(Frames)
    BY PopType DEF Top, Pop
  <2>1. CASE UNCHANGED vars
    BY <2>1 DEF vars
  <2>2. CASE Register
    BY <2>2, <2>a DEF Register
  <2>3. CASE BootFails \/ GuestEnds
    BY <2>3, EmptyStack DEF BootFails, GuestEnds, Unwind
  <2>4. CASE Teardown
    BY <2>4 DEF Teardown, DeferredCalls
  <2>5. ASSUME NEW q \in Senders, Wake(q) \/ \E s \in Sigs : SetBit(q, s)
        PROVE  TypeOK'
    BY <2>5 DEF Wake, SetBit
  <2>6. CASE Cancel
    BY <2>6 DEF Cancel
  <2>d. ReturnFromHost => stack' \in Seq(Frames) /\ hpc' = "none"
    BY <2>0, <2>b DEF ReturnFromHost
  <2>e. Unwind => stack' \in Seq(Frames) /\ hpc' = "none" /\ life' = "stopped"
    BY EmptyStack DEF Unwind
  <2>7. CASE BlockCheck
    BY <2>7, <2>d, <2>e DEF BlockCheck
  <2>8. CASE SelectDone \/ SelectSignal \/ SelectEvent
    BY <2>8, <2>d, <2>e DEF SelectDone, SelectSignal, SelectEvent
  <2>9. CASE BlockingCall \/ Safepoint
    BY <2>9, <2>b DEF BlockingCall, Safepoint
  <2>10. ASSUME NEW s \in Sigs,
             (\E S \in SUBSET Sigs : Sigwait(S, s)) \/ \E d \in Dispositions : Sigaction(s, d)
         PROVE  TypeOK'
    BY <2>10, <2>a, ZenonT(30) DEF Sigwait, Sigaction
  <2>11. ASSUME NEW m \in SUBSET Sigs, Sigprocmask(m) PROVE TypeOK'
    BY <2>11, <2>b DEF Sigprocmask
  <2>12. ASSUME NEW m \in SUBSET Sigs, Sigsuspend(m) PROVE TypeOK'
    BY <2>12 DEF Sigsuspend, Frames
  <2>13. ASSUME NEW s \in Sigs, DispatchOne(s) PROVE TypeOK'
    <3>1. pending' \subseteq Sigs /\ owed' \subseteq Sigs
      BY <2>13 DEF DispatchOne, Clear
    <3>2. CASE RunNothing(s) \/ RunDefault(s)
      BY <2>13, <3>1, <3>2, EmptyStack DEF DispatchOne, RunNothing, RunDefault, Unwind
    <3>3. CASE RunHandler(s)
      <4>1. [k |-> "handler", sig |-> s, saved |-> blocked] \in Frames
        BY DEF Frames
      <4>2. disp' \in [Sigs -> Dispositions]
        BY <3>3 DEF RunHandler, AfterRun, Dispositions
      <4>3. ignored' \subseteq Sigs
        BY <3>3, <4>2, <2>a DEF RunHandler, AfterRun
      <4>4. blocked' \subseteq Sigs
        BY <3>3 DEF RunHandler, HandlerMask
      <4>5. stack' \in Seq(Frames)
        BY <3>3, <4>1 DEF RunHandler
      <4>6. QED
        BY <2>13, <3>1, <3>3, <4>2, <4>3, <4>4, <4>5 DEF DispatchOne, RunHandler
    <3>4. QED
      BY <2>13, <3>2, <3>3 DEF DispatchOne
  <2>14. CASE DispatchDone
    <3>1. stack' \in Seq(Frames)
      BY <2>14, <2>c, PopType DEF DispatchDone, OnTop
    <3>2. blocked' \subseteq Sigs
      <4>1. ASSUME Len(stack) > 1 PROVE stack[Len(stack) - 1] \in Frames
        BY <4>1
      <4>2. QED
        BY <2>14, <4>1 DEF DispatchDone, Frames
    <3>3. QED
      BY <2>14, <3>1, <3>2 DEF DispatchDone
  <2>15. CASE HandlerReturn
    BY <2>15, <2>c DEF HandlerReturn, OnTop, Frames
  <2>16. QED
    BY <2>1, <2>2, <2>3, <2>4, <2>5, <2>6, <2>7, <2>8, <2>9, <2>10, <2>11,
       <2>12, <2>13, <2>14, <2>15 DEF Next
<1>3. QED
  BY <1>1, <1>2, PTL DEF Spec

-----------------------------------------------------------------------------
(* The steps of the strengthening. *)

LEMMA AttachmentStep ==
  ASSUME TypeOK, Attachment, [Next]_vars
  PROVE  Attachment'
<1> USE DEF Attachment, hostVars, guestVars, history
<1>1. CASE UNCHANGED vars
  BY <1>1 DEF vars
<1>2. CASE Register \/ BootFails \/ GuestEnds \/ Teardown
  BY <1>2 DEF Register, BootFails, GuestEnds, Unwind, Teardown, DeferredCalls
<1>3. ASSUME NEW q \in Senders, Wake(q) \/ \E s \in Sigs : SetBit(q, s)
      PROVE  Attachment'
  BY <1>3 DEF Wake, SetBit
<1>4. CASE Cancel \/ BlockingCall \/ Safepoint
  BY <1>4 DEF Cancel, BlockingCall, Safepoint, InCode
<1>5. CASE BlockCheck
  BY <1>5 DEF BlockCheck, Unwind, ReturnFromHost
<1>6. CASE SelectDone \/ SelectSignal \/ SelectEvent
  BY <1>6 DEF SelectDone, SelectSignal, SelectEvent, Unwind, ReturnFromHost
<1>7. ASSUME NEW s \in Sigs,
             (\E S \in SUBSET Sigs : Sigwait(S, s)) \/ \E d \in Dispositions : Sigaction(s, d)
      PROVE  Attachment'
  BY <1>7 DEF Sigwait, Sigaction, InCode
<1>8. ASSUME NEW m \in SUBSET Sigs, Sigprocmask(m) \/ Sigsuspend(m)
      PROVE  Attachment'
  BY <1>8 DEF Sigprocmask, Sigsuspend, InCode
<1>9. ASSUME NEW s \in Sigs, DispatchOne(s) PROVE Attachment'
  BY <1>9 DEF DispatchOne, RunNothing, RunDefault, RunHandler, Unwind
<1>10. CASE DispatchDone \/ HandlerReturn
  BY <1>10 DEF DispatchDone, HandlerReturn
<1>11. QED
  BY <1>1, <1>2, <1>3, <1>4, <1>5, <1>6, <1>7, <1>8, <1>9, <1>10 DEF Next

LEMMA IgnoredStep ==
  ASSUME TypeOK, Attachment, IgnoredCurrent, [Next]_vars
  PROVE  IgnoredCurrent'
<1> USE DEF IgnoredCurrent, hostVars, guestVars, history
<1>1. CASE UNCHANGED vars
  BY <1>1 DEF vars, IgnoredBy
<1>2. CASE Register
  BY <1>2 DEF Register, IgnoredBy
<1>3. CASE BootFails \/ GuestEnds \/ Teardown
  BY <1>3 DEF BootFails, GuestEnds, Unwind, Teardown, DeferredCalls
<1>4. ASSUME NEW q \in Senders, Wake(q) \/ \E s \in Sigs : SetBit(q, s)
      PROVE  IgnoredCurrent'
  BY <1>4 DEF Wake, SetBit, IgnoredBy
<1>5. CASE Cancel \/ BlockingCall \/ Safepoint
  BY <1>5 DEF Cancel, BlockingCall, Safepoint, IgnoredBy
<1>6. CASE BlockCheck
  BY <1>6 DEF BlockCheck, Unwind, IgnoredBy
<1>7. CASE SelectDone \/ SelectSignal \/ SelectEvent
  BY <1>7 DEF SelectDone, SelectSignal, SelectEvent, Unwind, IgnoredBy
<1>8. ASSUME NEW s \in Sigs, \E S \in SUBSET Sigs : Sigwait(S, s) PROVE IgnoredCurrent'
  BY <1>8 DEF Sigwait, IgnoredBy
<1>9. ASSUME NEW s \in Sigs, NEW d \in Dispositions, Sigaction(s, d)
      PROVE  IgnoredCurrent'
  BY <1>9 DEF Sigaction
<1>10. ASSUME NEW m \in SUBSET Sigs, Sigprocmask(m) \/ Sigsuspend(m)
       PROVE  IgnoredCurrent'
  BY <1>10 DEF Sigprocmask, Sigsuspend, IgnoredBy
<1>11. ASSUME NEW s \in Sigs, DispatchOne(s) PROVE IgnoredCurrent'
  <2>1. CASE RunNothing(s) \/ RunDefault(s)
    BY <1>11, <2>1 DEF RunNothing, RunDefault, Unwind, IgnoredBy
  <2>2. CASE RunHandler(s)
    BY <2>2 DEF RunHandler, AfterRun
  <2>3. QED
    BY <1>11, <2>1, <2>2 DEF DispatchOne
<1>12. CASE DispatchDone \/ HandlerReturn
  BY <1>12 DEF DispatchDone, HandlerReturn, IgnoredBy
<1>13. QED
  BY <1>1, <1>2, <1>3, <1>4, <1>5, <1>6, <1>7, <1>8, <1>9, <1>10, <1>11, <1>12
     DEF Next

LEMMA EintrStep ==
  ASSUME TypeOK, Attachment, IgnoredCurrent, EintrPending, [Next]_vars
  PROVE  EintrPending'
<1> USE DEF EintrPending, OnTop, Top, hostVars, guestVars, history
<1>1. CASE UNCHANGED vars
  BY <1>1 DEF vars
<1>2. CASE Register \/ BootFails \/ GuestEnds \/ Teardown
  BY <1>2 DEF Register, BootFails, GuestEnds, Unwind, Teardown, DeferredCalls, Attachment
<1>3. ASSUME NEW q \in Senders, Wake(q) \/ \E s \in Sigs : SetBit(q, s)
      PROVE  EintrPending'
  BY <1>3 DEF Wake, SetBit
<1>4. CASE Cancel
  BY <1>4 DEF Cancel
<1>5. CASE BlockingCall \/ Safepoint
  BY <1>5 DEF BlockingCall, Safepoint, InCode
<1>6. CASE BlockCheck
  <2>1. CASE cancelled
    BY <1>6, <2>1 DEF BlockCheck, Unwind
  <2>2. CASE ~cancelled /\ Interrupted
    <3>1. (pending \ blocked) \ ignored # {}
      BY <1>6, <2>2 DEF BlockCheck, Interrupted, Attachment, TypeOK
    <3>2. stack' = Append(stack, DispatchFrame)
      BY <1>6, <2>2, <3>1 DEF BlockCheck, ReturnFromHost, CheckSignals
    <3>3. OnTop("dispatch")'
      BY <3>2 DEF TypeOK, DispatchFrame
    <3>4. QED
      BY <1>6, <2>2, <3>1, <3>3 DEF BlockCheck, ReturnFromHost
  <2>3. CASE ~cancelled /\ ~Interrupted
    BY <1>6, <2>3 DEF BlockCheck
  <2>4. QED
    BY <2>1, <2>2, <2>3
<1>7. CASE SelectDone \/ SelectSignal \/ SelectEvent
  BY <1>7 DEF SelectDone, SelectSignal, SelectEvent, Unwind
<1>8. ASSUME NEW s \in Sigs,
             (\E S \in SUBSET Sigs : Sigwait(S, s)) \/ \E d \in Dispositions : Sigaction(s, d)
      PROVE  EintrPending'
  BY <1>8 DEF Sigwait, Sigaction, InCode
<1>9. ASSUME NEW m \in SUBSET Sigs, Sigprocmask(m) \/ Sigsuspend(m)
      PROVE  EintrPending'
  BY <1>9 DEF Sigprocmask, Sigsuspend, InCode
<1>10. ASSUME NEW s \in Sigs, DispatchOne(s) PROVE EintrPending'
  (* A signal the loop ignores is not the one that interrupted the call. *)
  <2>1. CASE RunNothing(s)
    <3>1. life = "run" /\ s \in ignored
      BY <1>10, <2>1 DEF DispatchOne, RunNothing, IgnoredCurrent, IgnoredBy
    <3>2. QED
      BY <1>10, <2>1, <3>1 DEF DispatchOne, RunNothing, Clear
  <2>2. CASE RunDefault(s)
    BY <2>2 DEF RunDefault, Unwind
  <2>3. CASE RunHandler(s)
    BY <2>3 DEF RunHandler
  <2>4. QED
    BY <1>10, <2>1, <2>2, <2>3 DEF DispatchOne
<1>11. CASE DispatchDone \/ HandlerReturn
  BY <1>11 DEF DispatchDone, HandlerReturn, Deliverable
<1>12. QED
  BY <1>1, <1>2, <1>3, <1>4, <1>5, <1>6, <1>7, <1>8, <1>9, <1>10, <1>11 DEF Next

LEMMA NoLostSignalStep ==
  ASSUME TypeOK, Attachment, NoLostSignal, [Next]_vars
  PROVE  NoLostSignal'
<1> USE DEF NoLostSignal, hostVars, guestVars, history
<1>1. CASE UNCHANGED vars
  BY <1>1 DEF vars, Interrupted
<1>2. CASE Register \/ BootFails \/ GuestEnds \/ Teardown
  BY <1>2 DEF Register, BootFails, GuestEnds, Unwind, Teardown, DeferredCalls, Attachment
(* A sender makes the call interruptible and is itself the sender in flight. *)
<1>3. ASSUME NEW q \in Senders, Wake(q) \/ \E s \in Sigs : SetBit(q, s)
      PROVE  NoLostSignal'
  BY <1>3 DEF Wake, SetBit, Interrupted
<1>4. CASE Cancel
  BY <1>4 DEF Cancel, Interrupted
<1>5. CASE BlockingCall \/ Safepoint
  BY <1>5 DEF BlockingCall, Safepoint, InCode
<1>6. CASE BlockCheck
  BY <1>6 DEF BlockCheck, Unwind, ReturnFromHost, Interrupted
<1>7. CASE SelectDone \/ SelectSignal \/ SelectEvent
  BY <1>7 DEF SelectDone, SelectSignal, SelectEvent, Unwind, ReturnFromHost
<1>8. ASSUME NEW s \in Sigs,
             (\E S \in SUBSET Sigs : Sigwait(S, s)) \/ \E d \in Dispositions : Sigaction(s, d)
      PROVE  NoLostSignal'
  BY <1>8 DEF Sigwait, Sigaction, InCode
<1>9. ASSUME NEW m \in SUBSET Sigs, Sigprocmask(m) \/ Sigsuspend(m)
      PROVE  NoLostSignal'
  BY <1>9 DEF Sigprocmask, Sigsuspend, InCode
<1>10. ASSUME NEW s \in Sigs, DispatchOne(s) PROVE NoLostSignal'
  BY <1>10 DEF DispatchOne, RunNothing, RunDefault, RunHandler, Unwind
<1>11. CASE DispatchDone \/ HandlerReturn
  BY <1>11 DEF DispatchDone, HandlerReturn
<1>12. QED
  BY <1>1, <1>2, <1>3, <1>4, <1>5, <1>6, <1>7, <1>8, <1>9, <1>10, <1>11 DEF Next

LEMMA NoSignalDroppedStep ==
  ASSUME TypeOK, Attachment, NoSignalDropped, [Next]_vars
  PROVE  NoSignalDropped'
<1> USE DEF NoSignalDropped, hostVars, guestVars, history
<1>1. CASE UNCHANGED vars
  BY <1>1 DEF vars
<1>2. CASE Register \/ BootFails \/ GuestEnds \/ Teardown
  BY <1>2 DEF Register, BootFails, GuestEnds, Unwind, Teardown, DeferredCalls, Attachment
<1>3. ASSUME NEW q \in Senders, Wake(q) \/ \E s \in Sigs : SetBit(q, s)
      PROVE  NoSignalDropped'
  BY <1>3 DEF Wake, SetBit, TypeOK
<1>4. CASE Cancel \/ BlockingCall \/ Safepoint
  BY <1>4 DEF Cancel, BlockingCall, Safepoint
<1>5. CASE BlockCheck
  BY <1>5 DEF BlockCheck, Unwind
<1>6. CASE SelectDone \/ SelectSignal \/ SelectEvent
  BY <1>6 DEF SelectDone, SelectSignal, SelectEvent, Unwind
<1>7. ASSUME NEW s \in Sigs,
             (\E S \in SUBSET Sigs : Sigwait(S, s)) \/ \E d \in Dispositions : Sigaction(s, d)
      PROVE  NoSignalDropped'
  BY <1>7 DEF Sigwait, Sigaction, InCode, Attachment
<1>8. ASSUME NEW m \in SUBSET Sigs, Sigprocmask(m) \/ Sigsuspend(m)
      PROVE  NoSignalDropped'
  BY <1>8 DEF Sigprocmask, Sigsuspend
(* A running guest is attached, so early is empty and one bit is one debt. *)
<1>9. ASSUME NEW s \in Sigs, DispatchOne(s) PROVE NoSignalDropped'
  BY <1>9 DEF DispatchOne, Clear, RunNothing, RunDefault, RunHandler, Unwind, Attachment
<1>10. CASE DispatchDone \/ HandlerReturn
  BY <1>10 DEF DispatchDone, HandlerReturn
<1>11. QED
  BY <1>1, <1>2, <1>3, <1>4, <1>5, <1>6, <1>7, <1>8, <1>9, <1>10 DEF Next

-----------------------------------------------------------------------------
(* The call stack of a running guest, and the mask at its bottom.  Only the *)
(* program calls sigsuspend; a dispatch loop calls handlers, a handler and  *)
(* sigsuspend call dispatch loops.  The mask that the program asked for is  *)
(* the current one, or saved in the frame that will restore it last.        *)
StackInv ==
  life \in {"boot", "run"} =>
    /\ life = "boot" => stack = <<>>
    /\ hpc # "none" => ~OnTop("dispatch")
    /\ stack = <<>> => blocked = codeMask
    /\ stack # <<>> =>
         \/ stack[1].k = "suspend" /\ stack[1].saved = codeMask /\ (Len(stack) > 1 => stack[2].k = "dispatch")
         \/ stack[1].k = "dispatch" /\ IF Len(stack) > 1
                                       THEN stack[2].k = "handler" /\ stack[2].saved = codeMask
                                       ELSE blocked = codeMask
    /\ \A i \in 2..Len(stack) : stack[i].k # "suspend"

(* What is known of the frames after a push and after a pop. *)
LEMMA Pushed ==
  ASSUME NEW st \in Seq(Frames), NEW f \in Frames
  PROVE  LET s == Append(st, f) IN
         /\ s # <<>> /\ Len(s) = Len(st) + 1 /\ s[Len(s)] = f
         /\ \A i \in 1..Len(st) : s[i] = st[i]
         /\ st = <<>> <=> Len(st) = 0
OBVIOUS

LEMMA Popped ==
  ASSUME NEW st \in Seq(Frames), NEW k \in {1, 2}, Len(st) >= k
  PROVE  LET s == SubSeq(st, 1, Len(st) - k) IN
         /\ Len(s) = Len(st) - k
         /\ \A i \in 1..(Len(st) - k) : s[i] = st[i]
         /\ s = <<>> <=> Len(st) = k
<1> DEFINE s == SubSeq(st, 1, Len(st) - k)
<1>1. s \in Seq(Frames) /\ Len(s) = Len(st) - k
  BY PopType
<1>2. \A i \in 1..(Len(st) - k) : s[i] = st[i]
  OBVIOUS
<1> HIDE DEF s
<1>3. s = <<>> <=> Len(s) = 0
  BY <1>1
<1> QED
  BY <1>1, <1>2, <1>3 DEF s

LEMMA FramesPushed ==
  /\ DispatchFrame \in Frames /\ DispatchFrame.k = "dispatch"
  /\ \A s \in Sigs, m \in SUBSET Sigs :
       [k |-> "handler", sig |-> s, saved |-> m] \in Frames
  /\ \A m \in SUBSET Sigs : [k |-> "suspend", sig |-> 0, saved |-> m] \in Frames
BY DEF DispatchFrame, Frames

LEMMA StackStep ==
  ASSUME TypeOK, TypeOK', Attachment, StackInv, [Next]_vars
  PROVE  StackInv'
<1> USE DEF StackInv, OnTop, Top, hostVars, guestVars, history
<1>1. CASE UNCHANGED vars
  BY <1>1 DEF vars
<1>2. CASE Register \/ BootFails \/ GuestEnds \/ Teardown
  BY <1>2 DEF Register, BootFails, GuestEnds, Unwind, Teardown, DeferredCalls, Attachment
<1>3. ASSUME NEW q \in Senders, Wake(q) \/ \E s \in Sigs : SetBit(q, s) PROVE StackInv'
  BY <1>3 DEF Wake, SetBit
<1>4. CASE Cancel \/ BlockingCall
  BY <1>4 DEF Cancel, BlockingCall, InCode
<1>5. CASE Safepoint
  BY <1>5, Pushed, FramesPushed DEF Safepoint, InCode, CheckSignals, TypeOK
<1>a. ASSUME hpc # "none", ReturnFromHost, UNCHANGED <<life, blocked, codeMask>> PROVE StackInv'
  <2>1. life = "run" /\ ~OnTop("dispatch")
    BY <1>a DEF Attachment
  <2>2. CASE stack' = stack
    BY <1>a, <2>2 DEF ReturnFromHost
  <2>3. CASE stack' = Append(stack, DispatchFrame)
    <3>1. /\ stack' # <<>> /\ Len(stack') = Len(stack) + 1 /\ stack'[Len(stack')].k = "dispatch"
          /\ \A i \in 1..Len(stack) : stack'[i] = stack[i]
          /\ stack = <<>> <=> Len(stack) = 0
          /\ Len(stack) \in Nat
      BY <2>3, Pushed, FramesPushed DEF TypeOK
    <3>2. hpc' = "none"
      BY <1>a DEF ReturnFromHost
    <3> QED
      BY <1>a, <2>1, <3>1, <3>2
  <2> QED
    BY <1>a, <2>2, <2>3 DEF ReturnFromHost, CheckSignals
<1>6. CASE BlockCheck
  BY <1>6, <1>a DEF BlockCheck, Unwind
<1>7. CASE SelectDone \/ SelectSignal \/ SelectEvent
  BY <1>7, <1>a DEF SelectDone, SelectSignal, SelectEvent, Unwind
<1>8. ASSUME NEW s \in Sigs,
             (\E S \in SUBSET Sigs : Sigwait(S, s)) \/ \E d \in Dispositions : Sigaction(s, d) PROVE StackInv'
  BY <1>8 DEF Sigwait, Sigaction
<1>9. ASSUME NEW m \in SUBSET Sigs, Sigprocmask(m) PROVE StackInv'
  BY <1>9, Pushed, FramesPushed, SMTT(30) DEF Sigprocmask, InCode, CheckSignals, TypeOK
<1>10. ASSUME NEW m \in SUBSET Sigs, Sigsuspend(m) PROVE StackInv'
  BY <1>10, Pushed, FramesPushed DEF Sigsuspend, InCode, TypeOK
<1>11. ASSUME NEW s \in Sigs, DispatchOne(s) PROVE StackInv'
  <2>1. CASE RunNothing(s) \/ RunDefault(s)
    BY <1>11, <2>1 DEF DispatchOne, RunNothing, RunDefault, Unwind
  <2>2. CASE RunHandler(s)
    BY <1>11, <2>2, Pushed, FramesPushed DEF DispatchOne, RunHandler, TypeOK
  <2> QED
    BY <1>11, <2>1, <2>2 DEF DispatchOne
<1>12. CASE DispatchDone
  BY <1>12, Popped DEF DispatchDone, Pop, TypeOK
<1>13. CASE HandlerReturn
  BY <1>13, Popped DEF HandlerReturn, Pop, TypeOK
<1> QED
  BY <1>1, <1>2, <1>3, <1>4, <1>5, <1>6, <1>7, <1>8, <1>9, <1>10, <1>11, <1>12, <1>13 DEF Next

-----------------------------------------------------------------------------
(* The inductive invariant. *)
SignalInv == Attachment /\ StackInv /\ IgnoredCurrent /\ EintrPending /\ NoLostSignal /\ NoSignalDropped

(* The strengthening itself holds in every reachable state. *)
THEOREM SignalInvariance == Spec => []SignalInv
<1>1. Init => SignalInv
  BY DEF Init, SignalInv, Attachment, StackInv, OnTop, IgnoredCurrent, EintrPending, NoLostSignal,
         NoSignalDropped
<1>2. TypeOK /\ TypeOK' /\ SignalInv /\ [Next]_vars => SignalInv'
  BY AttachmentStep, StackStep, IgnoredStep, EintrStep, NoLostSignalStep, NoSignalDroppedStep
     DEF SignalInv
<1>3. QED
  BY <1>1, <1>2, TypeCorrect, PTL DEF Spec

(* No guest parked in a blocking call (Process.block) sleeps through a      *)
(* signal that should interrupt it.                                         *)
THEOREM SignalNeverLost == Spec => []NoLostSignal
<1>1. SignalInv => NoLostSignal
  BY DEF SignalInv
<1>2. QED
  BY <1>1, SignalInvariance, PTL

(* A signal that was sent stays recorded until the guest acts on it, across *)
(* registerSignals.                                                         *)
THEOREM SignalNeverDropped == Spec => []NoSignalDropped
<1>1. SignalInv => NoSignalDropped
  BY DEF SignalInv
<1>2. QED
  BY <1>1, SignalInvariance, PTL

(* No sender writes into the memory of a guest that inst.Close has freed.   *)
THEOREM FreedMemoryUntouched == Spec => []NoWriteAfterFree
<1>1. SignalInv => NoWriteAfterFree
  BY DEF SignalInv, Attachment, NoWriteAfterFree
<1>2. QED
  BY <1>1, SignalInvariance, PTL

(* Code that sees EINTR has had a handler run: the host (interrupted) and   *)
(* the guest (pgzero_dispatch_signals) agree on what interrupts a call.     *)
THEOREM EintrIsHandled == Spec => []EintrMeansHandled
<1>1. SignalInv => EintrMeansHandled
  BY DEF SignalInv, EintrPending, EintrMeansHandled, InCode, OnTop
<1>2. QED
  BY <1>1, SignalInvariance, PTL

(* The mask that program code sees is the one it asked for: every handler,  *)
(* nested ones included, and sigsuspend restore what they changed.          *)
THEOREM MaskIsRestored == Spec => []MaskRestored
<1>1. SignalInv => MaskRestored
  BY DEF SignalInv, StackInv, MaskRestored, InCode
<1>2. QED
  BY <1>1, SignalInvariance, PTL
=============================================================================
