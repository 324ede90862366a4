------------------------------- MODULE Signals -------------------------------
(***************************************************************************)
(* Signal delivery to one process.  The host (internal/kernel/process.go)  *)
(* sets bits in the control block the guest has registered; the guest      *)
(* library (wasm/libpgzero/src/signal.c) owns dispositions and mask and    *)
(* runs handlers at safe points; blocking host calls (Process.block) end   *)
(* with EINTR when a signal that is neither blocked nor ignored is         *)
(* pending.  The senders are other goroutines: they may run at any point   *)
(* of the process's life, also before it has registered its control block  *)
(* and after its memory is gone.                                           *)
(*                                                                         *)
(* The guest is one thread.  Its call stack is modelled down to the        *)
(* functions of signal.c: dispatch loops, handlers and sigsuspend.  An     *)
(* empty stack is the program itself, outside all of them.                 *)
(***************************************************************************)
EXTENDS Integers, Sequences, FiniteSets

CONSTANTS Sigs,             \* signal numbers, other than SIGKILL
          DefaultIgnored,   \* those the default action ignores (SIGCHLD, ...)
          SaMask,           \* SaMask[s]: the sa_mask of the handler of s
          Senders           \* goroutines that may call Signal

ASSUME SigAssumption == /\ Sigs \subseteq Nat \ {0}
                        /\ DefaultIgnored \subseteq Sigs
                        /\ SaMask \in [Sigs -> SUBSET Sigs]

VARIABLES
  life,        \* boot, run, stopped, detached, freed: see Teardown
  reg,         \* p.sigPending # nil
  early,       \* p.early
  sigWake,     \* p.sigWake holds its token
  cancelled,   \* p.ctx is cancelled
  posting,     \* senders between the bit and the token
  pending,     \* pgzero_signals.pending
  blocked,     \* pgzero_signals.blocked
  ignored,     \* pgzero_signals.ignored
  disp,        \* actions[sig].sa_handler, "once" with SA_RESETHAND
  stack,       \* calls in progress in signal.c
  hpc,         \* Process.block: none, check (top of the loop), select
  owed,        \* history: signals sent and not yet acted upon
  codeMask,    \* history: the mask the program outside handlers last asked for
  eintr        \* history: EINTR was returned and no handler has run since

hostVars == <<reg, early, sigWake, cancelled, posting>>
guestVars == <<pending, blocked, ignored, disp, stack>>
history == <<owed, codeMask, eintr>>
vars == <<life, hostVars, guestVars, hpc, history>>

Dispositions == {"default", "ignore", "handler", "once"}
Frames == [k : {"dispatch", "handler", "suspend"}, sig : Sigs \cup {0}, saved : SUBSET Sigs]

TypeOK == /\ life \in {"boot", "run", "stopped", "detached", "freed"}
          /\ reg \in BOOLEAN
          /\ early \subseteq Sigs
          /\ sigWake \in BOOLEAN
          /\ cancelled \in BOOLEAN
          /\ posting \subseteq Senders
          /\ pending \subseteq Sigs
          /\ blocked \subseteq Sigs
          /\ ignored \subseteq Sigs
          /\ disp \in [Sigs -> Dispositions]
          /\ stack \in Seq(Frames)
          /\ hpc \in {"none", "check", "select"}
          /\ owed \subseteq Sigs
          /\ codeMask \subseteq Sigs
          /\ eintr \in BOOLEAN

Init == /\ life = "boot"
        /\ reg = FALSE
        /\ early = {}
        /\ sigWake = FALSE
        /\ cancelled = FALSE
        /\ posting = {}
        /\ pending = {} /\ blocked = {} /\ ignored = {}
        /\ disp = [s \in Sigs |-> "default"]
        /\ stack = <<>>
        /\ hpc = "none"
        /\ owed = {} /\ codeMask = {} /\ eintr = FALSE

-----------------------------------------------------------------------------
(* Helpers of signal.c. *)

(* update_ignored: the mask the host consults, for dispositions d. *)
IgnoredBy(d) == {s \in Sigs : \/ d[s] = "ignore"
                              \/ d[s] = "default" /\ s \in DefaultIgnored}

Deliverable == pending \ blocked

Top == stack[Len(stack)]
Pop == SubSeq(stack, 1, Len(stack) - 1)
OnTop(kind) == stack # <<>> /\ Top.k = kind
DispatchFrame == [k |-> "dispatch", sig |-> 0, saved |-> {}]

(* Program or handler code is running: what may call into the library. *)
InCode == life = "run" /\ hpc = "none" /\ (stack = <<>> \/ OnTop("handler"))

(* pgzero_check_signals, called on stack st with mask m. *)
CheckSignals(st, m) == IF pending \ m # {} THEN Append(st, DispatchFrame) ELSE st

-----------------------------------------------------------------------------
(* The host side: Signal, registerSignals, block. *)

(* A mutant: registerSignals that forgets the signals that came early. *)
RegisterFresh ==
  /\ life = "boot"
  /\ life' = "run" /\ reg' = TRUE
  /\ ignored' = IgnoredBy(disp)
  /\ early' = {}
  /\ UNCHANGED <<sigWake, cancelled, posting, pending, blocked, disp, stack, hpc, history>>

(* pgzero_signal_init, a constructor: update_ignored, then the host call    *)
(* register, which moves the early signals into the control block.          *)
Register ==
  /\ life = "boot"
  /\ life' = "run" /\ reg' = TRUE
  /\ ignored' = IgnoredBy(disp)
  /\ pending' = pending \cup early
  /\ early' = {}
  /\ UNCHANGED <<sigWake, cancelled, posting, blocked, disp, stack, hpc, history>>

(* Signal, under sigMu: the bit goes to the guest or waits in early. *)
SetBit(q, s) ==
  /\ q \notin posting
  /\ posting' = posting \cup {q}
  /\ IF reg THEN pending' = pending \cup {s} /\ UNCHANGED early
            ELSE early' = early \cup {s} /\ UNCHANGED pending
  /\ owed' = owed \cup {s}
  /\ UNCHANGED <<life, reg, sigWake, cancelled, blocked, ignored, disp, stack, hpc,
                 codeMask, eintr>>

(* Signal, after the unlock: a non-blocking send to the one-slot channel. *)
Wake(q) == /\ q \in posting
           /\ posting' = posting \ {q}
           /\ sigWake' = TRUE
           /\ UNCHANGED <<life, reg, early, cancelled, guestVars, hpc, history>>

(* Signal(SIGKILL). *)
Cancel == /\ ~cancelled
          /\ cancelled' = TRUE
          /\ UNCHANGED <<life, reg, early, sigWake, posting, guestVars, hpc, history>>

(* Process.interrupted. *)
Interrupted == IF reg THEN (pending \ blocked) \ ignored # {} ELSE early # {}

(* The end of the guest: errKilled, errExit or a trap unwinds every frame. *)
Unwind == /\ life' = "stopped"
          /\ stack' = <<>>
          /\ hpc' = "none"

(* A host call returns to the library.  sigsuspend calls the dispatch loop  *)
(* itself; every other call goes through sysret, which checks for signals.  *)
ReturnFromHost ==
  /\ hpc' = "none"
  /\ stack' = IF OnTop("suspend") THEN Append(stack, DispatchFrame)
                                  ELSE CheckSignals(stack, blocked)

(* A mutant: a loop that parks without asking interrupted(). *)
BlockCheckBlind ==
  /\ hpc = "check"
  /\ \/ cancelled /\ Unwind /\ UNCHANGED <<pending, blocked, ignored, disp>>
     \/ ~cancelled /\ hpc' = "select" /\ UNCHANGED <<life, guestVars>>
  /\ UNCHANGED <<hostVars, history>>

(* block: the top of its loop. *)
BlockCheck ==
  /\ hpc = "check"
  /\ \/ /\ cancelled
        /\ Unwind
        /\ UNCHANGED <<pending, blocked, ignored, disp, eintr>>
     \/ /\ ~cancelled /\ Interrupted
        /\ ReturnFromHost
        /\ eintr' = TRUE
        /\ UNCHANGED <<life, pending, blocked, ignored, disp>>
     \/ /\ ~cancelled /\ ~Interrupted
        /\ hpc' = "select"
        /\ UNCHANGED <<life, guestVars, eintr>>
  /\ UNCHANGED <<hostVars, owed, codeMask>>

(* block: the Select.  Its last case, the event the call waits for, is      *)
(* absent from the endless sleep under sigsuspend.                          *)
SelectDone == /\ hpc = "select" /\ cancelled
              /\ Unwind
              /\ UNCHANGED <<hostVars, pending, blocked, ignored, disp, history>>
(* A mutant: the token is taken and the Select entered again. *)
SelectSignalAgain == /\ hpc = "select" /\ sigWake
                     /\ sigWake' = FALSE
                     /\ UNCHANGED <<life, reg, early, cancelled, posting, guestVars, hpc, history>>
SelectSignal == /\ hpc = "select" /\ sigWake
                /\ sigWake' = FALSE
                /\ hpc' = "check"
                /\ UNCHANGED <<life, reg, early, cancelled, posting, guestVars, history>>
SelectEvent == /\ hpc = "select" /\ ~OnTop("suspend")
               /\ ReturnFromHost
               /\ UNCHANGED <<life, hostVars, pending, blocked, ignored, disp, history>>

-----------------------------------------------------------------------------
(* The guest side: signal.c. *)

(* Any host call that may block; Safepoint is one that does not, or         *)
(* CHECK_FOR_INTERRUPTS.                                                    *)
BlockingCall == /\ InCode
                /\ hpc' = "check"
                /\ UNCHANGED <<life, hostVars, guestVars, history>>
Safepoint == /\ InCode /\ Deliverable # {}
             /\ stack' = CheckSignals(stack, blocked)
             /\ UNCHANGED <<life, hostVars, pending, blocked, ignored, disp, hpc, history>>

(* sigaction, which discards a pending signal that is now ignored. *)
Sigaction(s, d) ==
  LET now == [disp EXCEPT ![s] = d] IN
  /\ InCode
  /\ disp' = now
  /\ ignored' = IgnoredBy(now)
  /\ IF s \in IgnoredBy(now)
     THEN pending' = pending \ {s} /\ owed' = owed \ {s}
     ELSE UNCHANGED <<pending, owed>>
  /\ UNCHANGED <<life, hostVars, blocked, stack, hpc, codeMask, eintr>>

(* sigprocmask, which delivers what it unblocks.  Handlers add to the mask; *)
(* only the program itself removes from it.                                 *)
Sigprocmask(m) ==
  /\ InCode
  /\ stack # <<>> => blocked \subseteq m
  /\ blocked' = m
  /\ codeMask' = IF stack = <<>> THEN m ELSE codeMask
  /\ stack' = CheckSignals(stack, m)
  /\ UNCHANGED <<life, hostVars, pending, ignored, disp, hpc, owed, eintr>>

(* sigsuspend: install the mask, sleep until EINTR, dispatch, restore. *)
Sigsuspend(m) ==
  /\ InCode /\ stack = <<>>
  /\ stack' = Append(stack, [k |-> "suspend", sig |-> 0, saved |-> blocked])
  /\ blocked' = m
  /\ hpc' = "check"
  /\ UNCHANGED <<life, hostVars, pending, ignored, disp, history>>

(* __builtin_ctzll: the lowest of the signals S. *)
IsLowest(s, S) == s \in S /\ \A t \in S : s <= t

(* sigwait(S): take the lowest pending signal of S, blocked or not, without *)
(* running its handler.  A call that finds none sleeps for a millisecond    *)
(* and looks again, which here is the time until this step.                 *)
Sigwait(S, s) ==
  /\ InCode
  /\ IsLowest(s, pending \cap S)
  /\ pending' = pending \ {s}
  /\ owed' = owed \ {s}
  /\ UNCHANGED <<life, hostVars, blocked, ignored, disp, stack, hpc, codeMask, eintr>>

(* run_handler(s) on the frames below, for each disposition. *)
RunNothing(s) ==
  /\ disp[s] = "ignore" \/ (disp[s] = "default" /\ s \in DefaultIgnored)
  /\ UNCHANGED <<life, blocked, ignored, disp, stack, hpc, eintr>>
RunDefault(s) ==
  /\ disp[s] = "default" /\ s \notin DefaultIgnored
  /\ Unwind
  /\ UNCHANGED <<blocked, ignored, disp, eintr>>

(* A mutant: SA_RESETHAND without the update_ignored that follows it. *)
AfterRunStale(s) ==
  /\ disp' = IF disp[s] = "once" THEN [disp EXCEPT ![s] = "default"] ELSE disp
  /\ UNCHANGED ignored
(* SA_RESETHAND resets the disposition before the handler runs. *)
AfterRun(s) ==
  /\ disp' = IF disp[s] = "once" THEN [disp EXCEPT ![s] = "default"] ELSE disp
  /\ ignored' = IgnoredBy(disp')

HandlerMask(s) == blocked \cup SaMask[s] \cup {s}

RunHandler(s) ==
  /\ disp[s] \in {"handler", "once"}
  /\ AfterRun(s)
  /\ stack' = Append(stack, [k |-> "handler", sig |-> s, saved |-> blocked])
  /\ blocked' = HandlerMask(s)
  /\ eintr' = FALSE
  /\ UNCHANGED <<life, hpc>>

(* The atomic fetch-and that takes s out of the pending signals. *)
Clear(s) == pending \ {s}

(* pgzero_dispatch_signals: one round of its loop. *)
DispatchOne(s) ==
  /\ life = "run" /\ hpc = "none" /\ OnTop("dispatch") /\ IsLowest(s, Deliverable)
  /\ pending' = Clear(s)
  /\ owed' = owed \ {s}
  /\ RunNothing(s) \/ RunDefault(s) \/ RunHandler(s)
  /\ UNCHANGED <<hostVars, codeMask>>

(* A mutant: sigsuspend that leaves its mask installed. *)
DispatchDoneLeaky ==
  /\ life = "run" /\ hpc = "none" /\ OnTop("dispatch") /\ Deliverable = {}
  /\ stack' = IF Len(stack) > 1 /\ stack[Len(stack) - 1].k = "suspend"
              THEN SubSeq(stack, 1, Len(stack) - 2) ELSE Pop
  /\ UNCHANGED <<life, hostVars, pending, blocked, ignored, disp, hpc, history>>

(* The loop ends; if sigsuspend called it, sigsuspend restores the mask and *)
(* returns too.                                                             *)
DispatchDone ==
  LET below == stack[Len(stack) - 1]
      suspended == Len(stack) > 1 /\ below.k = "suspend" IN
  /\ life = "run" /\ hpc = "none" /\ OnTop("dispatch") /\ Deliverable = {}
  /\ stack' = IF suspended THEN SubSeq(stack, 1, Len(stack) - 2) ELSE Pop
  /\ blocked' = IF suspended THEN below.saved ELSE blocked
  /\ UNCHANGED <<life, hostVars, pending, ignored, disp, hpc, history>>

(* A handler returns into the loop that called it. *)
HandlerReturn ==
  /\ life = "run" /\ hpc = "none" /\ OnTop("handler")
  /\ blocked' = Top.saved
  /\ stack' = Pop
  /\ UNCHANGED <<life, hostVars, pending, ignored, disp, hpc, history>>

-----------------------------------------------------------------------------
(* The end of the process. *)

(* The guest returns from main, exits, traps, or is stopped as cancelled. *)
GuestEnds == /\ life = "run" /\ hpc = "none"
             /\ Unwind
             /\ UNCHANGED <<hostVars, pending, blocked, ignored, disp, history>>

(* Instantiation fails before the guest registers anything. *)
BootFails == /\ life = "boot"
             /\ Unwind
             /\ UNCHANGED <<hostVars, pending, blocked, ignored, disp, history>>

(* A mutant: deferred calls in the other order. *)
FreeFirst == \/ /\ life = "stopped" /\ life' = "freed" /\ UNCHANGED reg
             \/ /\ life = "freed" /\ life' = "detached" /\ reg' = FALSE

(* execute's deferred calls, last deferred first: stopSignals detaches the  *)
(* control block, then inst.Close frees the guest's memory.                 *)
DeferredCalls == \/ /\ life = "stopped" /\ life' = "detached" /\ reg' = FALSE
                 \/ /\ life = "detached" /\ life' = "freed" /\ UNCHANGED reg

Teardown == /\ DeferredCalls
            /\ UNCHANGED <<early, sigWake, cancelled, posting, guestVars, hpc, history>>

-----------------------------------------------------------------------------
Next == \/ Register \/ BootFails \/ GuestEnds \/ Teardown
        \/ \E q \in Senders : Wake(q) \/ \E s \in Sigs : SetBit(q, s)
        \/ Cancel
        \/ BlockCheck \/ SelectDone \/ SelectSignal \/ SelectEvent
        \/ BlockingCall \/ Safepoint
        \/ \E s \in Sigs : (\E S \in SUBSET Sigs : Sigwait(S, s)) \/ \E d \in Dispositions : Sigaction(s, d)
        \/ \E m \in SUBSET Sigs : Sigprocmask(m) \/ Sigsuspend(m)
        \/ (\E s \in Sigs : DispatchOne(s)) \/ DispatchDone \/ HandlerReturn

(* Senders finish their send and a goroutine inside block keeps running;    *)
(* the event a call waits for need not happen.                              *)
Fairness == /\ \A q \in Senders : WF_vars(Wake(q))
            /\ WF_vars(BlockCheck \/ SelectDone \/ SelectSignal)

Spec == Init /\ [][Next]_vars /\ Fairness

-----------------------------------------------------------------------------
(* Properties. *)

(* A guest parked in a host call never sleeps through a signal that should  *)
(* interrupt it: the token is in sigWake or a sender is about to put it     *)
(* there, although bit and token are two steps, the channel has one slot,   *)
(* and tokens of blocked and ignored signals are consumed in between.       *)
NoLostSignal ==
  (hpc = "select" /\ Interrupted) => sigWake \/ posting # {}

(* A signal once sent stays recorded, in the control block or in early,     *)
(* until the guest dispatches, discards or waits for it; registering the    *)
(* control block while senders are at work loses none.                      *)
NoSignalDropped ==
  life \in {"boot", "run"} => owed = pending \cup early

(* "Must happen before the memory is freed" (stopSignals): no sender can    *)
(* reach the control block of a guest whose memory inst.Close has freed.    *)
NoWriteAfterFree == reg => life \in {"run", "stopped"}

(* The mask outside handlers is the one the program asked for: handlers,    *)
(* nested handlers and sigsuspend all restore what they changed, however    *)
(* they interleave.                                                         *)
MaskRestored == (InCode /\ stack = <<>>) => blocked = codeMask

(* Code that gets EINTR has had a handler run: the host's idea of what      *)
(* interrupts a call agrees with what the guest's dispatch loop then finds. *)
EintrMeansHandled == InCode => ~eintr

(* A blocked call ends once a deliverable signal is pending, and SIGKILL    *)
(* ends it always.                                                          *)
SignalEndsCall == (hpc # "none" /\ (Interrupted \/ cancelled)) ~> (hpc = "none")
=============================================================================
