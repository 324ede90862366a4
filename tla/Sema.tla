-------------------------------- MODULE Sema --------------------------------
(***************************************************************************)
(* The counting semaphore of the kernel (internal/kernel/sema.go) together *)
(* with the two mechanisms every blocking call of the kernel is built on:  *)
(* the notifier (notify.go), which wakes waiters by closing a channel, and *)
(* Process.block (process.go), which waits for such a channel, for a       *)
(* signal or for SIGKILL.  One step of this module is one critical section *)
(* or one channel operation of the code.                                   *)
(*                                                                         *)
(* A notifier owns at most one open channel, so for a waiter a channel is  *)
(* either the current one ("open") or one that a notify has closed         *)
(* ("closed"); which closed channel it was does not matter.                *)
(***************************************************************************)
EXTENDS Integers

CONSTANTS Procs,       \* processes sharing the semaphore
          Targets,     \* the processes among them that signals are sent to
          Initial,     \* count given to create
          MaxCount,    \* bound: units in the semaphore
          MaxPosting   \* bound: Signal calls to one process at the same time

ASSUME ConstAssumption == /\ MaxCount \in Nat
                          /\ Initial \in 0..MaxCount
                          /\ MaxPosting \in Nat \ {0}
                          /\ Targets \subseteq Procs

VARIABLES
  count,     \* semaphore.count
  pc,        \* where each process is
  ch,        \* the channel each process took from the notifier
  killed,    \* killed[p]: p.ctx is cancelled
  intr,      \* intr[p]: what p.interrupted() returns
  sigWake,   \* sigWake[p]: the one-slot channel p.sigWake holds a token
  posting    \* posting[p]: Signal calls that set a bit and have yet to send

vars == <<count, pc, ch, killed, intr, sigWake, posting>>
sigVars == <<killed, intr, sigWake, posting>>

(***************************************************************************)
(* guest : running wasm            wait  : about to take the channel       *)
(* try   : about to call tryLock   check : top of block's loop             *)
(* select: parked in Select        notify: in unlock, before n.notify      *)
(* dead  : unwound by errKilled                                            *)
(***************************************************************************)
Locations == {"guest", "wait", "try", "check", "select", "notify", "dead"}

TypeOK == /\ count \in 0..MaxCount
          /\ pc \in [Procs -> Locations]
          /\ ch \in [Procs -> {"none", "open", "closed"}]
          /\ killed \in [Procs -> BOOLEAN]
          /\ intr \in [Procs -> BOOLEAN]
          /\ sigWake \in [Procs -> BOOLEAN]
          /\ posting \in [Procs -> 0..MaxPosting]

Init == /\ count = Initial
        /\ pc = [p \in Procs |-> "guest"]
        /\ ch = [p \in Procs |-> "none"]
        /\ killed = [p \in Procs |-> FALSE]
        /\ intr = [p \in Procs |-> FALSE]
        /\ sigWake = [p \in Procs |-> FALSE]
        /\ posting = [p \in Procs |-> 0]

Goto(p, from, to) == pc[p] = from /\ pc' = [pc EXCEPT ![p] = to]

-----------------------------------------------------------------------------
(* The notifier. *)

(* wait: p now holds the notifier's current channel. *)
TakeChannel(p) == ch' = [ch EXCEPT ![p] = "open"]

(* notify: the current channel is closed, for everyone who holds it. *)
CloseChannel == ch' = [q \in Procs |-> IF ch[q] = "open" THEN "closed" ELSE ch[q]]

-----------------------------------------------------------------------------
(* semaLock: for { ch := wait(); if tryLock() return; block(ch) }. *)

SemaLock(p) == Goto(p, "guest", "wait") /\ UNCHANGED <<count, ch, sigVars>>

Wait(p) == /\ Goto(p, "wait", "try")
           /\ TakeChannel(p)
           /\ UNCHANGED <<count, sigVars>>

(* A mutant: tryLock that takes a unit that is not there. *)
LockTryAnyway(p) ==
  /\ pc[p] = "try"
  /\ count' = count - 1
  /\ pc' = [pc EXCEPT ![p] = "guest"]
  /\ ch' = [ch EXCEPT ![p] = "none"]
  /\ UNCHANGED sigVars

LockTry(p) ==
  \/ /\ count > 0
     /\ Goto(p, "try", "guest")
     /\ count' = count - 1
     /\ ch' = [ch EXCEPT ![p] = "none"]
     /\ UNCHANGED sigVars
  \/ /\ count = 0
     /\ Goto(p, "try", "check")
     /\ UNCHANGED <<count, ch, sigVars>>

(* The TryLock host call: one critical section, EAGAIN without a unit. *)
TryLock(p) ==
  /\ pc[p] = "guest"
  /\ count > 0
  /\ count' = count - 1
  /\ UNCHANGED <<pc, ch, sigVars>>

(* A mutant: unlock that forgets to notify. *)
UnlockSilently(p) ==
  /\ pc[p] = "guest"
  /\ count < MaxCount
  /\ count' = count + 1
  /\ UNCHANGED <<pc, ch, sigVars>>

(* unlock: the increment under s.mu, then, after the unlock, n.notify. *)
Unlock(p) ==
  /\ Goto(p, "guest", "notify")
  /\ count < MaxCount
  /\ count' = count + 1
  /\ UNCHANGED <<ch, sigVars>>

Notify(p) == /\ Goto(p, "notify", "guest")
             /\ CloseChannel
             /\ UNCHANGED <<count, sigVars>>

Reset(p) == /\ pc[p] = "guest"
            /\ count' = 0
            /\ UNCHANGED <<pc, ch, sigVars>>

-----------------------------------------------------------------------------
(* block: the check at the top of its loop, and the Select. *)

Leave(p, from, to) == Goto(p, from, to) /\ ch' = [ch EXCEPT ![p] = "none"]

BlockCheck(p) ==
  \/ /\ killed[p]                                   \* errKilled unwinds p
     /\ Leave(p, "check", "dead")
     /\ UNCHANGED <<count, sigVars>>
  \/ /\ ~killed[p] /\ intr[p]                       \* -EINTR
     /\ Leave(p, "check", "guest")
     /\ UNCHANGED <<count, sigVars>>
  \/ /\ ~killed[p] /\ ~intr[p]
     /\ Goto(p, "check", "select")
     /\ UNCHANGED <<count, ch, sigVars>>

SelectDone(p) == /\ killed[p]                       \* case 0: ctx.Done
                 /\ Leave(p, "select", "dead")
                 /\ UNCHANGED <<count, sigVars>>

SelectSignal(p) == /\ sigWake[p]                    \* case 1: sigWake
                   /\ Goto(p, "select", "check")
                   /\ sigWake' = [sigWake EXCEPT ![p] = FALSE]
                   /\ UNCHANGED <<count, ch, killed, intr, posting>>

SelectWoken(p) == /\ ch[p] = "closed"               \* default: ch is closed
                  /\ Leave(p, "select", "wait")
                  /\ UNCHANGED <<count, sigVars>>

(* A mutant: a Select without ctx.Done. *)
SelectDeafToKill(p) == SelectSignal(p) \/ SelectWoken(p)

(* Select picks any ready case. *)
Select(p) == SelectDone(p) \/ SelectSignal(p) \/ SelectWoken(p)

-----------------------------------------------------------------------------
(* Signals from other processes and from the host. *)

(* Signal, first half: the bit is set under sigMu. *)
Signal(p) == /\ p \in Targets
             /\ posting[p] < MaxPosting
             /\ intr' = [intr EXCEPT ![p] = TRUE]
             /\ posting' = [posting EXCEPT ![p] = @ + 1]
             /\ UNCHANGED <<count, pc, ch, killed, sigWake>>

(* Signal, second half: the non-blocking send to sigWake. *)
Post(p) == /\ posting[p] > 0
           /\ posting' = [posting EXCEPT ![p] = @ - 1]
           /\ sigWake' = [sigWake EXCEPT ![p] = TRUE]
           /\ UNCHANGED <<count, pc, ch, killed, intr>>

(* Signal(SIGKILL) cancels p.ctx. *)
Kill(p) == /\ p \in Targets
           /\ ~killed[p]
           /\ killed' = [killed EXCEPT ![p] = TRUE]
           /\ UNCHANGED <<count, pc, ch, intr, sigWake, posting>>

(* The guest runs its handlers on the way back from a host call (sysret). *)
Dispatch(p) == /\ pc[p] = "guest" /\ intr[p]
               /\ intr' = [intr EXCEPT ![p] = FALSE]
               /\ UNCHANGED <<count, pc, ch, killed, sigWake, posting>>

(* The wasm runtime stops running guest code once p.ctx is cancelled. *)
StopGuest(p) == /\ killed[p]
                /\ Goto(p, "guest", "dead")
                /\ UNCHANGED <<count, ch, sigVars>>

-----------------------------------------------------------------------------
InHostCall(p) == Wait(p) \/ LockTry(p) \/ Notify(p) \/ BlockCheck(p) \/ Select(p)

Next == \E p \in Procs :
          \/ SemaLock(p) \/ Wait(p) \/ LockTry(p) \/ TryLock(p)
          \/ Unlock(p) \/ Notify(p) \/ Reset(p)
          \/ BlockCheck(p) \/ Select(p)
          \/ Signal(p) \/ Post(p) \/ Kill(p) \/ Dispatch(p) \/ StopGuest(p)

(* Goroutines inside a host call keep running and a sender completes its    *)
(* send.  Guest code checks for cancellation every time it enters a         *)
(* function or repeats a loop, so a guest that is cancelled and keeps       *)
(* coming back from host calls is stopped: strong fairness.  Nothing makes  *)
(* a guest call Lock or Unlock, or anyone send a signal.                    *)
Fairness == \A p \in Procs :
              WF_vars(InHostCall(p)) /\ WF_vars(Post(p)) /\ SF_vars(StopGuest(p))

SafeSpec == Init /\ [][Next]_vars
Spec == SafeSpec /\ Fairness

-----------------------------------------------------------------------------
(* Properties. *)

Waiting == {p \in Procs : pc[p] \in {"wait", "try", "check", "select"}}

(* notify.go: "no wakeup is ever lost".  A process that found no unit and   *)
(* is parked on the current channel while a unit is available is about to   *)
(* be woken: some unlock has yet to run its notify.                         *)
NoLostWakeup ==
  \A p \in Procs :
    (pc[p] \in {"check", "select"} /\ ch[p] = "open" /\ count > 0)
      => \E q \in Procs : pc[q] = "notify"

(* A process parked in block's Select with a deliverable signal pending has *)
(* a token in sigWake, or the sender has yet to put it there: the bit and   *)
(* the token are sent in two steps, in an order that loses neither.         *)
NoLostSignal ==
  \A p \in Procs :
    (pc[p] = "select" /\ intr[p]) => sigWake[p] \/ posting[p] > 0

(* The refinement mapping: a unit changes hands in tryLock and unlock, and  *)
(* a process waits from the call of semaLock to its return.                 *)
StatusOf(loc) == IF loc = "dead" THEN "gone"
                 ELSE IF loc \in {"guest", "notify"} THEN "outside" ELSE "waiting"
absStatus == [p \in Procs |-> StatusOf(pc[p])]

Abs == INSTANCE AbstractSema WITH status <- absStatus

(* Whatever the interleaving, the semaphore is an atomic counter, and a     *)
(* unit that stays available while somebody waits is taken by somebody.     *)
ImplementsAbstractSema == Abs!Spec
ImplementsSafely == Abs!SafeSpec

(* SIGKILL ends a process wherever it is, also parked in the semaphore. *)
KillTakesEffect == \A p \in Procs : killed[p] ~> pc[p] = "dead"
=============================================================================
