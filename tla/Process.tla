------------------------------- MODULE Process -------------------------------
(***************************************************************************)
(* The life of processes in one kernel: internal/kernel/process.go (spawn, *)
(* waitpid, finish) and kernel.go (pid allocation, the process table,      *)
(* Close).  One step is one critical section, one channel operation or one *)
(* run of code that touches nothing shared.                                *)
(*                                                                         *)
(* A process is a *Process object, numbered in the order of creation; its  *)
(* pid is a resource that is allocated, registered in k.procs and released *)
(* for reuse.  Both run out in the model: at most NProcs objects are       *)
(* created, with NPids pids (2047 in the code).                            *)
(*                                                                         *)
(* How a parked waiter notices a signal is the subject of Sema.tla and     *)
(* Signals.tla; here a pending SIGCHLD simply ends a blocked waitpid.      *)
(***************************************************************************)
EXTENDS Integers, FiniteSets

CONSTANTS NProcs,     \* bound: processes ever created
          NPids,      \* bound: pids, pidsPerHost - 1 in the code
          Spawners,   \* the processes whose programs start children
          HostPid,    \* this Go process's own host pid
          HostPids,   \* the host pids of all pgzero processes that run
          HostPidRange \* hostPidRange, 2^20 in the code

ASSUME ProcAssumption == /\ NProcs \in Nat \ {0}
                         /\ NPids \in Nat \ {0}
                         /\ Spawners \subseteq 1..NProcs

(* Host pids from 2^20 on wrap, which the code says it does not handle.     *)
ASSUME HostAssumption == /\ HostPidRange \in Nat
                         /\ HostPids \subseteq 1..(HostPidRange - 1)
                         /\ HostPid \in HostPids

Procs == 1..NProcs
Pids == 1..NPids
None == 0            \* no process, no pid, any pid

VARIABLES
  pc,          \* where each process is
  pid,         \* Process.pid
  parent,      \* Process.parent
  parentGone,  \* Process.parentGone
  children,    \* Process.children
  killed,      \* Process.ctx is cancelled
  chld,        \* SIGCHLD is pending
  evts,        \* the channel taken from childEvts: none, open or closed
  cur,         \* the child being spawned or reaped
  want,        \* the pid argument of waitpid, None for -1
  reaping,     \* waitpid is called with WNOHANG, by the SIGCHLD handler
  procs,       \* Kernel.procs
  owners,      \* pids.owners
  next,        \* pids.next
  kpc,         \* Kernel.Close: open, killing, closed
  running,     \* Close's snapshot of the process table
  twice        \* history: pids that an exiting parent forgot for a child
               \* that had closed done and was to forget its pid as well

kernelVars == <<procs, owners, next>>
closeVars == <<kpc, running, twice>>
waitVars == <<cur, want, reaping>>
treeVars == <<pid, parent, parentGone, children>>
vars == <<pc, treeVars, killed, chld, evts, waitVars, kernelVars, closeVars>>

(***************************************************************************)
(* unborn, alloc, ready : not started yet     guest : running wasm         *)
(* spawn1, spawn2       : inside spawn        wait, scan, park, reap :     *)
(* inside waitpid       closing, done, notify, chld : inside finish        *)
(* gone                 : the goroutine has ended                          *)
(***************************************************************************)
Locations == {"unborn", "alloc", "ready", "guest", "spawn1", "spawn2", "wait",
              "scan", "park", "reap", "closing", "done", "notify", "chld", "gone"}

TypeOK == /\ pc \in [Procs -> Locations]
          /\ pid \in [Procs -> Pids \cup {None}]
          /\ parent \in [Procs -> Procs \cup {None}]
          /\ parentGone \in [Procs -> BOOLEAN]
          /\ children \in [Procs -> SUBSET Procs]
          /\ killed \in [Procs -> BOOLEAN]
          /\ chld \in [Procs -> BOOLEAN]
          /\ evts \in [Procs -> {"none", "open", "closed"}]
          /\ cur \in [Procs -> Procs \cup {None}]
          /\ want \in [Procs -> Pids \cup {None}]
          /\ reaping \in [Procs -> BOOLEAN]
          /\ procs \in [Pids -> Procs \cup {None}]
          /\ owners \subseteq Pids
          /\ next \in Pids
          /\ kpc \in {"open", "killing", "closed"}
          /\ running \subseteq Procs
          /\ twice \subseteq Pids

Init == /\ pc = [p \in Procs |-> "unborn"]
        /\ pid = [p \in Procs |-> None]
        /\ parent = [p \in Procs |-> None]
        /\ parentGone = [p \in Procs |-> FALSE]
        /\ children = [p \in Procs |-> {}]
        /\ killed = [p \in Procs |-> FALSE]
        /\ chld = [p \in Procs |-> FALSE]
        /\ evts = [p \in Procs |-> "none"]
        /\ cur = [p \in Procs |-> None]
        /\ want = [p \in Procs |-> None]
        /\ reaping = [p \in Procs |-> FALSE]
        /\ procs = [n \in Pids |-> None]
        /\ owners = {}
        /\ next = 1
        /\ kpc = "open"
        /\ running = {}
        /\ twice = {}

Goto(p, from, to) == pc[p] = from /\ pc' = [pc EXCEPT ![p] = to]

(* p.done is closed. *)
Done(p) == pc[p] \in {"done", "notify", "chld", "gone"}

(* Objects are numbered in the order in which they are created. *)
Unborn == {p \in Procs : pc[p] = "unborn"}
IsNext(c) == c \in Unborn /\ \A q \in Unborn : c <= q

-----------------------------------------------------------------------------
(* Pids and the process table. *)

(* The first free pid at or after next, cyclically. *)
Distance(n) == (n - next) % NPids
IsFirstFree(n) == n \notin owners /\ \A m \in Pids \ owners : Distance(n) <= Distance(m)

(* allocPid: n becomes the pid of the new process c. *)
AllocPid(c, n) ==
  /\ IsFirstFree(n)
  /\ pid' = [pid EXCEPT ![c] = n]
  /\ owners' = owners \cup {n}
  /\ next' = (n % NPids) + 1

(* forgetLocked, for the pids S in turn: unregister and release each. *)
Forget(S) ==
  /\ procs' = [n \in Pids |-> IF n \in S THEN None ELSE procs[n]]
  /\ owners' = owners \ {n \in S : procs[n] # None}

(* Kernel.Start: newProcess without a parent, and its goroutine. *)
Start(c, n) ==
  /\ Unborn = Procs /\ IsNext(c)
  /\ AllocPid(c, n)
  /\ procs' = [procs EXCEPT ![n] = c]
  /\ pc' = [pc EXCEPT ![c] = "guest"]
  /\ UNCHANGED <<parent, parentGone, children, killed, chld, evts, waitVars, closeVars>>

-----------------------------------------------------------------------------
(* spawn: newProcess allocates a pid under pids.mu and registers the        *)
(* process under k.mu; then the child enters p.children and starts.         *)

(* procHost.Spawn, with readable arguments that name a program: any other   *)
(* call is refused (EFAULT, EINVAL, ENOENT) and changes nothing.            *)
Spawning(p) == p \in Spawners /\ pc[p] = "guest"

SpawnAlloc(p, c, n) ==
  /\ Spawning(p) /\ IsNext(c)
  /\ AllocPid(c, n)
  /\ parent' = [parent EXCEPT ![c] = p]
  /\ cur' = [cur EXCEPT ![p] = c]
  /\ pc' = [pc EXCEPT ![p] = "spawn1", ![c] = "alloc"]
  /\ UNCHANGED <<parentGone, children, killed, chld, evts, want, reaping, procs, closeVars>>

(* Every pid is taken: EAGAIN, after a round that moved next one further.   *)
SpawnAgain(p) ==
  /\ Spawning(p) /\ Unborn # {}
  /\ owners = Pids
  /\ next' = (next % NPids) + 1
  /\ UNCHANGED <<pc, treeVars, killed, chld, evts, waitVars, procs, owners, closeVars>>

SpawnRegister(p) ==
  LET c == cur[p] IN
  /\ pc[p] = "spawn1"
  /\ procs' = [procs EXCEPT ![pid[c]] = c]
  /\ pc' = [pc EXCEPT ![p] = "spawn2", ![c] = "ready"]
  /\ UNCHANGED <<treeVars, killed, chld, evts, waitVars, owners, next, closeVars>>

SpawnStart(p) ==
  LET c == cur[p] IN
  /\ pc[p] = "spawn2"
  /\ children' = [children EXCEPT ![p] = {d \in @ : pid[d] # pid[c]} \cup {c}]
  /\ pc' = [pc EXCEPT ![p] = "guest", ![c] = "guest"]
  /\ cur' = [cur EXCEPT ![p] = None]
  /\ UNCHANGED <<pid, parent, parentGone, killed, chld, evts, want, reaping,
                 kernelVars, closeVars>>

-----------------------------------------------------------------------------
(* waitpid. *)

Call(p, w, nohang) ==
  /\ Goto(p, "guest", "wait")
  /\ want' = [want EXCEPT ![p] = w]
  /\ reaping' = [reaping EXCEPT ![p] = nohang]
  /\ UNCHANGED <<treeVars, killed, evts, cur, kernelVars, closeVars>>

(* The program waits for a child it has started, or for any. *)
WaitCall(p, w) ==
  /\ children[p] # {}
  /\ w \in {None} \cup {pid[c] : c \in children[p]}
  /\ Call(p, w, FALSE)
  /\ UNCHANGED chld

(* The program's SIGCHLD handler: waitpid(-1, WNOHANG) until it finds       *)
(* nothing more to reap.                                                    *)
HandleSigchld(p) ==
  /\ chld[p]
  /\ chld' = [chld EXCEPT ![p] = FALSE]
  /\ Call(p, None, TRUE)

TakeChannel(p) ==
  /\ Goto(p, "wait", "scan")
  /\ evts' = [evts EXCEPT ![p] = "open"]
  /\ UNCHANGED <<treeVars, killed, chld, waitVars, kernelVars, closeVars>>

Matches(p) == {c \in children[p] : want[p] = None \/ pid[c] = want[p]}

Leave(p, to) == pc' = [pc EXCEPT ![p] = to] /\ evts' = [evts EXCEPT ![p] = "none"]

(* A mutant: waitpid that leaves a child it reaps among the children. *)
ScanFoundKept(p, c) ==
  /\ pc[p] = "scan"
  /\ c \in Matches(p) /\ Done(c)
  /\ Leave(p, "reap")
  /\ cur' = [cur EXCEPT ![p] = c]
  /\ UNCHANGED <<treeVars, killed, chld, want, reaping, kernelVars, closeVars>>

(* The scan under childMu finds an exited child, none of that pid (ECHILD), *)
(* or only running ones: 0 with WNOHANG, otherwise block.                   *)
ScanFound(p, c) ==
  /\ pc[p] = "scan"
  /\ c \in Matches(p) /\ Done(c)
  /\ Leave(p, "reap")
  /\ children' = [children EXCEPT ![p] = @ \ {c}]
  /\ cur' = [cur EXCEPT ![p] = c]
  /\ UNCHANGED <<pid, parent, parentGone, killed, chld, want, reaping, kernelVars, closeVars>>

ScanNothing(p) ==
  /\ pc[p] = "scan"
  /\ \A c \in Matches(p) : ~Done(c)
  /\ IF Matches(p) = {} \/ reaping[p]
     THEN Leave(p, "guest")
     ELSE pc' = [pc EXCEPT ![p] = "park"] /\ UNCHANGED evts
  /\ UNCHANGED <<treeVars, killed, chld, waitVars, kernelVars, closeVars>>

(* k.forget(c), and the return; the handler's loop calls waitpid again.     *)
Reap(p) ==
  /\ Goto(p, "reap", IF reaping[p] THEN "wait" ELSE "guest")
  /\ Forget({pid[cur[p]]})
  /\ cur' = [cur EXCEPT ![p] = None]
  /\ UNCHANGED <<treeVars, killed, chld, evts, want, reaping, next, closeVars>>

ParkWoken(p) ==
  /\ pc[p] = "park" /\ evts[p] = "closed"
  /\ Leave(p, "wait")
  /\ UNCHANGED <<treeVars, killed, chld, waitVars, kernelVars, closeVars>>

(* A mutant: a wait that SIGKILL does not end. *)
ParkDeafToKill(p) ==
  /\ pc[p] = "park" /\ chld[p]
  /\ Leave(p, "guest")
  /\ UNCHANGED <<treeVars, killed, chld, waitVars, kernelVars, closeVars>>

(* interrupted and killed both return EINTR. *)
ParkInterrupted(p) ==
  /\ pc[p] = "park" /\ (chld[p] \/ killed[p])
  /\ Leave(p, "guest")
  /\ UNCHANGED <<treeVars, killed, chld, waitVars, kernelVars, closeVars>>

-----------------------------------------------------------------------------
(* kill. *)

(* What Kernel.lookup finds under the pid that ends in n. *)
Lookup(n) == procs[n]

(* kill(pid, SIGKILL), Process.Signal included: the target's context is     *)
(* cancelled, wherever it is.  The other signals are those of Signals.tla,  *)
(* and a pid of another kernel cannot be signalled (EPERM).  Which process  *)
(* calls makes no difference to the effect: those that start others do.     *)
Kill(p, n) ==
  /\ p \in Spawners /\ pc[p] = "guest" /\ Lookup(n) # None
  /\ killed' = [killed EXCEPT ![Lookup(n)] = TRUE]
  /\ UNCHANGED <<pc, treeVars, chld, evts, waitVars, kernelVars, closeVars>>

(* A whole pid, as programs and lock files see it, is the host pid followed *)
(* by a number in 1..NPids (pidsPerHost - 1).                               *)
PidBase(h) == (h % HostPidRange) * (NPids + 1)
HostPidOf(q) == q \div (NPids + 1)
PidOwner(q) == q - PidBase(HostPid) \in owners

(* killForeign: whether kill(q, 0) succeeds in a kernel without that        *)
(* process, in the host process h.  Another host process has a table of its *)
(* own, without the pids of this one, and asks the host for their owner.    *)
KillForeign(h, q) ==
  LET owner == HostPidOf(q) IN
  /\ q > 0
  /\ IF owner = HostPidOf(PidBase(h)) THEN h = HostPid /\ PidOwner(q)
                                      ELSE owner # 0 /\ owner \in HostPids

-----------------------------------------------------------------------------
(* The end of a process. *)

(* The guest returns, exits, crashes, or is stopped because it is killed. *)
GuestEnds(p) == /\ Goto(p, "guest", "closing")
                /\ UNCHANGED <<treeVars, killed, chld, evts, waitVars, kernelVars, closeVars>>

(* finish: signals, alarm, descriptors and shared memory are torn down, the *)
(* status is set, and done is closed.                                       *)
FinishDone(p) ==
  /\ Goto(p, "closing", "done")
  /\ killed' = [killed EXCEPT ![p] = TRUE]
  /\ UNCHANGED <<treeVars, chld, evts, waitVars, kernelVars, closeVars>>

Orphan(p) == parent[p] = None \/ parentGone[p]

(* A mutant: orphans that leave their pid to a parent that is gone. *)
ReleasedByFinishNever(p) == {}
(* The pids finish forgets: of its exited children, and, with no parent to  *)
(* reap it, its own.                                                        *)
ReleasedByFinish(p) ==
  {pid[c] : c \in {d \in children[p] : Done(d)}} \cup (IF Orphan(p) THEN {pid[p]} ELSE {})

(* finish, under k.mu and childMu.  A child that has closed done waits for  *)
(* k.mu here: its pid is forgotten now, and again by itself as an orphan.   *)
FinishLocked(p) ==
  /\ Goto(p, "done", IF Orphan(p) THEN "gone" ELSE "notify")
  /\ Forget(ReleasedByFinish(p))
  /\ parentGone' = [c \in Procs |-> parentGone[c] \/ c \in children[p]]
  /\ children' = [children EXCEPT ![p] = {}]
  /\ twice' = twice \cup {pid[c] : c \in {d \in children[p] : pc[d] = "done"}}
  /\ UNCHANGED <<pid, parent, killed, chld, evts, waitVars, next, kpc, running>>

(* A mutant: a notifier that nobody closes. *)
NotifyNobody(p) == /\ Goto(p, "notify", "chld")
                   /\ UNCHANGED <<treeVars, killed, chld, evts, waitVars, kernelVars, closeVars>>

NotifyParent(p) ==
  /\ Goto(p, "notify", "chld")
  /\ evts' = [evts EXCEPT ![parent[p]] = IF @ = "open" THEN "closed" ELSE @]
  /\ UNCHANGED <<treeVars, killed, chld, waitVars, kernelVars, closeVars>>

(* A mutant: SIGCHLD only for a parent that is not handling one already. *)
SignalIdleParent(p) ==
  /\ Goto(p, "chld", "gone")
  /\ chld' = [chld EXCEPT ![parent[p]] = @ \/ ~reaping[parent[p]]]
  /\ UNCHANGED <<treeVars, killed, evts, waitVars, kernelVars, closeVars>>

SignalParent(p) ==
  /\ Goto(p, "chld", "gone")
  /\ chld' = [chld EXCEPT ![parent[p]] = TRUE]
  /\ UNCHANGED <<treeVars, killed, evts, waitVars, kernelVars, closeVars>>

-----------------------------------------------------------------------------
(* Kernel.Close. *)

CloseSnapshot ==
  /\ kpc = "open" /\ Unborn # Procs
  /\ kpc' = "killing"
  /\ running' = {procs[n] : n \in Pids} \ {None}
  /\ UNCHANGED <<pc, treeVars, killed, chld, evts, waitVars, kernelVars, twice>>

CloseKill(p) ==
  /\ kpc = "killing" /\ p \in running /\ ~killed[p]
  /\ killed' = [killed EXCEPT ![p] = TRUE]
  /\ UNCHANGED <<pc, treeVars, chld, evts, waitVars, kernelVars, closeVars>>

CloseReturn ==
  /\ kpc = "killing"
  /\ \A p \in running : killed[p] /\ Done(p)
  /\ kpc' = "closed"
  /\ UNCHANGED <<pc, treeVars, killed, chld, evts, waitVars, kernelVars, running, twice>>

-----------------------------------------------------------------------------
InHost(p) == \/ SpawnRegister(p) \/ SpawnStart(p) \/ TakeChannel(p)
             \/ (\E c \in Procs : ScanFound(p, c)) \/ ScanNothing(p) \/ Reap(p)
             \/ ParkWoken(p) \/ ParkInterrupted(p)
             \/ FinishDone(p) \/ FinishLocked(p) \/ NotifyParent(p) \/ SignalParent(p)

(* Close, once it has begun. *)
Close == CloseReturn \/ \E p \in Procs : CloseKill(p)

Next == \/ \E c \in Procs, n \in Pids : Start(c, n)
        \/ \E p \in Procs :
             \/ (\E c \in Procs, n \in Pids : SpawnAlloc(p, c, n)) \/ SpawnAgain(p) \/ SpawnRegister(p) \/ SpawnStart(p)
             \/ (\E w \in Pids \cup {None} : WaitCall(p, w)) \/ HandleSigchld(p)
             \/ TakeChannel(p) \/ (\E c \in Procs : ScanFound(p, c))
             \/ ScanNothing(p) \/ Reap(p) \/ ParkWoken(p) \/ ParkInterrupted(p)
             \/ (\E n \in Pids : Kill(p, n))
             \/ GuestEnds(p) \/ FinishDone(p) \/ FinishLocked(p)
             \/ NotifyParent(p) \/ SignalParent(p) \/ CloseKill(p)
        \/ CloseSnapshot \/ CloseReturn

(* Host code keeps running.  A guest that keeps coming back from host calls *)
(* is stopped there if it is killed, and runs its SIGCHLD handler there     *)
(* otherwise (strong fairness); an unkilled guest need never exit.          *)
Fairness ==
  /\ \A p \in Procs : WF_vars(InHost(p)) /\ SF_vars(killed[p] /\ GuestEnds(p))
  /\ \A p \in Spawners : SF_vars(HandleSigchld(p))
  /\ WF_vars(Close)

SafeSpec == Init /\ [][Next]_vars
Spec == SafeSpec /\ Fairness

-----------------------------------------------------------------------------
(* Properties. *)

Live(p) == pc[p] \notin {"unborn", "alloc"} /\ ~Done(p)

(* Kill finds the process p under its pid, and no other process: from its   *)
(* own kernel, from another kernel of the same Go process, and from every   *)
(* pgzero process of the host.                                              *)
Found(p) == /\ Lookup(pid[p]) = p
            /\ \A h \in HostPids : KillForeign(h, PidBase(HostPid) + pid[p])

(* "treats the lock as stale unless kill(pid, 0) finds that process"        *)
(* (kernel.go): as long as a process lives, kill finds it.                  *)
AliveIsRegistered == \A p \in Procs : Live(p) => Found(p)

(* One order of events breaks that: a parent exits between its child's      *)
(* close(done) and the child's own forget, and both forget the pid.  It     *)
(* harms nobody but later owners of that pid; any other order of spawns,    *)
(* exits and reaps, of any processes, leaves every living process findable. *)
AliveUnlessRaced == \A p \in Procs : (Live(p) /\ pid[p] \notin twice) => Found(p)

(* A pid in use belongs to a process that lives, or is still going to       *)
(* release it in finish, or can still be reaped by a parent that lives: no  *)
(* order of the exits of parent and child leaks a pid.                      *)
NoPidLeak ==
  \A n \in owners : \E p \in Procs :
    /\ pid[p] = n
    /\ \/ ~Done(p)
       \/ pc[p] = "done" /\ Orphan(p)
       \/ \E q \in Procs : /\ pc[q] # "gone"
                           /\ p \in children[q] \/ (pc[q] = "reap" /\ cur[q] = p)

(* A parent blocked in waitpid on a child that has exited is woken, or the  *)
(* child has yet to notify it: close(done) precedes the notify, and the     *)
(* channel is taken before the scan.                                        *)
NoLostChildEvent ==
  \A p \in Procs : \A c \in Matches(p) :
    (pc[p] = "park" /\ evts[p] = "open" /\ Done(c)) => pc[c] \in {"done", "notify"}

(* SIGCHLDs merge, yet no zombie is overlooked: when the program has        *)
(* handled all SIGCHLDs, every exited child it has not reaped is one whose  *)
(* SIGCHLD is still to come.                                                *)
NoForgottenZombie ==
  \A p \in Procs : \A c \in children[p] :
    (pc[p] = "guest" /\ ~chld[p] /\ Done(c)) => pc[c] # "gone"

(* Close returns: every process it knew of ends, wherever it was blocked. *)
CloseTerminates == (kpc = "killing") ~> (kpc = "closed")

(* A program that handles SIGCHLD reaps every child that exits. *)
Zombie(c) == Done(c) /\ \E p \in Spawners : c \in children[p]
ZombiesAreReaped == \A c \in Procs \ {1} : Zombie(c) ~> ~Zombie(c)

(* "Close kills all processes": none runs on once Close has returned. *)
CloseKillsAll == kpc = "closed" => \A p \in Procs : ~Live(p)
=============================================================================
