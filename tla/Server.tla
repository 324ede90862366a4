------------------------------- MODULE Server -------------------------------
(***************************************************************************)
(* A server's life and the connections to it: Start, waitReady, probe,     *)
(* Dial and Close (pgzero.go), the virtual listeners they dial             *)
(* (internal/kernel/kernel.go) and the listening sockets of the processes  *)
(* in the kernel (bind, listen, acceptLoop, accept and release of          *)
(* socket.go).  What happens on an accepted connection is the subject of   *)
(* Socket.tla, how processes end that of Process.tla.                      *)
(*                                                                         *)
(* Each process has one socket, which it may bind to the name that is      *)
(* dialed; process 1 is the postmaster.  A connection is an in-memory      *)
(* pipe; its server end passes from the dialer to an acceptLoop, to the    *)
(* queue and to a backend.                                                 *)
(***************************************************************************)
EXTENDS Integers, Sequences, SequencesExt

CONSTANTS NProcs,    \* processes with a socket
          Clients,   \* callers of Server.Dial, and of connect in a guest
          Conns      \* bound: connections that exist at a time

ASSUME ServerAssumption == NProcs \in Nat \ {0} /\ 0 \notin Conns /\ "probe" \notin Clients

Procs == 1..NProcs
Postmaster == 1
Probe == "probe"
Dialers == Clients \cup {Probe}
None == 0

VARIABLES
  start,     \* Start: init, probe, dial, answer, pause, fail, ready, failed
  ctx,       \* the context of Start is done, while Start runs
  closing,   \* Close: no, wait (for Done), kernel (Kernel.Close), done
  proc,      \* none, up, exiting, gone
  sock,      \* new, binding, bound, listening, failed
  release,   \* no; marked, shut: in release; done
  closed,    \* virtualListener.closed
  named,     \* Kernel.unix: whose listener has the name
  loop,      \* acceptLoop: none, accept, got, ended
  hand,      \* the connection acceptLoop has just accepted
  queue,     \* socket.acceptQ
  doomed,    \* the connections release has to close
  dial,      \* each dialer: idle, dialing, open
  to, conn,  \* the listener it dials and its connection
  server     \* server ends: pipe, hand, queued, accepted; closed, or none

life == <<start, ctx, closing>>
listeners == <<sock, release, closed, named>>
accepting == <<loop, hand, queue, doomed>>
dialing == <<dial, to, conn>>
vars == <<life, proc, listeners, accepting, dialing, server>>

TypeOK ==
  /\ start \in {"init", "probe", "dial", "answer", "pause", "fail", "ready", "failed"}
  /\ ctx \in BOOLEAN /\ closing \in {"no", "wait", "kernel", "done"}
  /\ proc \in [Procs -> {"none", "up", "exiting", "gone"}]
  /\ sock \in [Procs -> {"new", "binding", "bound", "listening", "failed"}]
  /\ release \in [Procs -> {"no", "marked", "shut", "done"}]
  /\ closed \in [Procs -> BOOLEAN] /\ named \in Procs \cup {None}
  /\ loop \in [Procs -> {"none", "accept", "got", "ended"}]
  /\ hand \in [Procs -> Conns \cup {None}] /\ queue \in [Procs -> Seq(Conns)]
  /\ doomed \in [Procs -> SUBSET Conns]
  /\ dial \in [Dialers -> {"idle", "dialing", "open"}]
  /\ to \in [Dialers -> Procs \cup {None}] /\ conn \in [Dialers -> Conns \cup {None}]
  /\ server \in [Conns -> {"pipe", "hand", "queued", "accepted", "closed"}]

Init ==
  /\ start = "init" /\ ctx = FALSE /\ closing = "no"
  /\ proc = [p \in Procs |-> "none"]
  /\ sock = [p \in Procs |-> "new"] /\ release = [p \in Procs |-> "no"]
  /\ closed = [p \in Procs |-> FALSE] /\ named = None
  /\ loop = [p \in Procs |-> "none"] /\ hand = [p \in Procs |-> None]
  /\ queue = [p \in Procs |-> <<>>] /\ doomed = [p \in Procs |-> {}]
  /\ dial = [d \in Dialers |-> "idle"]
  /\ to = [d \in Dialers |-> None] /\ conn = [d \in Dialers |-> None]
  /\ server = [c \in Conns |-> "closed"]

-----------------------------------------------------------------------------
(* Processes. *)

(* Start up to Kernel.Start; without it everything is given up. *)
StartPostmaster ==
  /\ start = "init"
  /\ \/ /\ proc' = [proc EXCEPT ![Postmaster] = "up"]
        /\ start' = "probe"
     \/ start' = "failed" /\ UNCHANGED proc
  /\ UNCHANGED <<ctx, closing, listeners, accepting, dialing, server>>

(* Another process, numbered in the order of spawning; spawning while       *)
(* Kernel.Close runs is left to Process.tla.                                *)
Spawn(p) ==
  /\ proc[Postmaster] = "up" /\ proc[p] = "none" /\ closing \in {"no", "wait"}
  /\ \A q \in 1..(p - 1) : proc[q] # "none"
  /\ proc' = [proc EXCEPT ![p] = "up"]
  /\ UNCHANGED <<life, listeners, accepting, dialing, server>>

(* Kernel.Close has sent SIGKILL to all. *)
Killed == closing = "kernel"

(* A socket's descriptor is open in its process, or in one that inherited   *)
(* it and outlives that process.                                            *)
Held(p) == proc[p] # "none" /\ release[p] = "no"
Kept(p) == Held(p) /\ proc[p] # "up"
Heirs(p) == {q \in (p + 1)..NProcs : proc[q] = "up"}

(* finish closes done after the descriptors are closed. *)
Finish(p) ==
  /\ proc[p] = "exiting"
  /\ \A q \in 1..p : proc[q] = "up" \/ release[q] \in {"no", "done"}
  /\ proc' = [proc EXCEPT ![p] = "gone"]
  /\ UNCHANGED <<life, listeners, accepting, dialing, server>>

-----------------------------------------------------------------------------
(* Listening sockets.  A process has created its socket when we meet it. *)

(* bind, and in it listenUnix: EADDRINUSE if the name is taken.  A socket   *)
(* whose bind has failed is as good as new and may be bound again, to a     *)
(* listener of its own; by then those who dialed the first one have their   *)
(* answer, and a program that is killed does not try for ever.              *)
Bindable(p) ==
  \/ sock[p] = "new"
  \/ sock[p] = "failed" /\ ~Killed /\ \A d \in Dialers : to[d] # p

BindName(p) ==
  /\ Held(p) /\ Bindable(p)
  /\ named = None
  /\ named' = p
  /\ sock' = [sock EXCEPT ![p] = "binding"]
  /\ closed' = [closed EXCEPT ![p] = FALSE]
  /\ UNCHANGED <<life, proc, release, accepting, dialing, server>>

(* The rest of bind, where the path is in a host directory: the host's      *)
(* listener, or its error, after which the virtual listener is closed.      *)
(* A mutant: it is left behind.                                             *)
BindHostLeaves(p, ok) ==
  /\ sock[p] = "binding"
  /\ sock' = [sock EXCEPT ![p] = IF ok THEN "bound" ELSE "failed"]
  /\ UNCHANGED <<life, proc, release, closed, named, accepting, dialing, server>>
BindHost(p, ok) ==
  /\ sock[p] = "binding"
  /\ sock' = [sock EXCEPT ![p] = IF ok THEN "bound" ELSE "failed"]
  /\ closed' = [closed EXCEPT ![p] = ~ok]
  /\ named' = IF ok THEN named ELSE None
  /\ UNCHANGED <<life, proc, release, accepting, dialing, server>>

Listen(p) ==
  /\ Held(p) /\ sock[p] = "bound"
  /\ sock' = [sock EXCEPT ![p] = "listening"]
  /\ loop' = [loop EXCEPT ![p] = "accept"]
  /\ UNCHANGED <<life, proc, release, closed, named, hand, queue, doomed, dialing, server>>

(* socket.accept: the connection that has waited longest; what becomes of   *)
(* its server end.                                                          *)
TakeFirst(p, end) ==
  /\ queue[p] # <<>>
  /\ queue' = [queue EXCEPT ![p] = Tail(@)]
  /\ server' = [server EXCEPT ![Head(queue[p])] = end]

(* The host call: the connection has a descriptor, and a backend serves it; *)
(* if the peer's address cannot be written, the descriptor is closed again. *)
Accept(p) ==
  /\ Held(p)
  /\ TakeFirst(p, "accepted") \/ TakeFirst(p, "closed")
  /\ UNCHANGED <<life, proc, listeners, loop, hand, doomed, dialing>>

(* The backend is done with it, or ends. *)
ServerCloses(c) ==
  /\ server[c] = "accepted"
  /\ server' = [server EXCEPT ![c] = "closed"]
  /\ UNCHANGED <<life, proc, listeners, accepting, dialing>>

(* release, by close or at exit: under the lock, and then step by step. *)
HasListener(p) == sock[p] \in {"bound", "listening"}

Mark(p) ==
  /\ release[p] = "no"
  /\ release' = [release EXCEPT ![p] = "marked"]
  /\ doomed' = [doomed EXCEPT ![p] = ToSet(queue[p])]
  /\ queue' = [queue EXCEPT ![p] = <<>>]
  /\ UNCHANGED <<life, sock, closed, named, loop, hand, dialing, server>>

(* The last descriptor is closed: by the process, or by the last heir. *)
CloseSocket(p) == Held(p) /\ sock[p] # "binding" /\ Mark(p) /\ UNCHANGED proc

(* A process ends, by itself, after SIGINT, or because it is killed; not in *)
(* the middle of a host call.  The socket goes with it, unless an heir has  *)
(* a descriptor of it as well; the last heir closes what it has kept.       *)
Exit(p) ==
  /\ proc[p] = "up" /\ sock[p] # "binding"
  /\ \A q \in Procs : Kept(q) => Heirs(q) # {p}
  /\ proc' = [proc EXCEPT ![p] = "exiting"]
  /\ \/ Mark(p)
     \/ /\ release[p] # "no" \/ Heirs(p) # {}
        /\ UNCHANGED <<life, listeners, accepting, dialing, server>>

(* A mutant: the name is taken down, but nobody who waits is told. *)
ReleaseShutSilent(p) ==
  /\ release[p] = "marked"
  /\ release' = [release EXCEPT ![p] = "shut"]
  /\ UNCHANGED <<life, proc, sock, closed, named, accepting, dialing, server>>
ReleaseShut(p) ==
  /\ release[p] = "marked"
  /\ release' = [release EXCEPT ![p] = "shut"]
  /\ closed' = [closed EXCEPT ![p] = @ \/ HasListener(p)]
  /\ UNCHANGED <<life, proc, sock, named, accepting, dialing, server>>

(* The name is given up; what was queued is closed.  No lock orders the     *)
(* two with what others do in between, and they share no state.             *)
ReleaseRest(p) ==
  /\ release[p] = "shut"
  /\ release' = [release EXCEPT ![p] = "done"]
  /\ named' = IF named = p THEN None ELSE named
  /\ server' = [c \in Conns |-> IF c \in doomed[p] THEN "closed" ELSE server[c]]
  /\ doomed' = [doomed EXCEPT ![p] = {}]
  /\ UNCHANGED <<life, proc, sock, closed, loop, hand, queue, dialing>>

(* acceptLoop: a connection enters the queue, unless the socket has been    *)
(* released in the meantime.                                                *)
(* A mutant: it enters the queue in any case.                               *)
LoopQueueAlways(p) ==
  /\ loop[p] = "got"
  /\ queue' = [queue EXCEPT ![p] = Append(@, hand[p])]
  /\ server' = [server EXCEPT ![hand[p]] = "queued"]
  /\ loop' = [loop EXCEPT ![p] = "accept"]
  /\ hand' = [hand EXCEPT ![p] = None]
  /\ UNCHANGED <<life, proc, listeners, doomed, dialing>>
LoopQueue(p) ==
  /\ loop[p] = "got"
  /\ IF release[p] = "no"
     THEN /\ queue' = [queue EXCEPT ![p] = Append(@, hand[p])]
          /\ server' = [server EXCEPT ![hand[p]] = "queued"]
          /\ loop' = [loop EXCEPT ![p] = "accept"]
     ELSE /\ server' = [server EXCEPT ![hand[p]] = "closed"]
          /\ loop' = [loop EXCEPT ![p] = "ended"]
          /\ UNCHANGED queue
  /\ hand' = [hand EXCEPT ![p] = None]
  /\ UNCHANGED <<life, proc, listeners, doomed, dialing>>

LoopEnd(p) ==
  /\ loop[p] = "accept" /\ closed[p]
  /\ loop' = [loop EXCEPT ![p] = "ended"]
  /\ UNCHANGED <<life, proc, listeners, hand, queue, doomed, dialing, server>>

-----------------------------------------------------------------------------
(* Dialing. *)

(* After a probe that got nowhere, waitReady pauses. *)
After(d, at) == IF d = Probe THEN start' = at ELSE UNCHANGED start

MayDial(d) == IF d = Probe THEN start = "probe" ELSE start = "ready"
Unused(c) == server[c] = "closed" /\ \A d \in Dialers : conn[d] # c
Fresh == CHOOSE c \in Conns : Unused(c)

(* DialUnix: the look-up, and the pipe that is offered to the listener. *)
Dial(d) ==
  /\ dial[d] = "idle" /\ MayDial(d)
  /\ named # None /\ \E c \in Conns : Unused(c)
  /\ dial' = [dial EXCEPT ![d] = "dialing"]
  /\ to' = [to EXCEPT ![d] = named]
  /\ conn' = [conn EXCEPT ![d] = Fresh]
  /\ server' = [server EXCEPT ![Fresh] = "pipe"]
  /\ After(d, "dial")
  /\ UNCHANGED <<ctx, closing, proc, listeners, accepting>>

(* Nobody listens: the probe is over; a client has its error at once.  The  *)
(* probe also fails if the bound on connections is reached.                 *)
DialNobody ==
  /\ MayDial(Probe) /\ (named = None \/ \A c \in Conns : ~Unused(c))
  /\ start' = "pause"
  /\ UNCHANGED <<ctx, closing, proc, listeners, accepting, dialing, server>>

(* The dialer's select meets that of Accept, even if closed is closed too. *)
HandOver(d) ==
  LET p == to[d] IN
  /\ dial[d] = "dialing" /\ loop[p] = "accept"
  /\ dial' = [dial EXCEPT ![d] = "open"]
  /\ loop' = [loop EXCEPT ![p] = "got"]
  /\ hand' = [hand EXCEPT ![p] = conn[d]]
  /\ server' = [server EXCEPT ![conn[d]] = "hand"]
  /\ After(d, "answer")
  /\ UNCHANGED <<ctx, closing, proc, listeners, queue, doomed, to, conn>>

Disconnected(d) == /\ dial' = [dial EXCEPT ![d] = "idle"]
                   /\ to' = [to EXCEPT ![d] = None]
                   /\ conn' = [conn EXCEPT ![d] = None]

(* Refused because the listener closes, or given up with the context. *)
DialFails(d) ==
  /\ dial[d] = "dialing"
  /\ closed[to[d]] \/ d # Probe \/ ctx
  /\ Disconnected(d)
  /\ server' = [server EXCEPT ![conn[d]] = "closed"]
  /\ After(d, "pause")
  /\ UNCHANGED <<ctx, closing, proc, listeners, accepting>>

(* A client leaves; the server sees the end of the stream. *)
Leave(d) ==
  /\ d # Probe /\ dial[d] = "open"
  /\ Disconnected(d)
  /\ UNCHANGED <<life, proc, listeners, accepting, server>>

-----------------------------------------------------------------------------
(* Start and Close. *)

CtxDone == /\ ~ctx /\ start \notin {"ready", "failed"}
           /\ ctx' = TRUE
           /\ UNCHANGED <<start, closing, proc, listeners, accepting, dialing, server>>

(* The rest of probe: authentication is asked for, the server is starting   *)
(* up, it refuses; or the connection ends or its deadline passes.           *)
ProbeAnswer(to2) ==
  /\ start = "answer"
  /\ to2 # "pause" => server[conn[Probe]] = "accepted"
  /\ start' = to2
  /\ ctx' = (ctx /\ to2 # "ready")
  /\ Disconnected(Probe)
  /\ UNCHANGED <<closing, proc, listeners, accepting, server>>

(* A mutant: Done is not watched. *)
PauseDeaf ==
  /\ start = "pause"
  /\ (start' = "fail" /\ ctx) \/ start' = "probe"
  /\ UNCHANGED <<ctx, closing, proc, listeners, accepting, dialing, server>>
(* The select of waitReady: Done, the context, 10 ms. *)
Pause ==
  /\ start = "pause"
  /\ \/ start' = "fail" /\ (proc[Postmaster] = "gone" \/ ctx)
     \/ start' = "probe"
  /\ UNCHANGED <<ctx, closing, proc, listeners, accepting, dialing, server>>

(* Close, by the program or by a Start that fails: SIGINT is sent. *)
Close ==
  /\ closing = "no" /\ start \in {"ready", "fail"}
  /\ closing' = "wait"
  /\ UNCHANGED <<start, ctx, proc, listeners, accepting, dialing, server>>

(* A mutant: without the minute. *)
CloseWaitedForever ==
  /\ closing = "wait" /\ proc[Postmaster] = "gone"
  /\ closing' = "kernel"
  /\ UNCHANGED <<start, ctx, proc, listeners, accepting, dialing, server>>
(* Done, or a minute has passed; Kernel.Close begins to kill. *)
CloseWaited ==
  /\ closing = "wait"
  /\ closing' = "kernel"
  /\ UNCHANGED <<start, ctx, proc, listeners, accepting, dialing, server>>

CloseReturn ==
  /\ closing = "kernel" /\ \A p \in Procs : proc[p] \in {"none", "gone"}
  /\ closing' = "done"
  /\ start' = IF start = "fail" THEN "failed" ELSE start
  /\ UNCHANGED <<ctx, proc, listeners, accepting, dialing, server>>

-----------------------------------------------------------------------------
Next ==
  \/ StartPostmaster \/ CtxDone \/ Pause \/ Close \/ CloseWaited \/ CloseReturn \/ DialNobody
  \/ \E r \in {"ready", "pause", "fail"} : ProbeAnswer(r)
  \/ \E p \in Procs :
       \/ Spawn(p) \/ Exit(p) \/ Finish(p) \/ BindName(p)
       \/ (\E ok \in BOOLEAN : BindHost(p, ok)) \/ Listen(p) \/ Accept(p)
       \/ CloseSocket(p) \/ ReleaseShut(p) \/ ReleaseRest(p)
       \/ LoopQueue(p) \/ LoopEnd(p)
  \/ \E d \in Dialers : HandOver(d) \/ DialFails(d) \/ Leave(d) \/ Dial(d)
  \/ \E c \in Conns : ServerCloses(c)

(* Goroutines of the host keep running, timers expire, a killed process     *)
(* ends.  Select prefers no case: a Start that finds the context or Done    *)
(* ready each time takes it some time.  Programs and clients owe nothing:   *)
(* the postmaster need not react to SIGINT.                                 *)
Starter == \/ StartPostmaster \/ DialNobody \/ Dial(Probe)
           \/ ProbeAnswer("pause") \/ Pause \/ (start = "fail" /\ Close)
InHost(p) == \/ ReleaseShut(p) \/ ReleaseRest(p)
             \/ Finish(p) \/ \E ok \in BOOLEAN : BindHost(p, ok)
Told(d) == dial[d] = "dialing" /\ (closed[to[d]] \/ (d = Probe /\ ctx))
Fairness ==
  /\ WF_vars(Starter) /\ SF_vars(Pause /\ start' = "fail")
  /\ WF_vars(CloseWaited \/ CloseReturn)
  /\ \A p \in Procs : /\ WF_vars(Killed /\ (Exit(p) \/ (Kept(p) /\ CloseSocket(p))))
                      /\ WF_vars(InHost(p))
                      /\ WF_vars(LoopQueue(p) \/ LoopEnd(p))
  /\ \A d \in Dialers : WF_vars(HandOver(d) \/ (Told(d) /\ DialFails(d)))

SafeSpec == Init /\ [][Next]_vars
Spec == SafeSpec /\ Fairness

-----------------------------------------------------------------------------
(* Properties. *)

(* A connection that waits to be accepted is in the queue of a socket that  *)
(* can still accept it, or release is about to close it: whatever order     *)
(* acceptLoop and release run in, no client is left waiting for a server    *)
(* that never comes.                                                        *)
NoOrphan ==
  \A c \in Conns : server[c] = "queued" =>
    \E p \in Procs : (release[p] = "no" /\ c \in ToSet(queue[p])) \/ c \in doomed[p]

(* The name leads to a socket that can still be listened on; the next       *)
(* process can bind it as soon as the socket is gone.                       *)
NameIsLive ==
  named # None => sock[named] \in {"binding", "bound", "listening"}
                  /\ release[named] \in {"no", "marked", "shut"}

(* Nobody waits for a listener that is gone, also with a context that never *)
(* ends.                                                                    *)
DialsEnd ==
  \A d \in Dialers : (dial[d] = "dialing" /\ release[to[d]] # "no") ~> dial[d] # "dialing"

(* Start returns when the server has exited or the context has ended, in    *)
(* whichever step it is.  The one thing that holds it up is another process *)
(* that has bound the name, or inherited the socket that has it, and does   *)
(* not listen: a dial waits for that.                                       *)
HeldUp == start = "dial" /\ (to[Probe] # Postmaster \/ Kept(Postmaster))
StartEnds ==
  /\ ctx ~> start \in {"ready", "failed"}
  /\ proc[Postmaster] = "gone" ~> (start \in {"ready", "failed"} \/ HeldUp)

(* Close returns, whether or not the server shuts down when asked to, and   *)
(* everything in the kernel has ended.                                      *)
CloseReturns == closing = "wait" ~> closing = "done"
=============================================================================
