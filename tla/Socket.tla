------------------------------- MODULE Socket -------------------------------
(***************************************************************************)
(* A connected stream socket, internal/kernel/socket.go: two goroutines    *)
(* pump bytes between a host connection and two bounded buffers, while     *)
(* processes that share the descriptor recv, send, poll, shut it down and  *)
(* close it.  How the connection comes about is the subject of Server.tla; *)
(* descriptor tables are that of Pipe.tla, here a process has the socket   *)
(* or not.                                                                 *)
(*                                                                         *)
(* Bytes are numbered in the order in which they are sent, so that losses, *)
(* repetitions and changes of order show.  The host connection and the     *)
(* peer are external: a Write hands over bytes as the peer takes them and  *)
(* fails if the connection is closed or reset or its deadline has passed.  *)
(***************************************************************************)
EXTENDS Integers, Sequences

CONSTANTS Procs,     \* processes that share the socket
          Ahead,     \* sockReadAhead
          Room,      \* sockWriteBuf
          Chunk,     \* the most one Read of the connection returns
          Kinds,     \* the calls that each process makes
          Sizes,     \* the lengths of recv and send
          MaxIn,     \* bound: bytes the peer sends
          MaxOut     \* bound: bytes the processes send

(* 64K, 256K and 256K in the code. *)
ASSUME SocketAssumption == /\ Ahead \in Nat /\ Chunk \in 1..(Ahead - 1)
                           /\ Room \in Nat \ {0}
                           /\ Kinds \in [Procs -> SUBSET {"recv", "peek", "send", "IN", "OUT"}]
                           /\ Sizes \subseteq Nat \ {0}
                           /\ MaxIn \in Nat /\ MaxOut \in Nat

VARIABLES
  conn,      \* our end of the connection: open, shut (CloseWrite), closed
  deadline,  \* the write deadline of release is set
  peer,      \* the other end: open, closed, reset
  inq,       \* what the peer has sent and readLoop has not read
  rbuf, rerr, rpc,          \* socket.rbuf and rerr; where readLoop is
  wbuf, werr, wshut, wpc,   \* socket.wbuf, werr, wshut; where writeLoop is
  out, taken,               \* len(out) of writeLoop, and how much the peer took
  released,  \* socket.released
  holds,     \* the processes that have a descriptor
  pc, op, ch,               \* where each process is, its call and its channel
  nIn, nRecv, nSent, nPeer  \* bytes sent and received so far, in and out

wire == <<conn, deadline, peer, inq>>
reading == <<rbuf, rerr, rpc>>
writing == <<wbuf, werr, wshut, wpc, out, taken>>
procs == <<holds, pc, op>>
counts == <<nIn, nRecv, nSent, nPeer>>
vars == <<wire, reading, writing, released, procs, ch, counts>>

NoCall == [k |-> "none", n |-> 0]
Calls == [k : {"recv", "peek", "send"}, n : Sizes] \cup [k : {"IN", "OUT", "none"}, n : {0}]
Bytes == 1..(MaxIn + MaxOut)

(***************************************************************************)
(* rpc: read, room (in rcond.Wait), woken, notify, stop (notify and end)   *)
(* wpc: wait (in wcond.Wait), woken, writing, close and closewrite (after  *)
(*      the loop), notify, ended                                           *)
(* pc:  guest; op, park: in a call; close, linger: in release              *)
(***************************************************************************)
TypeOK ==
  /\ conn \in {"open", "shut", "closed"} /\ deadline \in BOOLEAN
  /\ peer \in {"open", "closed", "reset"} /\ inq \in Seq(Bytes)
  /\ rbuf \in Seq(Bytes) /\ Len(rbuf) < Ahead + Chunk
  /\ rerr \in {"nil", "eof", "err"}
  /\ rpc \in {"read", "room", "woken", "notify", "stop", "ended"}
  /\ wbuf \in Seq(Bytes) /\ Len(wbuf) <= Room
  /\ werr \in BOOLEAN /\ wshut \in BOOLEAN /\ released \in BOOLEAN
  /\ wpc \in {"wait", "woken", "writing", "close", "closewrite", "notify", "ended"}
  /\ out \in 0..Room /\ taken \in 0..out
  /\ holds \subseteq Procs
  /\ pc \in [Procs -> {"guest", "op", "park", "close", "linger", "gone"}]
  /\ op \in [Procs -> Calls]
  /\ ch \in [Procs -> {"none", "open", "closed"}]
  /\ nIn \in 0..MaxIn /\ nRecv \in 0..MaxIn /\ nSent \in 0..MaxOut /\ nPeer \in 0..MaxOut

(* startConn: both loops begin. *)
Init ==
  /\ conn = "open" /\ deadline = FALSE /\ peer = "open" /\ inq = <<>>
  /\ rbuf = <<>> /\ rerr = "nil" /\ rpc = "read"
  /\ wbuf = <<>> /\ werr = FALSE /\ wshut = FALSE /\ wpc = "woken" /\ out = 0 /\ taken = 0
  /\ released = FALSE
  /\ holds = Procs
  /\ pc = [p \in Procs |-> "guest"]
  /\ op = [p \in Procs |-> NoCall]
  /\ ch = [p \in Procs |-> "none"]
  /\ nIn = 0 /\ nRecv = 0 /\ nSent = 0 /\ nPeer = 0

Goto(p, from, to) == pc[p] = from /\ pc' = [pc EXCEPT ![p] = to]
Least(a, b) == IF a <= b THEN a ELSE b
From(s, i) == SubSeq(s, i, Len(s))

(* notify, as seen by those who hold a channel. *)
Notified == [q \in Procs |-> IF ch[q] = "open" THEN "closed" ELSE ch[q]]

(* Signal on a condition variable whose only waiter is at location at. *)
Signalled(loc, at) == IF loc = at THEN "woken" ELSE loc

-----------------------------------------------------------------------------
(* The peer. *)

PeerSend ==
  /\ peer = "open" /\ conn # "closed" /\ nIn < MaxIn
  /\ nIn' = nIn + 1
  /\ inq' = Append(inq, nIn + 1)
  /\ UNCHANGED <<conn, deadline, peer, reading, writing, released, procs, ch, nRecv, nSent, nPeer>>

(* The peer takes one more byte of the slice that writeLoop is writing. *)
PeerTake ==
  /\ wpc = "writing" /\ taken < out
  /\ peer = "open" /\ conn = "open"
  /\ taken' = taken + 1
  /\ nPeer' = nPeer + 1
  /\ UNCHANGED <<wire, reading, wbuf, werr, wshut, wpc, out, released, procs, ch, nIn, nRecv, nSent>>

PeerLeave(how) ==
  /\ peer = "open"
  /\ peer' = how
  /\ UNCHANGED <<conn, deadline, inq, reading, writing, released, procs, ch, counts>>

-----------------------------------------------------------------------------
(* readLoop. *)

(* A mutant: a reader that waits for room as soon as anything is buffered. *)
FullWithAnything(b, e) == Len(b) > 0 /\ e = "nil" /\ ~released
Full(b, e) == Len(b) >= Ahead /\ e = "nil" /\ ~released

(* What follows the append, up to the unlock. *)
AfterRead(b, e) == IF Full(b, e) THEN "room"
                   ELSE IF e # "nil" \/ released THEN "stop" ELSE "notify"

ReadData(n) ==
  /\ rpc = "read" /\ conn # "closed" /\ peer # "reset"
  /\ n <= Len(inq)
  /\ inq' = From(inq, n + 1)
  /\ rbuf' = rbuf \o SubSeq(inq, 1, n)
  /\ rpc' = AfterRead(rbuf', rerr)
  /\ UNCHANGED <<conn, deadline, peer, rerr, writing, released, procs, ch, counts>>

(* The end of the stream, our own Close, or another error. *)
ReadEnd ==
  /\ rpc = "read"
  /\ \/ rerr' = "eof" /\ (conn = "closed" \/ (peer = "closed" /\ inq = <<>>))
     \/ rerr' = "err" /\ peer = "reset" /\ conn # "closed"
  /\ rpc' = AfterRead(rbuf, rerr')
  /\ UNCHANGED <<wire, rbuf, writing, released, procs, ch, counts>>

ReadRoom ==
  /\ rpc = "woken"
  /\ rpc' = AfterRead(rbuf, rerr)
  /\ UNCHANGED <<wire, rbuf, rerr, writing, released, procs, ch, counts>>

ReadNotify ==
  /\ rpc \in {"notify", "stop"}
  /\ rpc' = IF rpc = "stop" THEN "ended" ELSE "read"
  /\ ch' = Notified
  /\ UNCHANGED <<wire, rbuf, rerr, writing, released, procs, counts>>

ReadLoop == (\E n \in 1..Chunk : ReadData(n)) \/ ReadEnd \/ ReadRoom \/ ReadNotify

-----------------------------------------------------------------------------
(* writeLoop. *)

(* Whether the loop ends here, and what is left to do then: wdone and the   *)
(* local copy of released are set under the same lock.                      *)
(* A mutant: a loop that ends at shutdown with output in its buffer.        *)
WriteTopHasty ==
  IF werr \/ wshut THEN (IF released THEN "close" ELSE "closewrite")
  ELSE IF wbuf = <<>> THEN "wait" ELSE "writing"
WriteTop ==
  IF werr \/ (wbuf = <<>> /\ wshut) THEN (IF released THEN "close" ELSE "closewrite")
  ELSE IF wbuf = <<>> THEN "wait" ELSE "writing"

WriteBegin ==
  /\ wpc = "woken"
  /\ wpc' = WriteTop
  /\ out' = Len(wbuf) /\ taken' = 0
  /\ UNCHANGED <<wire, reading, wbuf, werr, wshut, released, procs, ch, counts>>

(* A mutant: a Write that wrote all it was given empties the buffer, and    *)
(* with it what was sent meanwhile.                                         *)
RestNothing(b, n) == IF n = out THEN <<>> ELSE From(b, n + 1)
Rest(b, n) == From(b, n + 1)

(* Write returns: everything is taken, or it fails. *)
WriteEnd(err) ==
  /\ wpc = "writing"
  /\ IF err THEN peer # "open" \/ conn = "closed" \/ deadline ELSE taken = out
  /\ wbuf' = Rest(wbuf, taken)
  /\ werr' = (werr \/ err)
  /\ wpc' = "woken"
  /\ out' = 0 /\ taken' = 0
  /\ ch' = Notified
  /\ UNCHANGED <<wire, reading, wshut, released, procs, counts>>

(* CloseWrite, where the connection has one: an in-memory pipe has not. *)
WriteClose ==
  /\ wpc \in {"close", "closewrite"}
  /\ conn' \in IF wpc = "close" THEN {"closed"}
               ELSE IF conn = "open" THEN {"open", "shut"} ELSE {conn}
  /\ wpc' = "notify"
  /\ UNCHANGED <<deadline, peer, inq, reading, wbuf, werr, wshut, out, taken, released,
                 procs, ch, counts>>

WriteNotify ==
  /\ wpc = "notify"
  /\ wpc' = "ended"
  /\ ch' = Notified
  /\ UNCHANGED <<wire, reading, wbuf, werr, wshut, out, taken, released, procs, counts>>

WriteLoop == WriteBegin \/ (\E err \in BOOLEAN : WriteEnd(err)) \/ WriteClose \/ WriteNotify

Wdone == wpc \in {"close", "closewrite", "notify", "ended"}

-----------------------------------------------------------------------------
(* Calls of processes.  Results below zero are errors; zero is the end of   *)
(* the stream.                                                              *)
EAGAIN == -1
EPIPE == -2
ECONNRESET == -3

RecvResult(n) == IF rbuf # <<>> THEN Least(n, Len(rbuf))
                 ELSE IF rerr = "eof" THEN 0 ELSE IF rerr = "err" THEN ECONNRESET ELSE EAGAIN

SendResult(n) == IF werr \/ wshut THEN EPIPE
                 ELSE IF Len(wbuf) >= Room THEN EAGAIN ELSE Least(n, Room - Len(wbuf))

PollBits ==
  (IF rbuf # <<>> \/ rerr # "nil" THEN {"IN"} ELSE {}) \cup
  (IF rerr = "err" \/ werr THEN {"ERR"} ELSE {}) \cup
  (IF ~werr /\ ~wshut /\ Len(wbuf) < Room THEN {"OUT"} ELSE {}) \cup
  (IF rerr # "nil" /\ (wshut \/ werr) THEN {"HUP"} ELSE {})
Ready(ev) == PollBits \cap {ev, "ERR", "HUP"} # {}

(* Recv, Send, Read, Write and Poll of host.go, up to the channel that a    *)
(* call takes before it tries.                                              *)
Call(p, c) ==
  /\ p \in holds /\ c.k \in Kinds[p]
  /\ Goto(p, "guest", "op")
  /\ op' = [op EXCEPT ![p] = c]
  /\ ch' = [ch EXCEPT ![p] = "open"]
  /\ UNCHANGED <<wire, reading, writing, released, holds, counts>>

Return(p) == /\ pc' = [pc EXCEPT ![p] = "guest"]
             /\ op' = [op EXCEPT ![p] = NoCall]
             /\ ch' = [ch EXCEPT ![p] = "none"]

(* A call returns; what would block parks, or returns EAGAIN if the         *)
(* descriptor or the call (MSG_DONTWAIT) is non-blocking.                   *)
ReturnOrPark(p, r) ==
  \/ Return(p)
  \/ r = EAGAIN /\ Goto(p, "op", "park") /\ UNCHANGED <<op, ch>>

Recv(p) ==
  LET r == RecvResult(op[p].n) IN
  /\ pc[p] = "op" /\ op[p].k \in {"recv", "peek"}
  /\ IF r > 0 /\ op[p].k = "recv"
     THEN /\ rbuf' = From(rbuf, r + 1)
          /\ nRecv' = nRecv + r
          /\ rpc' = Signalled(rpc, "room")
     ELSE UNCHANGED <<rbuf, nRecv, rpc>>
  /\ ReturnOrPark(p, r)
  /\ UNCHANGED <<wire, rerr, writing, released, holds, nIn, nSent, nPeer>>

(* SIGPIPE, which follows EPIPE, is the business of Signals.tla. *)
Send(p) ==
  LET r == SendResult(op[p].n) IN
  /\ pc[p] = "op" /\ op[p].k = "send"
  /\ nSent + r <= MaxOut
  /\ IF r > 0
     THEN /\ wbuf' = wbuf \o [i \in 1..r |-> nSent + i]
          /\ nSent' = nSent + r
          /\ wpc' = Signalled(wpc, "wait")
     ELSE UNCHANGED <<wbuf, nSent, wpc>>
  /\ ReturnOrPark(p, r)
  /\ UNCHANGED <<wire, reading, werr, wshut, out, taken, released, holds, nIn, nRecv, nPeer>>

Poll(p) ==
  /\ pc[p] = "op" /\ op[p].k \in {"IN", "OUT"}
  /\ ReturnOrPark(p, IF Ready(op[p].k) THEN 0 ELSE EAGAIN)
  /\ UNCHANGED <<wire, reading, writing, released, holds, counts>>

(* Woken, a call takes a new channel and tries again. *)
ParkWoken(p) ==
  /\ ch[p] = "closed"
  /\ Goto(p, "park", "op")
  /\ ch' = [ch EXCEPT ![p] = "open"]
  /\ UNCHANGED <<wire, reading, writing, released, holds, op, counts>>

(* A signal, a timeout or SIGKILL. *)
ParkEnded(p) ==
  /\ pc[p] = "park"
  /\ Return(p)
  /\ UNCHANGED <<wire, reading, writing, released, holds, counts>>

(* shutdown(SHUT_WR) and SHUT_RDWR; SHUT_RD changes nothing. *)
Shutdown(p) ==
  /\ p \in holds /\ pc[p] = "guest"
  /\ wshut' = TRUE
  /\ wpc' = Signalled(wpc, "wait")
  /\ UNCHANGED <<wire, reading, wbuf, werr, out, taken, released, procs, ch, counts>>

(* close, or the end of the process.  The last one enters release; what it  *)
(* does after the unlock depends on wdone.                                  *)
Close(p) ==
  /\ p \in holds /\ pc[p] = "guest"
  /\ holds' = holds \ {p}
  /\ IF holds = {p}
     THEN /\ pc' = [pc EXCEPT ![p] = IF Wdone THEN "close" ELSE "linger"]
          /\ released' = TRUE
          /\ wshut' = TRUE
          /\ wpc' = Signalled(wpc, "wait")
          /\ rpc' = Signalled(rpc, "room")
     ELSE /\ pc' = [pc EXCEPT ![p] = "gone"]
          /\ UNCHANGED <<released, wshut, wpc, rpc>>
  /\ UNCHANGED <<wire, rbuf, rerr, wbuf, werr, out, taken, op, ch, counts>>

(* A mutant: a release that leaves the closing to writeLoop in any case. *)
ReleaseNoClose(p) ==
  /\ pc[p] \in {"close", "linger"}
  /\ deadline' = TRUE
  /\ pc' = [pc EXCEPT ![p] = "gone"]
  /\ ch' = Notified
  /\ UNCHANGED <<conn, peer, inq, reading, writing, released, holds, op, counts>>
Release(p) ==
  /\ \/ pc[p] = "close" /\ conn' = "closed" /\ UNCHANGED deadline
     \/ pc[p] = "linger" /\ deadline' = TRUE /\ UNCHANGED conn
  /\ pc' = [pc EXCEPT ![p] = "gone"]
  /\ ch' = Notified
  /\ UNCHANGED <<peer, inq, reading, writing, released, holds, op, counts>>

-----------------------------------------------------------------------------
InHost(p) == \/ Recv(p) \/ Send(p) \/ Poll(p) \/ ParkWoken(p) \/ Release(p)

Next == \/ PeerSend \/ PeerTake \/ PeerLeave("closed") \/ PeerLeave("reset")
        \/ (\E n \in 1..Chunk : ReadData(n)) \/ ReadEnd \/ ReadRoom \/ ReadNotify
        \/ WriteBegin \/ (\E err \in BOOLEAN : WriteEnd(err)) \/ WriteClose \/ WriteNotify
        \/ \E p \in Procs :
             \/ \E c \in Calls : Call(p, c)
             \/ Recv(p) \/ Send(p) \/ Poll(p)
             \/ ParkWoken(p) \/ ParkEnded(p)
             \/ Shutdown(p) \/ Close(p) \/ Release(p)

(* Goroutines inside the kernel keep running; a Read or Write of the host   *)
(* connection that can return does.  The peer and the programs owe nothing. *)
Fairness == /\ WF_vars(ReadLoop) /\ WF_vars(WriteLoop)
            /\ \A p \in Procs : WF_vars(InHost(p))

SafeSpec == Init /\ [][Next]_vars
Spec == SafeSpec /\ Fairness

-----------------------------------------------------------------------------
(* Properties. *)

Consecutive(s, k) == \A i \in DOMAIN s : s[i] = k + i

(* Both directions are streams: what is buffered continues, without a gap,  *)
(* what has been received, up to the last byte sent; sends during a Write,  *)
(* partial writes and peeks included.                                       *)
StreamsIntact ==
  /\ Consecutive(rbuf \o inq, nRecv) /\ nRecv + Len(rbuf) + Len(inq) = nIn
  /\ Consecutive(wbuf, nPeer - taken) /\ nPeer - taken + Len(wbuf) = nSent

CanGoOn(p) == \/ op[p].k \in {"recv", "peek"} /\ RecvResult(op[p].n) # EAGAIN
              \/ op[p].k = "send" /\ SendResult(op[p].n) # EAGAIN
              \/ op[p].k \in {"IN", "OUT"} /\ Ready(op[p].k)

(* A parked call that could go on has been woken, or readLoop, having       *)
(* unlocked, is about to notify.  shutdown does not notify: a send, or a    *)
(* poll for output, that waits for room when another process shuts the      *)
(* socket down could fail at once, and sleeps until the Write in progress   *)
(* returns, for as long as the peer likes.  That is the only exception, and *)
(* none for a call that waits for input.                                    *)
NotifyDue == rpc \in {"notify", "stop"}
AsleepInShutdown(p) ==
  /\ op[p].k \in {"send", "OUT"}
  /\ wshut /\ Len(wbuf) >= Room /\ wpc \in {"woken", "writing"}
NoMissedChange ==
  \A p \in Procs : (pc[p] = "park" /\ ch[p] = "open" /\ CanGoOn(p)) =>
    NotifyDue \/ AsleepInShutdown(p)

(* "Buffered output is still flushed": the connection, or its write half,   *)
(* is closed only after everything was written or writing has failed.       *)
FlushedBeforeClose == conn # "open" => (wbuf = <<>> \/ werr)

(* Neither loop sleeps when it has something to do. *)
NoIdleLoop ==
  /\ wpc = "wait" => (wbuf = <<>> /\ ~wshut /\ ~werr)
  /\ rpc = "room" => (Len(rbuf) >= Ahead /\ rerr = "nil" /\ ~released)

(* "release closes the socket once the last descriptor is gone": the        *)
(* connection is closed and both goroutines end, whatever the peer does.    *)
ReleaseEndsAll ==
  released ~> (conn = "closed" /\ rpc = "ended" /\ wpc = "ended")
=============================================================================
