---------------------------- MODULE SocketProofs ----------------------------
(***************************************************************************)
(* The pumps of a connected socket (Socket.tla), for any number of         *)
(* processes, any buffer sizes and any lengths of calls.                   *)
(***************************************************************************)
EXTENDS Socket, TLAPS

(* Once writeLoop has left its loop there is nothing left to write, and     *)
(* send refuses more; only then is a release of the kind that closes the    *)
(* connection itself, and only then is the connection closed.  A process in *)
(* a call still has its descriptor.                                         *)
FlushInv ==
  /\ pc \in [Procs -> {"guest", "op", "park", "close", "linger", "gone"}]
  /\ wpc \in {"wait", "woken", "writing", "close", "closewrite", "notify", "ended"}
  /\ \A p \in Procs : pc[p] \in {"op", "park"} => p \in holds
  /\ Wdone => (werr \/ (wbuf = <<>> /\ wshut))
  /\ \A p \in Procs : pc[p] = "close" => Wdone
  /\ conn # "open" => Wdone

LEMMA FlushStep == FlushInv /\ [Next]_vars => FlushInv'
<1> SUFFICES ASSUME FlushInv, [Next]_vars PROVE FlushInv'
  OBVIOUS
<1> USE DEF FlushInv, Wdone, wire, reading, writing, procs, counts
<1>1. CASE PeerSend \/ PeerTake \/ PeerLeave("closed") \/ PeerLeave("reset")
  BY <1>1 DEF PeerSend, PeerTake, PeerLeave
<1>2. ASSUME NEW n \in 1..Chunk, ReadData(n) PROVE FlushInv'
  BY <1>2 DEF ReadData
<1>3. CASE ReadEnd \/ ReadRoom \/ ReadNotify
  BY <1>3 DEF ReadEnd, ReadRoom, ReadNotify
<1>4. CASE WriteBegin
  BY <1>4 DEF WriteBegin, WriteTop
<1>5. ASSUME NEW err \in BOOLEAN, WriteEnd(err) PROVE FlushInv'
  BY <1>5 DEF WriteEnd
<1>6. CASE WriteClose
  BY <1>6 DEF WriteClose
<1>7. CASE WriteNotify
  BY <1>7 DEF WriteNotify
<1>8. ASSUME NEW p \in Procs, (\E c \in Calls : Call(p, c)) \/ Recv(p) \/ Poll(p) PROVE FlushInv'
  BY <1>8 DEF Call, Recv, Poll, ReturnOrPark, Return, Goto
<1>9. ASSUME NEW p \in Procs, Send(p) PROVE FlushInv'
  <2>1. CASE Wdone
    <3>1. ~(SendResult(op[p].n) > 0)
      BY <1>9, <2>1 DEF Send, SendResult, EPIPE, EAGAIN
    <3> QED
      BY <1>9, <2>1, <3>1 DEF Send, ReturnOrPark, Return, Goto
  <2>2. CASE ~Wdone
    BY <1>9, <2>2 DEF Send, Signalled, ReturnOrPark, Return, Goto
  <2> QED
    BY <2>1, <2>2
<1>10. ASSUME NEW p \in Procs, ParkWoken(p) \/ ParkEnded(p) PROVE FlushInv'
  BY <1>10 DEF ParkWoken, ParkEnded, Return, Goto
<1>11. ASSUME NEW p \in Procs, Shutdown(p) PROVE FlushInv'
  BY <1>11 DEF Shutdown, Signalled
<1>12. ASSUME NEW p \in Procs, Close(p) PROVE FlushInv'
  BY <1>12 DEF Close, Signalled
<1>13. ASSUME NEW p \in Procs, Release(p) PROVE FlushInv'
  BY <1>13 DEF Release
<1>14. CASE UNCHANGED vars
  BY <1>14 DEF vars
<1> HIDE DEF FlushInv
<1> QED
  BY <1>1, <1>2, <1>3, <1>4, <1>5, <1>6, <1>7, <1>8, <1>9, <1>10, <1>11, <1>12, <1>13, <1>14 DEF Next

(* Neither release nor writeLoop closes the connection while output that    *)
(* could still be written is buffered, whichever of them comes first and    *)
(* whatever the processes that share the socket do meanwhile.               *)
THEOREM OutputIsFlushed == SafeSpec => []FlushedBeforeClose
<1>1. Init => FlushInv
  BY DEF Init, FlushInv, Wdone
<1>2. FlushInv => FlushedBeforeClose
  BY DEF FlushInv, FlushedBeforeClose
<1> QED
  BY <1>1, <1>2, FlushStep, PTL DEF SafeSpec

-----------------------------------------------------------------------------
LEMMA IdleStep == NoIdleLoop /\ [Next]_vars => NoIdleLoop'
<1> SUFFICES ASSUME NoIdleLoop, [Next]_vars PROVE NoIdleLoop'
  OBVIOUS
<1> USE DEF NoIdleLoop, wire, reading, writing, procs, counts
<1>1. CASE PeerSend \/ PeerTake \/ PeerLeave("closed") \/ PeerLeave("reset")
  BY <1>1 DEF PeerSend, PeerTake, PeerLeave
<1>2. ASSUME NEW n \in 1..Chunk, ReadData(n) PROVE NoIdleLoop'
  BY <1>2 DEF ReadData, AfterRead, Full
<1>3. CASE ReadEnd \/ ReadRoom \/ ReadNotify
  BY <1>3 DEF ReadEnd, ReadRoom, ReadNotify, AfterRead, Full
<1>4. CASE WriteBegin \/ WriteClose \/ WriteNotify
  BY <1>4 DEF WriteBegin, WriteTop, WriteClose, WriteNotify
<1>5. ASSUME NEW err \in BOOLEAN, WriteEnd(err) PROVE NoIdleLoop'
  BY <1>5 DEF WriteEnd
<1>6. ASSUME NEW p \in Procs, Recv(p) PROVE NoIdleLoop'
  BY <1>6 DEF Recv, Signalled
<1>7. ASSUME NEW p \in Procs, Send(p) PROVE NoIdleLoop'
  BY <1>7 DEF Send, Signalled
<1>8. ASSUME NEW p \in Procs,
             (\E c \in Calls : Call(p, c)) \/ Poll(p) \/ ParkWoken(p) \/ ParkEnded(p) \/ Release(p)
      PROVE  NoIdleLoop'
  BY <1>8 DEF Call, Poll, ParkWoken, ParkEnded, Release
<1>9. ASSUME NEW p \in Procs, Shutdown(p) \/ Close(p) PROVE NoIdleLoop'
  BY <1>9 DEF Shutdown, Close, Signalled
<1>10. CASE UNCHANGED vars
  BY <1>10 DEF vars
<1> HIDE DEF NoIdleLoop
<1> QED
  BY <1>1, <1>2, <1>3, <1>4, <1>5, <1>6, <1>7, <1>8, <1>9, <1>10 DEF Next

(* Neither pump sleeps on a condition variable with work to do: every       *)
(* change that either waits for is followed by a signal under the lock.     *)
THEOREM PumpsNeverIdle == SafeSpec => []NoIdleLoop
<1>1. Init => NoIdleLoop
  BY DEF Init, NoIdleLoop
<1> QED
  BY <1>1, IdleStep, PTL DEF SafeSpec

-----------------------------------------------------------------------------
(* The part of the type invariant that the buffers and the calls need. *)
BufferInv ==
  /\ inq \in Seq(Int) /\ rbuf \in Seq(Int) /\ wbuf \in Seq(Int)
  /\ nIn \in Nat /\ nSent \in Nat /\ taken \in Nat
  /\ rerr \in {"nil", "eof", "err"}
  /\ werr \in BOOLEAN /\ wshut \in BOOLEAN
  /\ op \in [Procs -> Calls]
  /\ ch \in [Procs -> {"none", "open", "closed"}]

LEMMA RestIsSequence ==
  ASSUME NEW s \in Seq(Int), NEW n \in Nat
  PROVE  From(s, n + 1) \in Seq(Int)
BY DEF From

LEMMA SentIsSequence ==
  ASSUME NEW k \in Nat, NEW r \in Int
  PROVE  [i \in 1..r |-> k + i] \in Seq(Int)
<1>1. CASE r \in Nat
  BY <1>1
<1>2. CASE r \notin Nat
  <2>1. 1..r = 1..0
    BY <1>2
  <2> QED
    BY <2>1
<1> QED
  BY <1>1, <1>2

LEMMA CallLengths == \A c \in Calls : c.n \in Nat
<1>1. \A n \in Sizes : n \in Nat
  BY SocketAssumption, Zenon
<1>2. TAKE c \in Calls
<1>3. CASE c \in [k : {"recv", "peek", "send"}, n : Sizes]
  <2>1. c.n \in Sizes
    BY <1>3
  <2> QED
    BY <1>1, <2>1
<1>4. CASE c \in [k : {"IN", "OUT", "none"}, n : {0}]
  BY <1>4
<1> QED
  BY <1>2, <1>3, <1>4 DEF Calls

LEMMA NoCallIsOne == NoCall \in Calls
<1>1. NoCall \in [k : {"IN", "OUT", "none"}, n : {0}]
  BY DEF NoCall
<1> QED
  BY <1>1, Zenon DEF Calls

LEMMA BufferStep == BufferInv /\ [Next]_vars => BufferInv'
<1> SUFFICES ASSUME BufferInv, [Next]_vars PROVE BufferInv'
  OBVIOUS
<1> USE DEF BufferInv, wire, reading, writing, procs, counts
<1>1. CASE PeerTake \/ PeerLeave("closed") \/ PeerLeave("reset")
  BY <1>1 DEF PeerTake, PeerLeave
<1>14. CASE PeerSend
  <2>1. inq' \in Seq(Int) /\ nIn' \in Nat
    BY <1>14 DEF PeerSend
  <2> QED
    BY <1>14, <2>1 DEF PeerSend
<1>2. ASSUME NEW n \in 1..Chunk, ReadData(n) PROVE BufferInv'
  <2>1. n \in Nat /\ n <= Len(inq)
    BY <1>2, SocketAssumption DEF ReadData
  <2>2. inq' \in Seq(Int)
    BY <1>2, <2>1, RestIsSequence DEF ReadData
  <2>3. SubSeq(inq, 1, n) \in Seq(Int)
    BY <2>1
  <2>4. rbuf' \in Seq(Int)
    BY <1>2, <2>3 DEF ReadData
  <2> QED
    BY <1>2, <2>2, <2>4 DEF ReadData
<1>3. CASE ReadEnd \/ ReadRoom
  BY <1>3 DEF ReadEnd, ReadRoom
<1>4. CASE ReadNotify \/ WriteNotify
  BY <1>4 DEF ReadNotify, WriteNotify, Notified
<1>5. CASE WriteBegin \/ WriteClose
  BY <1>5 DEF WriteBegin, WriteClose
<1>6. ASSUME NEW err \in BOOLEAN, WriteEnd(err) PROVE BufferInv'
  <2>1. wbuf' \in Seq(Int)
    BY <1>6, RestIsSequence DEF WriteEnd, Rest
  <2>2. ch' \in [Procs -> {"none", "open", "closed"}]
    BY <1>6 DEF WriteEnd, Notified
  <2>3. werr' \in BOOLEAN
    BY <1>6, Zenon DEF WriteEnd
  <2> QED
    BY <1>6, <2>1, <2>2, <2>3 DEF WriteEnd
<1>7. ASSUME NEW p \in Procs, NEW c \in Calls, Call(p, c) PROVE BufferInv'
  BY <1>7 DEF Call
<1>8. ASSUME NEW p \in Procs, Recv(p) PROVE BufferInv'
  <2>1. op' \in [Procs -> Calls] /\ ch' \in [Procs -> {"none", "open", "closed"}]
    BY <1>8, NoCallIsOne DEF Recv, ReturnOrPark, Return
  <2>2. RecvResult(op[p].n) \in Int
    BY CallLengths DEF RecvResult, Least, EAGAIN, ECONNRESET
  <2>3. rbuf' \in Seq(Int)
    BY <1>8, <2>2, RestIsSequence DEF Recv
  <2> QED
    BY <1>8, <2>1, <2>3 DEF Recv
<1>9. ASSUME NEW p \in Procs, Send(p) PROVE BufferInv'
  <2>1. op' \in [Procs -> Calls] /\ ch' \in [Procs -> {"none", "open", "closed"}]
    BY <1>9, NoCallIsOne DEF Send, ReturnOrPark, Return
  <2>2. SendResult(op[p].n) \in Int
    BY CallLengths, SocketAssumption DEF SendResult, Least, EAGAIN, EPIPE
  <2> DEFINE sent == [i \in 1..SendResult(op[p].n) |-> nSent + i]
  <2>3. sent \in Seq(Int)
    BY <2>2, SentIsSequence
  <2>4. wbuf' \in Seq(Int)
    <3>1. wbuf' = wbuf \/ wbuf' = wbuf \o sent
      BY <1>9, Zenon DEF Send
    <3>2. wbuf \in Seq(Int)
      OBVIOUS
    <3> HIDE DEF sent
    <3>3. wbuf \o sent \in Seq(Int)
      BY ONLY <2>3, <3>2
    <3> QED
      BY ONLY <3>1, <3>2, <3>3
  <2>5. nSent' = nSent \/ (SendResult(op[p].n) > 0 /\ nSent' = nSent + SendResult(op[p].n))
    BY <1>9 DEF Send
  <2>6. nSent' \in Nat
    BY <2>2, <2>5
  <2> QED
    BY <1>9, <2>1, <2>4, <2>6 DEF Send
<1>10. ASSUME NEW p \in Procs, Poll(p) \/ ParkWoken(p) \/ ParkEnded(p) PROVE BufferInv'
  BY <1>10, NoCallIsOne DEF Poll, ParkWoken, ParkEnded, ReturnOrPark, Return
<1>11. ASSUME NEW p \in Procs, Shutdown(p) \/ Close(p) PROVE BufferInv'
  BY <1>11 DEF Shutdown, Close
<1>12. ASSUME NEW p \in Procs, Release(p) PROVE BufferInv'
  BY <1>12 DEF Release, Notified
<1>13. CASE UNCHANGED vars
  BY <1>13 DEF vars
<1> HIDE DEF BufferInv
<1> QED
  BY <1>1, <1>2, <1>3, <1>4, <1>5, <1>6, <1>7, <1>8, <1>9, <1>10, <1>11, <1>12, <1>13,
     <1>14 DEF Next

LEMMA BufferCorrect == SafeSpec => []BufferInv
<1>1. ASSUME Init PROVE BufferInv
  <2>1. op \in [Procs -> Calls]
    BY <1>1, NoCallIsOne, Zenon DEF Init
  <2>2. inq \in Seq(Int) /\ rbuf \in Seq(Int) /\ wbuf \in Seq(Int)
    BY <1>1 DEF Init
  <2> QED
    BY <1>1, <2>1, <2>2 DEF Init, BufferInv
<1> QED
  BY <1>1, BufferStep, PTL DEF SafeSpec

-----------------------------------------------------------------------------
(* What a parked call waits for, in terms of the buffers. *)
MayRead == rbuf # <<>> \/ rerr # "nil"
MayWrite == werr \/ wshut \/ Len(wbuf) < Room
MayPollOut == \/ werr \/ rerr = "err" \/ (wshut /\ rerr # "nil")
              \/ (~wshut /\ Len(wbuf) < Room)
MayGoOn(p) == \/ op[p].k \in {"recv", "peek"} /\ MayRead
              \/ op[p].k = "send" /\ MayWrite
              \/ op[p].k = "IN" /\ (MayRead \/ werr)
              \/ op[p].k = "OUT" /\ MayPollOut

LEMMA GoOnMeans == BufferInv => \A p \in Procs : CanGoOn(p) <=> MayGoOn(p)
<1> SUFFICES ASSUME BufferInv, NEW p \in Procs PROVE CanGoOn(p) <=> MayGoOn(p)
  OBVIOUS
<1> DEFINE n == op[p].n
<1>1. n \in Nat
  BY CallLengths DEF BufferInv
<1> HIDE DEF n
<1>2. Len(rbuf) \in Nat /\ (rbuf # <<>> => Len(rbuf) > 0) /\ Len(wbuf) \in Nat /\ Room \in Nat
  BY SocketAssumption DEF BufferInv
<1>3. RecvResult(n) # EAGAIN <=> MayRead
  BY <1>1, <1>2 DEF BufferInv, RecvResult, Least, EAGAIN, ECONNRESET, MayRead
<1>4. SendResult(n) # EAGAIN <=> MayWrite
  BY <1>1, <1>2 DEF BufferInv, SendResult, Least, EAGAIN, EPIPE, MayWrite
<1>5. Ready("IN") <=> (MayRead \/ werr)
  BY DEF BufferInv, Ready, PollBits, MayRead
<1>6. Ready("OUT") <=> MayPollOut
  BY <1>2 DEF BufferInv, Ready, PollBits, MayPollOut
<1> QED
  BY <1>3, <1>4, <1>5, <1>6 DEF CanGoOn, MayGoOn, n

Waits(p) == pc[p] = "park" /\ ch[p] = "open"

(* The one wait that shutdown does not end: for room, with no Write         *)
(* returned since.                                                          *)
Asleep(p) == /\ op[p].k \in {"send", "OUT"}
             /\ wshut /\ ~werr /\ Len(wbuf) >= Room

MissInv == \A p \in Procs : (Waits(p) /\ MayGoOn(p)) => NotifyDue \/ Asleep(p)

(* A step that closes every channel leaves nobody waiting. *)
LEMMA NotifiedWake ==
  ASSUME BufferInv, ch' = Notified, UNCHANGED <<pc, op>> \/ \E p \in Procs : pc' = [pc EXCEPT ![p] = "gone"]
  PROVE  MissInv'
BY DEF BufferInv, Notified, MissInv, Waits

(* A step after which a wait that may go on could go on before. *)
LEMMA NothingNew ==
  ASSUME MissInv, NotifyDue => NotifyDue',
         \A q \in Procs : (Waits(q) /\ MayGoOn(q))' =>
           \/ Waits(q) /\ MayGoOn(q) /\ (Asleep(q) => Asleep(q)')
           \/ NotifyDue'
  PROVE  MissInv'
BY DEF MissInv

LEMMA MissStep == FlushInv /\ BufferInv /\ BufferInv' /\ MissInv /\ [Next]_vars => MissInv'
<1> SUFFICES ASSUME FlushInv, BufferInv, BufferInv', MissInv, [Next]_vars PROVE MissInv'
  OBVIOUS
<1> USE DEF wire, reading, writing, procs, counts
<1>1. CASE PeerSend \/ PeerTake \/ PeerLeave("closed") \/ PeerLeave("reset")
  BY <1>1 DEF PeerSend, PeerTake, PeerLeave, MissInv, Waits, MayGoOn, MayRead, MayWrite, MayPollOut, NotifyDue, Asleep
<1>2. ASSUME NEW n \in 1..Chunk, ReadData(n) PROVE MissInv'
  <2>1. rpc = "read" /\ UNCHANGED <<wbuf, werr, wshut, wpc, rerr, op, pc, ch, released>>
    BY <1>2 DEF ReadData
  <2>2. CASE rpc' = "room"
    <3>1. Len(rbuf') >= Ahead
      BY <1>2, <2>2 DEF ReadData, AfterRead, Full
    <3>2. SubSeq(inq, 1, n) \in Seq(Int) /\ Len(SubSeq(inq, 1, n)) = n /\ n \in Nat /\ n < Ahead
      BY <1>2, SocketAssumption DEF ReadData, BufferInv
    <3>3. rbuf # <<>>
      <4>1. SUFFICES ASSUME rbuf = <<>> PROVE FALSE
        OBVIOUS
      <4>2. rbuf' = <<>> \o SubSeq(inq, 1, n)
        BY <1>2, <4>1 DEF ReadData
      <4>3. Len(rbuf') = n
        BY ONLY <3>2, <4>2
      <4> QED
        BY <3>1, <3>2, <4>3, SocketAssumption
    <3>4. MayRead
      BY <3>3 DEF MayRead
    <3>5. \A q \in Procs : (Waits(q) /\ MayGoOn(q))' => Waits(q) /\ MayGoOn(q) /\ (Asleep(q) => Asleep(q)')
      BY <2>1, <3>4 DEF Waits, MayGoOn, MayWrite, MayPollOut, Asleep
    <3>6. NotifyDue => NotifyDue'
      BY <2>1 DEF NotifyDue
    <3> QED
      BY <3>5, <3>6, NothingNew
  <2>3. CASE rpc' # "room"
    <3>1. NotifyDue'
      BY <1>2, <2>3 DEF ReadData, AfterRead, NotifyDue
    <3> QED
      BY <3>1 DEF MissInv
  <2> QED
    BY <2>2, <2>3
<1>3. CASE ReadEnd
  <2>1. NotifyDue'
    BY <1>3 DEF ReadEnd, AfterRead, Full, NotifyDue
  <2> QED
    BY <2>1 DEF MissInv
<1>4. CASE ReadRoom \/ WriteBegin \/ WriteClose
  <2>1. UNCHANGED <<rbuf, rerr, wbuf, werr, wshut, op, pc, ch>>
    BY <1>4 DEF ReadRoom, WriteBegin, WriteClose
  <2>2. NotifyDue => NotifyDue'
    BY <1>4 DEF ReadRoom, WriteBegin, WriteClose, WriteTop, NotifyDue
  <2> QED
    BY <2>1, <2>2, NothingNew DEF Waits, MayGoOn, MayRead, MayWrite, MayPollOut, Asleep
<1>5. CASE ReadNotify \/ WriteNotify \/ \E err \in BOOLEAN : WriteEnd(err)
  <2>1. ch' = Notified /\ UNCHANGED <<pc, op>>
    BY <1>5 DEF ReadNotify, WriteNotify, WriteEnd
  <2> QED
    BY <2>1, NotifiedWake
<1>6. ASSUME NEW p \in Procs, NEW c \in Calls, Call(p, c) PROVE MissInv'
  <2>1. \A q \in Procs : Waits(q)' => q # p /\ Waits(q) /\ op'[q] = op[q]
    BY <1>6 DEF Call, Goto, Waits, FlushInv, BufferInv
  <2>2. UNCHANGED <<rbuf, rerr, wbuf, werr, wshut, rpc, wpc>>
    BY <1>6 DEF Call
  <2> QED
    BY <2>1, <2>2, NothingNew DEF NotifyDue, MayGoOn, MayRead, MayWrite, MayPollOut, Asleep
<1>7. ASSUME NEW p \in Procs, ParkWoken(p) \/ ParkEnded(p) PROVE MissInv'
  <2>1. \A q \in Procs : Waits(q)' => q # p /\ Waits(q) /\ op'[q] = op[q]
    BY <1>7 DEF ParkWoken, ParkEnded, Return, Goto, Waits, FlushInv, BufferInv
  <2>2. UNCHANGED <<rbuf, rerr, wbuf, werr, wshut, rpc, wpc>>
    BY <1>7 DEF ParkWoken, ParkEnded
  <2> QED
    BY <2>1, <2>2, NothingNew DEF NotifyDue, MayGoOn, MayRead, MayWrite, MayPollOut, Asleep
<1>8. ASSUME NEW p \in Procs, Poll(p) PROVE MissInv'
  <2>1. UNCHANGED <<rbuf, rerr, wbuf, werr, wshut, rpc, wpc>>
    BY <1>8 DEF Poll
  <2>2. \A q \in Procs : Waits(q)' => op'[q] = op[q] /\ (q # p => Waits(q))
    BY <1>8 DEF Poll, ReturnOrPark, Return, Goto, Waits, FlushInv, BufferInv
  <2>3. Waits(p)' => op[p].k \in {"IN", "OUT"} /\ ~Ready(op[p].k)
    BY <1>8 DEF Poll, ReturnOrPark, Return, Goto, Waits, FlushInv, BufferInv, EAGAIN
  <2>4. Waits(p)' => ~MayGoOn(p)
    BY <2>3, GoOnMeans DEF CanGoOn
  <2> QED
    BY <2>1, <2>2, <2>4, NothingNew DEF NotifyDue, MayGoOn, MayRead, MayWrite, MayPollOut, Asleep
<1>9. ASSUME NEW p \in Procs, Recv(p) PROVE MissInv'
  <2>1. UNCHANGED <<rerr, wbuf, werr, wshut, wpc>>
    BY <1>9 DEF Recv
  <2>2. \A q \in Procs : Waits(q)' => op'[q] = op[q] /\ (q # p => Waits(q))
    BY <1>9 DEF Recv, ReturnOrPark, Return, Goto, Waits, FlushInv, BufferInv
  <2>3. Waits(p)' => op[p].k \in {"recv", "peek"} /\ RecvResult(op[p].n) = EAGAIN
    BY <1>9 DEF Recv, ReturnOrPark, Return, Goto, Waits, FlushInv, BufferInv
  <2>4. Waits(p)' => ~MayGoOn(p)
    BY <2>3, GoOnMeans DEF CanGoOn
  <2>5. MayRead' => MayRead
    <3>1. CASE rbuf' = rbuf
      BY <2>1, <3>1 DEF MayRead
    <3>2. CASE rbuf' # rbuf
      <4>1. RecvResult(op[p].n) > 0
        BY <1>9, <3>2 DEF Recv
      <4> QED
        BY <4>1 DEF RecvResult, EAGAIN, ECONNRESET, MayRead
    <3> QED
      BY <3>1, <3>2
  <2>6. NotifyDue => NotifyDue'
    BY <1>9 DEF Recv, Signalled, NotifyDue
  <2> QED
    BY <2>1, <2>2, <2>4, <2>5, <2>6, NothingNew DEF MayGoOn, MayWrite, MayPollOut, Asleep
<1>10. ASSUME NEW p \in Procs, Send(p) PROVE MissInv'
  <2>1. UNCHANGED <<rbuf, rerr, rpc, werr, wshut>>
    BY <1>10 DEF Send
  <2>2. \A q \in Procs : Waits(q)' => op'[q] = op[q] /\ (q # p => Waits(q))
    BY <1>10 DEF Send, ReturnOrPark, Return, Goto, Waits, FlushInv, BufferInv
  <2>3. Waits(p)' => op[p].k = "send" /\ SendResult(op[p].n) = EAGAIN
    BY <1>10 DEF Send, ReturnOrPark, Return, Goto, Waits, FlushInv, BufferInv
  <2>4. Waits(p)' => ~MayGoOn(p)
    BY <2>3, GoOnMeans DEF CanGoOn
  <2>5. /\ Len(wbuf') < Room => Len(wbuf) < Room
        /\ Len(wbuf) >= Room => Len(wbuf') >= Room
    <3> DEFINE sent == [i \in 1..SendResult(op[p].n) |-> nSent + i]
    <3>1. wbuf' = wbuf \/ wbuf' = wbuf \o sent
      BY <1>10, Zenon DEF Send
    <3>2. sent \in Seq(Int)
      <4>1. SendResult(op[p].n) \in Int
        BY CallLengths, SocketAssumption DEF BufferInv, SendResult, Least, EAGAIN, EPIPE
      <4> QED
        BY <4>1, SentIsSequence DEF BufferInv
    <3>3. wbuf \in Seq(Int) /\ Room \in Nat
      BY SocketAssumption DEF BufferInv
    <3> HIDE DEF sent
    <3>4. Len(wbuf \o sent) >= Len(wbuf) /\ Len(wbuf \o sent) \in Nat /\ Len(wbuf) \in Nat
      BY ONLY <3>2, <3>3
    <3> QED
      BY ONLY <3>1, <3>3, <3>4
  <2>6. NotifyDue => NotifyDue'
    BY <1>10 DEF Send, Signalled, NotifyDue
  <2> QED
    BY <2>1, <2>2, <2>4, <2>5, <2>6, NothingNew DEF MayGoOn, MayRead, MayWrite, MayPollOut, Asleep
<1>11. ASSUME NEW p \in Procs, Shutdown(p) \/ Close(p) PROVE MissInv'
  <2>1. UNCHANGED <<rbuf, rerr, wbuf, werr, op, ch>>
    BY <1>11 DEF Shutdown, Close
  <2>2. \A q \in Procs : Waits(q)' => Waits(q)
    BY <1>11 DEF Shutdown, Close, Waits, FlushInv
  <2>3. NotifyDue => NotifyDue'
    BY <1>11 DEF Shutdown, Close, Signalled, NotifyDue, BufferInv
  <2>4. CASE wshut' = wshut
    BY <2>1, <2>2, <2>3, <2>4, NothingNew DEF MayGoOn, MayRead, MayWrite, MayPollOut, Asleep
  <2>5. CASE wshut' # wshut /\ Shutdown(p)
    <3>1. ~wshut /\ wshut'
      BY <2>5 DEF Shutdown, BufferInv
    <3>2. ASSUME NEW q \in Procs, Waits(q)', MayGoOn(q)', ~NotifyDue' PROVE Asleep(q)'
      <4>1. Waits(q) /\ ~MayGoOn(q)
        BY <2>2, <2>3, <3>1, <3>2 DEF MissInv, Asleep
      <4>2. op'[q] = op[q] /\ op[q] \in Calls /\ Len(wbuf) \in Nat /\ Room \in Nat
        BY <2>1, SocketAssumption DEF BufferInv
      <4> QED
        BY <2>1, <3>1, <3>2, <4>1, <4>2 DEF MayGoOn, MayRead, MayWrite, MayPollOut, Asleep
    <3> QED
      BY <3>2 DEF MissInv
  <2>6. CASE wshut' # wshut /\ Close(p)
    <3>1. holds = {p} /\ pc[p] = "guest"
      BY <2>6 DEF Close
    <3>2. \A q \in Procs : ~Waits(q)
      BY <3>1 DEF FlushInv, Waits
    <3> QED
      BY <2>2, <3>2 DEF MissInv
  <2> QED
    BY <1>11, <2>4, <2>5, <2>6
<1>12. ASSUME NEW p \in Procs, Release(p) PROVE MissInv'
  BY <1>12, NotifiedWake DEF Release
<1>13. CASE UNCHANGED vars
  BY <1>13 DEF vars, MissInv, Waits, MayGoOn, MayRead, MayWrite, MayPollOut, NotifyDue, Asleep
<1> QED
  BY <1>1, <1>2, <1>3, <1>4, <1>5, <1>6, <1>7, <1>8, <1>9, <1>10, <1>11, <1>12, <1>13 DEF Next

(* No recv, and no poll for input, stays parked although it could go on,    *)
(* unless readLoop is just about to notify: although readLoop waits for     *)
(* room before it notifies, which rests on one Read returning less than the *)
(* read-ahead.  The same holds of send and of poll for output, except from  *)
(* a shutdown with a full buffer until the Write in progress returns.       *)
THEOREM ChangeNeverMissed == SafeSpec => []NoMissedChange
<1>1. Init => FlushInv /\ MissInv
  BY DEF Init, FlushInv, Wdone, MissInv, Waits
<1>2. FlushInv /\ NoIdleLoop /\ BufferInv /\ MissInv => NoMissedChange
  <2> SUFFICES ASSUME FlushInv, NoIdleLoop, BufferInv, MissInv, NEW p \in Procs,
                      Waits(p), CanGoOn(p), ~NotifyDue
               PROVE  AsleepInShutdown(p)
    BY DEF NoMissedChange, Waits
  <2>1. Asleep(p)
    BY GoOnMeans DEF MissInv
  <2>2. wbuf # <<>>
    BY <2>1, SocketAssumption DEF Asleep
  <2>3. wpc \in {"woken", "writing"}
    BY <2>1, <2>2 DEF Asleep, FlushInv, Wdone, NoIdleLoop
  <2> QED
    BY <2>1, <2>3 DEF Asleep, AsleepInShutdown
<1> QED
  BY <1>1, <1>2, FlushStep, PumpsNeverIdle, BufferCorrect, MissStep, PTL DEF SafeSpec


-----------------------------------------------------------------------------
(* The streams, byte by byte: rbuf continues what was received and the      *)
(* connection what is in rbuf; wbuf begins with what the peer has not got,  *)
(* except for the bytes it has taken of a Write that has not returned.      *)
StreamInv ==
  /\ nRecv \in Nat /\ nPeer \in Nat /\ out \in Nat
  /\ \A i \in 1..Len(rbuf) : rbuf[i] = nRecv + i
  /\ \A i \in 1..Len(inq) : inq[i] = nRecv + Len(rbuf) + i
  /\ nRecv + Len(rbuf) + Len(inq) = nIn
  /\ \A i \in 1..Len(wbuf) : wbuf[i] = nPeer - taken + i
  /\ nPeer - taken + Len(wbuf) = nSent
  /\ taken <= out /\ out <= Len(wbuf)
  /\ wpc # "writing" => taken = 0

LEMMA RestElements ==
  ASSUME NEW s \in Seq(Int), NEW n \in Nat, n <= Len(s)
  PROVE  LET t == From(s, n + 1) IN
         Len(t) = Len(s) - n /\ \A i \in 1..Len(t) : t[i] = s[n + i]
<1> DEFINE t == From(s, n + 1)
<1>1. Len(s) \in Nat
  OBVIOUS
<1>2. Len(t) = IF n + 1 <= Len(s) THEN Len(s) - (n + 1) + 1 ELSE 0
  BY <1>1 DEF From
<1>3. Len(t) = Len(s) - n
  <2> HIDE DEF t
  <2> QED
    BY <1>1, <1>2
<1>4. ASSUME NEW i \in 1..(Len(s) - n) PROVE t[i] = s[n + i]
  <2>1. t[i] = s[(n + 1) + i - 1]
    BY <1>1 DEF From
  <2>2. (n + 1) + i - 1 = n + i
    BY <1>1
  <2> QED
    BY <2>1, <2>2
<1> QED
  BY <1>3, <1>4

LEMMA JoinedElements ==
  ASSUME NEW s \in Seq(Int), NEW t \in Seq(Int)
  PROVE  /\ s \o t \in Seq(Int)
         /\ Len(s \o t) = Len(s) + Len(t)
         /\ \A i \in 1..Len(s) : (s \o t)[i] = s[i]
         /\ \A i \in 1..Len(t) : (s \o t)[Len(s) + i] = t[i]
OBVIOUS

LEMMA StreamStep == BufferInv /\ BufferInv' /\ StreamInv /\ [Next]_vars => StreamInv'
<1> SUFFICES ASSUME BufferInv, BufferInv', StreamInv, [Next]_vars PROVE StreamInv'
  OBVIOUS
<1> USE DEF StreamInv, wire, reading, writing, procs, counts
<1>0. /\ Len(rbuf) \in Nat /\ Len(inq) \in Nat /\ Len(wbuf) \in Nat /\ taken \in Nat
      /\ rbuf \in Seq(Int) /\ inq \in Seq(Int) /\ wbuf \in Seq(Int)
  BY SMTT(30) DEF BufferInv
<1>b. Len(rbuf) \in Nat /\ Len(inq) \in Nat /\ Len(wbuf) \in Nat /\ taken \in Nat
  BY <1>0
<1>a. /\ nRecv \in Nat /\ nPeer \in Nat /\ out \in Nat /\ nIn \in Nat /\ nSent \in Nat
      /\ nRecv + Len(rbuf) + Len(inq) = nIn /\ nPeer - taken + Len(wbuf) = nSent
      /\ taken <= out /\ out <= Len(wbuf)
  BY DEF BufferInv
<1>1. CASE PeerSend
  <2>1. /\ inq' = Append(inq, nIn + 1) /\ nIn' = nIn + 1
        /\ UNCHANGED <<rbuf, nRecv, wbuf, nPeer, nSent, taken, out, wpc>>
    BY <1>1 DEF PeerSend
  <2>2. nIn \in Nat
    BY DEF BufferInv
  <2>3. Len(inq') = Len(inq) + 1 /\ \A i \in 1..Len(inq') : inq'[i] = IF i <= Len(inq) THEN inq[i] ELSE nIn + 1
    BY <1>0, <2>1, <2>2
  <2>4. ASSUME NEW i \in 1..Len(inq') PROVE inq'[i] = nRecv + Len(rbuf) + i
    <3>1. CASE i <= Len(inq)
      <4>1. i \in 1..Len(inq) /\ inq'[i] = inq[i]
        BY ONLY <1>b, <2>3, <3>1, i \in 1..Len(inq')
      <4> QED
        BY <4>1
    <3>2. CASE i > Len(inq)
      <4>1. i = Len(inq) + 1 /\ inq'[i] = nIn + 1
        BY ONLY <1>0, <2>3, <3>2, i \in 1..Len(inq')
      <4> QED
        BY ONLY <1>0, <1>a, <4>1
    <3> QED
      BY ONLY <1>0, <2>3, <3>1, <3>2, i \in 1..Len(inq')
  <2>5. nRecv + Len(rbuf) + Len(inq') = nIn'
    BY ONLY <1>0, <1>a, <2>1, <2>2, <2>3
  <2> QED
    BY <2>1, <2>4, <2>5
<1>2. CASE PeerTake
  BY <1>0, <1>2 DEF PeerTake
<1>3. CASE PeerLeave("closed") \/ PeerLeave("reset") \/ ReadEnd \/ ReadRoom \/ ReadNotify
  BY <1>3 DEF PeerLeave, ReadEnd, ReadRoom, ReadNotify
<1>4. ASSUME NEW n \in 1..Chunk, ReadData(n) PROVE StreamInv'
  <2>1. /\ n \in Nat /\ n <= Len(inq)
        /\ inq' = From(inq, n + 1) /\ rbuf' = rbuf \o SubSeq(inq, 1, n)
        /\ UNCHANGED <<nRecv, nIn, wbuf, nPeer, nSent, taken, out, wpc>>
    BY <1>4, SocketAssumption DEF ReadData
  <2> DEFINE first == SubSeq(inq, 1, n)
  <2>2. first \in Seq(Int) /\ Len(first) = n /\ \A i \in 1..n : first[i] = inq[i]
    BY <1>0, <2>1, SMTT(30)
  <2>3. Len(inq') = Len(inq) - n /\ \A i \in 1..Len(inq') : inq'[i] = inq[n + i]
    <3>1. LET t == From(inq, n + 1) IN
          Len(t) = Len(inq) - n /\ \A i \in 1..Len(t) : t[i] = inq[n + i]
      BY ONLY <1>0, <2>1, RestElements
    <3> QED
      BY ONLY <2>1, <3>1
  <2>4. rbuf' = rbuf \o first
    BY <2>1
  <2> HIDE DEF first
  <2>5. /\ Len(rbuf') = Len(rbuf) + n
        /\ \A i \in 1..Len(rbuf) : rbuf'[i] = rbuf[i]
        /\ \A i \in 1..n : rbuf'[Len(rbuf) + i] = inq[i]
    BY <1>0, <2>2, <2>4, JoinedElements, ZenonT(30)
  <2>6. \A i \in 1..Len(rbuf') : rbuf'[i] = nRecv + i
    <3> SUFFICES ASSUME NEW i \in 1..Len(rbuf') PROVE rbuf'[i] = nRecv + i
      OBVIOUS
    <3>1. CASE i <= Len(rbuf)
      BY <1>0, <2>5, <3>1
    <3>2. CASE i > Len(rbuf)
      <4>1. i - Len(rbuf) \in 1..n /\ i = Len(rbuf) + (i - Len(rbuf)) /\ i - Len(rbuf) \in 1..Len(inq)
        BY <1>0, <2>1, <2>5, <3>2, SMTT(30)
      <4>2. rbuf'[i] = inq[i - Len(rbuf)]
        BY <2>5, <4>1
      <4> QED
        BY <1>0, <4>1, <4>2
    <3> QED
      BY <1>0, <2>1, <2>5, <3>1, <3>2, SMTT(30)
  <2>7. \A i \in 1..Len(inq') : inq'[i] = nRecv + Len(rbuf') + i
    <3> SUFFICES ASSUME NEW i \in 1..Len(inq') PROVE inq'[i] = nRecv + Len(rbuf') + i
      OBVIOUS
    <3>1. n + i \in 1..Len(inq) /\ i \in Nat
      BY <1>0, <2>1, <2>3
    <3>2. inq'[i] = nRecv + Len(rbuf) + (n + i)
      BY <2>3, <3>1
    <3> QED
      BY <1>0, <2>1, <2>5, <3>1, <3>2
  <2>8. nRecv' + Len(rbuf') + Len(inq') = nIn'
    <3>1. n \in Nat /\ Len(inq') = Len(inq) - n /\ Len(rbuf') = Len(rbuf) + n /\ UNCHANGED <<nRecv, nIn>>
      BY <2>1, <2>3, <2>5
    <3> QED
      BY ONLY <1>b, <1>a, <3>1
  <2> QED
    BY <2>1, <2>6, <2>7, <2>8
<1>5. CASE WriteBegin
  <2>1. taken = 0 /\ taken' = 0 /\ out' = Len(wbuf) /\ wpc' = WriteTop
        /\ UNCHANGED <<inq, rbuf, wbuf, counts>>
    BY <1>5 DEF WriteBegin
  <2> QED
    BY <1>0, <2>1
<1>6. ASSUME NEW err \in BOOLEAN, WriteEnd(err) PROVE StreamInv'
  <2>1. /\ wbuf' = From(wbuf, taken + 1) /\ out' = 0 /\ taken' = 0
        /\ UNCHANGED <<inq, rbuf, counts>>
    BY <1>6 DEF WriteEnd, Rest
  <2>2. taken <= Len(wbuf)
    BY <1>0
  <2>3. Len(wbuf') = Len(wbuf) - taken /\ \A i \in 1..Len(wbuf') : wbuf'[i] = wbuf[taken + i]
    <3>1. LET t == From(wbuf, taken + 1) IN
          Len(t) = Len(wbuf) - taken /\ \A i \in 1..Len(t) : t[i] = wbuf[taken + i]
      BY ONLY <1>0, <2>2, RestElements
    <3> QED
      BY ONLY <2>1, <3>1
  <2>4. \A i \in 1..Len(wbuf') : wbuf'[i] = nPeer + i
    <3> SUFFICES ASSUME NEW i \in 1..Len(wbuf') PROVE wbuf'[i] = nPeer + i
      OBVIOUS
    <3>1. taken + i \in 1..Len(wbuf) /\ i \in Nat
      BY <1>0, <2>2, <2>3
    <3>2. wbuf'[i] = nPeer - taken + (taken + i)
      BY <2>3, <3>1
    <3> QED
      BY <1>0, <3>1, <3>2
  <2> QED
    BY <1>0, <2>1, <2>2, <2>3, <2>4, SMTT(30)
<1>7. CASE WriteClose \/ WriteNotify
  BY <1>7 DEF WriteClose, WriteNotify
<1>8. ASSUME NEW p \in Procs, Recv(p) PROVE StreamInv'
  <2> DEFINE r == RecvResult(op[p].n)
  <2>1. UNCHANGED <<inq, wbuf, wpc, out, taken, nIn, nSent, nPeer>>
    BY <1>8 DEF Recv
  <2>2. CASE r > 0 /\ rbuf' = From(rbuf, r + 1) /\ nRecv' = nRecv + r
    <3>1. op[p].n \in Nat
      BY CallLengths DEF BufferInv
    <3>2. r \in Nat /\ r <= Len(rbuf)
      BY <1>0, <2>2, <3>1 DEF RecvResult, Least, EAGAIN, ECONNRESET
    <3> HIDE DEF r
    <3>3. Len(rbuf') = Len(rbuf) - r /\ \A i \in 1..Len(rbuf') : rbuf'[i] = rbuf[r + i]
      <4>1. LET t == From(rbuf, r + 1) IN
            Len(t) = Len(rbuf) - r /\ \A i \in 1..Len(t) : t[i] = rbuf[r + i]
        BY ONLY <1>0, <3>2, RestElements
      <4> QED
        BY ONLY <2>2, <4>1
    <3>4. \A i \in 1..Len(rbuf') : rbuf'[i] = nRecv' + i
      <4> SUFFICES ASSUME NEW i \in 1..Len(rbuf') PROVE rbuf'[i] = nRecv' + i
        OBVIOUS
      <4>1. r + i \in 1..Len(rbuf) /\ i \in Nat
        BY <1>0, <3>2, <3>3
      <4>2. rbuf'[i] = nRecv + (r + i)
        BY <3>3, <4>1
      <4> QED
        BY <1>0, <2>2, <3>2, <4>1, <4>2
    <3>5. nRecv' \in Nat /\ nRecv' + Len(rbuf') = nRecv + Len(rbuf)
      <4>1. r \in Nat /\ r <= Len(rbuf) /\ Len(rbuf') = Len(rbuf) - r /\ nRecv' = nRecv + r
        BY <2>2, <3>2, <3>3
      <4> QED
        BY ONLY <1>b, <1>a, <4>1
    <3> QED
      BY <1>0, <2>1, <3>4, <3>5
  <2>3. CASE UNCHANGED <<rbuf, nRecv>>
    BY <2>1, <2>3
  <2> QED
    BY <1>8, <2>2, <2>3 DEF Recv
<1>9. ASSUME NEW p \in Procs, Send(p) PROVE StreamInv'
  <2> DEFINE r == SendResult(op[p].n)
             t == [i \in 1..r |-> nSent + i]
  <2>1. UNCHANGED <<inq, rbuf, out, taken, nIn, nRecv, nPeer>> /\ (wpc' = "writing" <=> wpc = "writing")
    BY <1>9 DEF Send, Signalled
  <2>2. CASE r > 0 /\ wbuf' = wbuf \o t /\ nSent' = nSent + r
    <3>1. r \in Nat /\ nSent \in Nat
      BY <2>2, CallLengths, SocketAssumption DEF BufferInv, SendResult, Least, EAGAIN, EPIPE
    <3> HIDE DEF r
    <3>2. t \in Seq(Int) /\ Len(t) = r /\ \A i \in 1..r : t[i] = nSent + i
      BY <3>1
    <3> HIDE DEF t
    <3>3. /\ Len(wbuf') = Len(wbuf) + r
          /\ \A i \in 1..Len(wbuf) : wbuf'[i] = wbuf[i]
          /\ \A i \in 1..r : wbuf'[Len(wbuf) + i] = nSent + i
      BY <1>0, <2>2, <3>2, JoinedElements
    <3>4. \A i \in 1..Len(wbuf') : wbuf'[i] = nPeer - taken + i
      <4> SUFFICES ASSUME NEW i \in 1..Len(wbuf') PROVE wbuf'[i] = nPeer - taken + i
        OBVIOUS
      <4>1. CASE i <= Len(wbuf)
        BY <1>0, <3>3, <4>1
      <4>2. CASE i > Len(wbuf)
        <5>1. i - Len(wbuf) \in 1..r /\ i = Len(wbuf) + (i - Len(wbuf))
          BY <1>0, <3>1, <3>3, <4>2
        <5>2. wbuf'[i] = nSent + (i - Len(wbuf))
          BY <3>3, <5>1
        <5> QED
          BY ONLY <1>b, <1>a, <3>1, <5>1, <5>2, SMTT(30)
      <4> QED
        BY <1>0, <3>1, <3>3, <4>1, <4>2
    <3> QED
      <4>1. nPeer' - taken' + Len(wbuf') = nSent' /\ out' <= Len(wbuf') /\ taken' <= out'
        <5>1. r \in Nat /\ Len(wbuf') = Len(wbuf) + r /\ nSent' = nSent + r
              /\ UNCHANGED <<nPeer, taken, out>>
          BY <2>1, <2>2, <3>1, <3>3
        <5> QED
          BY ONLY <1>b, <1>a, <5>1
      <4> QED
        BY <2>1, <3>4, <4>1
  <2>3. CASE UNCHANGED <<wbuf, nSent>>
    BY <2>1, <2>3
  <2> QED
    BY <1>9, <2>2, <2>3 DEF Send
<1>10. ASSUME NEW p \in Procs,
              (\E c \in Calls : Call(p, c)) \/ Poll(p) \/ ParkWoken(p) \/ ParkEnded(p) \/ Release(p)
       PROVE  StreamInv'
  BY <1>10 DEF Call, Poll, ParkWoken, ParkEnded, Release
<1>11. ASSUME NEW p \in Procs, Shutdown(p) \/ Close(p) PROVE StreamInv'
  BY <1>11 DEF Shutdown, Close, Signalled
<1>12. CASE UNCHANGED vars
  BY <1>12 DEF vars
<1> HIDE DEF StreamInv
<1> QED
  BY <1>1, <1>2, <1>3, <1>4, <1>5, <1>6, <1>7, <1>8, <1>9, <1>10, <1>11, <1>12 DEF Next

(* Both directions of a connection are streams for any buffer sizes and any *)
(* lengths of calls: no byte is lost, repeated or reordered by the pumps,   *)
(* by sends during a Write, by writes that fail half-way or by peeks.       *)
THEOREM StreamsAreIntact == SafeSpec => []StreamsIntact
<1>1. Init => StreamInv
  BY DEF Init, StreamInv
<1>2. BufferInv /\ StreamInv => StreamsIntact
  <2> SUFFICES ASSUME BufferInv, StreamInv PROVE StreamsIntact
    OBVIOUS
  <2>1. rbuf \in Seq(Int) /\ inq \in Seq(Int) /\ wbuf \in Seq(Int) /\ taken \in Nat
    BY DEF BufferInv
  <2> DEFINE s == rbuf \o inq
  <2>2. /\ s \in Seq(Int) /\ Len(s) = Len(rbuf) + Len(inq)
        /\ \A i \in 1..Len(rbuf) : s[i] = rbuf[i]
        /\ \A i \in 1..Len(inq) : s[Len(rbuf) + i] = inq[i]
    BY <2>1, JoinedElements
  <2> HIDE DEF s
  <2>3. \A i \in 1..Len(s) : s[i] = nRecv + i
    <3> SUFFICES ASSUME NEW i \in 1..Len(s) PROVE s[i] = nRecv + i
      OBVIOUS
    <3>0. Len(rbuf) \in Nat /\ Len(inq) \in Nat
      BY <2>1
    <3>1. CASE i <= Len(rbuf)
      BY <2>2, <3>0, <3>1 DEF StreamInv
    <3>2. CASE i > Len(rbuf)
      <4>1. i - Len(rbuf) \in 1..Len(inq) /\ i = Len(rbuf) + (i - Len(rbuf))
        BY <2>2, <3>0, <3>2
      <4>2. s[i] = inq[i - Len(rbuf)]
        BY <2>2, <4>1
      <4> QED
        BY <3>0, <4>1, <4>2 DEF StreamInv
    <3> QED
      BY <2>2, <3>0, <3>1, <3>2
  <2>4. DOMAIN s = 1..Len(s) /\ DOMAIN wbuf = 1..Len(wbuf)
    BY <2>1, <2>2
  <2>5. Consecutive(s, nRecv) /\ Consecutive(wbuf, nPeer - taken)
    BY <2>3, <2>4 DEF Consecutive, StreamInv
  <2> QED
    BY <2>5 DEF s, StreamInv, StreamsIntact
<1> QED
  BY <1>1, <1>2, BufferCorrect, StreamStep, PTL DEF SafeSpec
=============================================================================
