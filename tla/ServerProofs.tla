---------------------------- MODULE ServerProofs ----------------------------
(***************************************************************************)
(* Safety of listeners, accept queues and dials (Server.tla), for any      *)
(* number of processes, clients and connections.                           *)
(***************************************************************************)
EXTENDS Server, TLAPS

(* A dialer that waits has a listener and a connection, and so has an       *)
(* acceptLoop that has accepted one.                                        *)
InHand ==
  /\ \A d \in Dialers : dial[d] = "dialing" => to[d] \in Procs /\ conn[d] \in Conns
  /\ \A p \in Procs : loop[p] = "got" => hand[p] \in Conns

(* Only a release that has begun has connections to close. *)
DoomedByRelease == \A p \in Procs : release[p] = "no" => doomed[p] = {}

TypeInv == TypeOK /\ InHand

-----------------------------------------------------------------------------
(* The connection that a dial takes is one of the unused ones. *)
LEMMA FreshIsUnused ==
  ASSUME \E c \in Conns : Unused(c)
  PROVE  Fresh \in Conns /\ Unused(Fresh)
BY DEF Fresh

(* What is left in a queue when its head is taken. *)
LEMMA TailKeepsOthers ==
  ASSUME NEW q \in Seq(Conns), q # <<>>
  PROVE  /\ Head(q) \in Conns
         /\ Tail(q) \in Seq(Conns)
         /\ \A c \in ToSet(q) : c = Head(q) \/ c \in ToSet(Tail(q))
<1>1. Len(q) >= 1 /\ Head(q) = q[1] /\ Tail(q) \in Seq(Conns)
  OBVIOUS
<1>2. \A i \in 2..Len(q) : i - 1 \in DOMAIN Tail(q) /\ Tail(q)[i - 1] = q[i]
  OBVIOUS
<1>3. ASSUME NEW c \in ToSet(q) PROVE c = Head(q) \/ c \in ToSet(Tail(q))
  <2>1. PICK i \in DOMAIN q : c = q[i]
    BY <1>3 DEF ToSet
  <2>2. CASE i = 1
    BY <2>1, <2>2, <1>1
  <2>3. CASE i # 1
    <3>1. i \in 2..Len(q)
      BY <2>3
    <3>2. i - 1 \in DOMAIN Tail(q) /\ Tail(q)[i - 1] = c
      BY <3>1, <2>1, <1>2
    <3> QED
      BY <3>2 DEF ToSet
  <2> QED
    BY <2>2, <2>3
<1> QED
  BY <1>1, <1>3

LEMMA AppendKeepsAll ==
  ASSUME NEW q \in Seq(Conns), NEW c \in Conns
  PROVE  /\ Append(q, c) \in Seq(Conns)
         /\ c \in ToSet(Append(q, c))
         /\ \A x \in ToSet(q) : x \in ToSet(Append(q, c))
<1>1. Append(q, c) \in Seq(Conns) /\ Len(q) + 1 \in DOMAIN Append(q, c)
      /\ Append(q, c)[Len(q) + 1] = c
  OBVIOUS
<1>2. \A i \in DOMAIN q : i \in DOMAIN Append(q, c) /\ Append(q, c)[i] = q[i]
  OBVIOUS
<1> QED
  BY <1>1, <1>2 DEF ToSet

LEMMA QueueIsOfConns ==
  ASSUME NEW q \in Seq(Conns)
  PROVE  ToSet(q) \subseteq Conns
BY DEF ToSet

-----------------------------------------------------------------------------
LEMMA TypeInit == Init => TypeInv
<1> SUFFICES ASSUME Init PROVE TypeInv
  OBVIOUS
<1> USE DEF Init, None
<1>1. queue \in [Procs -> Seq(Conns)] /\ doomed \in [Procs -> SUBSET Conns]
  OBVIOUS
<1>2. TypeOK
  BY <1>1 DEF TypeOK
<1>3. InHand
  BY DEF InHand
<1> QED
  BY <1>2, <1>3 DEF TypeInv

LEMMA TypeStep == TypeInv /\ [Next]_vars => TypeInv'
<1> SUFFICES ASSUME TypeInv, [Next]_vars PROVE TypeInv'
  OBVIOUS
<1> USE ServerAssumption DEF TypeInv, TypeOK, InHand, life, listeners, accepting, dialing
<1>1. CASE StartPostmaster
  BY <1>1 DEF StartPostmaster, Postmaster, Procs
<1>2. CASE CtxDone \/ Pause \/ Close \/ CloseWaited \/ CloseReturn \/ DialNobody
  BY <1>2, ZenonT(30) DEF CtxDone, Pause, Close, CloseWaited, CloseReturn, DialNobody
<1>3. ASSUME NEW r \in {"ready", "pause", "fail"}, ProbeAnswer(r) PROVE TypeInv'
  BY <1>3 DEF ProbeAnswer, Disconnected
<1>4. ASSUME NEW p \in Procs, Spawn(p) \/ Finish(p) PROVE TypeInv'
  BY <1>4, ZenonT(30) DEF Spawn, Finish
<1>5. ASSUME NEW p \in Procs, BindName(p) PROVE TypeInv'
  BY <1>5 DEF BindName
<1>19. ASSUME NEW p \in Procs, NEW ok \in BOOLEAN, BindHost(p, ok) PROVE TypeInv'
  <2>1. closed' \in [Procs -> BOOLEAN] /\ named' \in Procs \cup {None}
    BY <1>19, Zenon DEF BindHost
  <2>2. sock' \in [Procs -> {"new", "binding", "bound", "listening", "failed"}]
    BY <1>19 DEF BindHost
  <2> QED
    BY <1>19, <2>1, <2>2 DEF BindHost
<1>6. ASSUME NEW p \in Procs, Listen(p) PROVE TypeInv'
  BY <1>6 DEF Listen
<1>7. ASSUME NEW p \in Procs, Accept(p) PROVE TypeInv'
  <2>1. Head(queue[p]) \in Conns /\ Tail(queue[p]) \in Seq(Conns)
    BY <1>7, TailKeepsOthers DEF Accept, TakeFirst
  <2> QED
    BY <1>7, <2>1, ZenonT(30) DEF Accept, TakeFirst
<1>8. ASSUME NEW p \in Procs, Exit(p) \/ CloseSocket(p) PROVE TypeInv'
  <2>1. ToSet(queue[p]) \subseteq Conns
    BY QueueIsOfConns
  <2>2. CASE Mark(p)
    <3>1. proc' \in [Procs -> {"none", "up", "exiting", "gone"}]
      <4>1. CASE Exit(p)
        BY <4>1 DEF Exit
      <4>2. CASE CloseSocket(p)
        BY <4>2 DEF CloseSocket
      <4> QED
        BY <1>8, <4>1, <4>2
    <3>2. queue' \in [Procs -> Seq(Conns)]
      BY <2>2 DEF Mark
    <3>3. doomed' \in [Procs -> SUBSET Conns]
      BY <2>1, <2>2 DEF Mark
    <3> QED
      BY <2>2, <3>1, <3>2, <3>3 DEF Mark
  <2>3. CASE ~Mark(p)
    BY <1>8, <2>3, ZenonT(30) DEF Exit, CloseSocket
  <2> QED
    BY <2>2, <2>3
<1>9. ASSUME NEW p \in Procs, ReleaseShut(p) PROVE TypeInv'
  BY <1>9 DEF ReleaseShut
<1>10. ASSUME NEW p \in Procs, ReleaseRest(p) PROVE TypeInv'
  BY <1>10 DEF ReleaseRest
<1>11. ASSUME NEW p \in Procs, LoopQueue(p) PROVE TypeInv'
  <2>1. hand[p] \in Conns
    BY <1>11 DEF LoopQueue
  <2>2. Append(queue[p], hand[p]) \in Seq(Conns)
    BY <2>1, AppendKeepsAll
  <2> QED
    <3>1. queue' \in [Procs -> Seq(Conns)]
      BY <1>11, <2>2, ZenonT(30) DEF LoopQueue
    <3>2. hand' \in [Procs -> Conns \cup {None}] /\ loop' \in [Procs -> {"none", "accept", "got", "ended"}]
      BY <1>11 DEF LoopQueue
    <3>3. server' \in [Conns -> {"pipe", "hand", "queued", "accepted", "closed"}]
      BY <1>11, <2>1 DEF LoopQueue
    <3>4. \A q \in Procs : loop'[q] = "got" => q # p /\ loop[q] = "got" /\ hand'[q] = hand[q]
      BY <1>11 DEF LoopQueue
    <3>5. \A q \in Procs : loop'[q] = "got" => hand'[q] \in Conns
      BY <3>4
    <3> QED
      BY <1>11, <3>1, <3>2, <3>3, <3>5 DEF LoopQueue
<1>12. ASSUME NEW p \in Procs, LoopEnd(p) PROVE TypeInv'
  BY <1>12 DEF LoopEnd
<1>13. ASSUME NEW d \in Dialers, HandOver(d) PROVE TypeInv'
  <2>1. to[d] \in Procs /\ conn[d] \in Conns
    BY <1>13 DEF HandOver
  <2> QED
    BY <1>13, <2>1 DEF HandOver, After
<1>14. ASSUME NEW d \in Dialers, DialFails(d) PROVE TypeInv'
  BY <1>14 DEF DialFails, Disconnected, After
<1>15. ASSUME NEW d \in Dialers, Leave(d) PROVE TypeInv'
  BY <1>15 DEF Leave, Disconnected
<1>16. ASSUME NEW d \in Dialers, Dial(d) PROVE TypeInv'
  <2>1. Fresh \in Conns /\ named \in Procs
    BY <1>16, FreshIsUnused DEF Dial
  <2> QED
    BY <1>16, <2>1 DEF Dial, After
<1>17. ASSUME NEW c \in Conns, ServerCloses(c) PROVE TypeInv'
  BY <1>17 DEF ServerCloses
<1>18. CASE UNCHANGED vars
  BY <1>18 DEF vars
<1> QED
  BY <1>1, <1>2, <1>3, <1>4, <1>5, <1>6, <1>7, <1>8, <1>9, <1>10, <1>11, <1>12, <1>13,
     <1>14, <1>15, <1>16, <1>17, <1>18, <1>19 DEF Next

(* Every state of the server, its listeners and its dialers is well typed,  *)
(* and a dial that waits has a listener and a connection.                   *)
THEOREM TypeCorrect == SafeSpec => []TypeInv
BY TypeInit, TypeStep, PTL DEF SafeSpec

-----------------------------------------------------------------------------
LEMMA NameStep == TypeInv /\ NameIsLive /\ [Next]_vars => NameIsLive'
<1> SUFFICES ASSUME TypeInv, NameIsLive, [Next]_vars PROVE NameIsLive'
  OBVIOUS
<1> USE DEF TypeInv, TypeOK, NameIsLive, life, listeners, accepting, dialing
<1>1. ASSUME NEW p \in Procs, BindName(p) PROVE NameIsLive'
  BY <1>1 DEF BindName, Held
<1>2. ASSUME NEW p \in Procs, NEW ok \in BOOLEAN, BindHost(p, ok) PROVE NameIsLive'
  BY <1>2 DEF BindHost
<1>3. ASSUME NEW p \in Procs, Listen(p) PROVE NameIsLive'
  BY <1>3 DEF Listen
<1>4. ASSUME NEW p \in Procs, Exit(p) \/ CloseSocket(p) PROVE NameIsLive'
  BY <1>4 DEF Exit, CloseSocket, Mark
<1>5. ASSUME NEW p \in Procs, ReleaseShut(p) PROVE NameIsLive'
  BY <1>5 DEF ReleaseShut
<1>6. ASSUME NEW p \in Procs, ReleaseRest(p) PROVE NameIsLive'
  BY <1>6 DEF ReleaseRest
<1>7. CASE UNCHANGED <<sock, release, named>>
  BY <1>7
<1>8. ASSUME \/ StartPostmaster \/ CtxDone \/ Pause \/ Close \/ CloseWaited \/ CloseReturn \/ DialNobody
             \/ \E r \in {"ready", "pause", "fail"} : ProbeAnswer(r)
             \/ \E p \in Procs : Spawn(p) \/ Finish(p) \/ Accept(p) \/ LoopQueue(p) \/ LoopEnd(p)
             \/ \E d \in Dialers : HandOver(d) \/ DialFails(d) \/ Leave(d) \/ Dial(d)
             \/ \E c \in Conns : ServerCloses(c)
             \/ UNCHANGED vars
      PROVE  UNCHANGED <<sock, release, named>>
  BY <1>8 DEF StartPostmaster, CtxDone, Pause, Close, CloseWaited, CloseReturn, DialNobody, ProbeAnswer,
              Spawn, Finish, Accept, LoopQueue, LoopEnd, HandOver, DialFails, Leave, Dial, ServerCloses, vars
<1> QED
  BY <1>1, <1>2, <1>3, <1>4, <1>5, <1>6, <1>7, <1>8 DEF Next

(* The name that is dialed never leads to a socket that has been closed, or *)
(* to one whose bind failed on the host, however binds, closes and exits of *)
(* any number of processes interleave.                                      *)
THEOREM NameAlwaysLive == SafeSpec => []NameIsLive
<1>1. Init => NameIsLive
  BY DEF Init, NameIsLive
<1> QED
  BY <1>1, TypeCorrect, NameStep, PTL DEF SafeSpec

-----------------------------------------------------------------------------
QueueInv == DoomedByRelease /\ NoOrphan

LEMMA QueueStep == TypeInv /\ TypeInv' /\ QueueInv /\ [Next]_vars => QueueInv'
<1> SUFFICES ASSUME TypeInv, TypeInv', QueueInv, [Next]_vars PROVE QueueInv'
  OBVIOUS
<1> USE DEF TypeInv, TypeOK, QueueInv, DoomedByRelease, NoOrphan, life, listeners, accepting, dialing
<1>1. ASSUME NEW p \in Procs, Accept(p) PROVE QueueInv'
  <2>1. \A c \in ToSet(queue[p]) : c = Head(queue[p]) \/ c \in ToSet(Tail(queue[p]))
    BY <1>1, TailKeepsOthers DEF Accept, TakeFirst
  <2>4. queue' = [queue EXCEPT ![p] = Tail(queue[p])]
    BY <1>1 DEF Accept, TakeFirst
  <2>2. \A q \in Procs : \A c \in ToSet(queue[q]) : c = Head(queue[p]) \/ c \in ToSet(queue'[q])
    BY <2>1, <2>4
  <2>3. \A c \in Conns : server'[c] = "queued" => server[c] = "queued" /\ c # Head(queue[p])
    BY <1>1 DEF Accept, TakeFirst
  <2> QED
    BY <1>1, <2>2, <2>3 DEF Accept, TakeFirst
<1>2. ASSUME NEW p \in Procs, Exit(p) \/ CloseSocket(p) PROVE QueueInv'
  <2>1. CASE Mark(p)
    <3>1. \A q \in Procs, c \in Conns :
            (release[q] = "no" /\ c \in ToSet(queue[q])) =>
              (release'[q] = "no" /\ c \in ToSet(queue'[q])) \/ c \in doomed'[q]
      BY <2>1 DEF Mark
    <3>2. \A q \in Procs : \A c \in doomed[q] : c \in doomed'[q]
      BY <2>1 DEF Mark
    <3>3. \A q \in Procs : release'[q] = "no" => doomed'[q] = {}
      BY <2>1 DEF Mark
    <3> QED
      BY <2>1, <3>1, <3>2, <3>3 DEF Mark
  <2>2. CASE ~Mark(p)
    BY <1>2, <2>2 DEF Exit, CloseSocket
  <2> QED
    BY <2>1, <2>2
<1>3. ASSUME NEW p \in Procs, ReleaseShut(p) PROVE QueueInv'
  BY <1>3 DEF ReleaseShut
<1>4. ASSUME NEW p \in Procs, ReleaseRest(p) PROVE QueueInv'
  <2>1. \A q \in Procs : release'[q] = "no" => release[q] = "no" /\ q # p
    BY <1>4 DEF ReleaseRest
  <2>2. \A q \in Procs : q # p => release'[q] = release[q] /\ doomed'[q] = doomed[q]
    BY <1>4 DEF ReleaseRest
  <2>3. \A c \in Conns : server'[c] = "queued" => server[c] = "queued" /\ c \notin doomed[p]
    BY <1>4 DEF ReleaseRest
  <2>4. queue' = queue /\ release[p] # "no"
    BY <1>4 DEF ReleaseRest
  <2> QED
    BY <2>1, <2>2, <2>3, <2>4
<1>5. ASSUME NEW p \in Procs, LoopQueue(p) PROVE QueueInv'
  <2>1. hand[p] \in Conns
    BY <1>5 DEF LoopQueue, InHand
  <2>2. CASE release[p] = "no"
    <3>1. queue' = [queue EXCEPT ![p] = Append(queue[p], hand[p])]
          /\ server' = [server EXCEPT ![hand[p]] = "queued"] /\ UNCHANGED <<release, doomed>>
      BY <1>5, <2>2 DEF LoopQueue
    <3>2. hand[p] \in ToSet(queue'[p]) /\ \A x \in ToSet(queue[p]) : x \in ToSet(queue'[p])
      BY <2>1, <3>1, AppendKeepsAll
    <3>3. \A q \in Procs : \A x \in ToSet(queue[q]) : x \in ToSet(queue'[q])
      BY <3>1, <3>2
    <3> QED
      BY <2>1, <2>2, <3>1, <3>2, <3>3
  <2>3. CASE release[p] # "no"
    BY <1>5, <2>1, <2>3, SMTT(30) DEF LoopQueue
  <2> QED
    BY <2>2, <2>3
<1>6. ASSUME NEW d \in Dialers, HandOver(d) \/ DialFails(d) PROVE QueueInv'
  BY <1>6 DEF HandOver, DialFails, InHand
<1>7. ASSUME NEW d \in Dialers, Dial(d) PROVE QueueInv'
  BY <1>7, FreshIsUnused DEF Dial
<1>8. ASSUME NEW c \in Conns, ServerCloses(c) PROVE QueueInv'
  BY <1>8 DEF ServerCloses
<1>9. CASE UNCHANGED <<release, queue, doomed, server>>
  BY <1>9
<1>10. ASSUME \/ StartPostmaster \/ CtxDone \/ Pause \/ Close \/ CloseWaited \/ CloseReturn \/ DialNobody
              \/ \E r \in {"ready", "pause", "fail"} : ProbeAnswer(r)
              \/ \E p \in Procs : Spawn(p) \/ Finish(p) \/ BindName(p) \/ Listen(p) \/ LoopEnd(p)
              \/ \E d \in Dialers : Leave(d)
              \/ UNCHANGED vars
       PROVE  UNCHANGED <<release, queue, doomed, server>>
  BY <1>10 DEF StartPostmaster, CtxDone, Pause, Close, CloseWaited, CloseReturn, DialNobody, ProbeAnswer,
               Spawn, Finish, BindName, Listen, LoopEnd, Leave, vars
<1>11. ASSUME NEW p \in Procs, NEW ok \in BOOLEAN, BindHost(p, ok) PROVE QueueInv'
  BY <1>11 DEF BindHost
<1> HIDE DEF TypeInv, TypeOK, QueueInv, DoomedByRelease, NoOrphan
<1> QED
  BY <1>1, <1>2, <1>3, <1>4, <1>5, <1>6, <1>7, <1>8, <1>9, <1>10, <1>11 DEF Next

(* A connection that has been handed to a listener is never forgotten: it   *)
(* waits where accept finds it, or release closes it, for any number of     *)
(* listeners that are released while their acceptLoops run.                 *)
THEOREM ConnectionNeverOrphaned == SafeSpec => []NoOrphan
<1>1. Init => QueueInv
  BY DEF Init, QueueInv, DoomedByRelease, NoOrphan
<1>2. TypeInv /\ TypeInv' /\ QueueInv /\ [Next]_vars => QueueInv'
  BY QueueStep
<1>3. QueueInv => NoOrphan
  BY DEF QueueInv
<1> QED
  BY <1>1, <1>2, <1>3, TypeCorrect, PTL DEF SafeSpec
=============================================================================
