---------------------------- MODULE ProcessProofs ----------------------------
(***************************************************************************)
(* Safety of the process table (Process.tla) and of the interval timer     *)
(* (Alarm.tla), for any number of processes, pids and timers.              *)
(***************************************************************************)
EXTENDS Process, Alarm, TLAPS

(* Whoever spawns or reaps has a child in hand; a process that exists has a *)
(* pid; one that notifies has a parent to notify.                           *)
InHand ==
  \A p \in Procs :
    /\ pc[p] \in {"spawn1", "spawn2", "reap"} => cur[p] \in Procs /\ pid[cur[p]] \in Pids
    /\ pc[p] # "unborn" => pid[p] \in Pids
    /\ pc[p] \in {"notify", "chld"} => parent[p] \in Procs

TypeInv == TypeOK /\ InHand

(* A process that is being spawned and the parent that spawns it. *)
Birth ==
  \A p \in Procs :
    /\ pc[p] = "spawn1" => pc[cur[p]] = "alloc" /\ parent[cur[p]] = p
    /\ pc[p] = "spawn2" => pc[cur[p]] = "ready" /\ parent[cur[p]] = p
    /\ pc[p] = "alloc" => parent[p] \in Procs /\ pc[parent[p]] = "spawn1" /\ cur[parent[p]] = p
    /\ pc[p] = "ready" => parent[p] \in Procs /\ pc[parent[p]] = "spawn2" /\ cur[parent[p]] = p
    /\ pc[p] \in {"unborn", "alloc", "ready"} =>
         ~parentGone[p] /\ children[p] = {} /\ \A q \in Procs : p \notin children[q]
    /\ pc[p] = "unborn" => parent[p] = None
    /\ parent[p] # p

(* Children know their parent until it reaps them or ends. *)
Family ==
  \A p \in Procs :
    /\ \A c \in children[p] : parent[c] = p /\ ~parentGone[c]
    /\ children[p] # {} => pc[p] \notin {"notify", "chld", "gone"}
    /\ pc[p] = "reap" => /\ Done(cur[p]) /\ parent[cur[p]] = p
                         /\ cur[p] \notin children[p] /\ ~parentGone[cur[p]]

(* The process table and the set of pids in use: a pid in use leads to its  *)
(* process, or to none while that process is being made.                    *)
Table ==
  /\ \A n \in Pids : procs[n] # None =>
       n \in owners /\ pid[procs[n]] = n /\ pc[procs[n]] \notin {"unborn", "alloc"}
  /\ \A c \in Procs : pc[c] = "alloc" => pid[c] \in owners /\ procs[pid[c]] = None
  /\ \A c, d \in Procs : pc[c] = "alloc" /\ pc[d] = "alloc" /\ pid[c] = pid[d] => c = d
  /\ \A n \in owners : procs[n] = None => \E c \in Procs : pc[c] = "alloc" /\ pid[c] = n

(* Whoever is in the table has somebody who will take it out: itself, or    *)
(* the parent that has it as a child, or is just starting or reaping it.    *)
HasReaper(p) ==
  \/ Orphan(p) /\ pc[p] \notin {"notify", "chld", "gone"}
  \/ pc[p] = "ready"
  \/ \E q \in Procs : p \in children[q] \/ (pc[q] = "reap" /\ cur[q] = p)

Reaped ==
  /\ \A n \in Pids : procs[n] # None => HasReaper(procs[n])
  /\ \A p \in Procs : \A d \in children[p] :
       pc[p] = "spawn2" /\ pid[d] = pid[cur[p]] => procs[pid[d]] # d

TableInv == Birth /\ Family /\ Table /\ Reaped

(* A child that is gone has raised SIGCHLD, and the handler that took it    *)
(* has not looked at the children for the last time.                        *)
Announced ==
  \A p \in Procs : \A c \in children[p] : pc[c] = "gone" =>
    chld[p] \/ (reaping[p] /\ want[p] = None /\ pc[p] \in {"wait", "scan", "reap"})

-----------------------------------------------------------------------------
(* Who keeps a pid: a process until close(done), after it until it forgets  *)
(* the pid itself or its parent does, by reaping it or in its own finish.   *)
KeepsPid(p) ==
  \/ Live(p)
  \/ pc[p] = "done" /\ Orphan(p)
  \/ \E q \in Procs : p \in children[q] \/ (pc[q] = "reap" /\ cur[q] = p)

(* Unless a pid was forgotten twice, the table leads from it to its keeper. *)
Registered == \A p \in Procs : (KeepsPid(p) /\ pid[p] \notin twice) => procs[pid[p]] = p

-----------------------------------------------------------------------------
(* Types. *)

LEMMA NextPid == ASSUME NEW n \in Pids PROVE (n % NPids) + 1 \in Pids
BY ProcAssumption DEF Pids

LEMMA NumberedFromOne == NProcs \in Nat /\ NPids \in Nat /\ None \notin Procs /\ None \notin Pids
                         /\ 1 \in Procs /\ 1 \in Pids
BY ProcAssumption DEF Procs, Pids, None

LEMMA ProcTypeInit == Init => TypeInv
BY NumberedFromOne DEF Init, TypeInv, TypeOK, InHand, Locations

LEMMA ProcTypeStep == TypeInv /\ [Next]_vars => TypeInv'
<1> SUFFICES ASSUME TypeInv, [Next]_vars PROVE TypeInv'
  OBVIOUS
<1> USE NumberedFromOne DEF TypeInv, TypeOK, InHand, Locations, kernelVars, closeVars, waitVars, treeVars
<1>1. ASSUME NEW c \in Procs, NEW n \in Pids, Start(c, n) PROVE TypeInv'
  BY <1>1, NextPid DEF Start, AllocPid
<1>2. ASSUME NEW p \in Procs, NEW c \in Procs, NEW n \in Pids, SpawnAlloc(p, c, n) PROVE TypeInv'
  BY <1>2, NextPid DEF SpawnAlloc, AllocPid, Spawning, IsNext, Unborn
<1>3. ASSUME NEW p \in Procs, SpawnAgain(p) PROVE TypeInv'
  BY <1>3, NextPid DEF SpawnAgain
<1>4. ASSUME NEW p \in Procs, SpawnRegister(p) PROVE TypeInv'
  <2>1. cur[p] \in Procs
    BY <1>4 DEF SpawnRegister
  <2>2. pc' \in [Procs -> Locations] /\ procs' \in [Pids -> Procs \cup {None}]
    BY <1>4, <2>1 DEF SpawnRegister
  <2>3. InHand'
    BY <1>4, <2>1 DEF SpawnRegister
  <2> QED
    BY <1>4, <2>2, <2>3 DEF SpawnRegister
<1>5. ASSUME NEW p \in Procs, SpawnStart(p) PROVE TypeInv'
  <2>1. cur[p] \in Procs
    BY <1>5 DEF SpawnStart
  <2>2. pc' \in [Procs -> Locations] /\ children' \in [Procs -> SUBSET Procs]
    BY <1>5, <2>1 DEF SpawnStart
  <2>3. InHand'
    BY <1>5, <2>1 DEF SpawnStart
  <2> QED
    BY <1>5, <2>2, <2>3 DEF SpawnStart
<1>6. ASSUME NEW p \in Procs, NEW w \in Pids \cup {None}, WaitCall(p, w) PROVE TypeInv'
  BY <1>6 DEF WaitCall, Call, Goto
<1>7. ASSUME NEW p \in Procs, HandleSigchld(p) PROVE TypeInv'
  BY <1>7 DEF HandleSigchld, Call, Goto
<1>8. ASSUME NEW p \in Procs, TakeChannel(p) PROVE TypeInv'
  BY <1>8 DEF TakeChannel, Goto
<1>9. ASSUME NEW p \in Procs, NEW c \in Procs, ScanFound(p, c) PROVE TypeInv'
  BY <1>9 DEF ScanFound, Leave, Matches, Done
<1>10. ASSUME NEW p \in Procs, ScanNothing(p) PROVE TypeInv'
  BY <1>10 DEF ScanNothing, Leave
<1>11. ASSUME NEW p \in Procs, Reap(p) PROVE TypeInv'
  BY <1>11 DEF Reap, Goto, Forget
<1>12. ASSUME NEW p \in Procs, ParkWoken(p) \/ ParkInterrupted(p) PROVE TypeInv'
  BY <1>12 DEF ParkWoken, ParkInterrupted, Leave
<1>13. ASSUME NEW p \in Procs, NEW n \in Pids, Kill(p, n) PROVE TypeInv'
  BY <1>13 DEF Kill, Lookup
<1>14. ASSUME NEW p \in Procs, GuestEnds(p) \/ FinishDone(p) PROVE TypeInv'
  <2>1. killed' \in [Procs -> BOOLEAN]
    BY <1>14, Zenon DEF GuestEnds, FinishDone
  <2> QED
    BY <1>14, <2>1 DEF GuestEnds, FinishDone, Goto
<1>15. ASSUME NEW p \in Procs, FinishLocked(p) PROVE TypeInv'
  <2>1. parentGone' \in [Procs -> BOOLEAN]
    BY <1>15, Zenon DEF FinishLocked
  <2>2. procs' \in [Pids -> Procs \cup {None}] /\ owners' \subseteq Pids
    BY <1>15 DEF FinishLocked, Forget
  <2>3. pc' \in [Procs -> Locations] /\ children' \in [Procs -> SUBSET Procs]
    BY <1>15 DEF FinishLocked, Goto
  <2>4. InHand'
    BY <1>15 DEF FinishLocked, Goto, Orphan
  <2> QED
    BY <1>15, <2>1, <2>2, <2>3, <2>4 DEF FinishLocked
<1>16. ASSUME NEW p \in Procs, NotifyParent(p) PROVE TypeInv'
  BY <1>16 DEF NotifyParent, Goto
<1>17. ASSUME NEW p \in Procs, SignalParent(p) PROVE TypeInv'
  BY <1>17 DEF SignalParent, Goto
<1>18. CASE CloseSnapshot \/ CloseReturn
  BY <1>18 DEF CloseSnapshot, CloseReturn
<1>19. ASSUME NEW p \in Procs, CloseKill(p) PROVE TypeInv'
  BY <1>19 DEF CloseKill
<1>20. CASE UNCHANGED vars
  BY <1>20 DEF vars
<1> HIDE DEF TypeInv, TypeOK, InHand
<1> QED
  BY <1>1, <1>2, <1>3, <1>4, <1>5, <1>6, <1>7, <1>8, <1>9, <1>10, <1>11, <1>12, <1>13,
     <1>14, <1>15, <1>16, <1>17, <1>18, <1>19, <1>20 DEF Next

(* Every state of the process table, of its processes and of their waits is *)
(* well typed: a spawn and a reap have their child in hand, and a process   *)
(* that notifies its parent has one.                                        *)
THEOREM ProcTypeCorrect == SafeSpec => []TypeInv
BY ProcTypeInit, ProcTypeStep, PTL DEF SafeSpec

-----------------------------------------------------------------------------
(* The process table. *)

(* Steps that concern neither the table nor the family: nobody moves, or    *)
(* one process does, within the part of its life before close(done) or      *)
(* within the part after FinishLocked.                                      *)
Idle == UNCHANGED <<pc, pid, parent, parentGone, children, cur, procs, owners, twice>>
Early == {"guest", "wait", "scan", "park", "closing"}
Moves(p) ==
  /\ UNCHANGED <<pid, parent, parentGone, children, cur, procs, owners, twice>>
  /\ \E x \in Locations :
       /\ pc' = [pc EXCEPT ![p] = x]
       /\ \/ pc[p] \in Early /\ x \in Early \cup {"done"}
          \/ pc[p] \in {"notify", "chld"} /\ x \in {"chld", "gone"}

LEMMA Steps ==
  ASSUME TypeInv, [Next]_vars
  PROVE  \/ Idle
         \/ \E p \in Procs :
              \/ Moves(p) \/ SpawnRegister(p) \/ SpawnStart(p) \/ Reap(p) \/ FinishLocked(p)
              \/ \E c \in Procs : ScanFound(p, c)
              \/ \E c \in Procs, n \in Pids : SpawnAlloc(p, c, n)
         \/ \E c \in Procs, n \in Pids : Start(c, n)
<1> USE DEF kernelVars, closeVars, waitVars, treeVars
<1>1. ASSUME NEW p \in Procs, \/ SpawnAgain(p) \/ CloseKill(p) \/ \E n \in Pids : Kill(p, n)
      PROVE  Idle
  BY <1>1 DEF SpawnAgain, CloseKill, Kill, Idle
<1>2. ASSUME CloseSnapshot \/ CloseReturn \/ UNCHANGED vars PROVE Idle
  BY <1>2 DEF CloseSnapshot, CloseReturn, vars, Idle
<1>3. ASSUME NEW p \in Procs,
             \/ \E w \in Pids \cup {None} : WaitCall(p, w)
             \/ HandleSigchld(p) \/ TakeChannel(p)
      PROVE  Moves(p)
  BY <1>3 DEF WaitCall, HandleSigchld, Call, TakeChannel, Goto, Moves, Early, Locations
<1>4. ASSUME NEW p \in Procs, ScanNothing(p) \/ ParkWoken(p) \/ ParkInterrupted(p) PROVE Moves(p)
  BY <1>4 DEF ScanNothing, ParkWoken, ParkInterrupted, Leave, Moves, Early, Locations
<1>5. ASSUME NEW p \in Procs, GuestEnds(p) \/ FinishDone(p) \/ NotifyParent(p) \/ SignalParent(p)
      PROVE  Moves(p)
  BY <1>5 DEF GuestEnds, FinishDone, NotifyParent, SignalParent, Goto, Moves, Early, Locations
<1> QED
  BY <1>1, <1>2, <1>3, <1>4, <1>5 DEF Next

LEMMA BirthInit == Init => Birth
BY NumberedFromOne DEF Init, Birth

LEMMA BirthStep ==
  ASSUME TypeInv, TypeInv', Birth, Family, [Next]_vars
  PROVE  Birth'
<1> USE NumberedFromOne DEF TypeInv, TypeOK, InHand, Birth, kernelVars, closeVars, waitVars, treeVars
<1>1. CASE Idle
  BY <1>1 DEF Idle
<1>2. ASSUME NEW p \in Procs, Moves(p) PROVE Birth'
  BY <1>2 DEF Moves, Early
<1>3. ASSUME NEW p \in Procs, SpawnRegister(p) PROVE Birth'
  BY <1>3 DEF SpawnRegister
<1>4. ASSUME NEW p \in Procs, SpawnStart(p) PROVE Birth'
  BY <1>4 DEF SpawnStart
<1>5. ASSUME NEW p \in Procs, Reap(p) PROVE Birth'
  BY <1>5 DEF Reap, Goto
<1>6. ASSUME NEW p \in Procs, FinishLocked(p) PROVE Birth'
  BY <1>6 DEF FinishLocked, Goto, Orphan
<1>7. ASSUME NEW p \in Procs, NEW c \in Procs, ScanFound(p, c) PROVE Birth'
  BY <1>7 DEF ScanFound, Leave
<1>8. ASSUME NEW p \in Procs, NEW c \in Procs, NEW n \in Pids, SpawnAlloc(p, c, n) PROVE Birth'
  BY <1>8 DEF SpawnAlloc, AllocPid, Spawning, IsNext, Unborn
<1>9. ASSUME NEW c \in Procs, NEW n \in Pids, Start(c, n) PROVE Birth'
  BY <1>9 DEF Start, AllocPid, IsNext, Unborn
<1> HIDE DEF TypeInv, TypeOK, InHand, Birth
<1> QED
  BY <1>1, <1>2, <1>3, <1>4, <1>5, <1>6, <1>7, <1>8, <1>9, Steps

LEMMA FamilyStep ==
  ASSUME TypeInv, TypeInv', Birth, Family, [Next]_vars
  PROVE  Family'
<1> USE NumberedFromOne DEF TypeInv, TypeOK, InHand, Birth, Family, Done,
      kernelVars, closeVars, waitVars, treeVars
<1>1. CASE Idle
  BY <1>1 DEF Idle
<1>2. ASSUME NEW p \in Procs, Moves(p) PROVE Family'
  BY <1>2 DEF Moves, Early
<1>3. ASSUME NEW p \in Procs, SpawnRegister(p) PROVE Family'
  BY <1>3 DEF SpawnRegister
<1>4. ASSUME NEW p \in Procs, SpawnStart(p) PROVE Family'
  BY <1>4 DEF SpawnStart
<1>5. ASSUME NEW p \in Procs, Reap(p) PROVE Family'
  BY <1>5 DEF Reap, Goto
<1>6. ASSUME NEW p \in Procs, FinishLocked(p) PROVE Family'
  BY <1>6 DEF FinishLocked, Goto, Orphan
<1>7. ASSUME NEW p \in Procs, NEW c \in Procs, ScanFound(p, c) PROVE Family'
  BY <1>7 DEF ScanFound, Leave, Matches
<1>8. ASSUME NEW p \in Procs, NEW c \in Procs, NEW n \in Pids, SpawnAlloc(p, c, n) PROVE Family'
  BY <1>8, SMTT(30) DEF SpawnAlloc, AllocPid, Spawning, IsNext, Unborn
<1>9. ASSUME NEW c \in Procs, NEW n \in Pids, Start(c, n) PROVE Family'
  BY <1>9 DEF Start, AllocPid, IsNext, Unborn
<1> HIDE DEF TypeInv, TypeOK, InHand, Birth, Family
<1> QED
  BY <1>1, <1>2, <1>3, <1>4, <1>5, <1>6, <1>7, <1>8, <1>9, Steps

LEMMA TableStep ==
  ASSUME TypeInv, TypeInv', Birth, Family, Table, [Next]_vars
  PROVE  Table'
<1> USE NumberedFromOne DEF TypeInv, TypeOK, InHand, Table, kernelVars, closeVars, waitVars, treeVars
<1>1. CASE Idle
  BY <1>1 DEF Idle
<1>2. ASSUME NEW p \in Procs, Moves(p) PROVE Table'
  BY <1>2 DEF Moves, Early
<1>3. ASSUME NEW p \in Procs, SpawnRegister(p) PROVE Table'
  <2> DEFINE c == cur[p]
  <2>1. c \in Procs /\ pc[c] = "alloc" /\ pid[c] \in owners /\ procs[pid[c]] = None
    BY <1>3 DEF SpawnRegister, Birth
  <2>2. \A q \in Procs : /\ pc'[q] = "alloc" <=> pc[q] = "alloc" /\ q # c
                         /\ pc'[q] = "unborn" <=> pc[q] = "unborn"
    BY <1>3, <2>1 DEF SpawnRegister
  <2>3. procs' = [procs EXCEPT ![pid[c]] = c] /\ UNCHANGED <<pid, owners>>
    BY <1>3 DEF SpawnRegister
  <2>4. \A n \in Pids : procs'[n] = IF n = pid[c] THEN c ELSE procs[n]
    BY <2>3
  <2>9. \A n \in Pids : procs[n] # None => procs[n] \in Procs
    OBVIOUS
  <2>8. owners \subseteq Pids /\ \A q \in Procs : pc[q] = "alloc" => pid[q] \in Pids
    OBVIOUS
  <2> HIDE DEF c, TypeInv, TypeOK, InHand
  <2>5. \A n \in Pids : procs'[n] # None =>
          n \in owners /\ pid[procs'[n]] = n /\ pc'[procs'[n]] \notin {"unborn", "alloc"}
    BY <2>1, <2>2, <2>4, <2>9
  <2>6. \A d \in Procs : pc'[d] = "alloc" => pid[d] \in owners /\ procs'[pid[d]] = None
    BY <2>1, <2>2, <2>4, <2>8
  <2>7. \A n \in owners : procs'[n] = None => \E d \in Procs : pc'[d] = "alloc" /\ pid[d] = n
    BY <2>1, <2>2, <2>4, <2>8
  <2> QED
    BY <2>2, <2>3, <2>5, <2>6, <2>7
<1>4. ASSUME NEW p \in Procs, SpawnStart(p) PROVE Table'
  BY <1>4, SMTT(30) DEF SpawnStart, Birth
<1>5. ASSUME NEW p \in Procs, Reap(p) PROVE Table'
  BY <1>5 DEF Reap, Goto, Forget
<1>6. ASSUME NEW p \in Procs, FinishLocked(p) PROVE Table'
  BY <1>6 DEF FinishLocked, Goto, Forget
<1>7. ASSUME NEW p \in Procs, NEW c \in Procs, ScanFound(p, c) PROVE Table'
  BY <1>7 DEF ScanFound, Leave
<1>8. ASSUME NEW p \in Procs, NEW c \in Procs, NEW n \in Pids, SpawnAlloc(p, c, n) PROVE Table'
  BY <1>8 DEF SpawnAlloc, AllocPid, IsFirstFree, Spawning, IsNext, Unborn
<1>9. ASSUME NEW c \in Procs, NEW n \in Pids, Start(c, n) PROVE Table'
  BY <1>9 DEF Start, AllocPid, IsFirstFree, IsNext, Unborn
<1> HIDE DEF TypeInv, TypeOK, InHand, Table
<1> QED
  BY <1>1, <1>2, <1>3, <1>4, <1>5, <1>6, <1>7, <1>8, <1>9, Steps

LEMMA ReapedStep ==
  ASSUME TypeInv, TypeInv', Birth, Family, Table, Table', Reaped, [Next]_vars
  PROVE  Reaped'
<1> USE NumberedFromOne DEF TypeInv, TypeOK, InHand, Reaped, HasReaper, Orphan, kernelVars, closeVars, waitVars, treeVars
<1>1. CASE Idle
  BY <1>1 DEF Idle
<1>2. ASSUME NEW p \in Procs, Moves(p) PROVE Reaped'
  BY <1>2 DEF Moves, Early
<1>3. ASSUME NEW p \in Procs, SpawnRegister(p) PROVE Reaped'
  <2> DEFINE c == cur[p]
  <2>1. c \in Procs /\ pc[p] = "spawn1" /\ pc[c] = "alloc" /\ pid[c] \in Pids
        /\ (\A q \in Procs : c \notin children[q])
    BY <1>3 DEF SpawnRegister, Birth
  <2>2. UNCHANGED <<pid, parent, parentGone, children, cur>>
        /\ \A n \in Pids : procs'[n] = IF n = pid[c] THEN c ELSE procs[n]
    BY <1>3 DEF SpawnRegister
  <2>3. \A q \in Procs : pc'[q] = IF q = c THEN "ready" ELSE IF q = p THEN "spawn2" ELSE pc[q]
    BY <1>3, <2>1 DEF SpawnRegister
  <2>4. /\ \A n \in Pids : procs[n] # None => procs[n] \in Procs
        /\ \A q \in Procs : children[q] \subseteq Procs
        /\ \A q \in Procs : pc[q] \in {"spawn1", "spawn2"} => cur[q] \in Procs /\ pid[cur[q]] \in Pids
    OBVIOUS
  <2> HIDE DEF c, TypeInv, TypeOK, InHand
  <2>5. ASSUME NEW n \in Pids, procs'[n] # None PROVE HasReaper(procs[n])'
    <3>0. PICK x \in Procs : x = procs'[n]
      BY <2>1, <2>2, <2>4, <2>5
    <3>1. CASE x = c
      BY <2>3, <3>0, <3>1
    <3>2. CASE x # c
      <4>1. x = procs[n] /\ HasReaper(x)
        BY <2>2, <2>5, <3>0, <3>2
      <4>2. HasReaper(x)'
        BY <2>1, <2>2, <2>3, <3>2, <4>1
      <4> QED
        BY <3>0, <4>2
    <3> QED
      BY <3>1, <3>2
  <2>6. ASSUME NEW q \in Procs, NEW d \in children'[q], pc'[q] = "spawn2", pid'[d] = pid'[cur'[q]]
        PROVE  procs'[pid'[d]] # d
    <3>1. d \in children[q] /\ d \in Procs /\ d # c /\ q # c
      BY <2>1, <2>2, <2>3, <2>4, <2>6
    <3>2. CASE q = p
      BY <2>1, <2>2, <2>6, <3>1, <3>2 DEF c
    <3>3. CASE q # p
      BY <2>1, <2>2, <2>3, <2>4, <2>6, <3>1, <3>3
    <3> QED
      BY <3>2, <3>3
  <2> QED
    BY <2>5, <2>6
<1>4. ASSUME NEW p \in Procs, SpawnStart(p) PROVE Reaped'
  <2> DEFINE c == cur[p]
  <2>1. c \in Procs /\ pc[p] = "spawn2" /\ pc[c] = "ready"
    BY <1>4 DEF SpawnStart, Birth
  <2>2. pc' = [pc EXCEPT ![p] = "guest", ![c] = "guest"]
        /\ children' = [children EXCEPT ![p] = {d \in children[p] : pid[d] # pid[c]} \cup {c}]
        /\ UNCHANGED <<pid, procs, parent, parentGone>>
        /\ \A q \in Procs : q # p => cur'[q] = cur[q]
    BY <1>4 DEF SpawnStart
  <2> HIDE DEF c
  <2>3. ASSUME NEW n \in Pids, procs[n] # None PROVE HasReaper(procs[n])'
    <3> DEFINE x == procs[n]
    <3>1. x \in Procs /\ pid[x] = n /\ HasReaper(x)
      BY <2>3 DEF Table
    <3>2. CASE x = c
      BY <2>2, <3>2
    <3>3. CASE x # c /\ \E q \in Procs : x \in children[q]
      <4>1. PICK q \in Procs : x \in children[q]
        BY <3>3
      <4>2. q = p => pid[x] # pid[c]
        BY <2>1, <3>1, <4>1 DEF c
      <4>3. x \in children'[q]
        BY <2>2, <4>1, <4>2
      <4> QED
        BY <2>2, <4>3
    <3>4. CASE x # c /\ \E q \in Procs : pc[q] = "reap" /\ cur[q] = x
      BY <2>1, <2>2, <3>4
    <3>5. CASE x # c /\ ((Orphan(x) /\ pc[x] \notin {"notify", "chld", "gone"}) \/ pc[x] = "ready")
      BY <2>1, <2>2, <3>1, <3>5
    <3> QED
      BY <2>2, <3>1, <3>2, <3>3, <3>4, <3>5
  <2>4. \A q \in Procs : \A d \in children'[q] :
          pc'[q] = "spawn2" /\ pid'[d] = pid'[cur'[q]] => procs'[pid'[d]] # d
    BY <2>1, <2>2
  <2> QED
    BY <2>2, <2>3, <2>4
<1>5. ASSUME NEW p \in Procs, Reap(p) PROVE Reaped'
  BY <1>5 DEF Reap, Goto, Forget, Table
<1>6. ASSUME NEW p \in Procs, FinishLocked(p) PROVE Reaped'
  <2>1. \A n \in Pids : procs'[n] # None => procs'[n] = procs[n] /\ n \notin ReleasedByFinish(p)
    BY <1>6 DEF FinishLocked, Forget
  <2>2. \A q \in Procs : /\ q # p => pc'[q] = pc[q] /\ children'[q] = children[q]
                         /\ cur'[q] = cur[q] /\ parent'[q] = parent[q] /\ pid'[q] = pid[q]
    BY <1>6 DEF FinishLocked, Goto
  <2>7. \A q \in Procs : (parentGone[q] => parentGone'[q]) /\ (q \in children[p] => parentGone'[q])
    BY <1>6, Zenon DEF FinishLocked
  <2>3. pc[p] = "done" /\ children'[p] = {}
        /\ pc'[p] = IF Orphan(p) THEN "gone" ELSE "notify"
    BY <1>6 DEF FinishLocked, Goto
  <2>6. /\ \A n \in Pids : procs[n] # None => procs[n] \in Procs
        /\ \A q \in Procs : children'[q] \subseteq Procs
        /\ \A q \in Procs : children[q] \subseteq Procs
        /\ \A q \in Procs : pc[q] = "spawn2" => cur[q] \in Procs /\ pid[cur[q]] \in Pids
    OBVIOUS
  <2> HIDE DEF TypeInv, TypeOK, InHand
  <2>4. ASSUME NEW n \in Pids, procs'[n] # None PROVE HasReaper(procs[n])'
    <3>0. PICK x \in Procs : x = procs[n]
      BY <2>1, <2>4, <2>6
    <3>1. pid[x] = n /\ HasReaper(x) /\ n \notin ReleasedByFinish(p) /\ procs'[n] = x
      BY <2>1, <2>4, <3>0 DEF Table
    <3> SUFFICES HasReaper(x)'
      BY <3>1
    <3>2. CASE x = p
      <4>1. ~Orphan(p)
        BY <3>1, <3>2 DEF ReleasedByFinish
      <4>2. PICK q \in Procs : p \in children[q] \/ (pc[q] = "reap" /\ cur[q] = p)
        BY <2>3, <3>1, <3>2, <4>1
      <4>3. q # p
        BY <2>3, <4>2 DEF Birth, Family
      <4>4. p \in children'[q] \/ (pc'[q] = "reap" /\ cur'[q] = p)
        BY <2>2, <4>2, <4>3
      <4> QED
        BY <3>1, <3>2, <4>4
    <3>3. CASE x # p /\ x \in children[p]
      <4>1. ~Done(x)
        BY <3>1, <3>3 DEF ReleasedByFinish
      <4>2. parentGone'[x] /\ pc'[x] = pc[x]
        BY <2>2, <2>7, <3>1, <3>3
      <4> QED
        BY <3>1, <4>1, <4>2 DEF Done
    <3>4. CASE x # p /\ x \notin children[p]
      <4>1. pc'[x] = pc[x] /\ parent'[x] = parent[x] /\ (parentGone[x] => parentGone'[x])
        BY <2>2, <2>7, <3>1, <3>4
      <4>2. \A q \in Procs : x \in children[q] => x \in children'[q]
        BY <2>2, <3>4
      <4>3. \A q \in Procs : pc[q] = "reap" => pc'[q] = "reap" /\ cur'[q] = cur[q]
        BY <2>2, <2>3
      <4> QED
        BY <3>1, <4>1, <4>2, <4>3
    <3> QED
      BY <3>2, <3>3, <3>4
  <2>5. \A q \in Procs : \A d \in children'[q] :
          pc'[q] = "spawn2" /\ pid'[d] = pid'[cur'[q]] => procs'[pid'[d]] # d
    <3> SUFFICES ASSUME NEW q \in Procs, NEW d \in children'[q], pc'[q] = "spawn2", pid'[d] = pid'[cur'[q]],
                        procs'[pid'[d]] = d
                 PROVE  FALSE
      OBVIOUS
    <3>1. q # p /\ pc[q] = "spawn2" /\ d \in children[q] /\ d \in Procs /\ cur[q] \in Procs
      BY <2>2, <2>3, <2>6
    <3>2. pid[d] = pid[cur[q]] /\ pid[d] \in Pids /\ procs'[pid[d]] = d
      BY <2>2, <2>6, <3>1
    <3>3. procs[pid[d]] = d
      BY <2>1, <3>1, <3>2
    <3> QED
      BY <3>1, <3>2, <3>3
  <2> QED
    BY <2>4, <2>5
<1>7. ASSUME NEW p \in Procs, NEW c \in Procs, ScanFound(p, c) PROVE Reaped'
  BY <1>7 DEF ScanFound, Leave
<1>8. ASSUME NEW p \in Procs, NEW c \in Procs, NEW n \in Pids, SpawnAlloc(p, c, n) PROVE Reaped'
  <2>1. pc[p] = "guest" /\ pc[c] = "unborn" /\ UNCHANGED <<procs, children, parentGone>>
        /\ pc' = [pc EXCEPT ![p] = "spawn1", ![c] = "alloc"]
    BY <1>8 DEF SpawnAlloc, Spawning, IsNext, Unborn
  <2>2. \A q \in Procs : /\ q # c => pid'[q] = pid[q] /\ parent'[q] = parent[q]
                         /\ q # p => cur'[q] = cur[q]
    BY <1>8 DEF SpawnAlloc, AllocPid
  <2>5. /\ \A m \in Pids : procs[m] # None => procs[m] \in Procs
        /\ \A q \in Procs : children[q] \subseteq Procs
        /\ \A q \in Procs : pc[q] = "spawn2" => cur[q] \in Procs
        /\ \A q \in Procs : pc'[q] = IF q = c THEN "alloc" ELSE IF q = p THEN "spawn1" ELSE pc[q]
    BY <2>1
  <2> HIDE DEF TypeInv, TypeOK, InHand
  <2>3. ASSUME NEW m \in Pids, procs[m] # None PROVE HasReaper(procs[m])'
    <3>0. PICK x \in Procs : x = procs[m]
      BY <2>3, <2>5
    <3>1. x # c /\ HasReaper(x) /\ procs'[m] = x
      BY <2>1, <2>3, <3>0 DEF Table
    <3>2. pc'[x] = pc[x] \/ (x = p /\ pc'[x] = "spawn1")
      BY <2>5, <3>1
    <3>3. \A q \in Procs : pc[q] = "reap" => pc'[q] = "reap" /\ cur'[q] = cur[q]
      BY <2>1, <2>2, <2>5
    <3>4. UNCHANGED <<children, parentGone>> /\ parent'[x] = parent[x]
      BY <2>1, <2>2, <3>1
    <3>5. HasReaper(x)'
      <4>1. CASE Orphan(x) /\ pc[x] \notin {"notify", "chld", "gone"}
        BY <3>2, <3>4, <4>1
      <4>2. CASE pc[x] = "ready"
        BY <2>1, <3>2, <4>2
      <4>3. CASE \E q \in Procs : x \in children[q] \/ (pc[q] = "reap" /\ cur[q] = x)
        BY <3>3, <3>4, <4>3
      <4> QED
        BY <3>1, <4>1, <4>2, <4>3
    <3> QED
      BY <3>1, <3>5
  <2>4. ASSUME NEW q \in Procs, NEW d \in children[q], pc'[q] = "spawn2", pid'[d] = pid'[cur'[q]]
        PROVE  procs[pid'[d]] # d
    <3>1. q # p /\ pc[q] = "spawn2" /\ cur'[q] = cur[q] /\ d # c /\ cur[q] # c
      <4>1. q # p /\ q # c /\ pc[q] = "spawn2" /\ cur'[q] = cur[q] /\ d \in Procs /\ cur[q] \in Procs
        <5>1. q # p /\ q # c /\ pc[q] = "spawn2"
          BY <2>4, <2>5
        <5> QED
          BY <2>2, <2>5, <5>1
      <4> QED
        BY <2>1, <2>4, <4>1 DEF Birth
    <3> QED
      BY <2>2, <2>4, <2>5, <3>1
  <2> QED
    BY <2>1, <2>3, <2>4, ZenonT(30)
<1>9. ASSUME NEW c \in Procs, NEW n \in Pids, Start(c, n) PROVE Reaped'
  BY <1>9 DEF Start, AllocPid, IsFirstFree, IsNext, Unborn, Table, Birth
<1> HIDE DEF TypeInv, TypeOK, InHand, Reaped
<1> QED
  BY <1>1, <1>2, <1>3, <1>4, <1>5, <1>6, <1>7, <1>8, <1>9, Steps

LEMMA TableCorrect == SafeSpec => []TableInv
<1>1. Init => TableInv
  <2> SUFFICES ASSUME Init PROVE Family /\ Table /\ Reaped
    BY BirthInit DEF TableInv
  <2> QED
    BY NumberedFromOne DEF Init, Family, Table, Reaped
<1>2. TypeInv /\ TypeInv' /\ TableInv /\ [Next]_vars => TableInv'
  BY BirthStep, FamilyStep, TableStep, ReapedStep DEF TableInv
<1> QED
  BY <1>1, <1>2, ProcTypeCorrect, PTL DEF SafeSpec

(* No pid leaks, whatever the order in which any number of parents and      *)
(* children spawn, exit, reap and are killed: who holds a pid lives, is     *)
(* about to release it in finish, or has a parent that can still reap it.   *)
THEOREM PidsAreNotLeaked == SafeSpec => []NoPidLeak
<1>1. TypeInv /\ TableInv => NoPidLeak
  <2> SUFFICES ASSUME TypeInv, TableInv, NEW n \in owners
               PROVE  \E p \in Procs :
                        /\ pid[p] = n
                        /\ \/ ~Done(p)
                           \/ pc[p] = "done" /\ Orphan(p)
                           \/ \E q \in Procs : /\ pc[q] # "gone"
                                               /\ p \in children[q] \/ (pc[q] = "reap" /\ cur[q] = p)
    BY DEF NoPidLeak
  <2> USE DEF TypeInv, TypeOK, TableInv
  <2>1. CASE procs[n] = None
    BY <2>1 DEF Table, Done
  <2>2. CASE procs[n] # None
    <3>1. procs[n] \in Procs /\ pid[procs[n]] = n /\ HasReaper(procs[n])
      BY <2>2 DEF Table, Reaped
    <3> QED
      BY <3>1 DEF HasReaper, Done, Family
  <2> QED
    BY <2>1, <2>2
<1> QED
  BY <1>1, ProcTypeCorrect, TableCorrect, PTL


-----------------------------------------------------------------------------
(* Waiting for children. *)

LEMMA ChildEventStep ==
  ASSUME TypeInv, TypeInv', Birth, Family, NoLostChildEvent, [Next]_vars
  PROVE  NoLostChildEvent'
<1> USE NumberedFromOne DEF TypeInv, TypeOK, InHand, Birth, Family, NoLostChildEvent, Matches, Done,
      kernelVars, closeVars, waitVars, treeVars
<1>1. ASSUME NEW c \in Procs, NEW n \in Pids, Start(c, n) PROVE NoLostChildEvent'
  BY <1>1 DEF Start, AllocPid, IsNext, Unborn
<1>2. ASSUME NEW p \in Procs, NEW c \in Procs, NEW n \in Pids, SpawnAlloc(p, c, n)
      PROVE  NoLostChildEvent'
  BY <1>2 DEF SpawnAlloc, AllocPid, Spawning, IsNext, Unborn
<1>3. ASSUME NEW p \in Procs, SpawnRegister(p) PROVE NoLostChildEvent'
  BY <1>3 DEF SpawnRegister
<1>4. ASSUME NEW p \in Procs, SpawnStart(p) PROVE NoLostChildEvent'
  BY <1>4 DEF SpawnStart
<1>5. ASSUME NEW p \in Procs, (\E w \in Pids \cup {None} : WaitCall(p, w)) \/ HandleSigchld(p)
      PROVE  NoLostChildEvent'
  BY <1>5 DEF WaitCall, HandleSigchld, Call, Goto
<1>6. ASSUME NEW p \in Procs, TakeChannel(p) PROVE NoLostChildEvent'
  BY <1>6 DEF TakeChannel, Goto
<1>7. ASSUME NEW p \in Procs, NEW c \in Procs, ScanFound(p, c) PROVE NoLostChildEvent'
  BY <1>7 DEF ScanFound, Leave
<1>8. ASSUME NEW p \in Procs, ScanNothing(p) PROVE NoLostChildEvent'
  BY <1>8 DEF ScanNothing, Leave
<1>9. ASSUME NEW p \in Procs, Reap(p) PROVE NoLostChildEvent'
  BY <1>9 DEF Reap, Goto
<1>10. ASSUME NEW p \in Procs, ParkWoken(p) \/ ParkInterrupted(p) PROVE NoLostChildEvent'
  BY <1>10 DEF ParkWoken, ParkInterrupted, Leave
<1>11. ASSUME NEW p \in Procs, GuestEnds(p) \/ FinishDone(p) PROVE NoLostChildEvent'
  BY <1>11 DEF GuestEnds, FinishDone, Goto
<1>12. ASSUME NEW p \in Procs, FinishLocked(p) PROVE NoLostChildEvent'
  BY <1>12 DEF FinishLocked, Goto, Orphan
<1>13. ASSUME NEW p \in Procs, NotifyParent(p) PROVE NoLostChildEvent'
  BY <1>13 DEF NotifyParent, Goto
<1>14. ASSUME NEW p \in Procs, SignalParent(p) PROVE NoLostChildEvent'
  BY <1>14 DEF SignalParent, Goto
<1>15. ASSUME \/ CloseSnapshot \/ CloseReturn \/ UNCHANGED vars
              \/ \E p \in Procs : SpawnAgain(p) \/ CloseKill(p) \/ \E n \in Pids : Kill(p, n)
       PROVE  NoLostChildEvent'
  BY <1>15 DEF CloseSnapshot, CloseReturn, vars, SpawnAgain, CloseKill, Kill
<1> HIDE DEF TypeInv, TypeOK, InHand, Birth, Family, NoLostChildEvent
<1> QED
  BY <1>1, <1>2, <1>3, <1>4, <1>5, <1>6, <1>7, <1>8, <1>9, <1>10, <1>11, <1>12, <1>13,
     <1>14, <1>15 DEF Next

(* waitpid loses no exit, for any number of waiting parents: close(done)    *)
(* comes before the notify and the channel is taken before the scan, so a   *)
(* parent parked with an unclosed channel has no child that has notified.   *)
THEOREM ChildEventsAreNotLost == SafeSpec => []NoLostChildEvent
<1>1. Init => NoLostChildEvent
  BY NumberedFromOne DEF Init, NoLostChildEvent, Matches
<1>2. TypeInv /\ TypeInv' /\ TableInv /\ NoLostChildEvent /\ [Next]_vars => NoLostChildEvent'
  BY ChildEventStep DEF TableInv
<1> QED
  BY <1>1, <1>2, ProcTypeCorrect, TableCorrect, PTL DEF SafeSpec

LEMMA AnnouncedStep ==
  ASSUME TypeInv, TypeInv', Birth, Family, Announced, [Next]_vars
  PROVE  Announced'
<1> USE NumberedFromOne DEF TypeInv, TypeOK, InHand, Birth, Family, Announced, Matches, Done,
      kernelVars, closeVars, waitVars, treeVars
<1>1. ASSUME NEW c \in Procs, NEW n \in Pids, Start(c, n) PROVE Announced'
  BY <1>1 DEF Start, AllocPid, IsNext, Unborn
<1>2. ASSUME NEW p \in Procs, NEW c \in Procs, NEW n \in Pids, SpawnAlloc(p, c, n) PROVE Announced'
  BY <1>2 DEF SpawnAlloc, AllocPid, Spawning, IsNext, Unborn
<1>3. ASSUME NEW p \in Procs, SpawnRegister(p) PROVE Announced'
  BY <1>3 DEF SpawnRegister
<1>4. ASSUME NEW p \in Procs, SpawnStart(p) PROVE Announced'
  BY <1>4 DEF SpawnStart
<1>5. ASSUME NEW p \in Procs, NEW w \in Pids \cup {None}, WaitCall(p, w) PROVE Announced'
  BY <1>5 DEF WaitCall, Call, Goto
<1>6. ASSUME NEW p \in Procs, HandleSigchld(p) PROVE Announced'
  BY <1>6 DEF HandleSigchld, Call, Goto
<1>7. ASSUME NEW p \in Procs, TakeChannel(p) PROVE Announced'
  BY <1>7 DEF TakeChannel, Goto
<1>8. ASSUME NEW p \in Procs, NEW c \in Procs, ScanFound(p, c) PROVE Announced'
  BY <1>8 DEF ScanFound, Leave
<1>9. ASSUME NEW p \in Procs, ScanNothing(p) PROVE Announced'
  BY <1>9 DEF ScanNothing, Leave
<1>10. ASSUME NEW p \in Procs, Reap(p) PROVE Announced'
  BY <1>10 DEF Reap, Goto
<1>11. ASSUME NEW p \in Procs, ParkWoken(p) \/ ParkInterrupted(p) PROVE Announced'
  BY <1>11 DEF ParkWoken, ParkInterrupted, Leave
<1>12. ASSUME NEW p \in Procs, GuestEnds(p) \/ FinishDone(p) \/ NotifyParent(p) PROVE Announced'
  BY <1>12 DEF GuestEnds, FinishDone, NotifyParent, Goto
<1>13. ASSUME NEW p \in Procs, FinishLocked(p) PROVE Announced'
  BY <1>13 DEF FinishLocked, Goto, Orphan
<1>14. ASSUME NEW p \in Procs, SignalParent(p) PROVE Announced'
  BY <1>14 DEF SignalParent, Goto
<1>15. ASSUME \/ CloseSnapshot \/ CloseReturn \/ UNCHANGED vars
              \/ \E p \in Procs : SpawnAgain(p) \/ CloseKill(p) \/ \E n \in Pids : Kill(p, n)
       PROVE  Announced'
  BY <1>15 DEF CloseSnapshot, CloseReturn, vars, SpawnAgain, CloseKill, Kill
<1> HIDE DEF TypeInv, TypeOK, InHand, Birth, Family, Announced
<1> QED
  BY <1>1, <1>2, <1>3, <1>4, <1>5, <1>6, <1>7, <1>8, <1>9, <1>10, <1>11, <1>12, <1>13,
     <1>14, <1>15 DEF Next

(* Merged SIGCHLDs overlook no zombie: when a program has handled every     *)
(* SIGCHLD it got, an exited child it has not reaped is one that has not    *)
(* raised its SIGCHLD yet.                                                  *)
THEOREM ZombiesAreNotForgotten == SafeSpec => []NoForgottenZombie
<1>1. Init => Announced
  BY NumberedFromOne DEF Init, Announced
<1>2. TypeInv /\ TypeInv' /\ TableInv /\ Announced /\ [Next]_vars => Announced'
  BY AnnouncedStep DEF TableInv
<1>3. Announced => NoForgottenZombie
  BY DEF Announced, NoForgottenZombie
<1> QED
  BY <1>1, <1>2, <1>3, ProcTypeCorrect, TableCorrect, PTL DEF SafeSpec


-----------------------------------------------------------------------------
(* Finding living processes. *)

(* Steps that change neither the pids nor the table: the keepers of a pid   *)
(* were keepers before.                                                     *)
LEMMA RegisteredKept ==
  ASSUME Registered, UNCHANGED <<pid, procs, twice>>,
         \A x \in Procs : KeepsPid(x)' => KeepsPid(x)
  PROVE  Registered'
BY DEF Registered

(* Steps that forget pids: each belonged to one keeper only, who is none    *)
(* any more.                                                                *)
LEMMA RegisteredForget ==
  ASSUME TypeInv, TypeInv', Registered, UNCHANGED pid, twice \subseteq twice',
         NEW S, Forget(S),
         \A x \in Procs : KeepsPid(x)' => KeepsPid(x) /\ pid[x] \in Pids,
         \A x \in Procs : KeepsPid(x)' /\ pid[x] \in S /\ pid[x] \notin twice' => procs[pid[x]] # x
  PROVE  Registered'
<1> SUFFICES ASSUME NEW x \in Procs, KeepsPid(x)', pid[x] \notin twice' PROVE procs'[pid[x]] = x
  BY DEF Registered
<1>1. procs[pid[x]] = x /\ pid[x] \in Pids /\ pid[x] \notin S
  BY DEF Registered
<1>2. \A n \in Pids : n \notin S => procs'[n] = procs[n]
  BY DEF Forget
<1> QED
  BY <1>1, <1>2

LEMMA RegisteredStep ==
  ASSUME TypeInv, TypeInv', Birth, Family, Table, Registered, [Next]_vars
  PROVE  Registered'
<1> USE NumberedFromOne DEF TypeInv, TypeOK, InHand, Done, kernelVars, closeVars, waitVars, treeVars
<1>1. CASE Idle
  BY <1>1, RegisteredKept DEF Idle, KeepsPid, Live, Orphan
<1>2. ASSUME NEW p \in Procs, Moves(p) PROVE Registered'
  <2>1. ASSUME NEW x \in Procs, KeepsPid(x)' PROVE KeepsPid(x)
    BY <1>2, <2>1 DEF Moves, Early, KeepsPid, Live, Orphan
  <2> QED
    BY <1>2, <2>1, RegisteredKept DEF Moves
<1>3. ASSUME NEW p \in Procs, SpawnRegister(p) PROVE Registered'
  BY <1>3 DEF SpawnRegister, Birth, Table, Registered, KeepsPid, Live, Orphan
<1>4. ASSUME NEW p \in Procs, SpawnStart(p) PROVE Registered'
  <2>1. ASSUME NEW x \in Procs, KeepsPid(x)' PROVE KeepsPid(x)
    BY <1>4, <2>1 DEF SpawnStart, Birth, KeepsPid, Live, Orphan
  <2> QED
    BY <1>4, <2>1, RegisteredKept DEF SpawnStart
<1>5. ASSUME NEW p \in Procs, Reap(p) PROVE Registered'
  <2>0. PICK c \in Procs : c = cur[p]
    BY <1>5 DEF Reap, Goto
  <2>1. pc[p] = "reap" /\ UNCHANGED <<pid, parent, parentGone, children, twice>>
        /\ Forget({pid[c]})
        /\ (\A q \in Procs : q # p => pc'[q] = pc[q] /\ cur'[q] = cur[q])
        /\ pc'[p] \in {"wait", "guest"}
    BY <1>5, <2>0 DEF Reap, Goto
  <2>2. ASSUME NEW x \in Procs, KeepsPid(x)' PROVE KeepsPid(x) /\ pid[x] \in Pids
    BY <2>1, <2>2 DEF KeepsPid, Live, Orphan, Birth
  <2>3. ~KeepsPid(c)' /\ KeepsPid(c)
    BY <2>0, <2>1 DEF KeepsPid, Live, Orphan, Family
  <2>4. ASSUME NEW x \in Procs, KeepsPid(x)', pid[x] = pid[c], pid[x] \notin twice, procs[pid[x]] = x
        PROVE  FALSE
    BY <2>1, <2>3, <2>4 DEF Registered
  <2> QED
    BY <2>1, <2>2, <2>4, RegisteredForget
<1>6. ASSUME NEW p \in Procs, FinishLocked(p) PROVE Registered'
  <2>1. /\ UNCHANGED <<pid, parent, cur>> /\ pc[p] = "done" /\ Forget(ReleasedByFinish(p))
        /\ \A q \in Procs : q # p => pc'[q] = pc[q] /\ children'[q] = children[q]
        /\ pc'[p] \in {"gone", "notify"} /\ children'[p] = {}
        /\ twice' = twice \cup {pid[c] : c \in {d \in children[p] : pc[d] = "done"}}
    BY <1>6 DEF FinishLocked, Goto
  <2>2. \A q \in Procs : parentGone'[q] <=> (parentGone[q] \/ q \in children[p])
    BY <1>6, Zenon DEF FinishLocked
  <2>3. ASSUME NEW x \in Procs, KeepsPid(x)' PROVE KeepsPid(x) /\ pid[x] \in Pids
    BY <2>1, <2>2, <2>3 DEF KeepsPid, Live, Orphan, Birth
  <2>4. ASSUME NEW x \in Procs, KeepsPid(x)', pid[x] \notin twice',
               pid[x] \in ReleasedByFinish(p), procs[pid[x]] = x
        PROVE  FALSE
    <3>1. PICK y \in Procs : /\ pid[y] = pid[x]
                             /\ (y = p /\ Orphan(p)) \/ (y \in children[p] /\ Done(y))
      BY <2>4 DEF ReleasedByFinish
    <3>2. KeepsPid(y) /\ pid[y] \notin twice
      BY <2>1, <2>4, <3>1 DEF KeepsPid
    <3>3. x = y
      BY <2>4, <3>1, <3>2 DEF Registered
    <3>4. CASE y = p /\ Orphan(p)
      <4>1. \A q \in Procs : p \notin children[q] /\ ~(pc[q] = "reap" /\ cur[q] = p)
        BY <3>4 DEF Family, Orphan
      <4>2. \A q \in Procs : p \notin children'[q] /\ ~(pc'[q] = "reap" /\ cur'[q] = p)
        BY <2>1, <4>1
      <4>3. pc'[p] \in {"gone", "notify"}
        BY <2>1
      <4> QED
        BY <2>4, <3>3, <3>4, <4>2, <4>3 DEF KeepsPid, Live
    <3>5. CASE y \in children[p] /\ Done(y)
      <4>1. pc[y] # "done" /\ y # p /\ pc'[y] = pc[y]
        BY <2>1, <2>4, <3>1, <3>3, <3>5 DEF Family, Birth
      <4>2. \A q \in Procs : y \notin children'[q] /\ ~(pc'[q] = "reap" /\ cur'[q] = y)
        BY <2>1, <3>5 DEF Family
      <4> QED
        BY <2>4, <3>3, <3>5, <4>1, <4>2 DEF KeepsPid, Live
    <3> QED
      BY <3>1, <3>4, <3>5
  <2> QED
    BY <2>1, <2>3, <2>4, RegisteredForget
<1>7. ASSUME NEW p \in Procs, NEW c \in Procs, ScanFound(p, c) PROVE Registered'
  <2>1. ASSUME NEW x \in Procs, KeepsPid(x)' PROVE KeepsPid(x)
    BY <1>7, <2>1 DEF ScanFound, Leave, Matches, KeepsPid, Live, Orphan
  <2> QED
    BY <1>7, <2>1, RegisteredKept DEF ScanFound
<1>8. ASSUME NEW p \in Procs, NEW c \in Procs, NEW n \in Pids, SpawnAlloc(p, c, n) PROVE Registered'
  BY <1>8, SMTT(30) DEF SpawnAlloc, AllocPid, Spawning, IsNext, Unborn, Birth, Family, Registered, KeepsPid, Live, Orphan
<1>9. ASSUME NEW c \in Procs, NEW n \in Pids, Start(c, n) PROVE Registered'
  BY <1>9 DEF Start, AllocPid, IsNext, Unborn, Birth, Registered, KeepsPid, Live, Orphan
<1> HIDE DEF TypeInv, TypeOK, InHand
<1> QED
  BY <1>1, <1>2, <1>3, <1>4, <1>5, <1>6, <1>7, <1>8, <1>9, Steps

(* A pid made from a host pid and a number of 1..NPids gives the host pid back. *)
LEMMA PidRoundTrip ==
  ASSUME NEW h \in HostPids, NEW n \in 0..NPids
  PROVE  PidBase(h) \in Nat /\ HostPidOf(PidBase(h) + n) = h
<1>1. h \in Nat /\ h % HostPidRange = h
  BY HostAssumption
<1>2. PidBase(h) = h * (NPids + 1)
  BY <1>1 DEF PidBase
<1> DEFINE m == NPids + 1
<1>3. m \in Nat /\ m > 0 /\ n \in Nat /\ n < m
  BY ProcAssumption
<1>4. h * m \in Nat
  BY <1>1, <1>3
<1> HIDE DEF m
<1>5. (h * m + n) \div m = h
  BY <1>1, <1>3, <1>4
<1> QED
  BY <1>2, <1>4, <1>5 DEF HostPidOf, m

(* As long as a process lives, kill(pid, 0) finds it and no other, in its   *)
(* own kernel and from every pgzero process of the host, unless its pid is  *)
(* one that a parent, exiting between a child's close(done) and the child's *)
(* own forget, has released for both of them: for any numbers of processes, *)
(* spawners and pids, and host pids below the wrap.                         *)
THEOREM AliveAreFound == SafeSpec => []AliveUnlessRaced
<1>1. Init => Registered
  BY NumberedFromOne DEF Init, Registered, KeepsPid, Live, Done
<1>2. TypeInv /\ TypeInv' /\ TableInv /\ Registered /\ [Next]_vars => Registered'
  BY RegisteredStep DEF TableInv
<1>3. TypeInv /\ TableInv /\ Registered => AliveUnlessRaced
  <2> SUFFICES ASSUME TypeInv, TableInv, Registered, NEW p \in Procs, Live(p), pid[p] \notin twice
               PROVE  /\ Lookup(pid[p]) = p
                      /\ \A h \in HostPids : KillForeign(h, PidBase(HostPid) + pid[p])
    BY DEF AliveUnlessRaced, Found
  <2>1. procs[pid[p]] = p /\ pid[p] \in Pids
    BY DEF Registered, KeepsPid, TypeInv, InHand, Live
  <2>2. pid[p] \in owners
    BY <2>1, NumberedFromOne DEF TableInv, Table
  <2>3. ASSUME NEW h \in HostPids PROVE KillForeign(h, PidBase(HostPid) + pid[p])
    <3> DEFINE q == PidBase(HostPid) + pid[p]
    <3>1. HostPid \in HostPids /\ HostPid # 0 /\ pid[p] \in 0..NPids /\ pid[p] > 0 /\ 0 \in 0..NPids
      BY <2>1, HostAssumption, ProcAssumption DEF Pids
    <3>2. PidBase(HostPid) \in Nat /\ HostPidOf(q) = HostPid
      BY <3>1, PidRoundTrip
    <3>3. PidBase(h) \in Nat /\ HostPidOf(PidBase(h) + 0) = h
      BY <3>1, PidRoundTrip
    <3>4. HostPidOf(PidBase(h)) = h
      <4>1. PidBase(h) + 0 = PidBase(h)
        BY <3>3
      <4> QED
        BY <3>3, <4>1
    <3>5. q > 0 /\ q - PidBase(HostPid) = pid[p]
      BY <3>1, <3>2
    <3> HIDE DEF q
    <3>6. KillForeign(h, q)
      BY <2>2, <3>1, <3>2, <3>4, <3>5 DEF KillForeign, PidOwner
    <3> QED
      BY <3>6 DEF q
  <2> QED
    BY <2>1, <2>3 DEF Lookup
<1> QED
  BY <1>1, <1>2, <1>3, ProcTypeCorrect, TableCorrect, PTL DEF SafeSpec


-----------------------------------------------------------------------------
(* The interval timer. *)

(* As long as no alarm is set between an expiry and its fire, one timer at  *)
(* most is armed or about to fire, a.timer is the armed one, and a disarmed *)
(* process has none.                                                        *)
OneTimer ==
  ~raced =>
    /\ disarmed => timer = NoTimer
    /\ \A t \in Timers : state[t] = "armed" => t = timer /\ due[t] = left
    /\ \A t, u \in Timers : state[t] = "fired" => state[u] # "armed" /\ (state[u] = "fired" => u = t)

AlarmInv == AlarmTypeOK /\ AlarmNotLost /\ OneTimer

LEMMA TimersArePositive == NoTimer \notin Timers /\ 1 \in Timers /\ MaxTicks \in Nat /\ MaxTimers \in Nat
                           /\ 0 \in Intervals /\ Intervals \subseteq 0..MaxTicks
BY AlarmAssumption DEF Timers, NoTimer

LEMMA StoppedType ==
  ASSUME AlarmTypeOK
  PROVE  /\ Stopped \in [Timers -> {"unused", "armed", "fired", "sending", "over"}]
         /\ \A t \in Timers : Stopped[t] = IF t = timer /\ state[t] = "armed" THEN "over" ELSE state[t]
BY TimersArePositive DEF AlarmTypeOK, Stopped

LEMMA AlarmStep == AlarmInv /\ [AlarmNext]_alarmVars => AlarmInv'
<1> SUFFICES ASSUME AlarmInv, [AlarmNext]_alarmVars PROVE AlarmInv'
  OBVIOUS
<1> USE TimersArePositive DEF AlarmInv, AlarmTypeOK, AlarmNotLost, OneTimer, history
<1>1. ASSUME NEW t \in Timers, NEW v \in 1..MaxTicks, NEW i \in Intervals, Arm(t, v, i) PROVE AlarmInv'
  <2>0. raced' \in BOOLEAN
    BY <1>1, Zenon DEF Arm
  <2>1. AlarmTypeOK'
    <3>1. state' \in [Timers -> {"unused", "armed", "fired", "sending", "over"}]
      BY <1>1, StoppedType DEF Arm, AfterFunc
    <3>2. v \in 0..MaxTicks /\ timer' = t /\ left' = v /\ due' = [due EXCEPT ![t] = v]
      BY <1>1 DEF Arm, AfterFunc
    <3>3. interval' = i /\ disarmed' = FALSE /\ sent' = FALSE /\ UNCHANGED <<sigalrm, ended>>
      BY <1>1 DEF Arm
    <3> QED
      BY <2>0, <3>1, <3>2, <3>3
  <2>2. state'[t] = "armed" /\ timer' = t /\ due'[t] = left'
        /\ \A u \in Timers : u # t => state'[u] = IF u = timer /\ state[u] = "armed" THEN "over" ELSE state[u]
    BY <1>1, StoppedType DEF Arm, AfterFunc
  <2>3. ~disarmed' /\ (~raced' => ~raced /\ \A u \in Timers : state[u] # "fired")
    BY <1>1, Zenon DEF Arm
  <2>4. OneTimer'
    BY <2>2, <2>3
  <2> QED
    BY <2>1, <2>2, <2>4
<1>2. CASE Disarm \/ Stop
  BY <1>2, StoppedType DEF Disarm, Stop
<1>3. CASE Tick
  BY <1>3 DEF Tick
<1>4. CASE Handle
  BY <1>4 DEF Handle
<1>5. ASSUME NEW t \in Timers, Expire(t) PROVE AlarmInv'
  BY <1>5 DEF Expire
<1>6. ASSUME NEW t \in Timers, FireOnce(t) PROVE AlarmInv'
  BY <1>6 DEF FireOnce
<1>7. ASSUME NEW t \in Timers, Send(t) PROVE AlarmInv'
  BY <1>7 DEF Send
<1>8. ASSUME NEW t \in Timers, NEW u \in Timers, FireAgain(t, u) PROVE AlarmInv'
  BY <1>8 DEF FireAgain, AfterFunc, IsNew
<1>9. CASE UNCHANGED alarmVars
  BY <1>9 DEF alarmVars
<1> HIDE DEF AlarmInv
<1> QED
  BY <1>1, <1>2, <1>3, <1>4, <1>5, <1>6, <1>7, <1>8, <1>9 DEF AlarmNext

LEMMA AlarmCorrect == AlarmSpec => []AlarmInv
<1>1. AlarmInit => AlarmInv
  BY TimersArePositive DEF AlarmInit, AlarmInv, AlarmTypeOK, AlarmNotLost, OneTimer
<1> QED
  BY <1>1, AlarmStep, PTL DEF AlarmSpec

(* No alarm is lost, for any number of setAlarm calls and expiries: until   *)
(* SIGALRM is sent, a timer runs or is firing.                              *)
THEOREM AlarmsAreNotLost == AlarmSpec => []AlarmNotLost
BY AlarmCorrect, PTL DEF AlarmInv

(* Unless setAlarm races an expiry, there is one timer at most, a.timer is  *)
(* the timer that runs, its deadline the one reported, and value 0 leaves   *)
(* none.                                                                    *)
THEOREM OneTimerRuns == AlarmSpec => []OneTimerUnlessRaced
<1>1. AlarmInv => OneTimerUnlessRaced
  BY TimersArePositive DEF AlarmInv, OneTimer, OneTimerUnlessRaced, DisarmStopsTimer
<1> QED
  BY <1>1, AlarmCorrect, PTL
=============================================================================
