----------------------------- MODULE PipeProofs -----------------------------
(***************************************************************************)
(* Proofs about Pipe.tla, for any number of processes and descriptors, and *)
(* for any capacity, atomic size and lengths, and about Stdin.tla.         *)
(***************************************************************************)
EXTENDS Pipe, Stdin, FiniteSetTheorems, SequenceTheorems, TLAPS

-----------------------------------------------------------------------------
(* What the operations of the pipe return. *)

(* A length is a positive number. *)
LEMMA SizesPositive == \A n \in Sizes : n \in Nat /\ n > 0
<1>1. \A n \in Sizes : n \in Nat \ {0}
  BY PipeAssumption, Zenon
<1>2. \A n \in Nat \ {0} : n \in Nat /\ n > 0
  OBVIOUS
<1>3. QED
  BY <1>1, <1>2

(* read returns EAGAIN, or a number of bytes that are in the pipe. *)
LEMMA ReadResultRange ==
  ASSUME NEW n \in Sizes, TypeOK
  PROVE  /\ ReadResult(n) \in {EAGAIN} \cup 0..Len(buf)
         /\ buf # <<>> => ReadResult(n) > 0
         /\ Writers = 0 => ReadResult(n) # EAGAIN
<1>1. Len(buf) \in Nat /\ (buf # <<>> => Len(buf) > 0)
  BY DEF TypeOK
<1>2. n \in Nat /\ n > 0
  BY SizesPositive
<1>3. QED
  BY <1>1, <1>2 DEF ReadResult, Least, EAGAIN

(* write returns an error, or a number of bytes that fit; a short write is  *)
(* never cut.                                                               *)
LEMMA WriteResultRange ==
  ASSUME NEW n \in Sizes, TypeOK
  PROVE  /\ WriteResult(n) \in {EAGAIN, EPIPE} \cup 1..Space
         /\ WriteResult(n) <= n
         /\ (WriteResult(n) > 0 /\ n <= Atomic) => WriteResult(n) = n
<1>1. Len(buf) \in Nat /\ Space \in Nat
  BY PipeAssumption DEF TypeOK, Space
<1>2. n \in Nat /\ n > 0 /\ Atomic \in Nat
  BY SizesPositive, PipeAssumption
<1>3. QED
  BY <1>1, <1>2 DEF WriteResult, Least, EAGAIN, EPIPE

(* The bytes of a write are a sequence of bytes. *)
LEMMA BytesOfWrite ==
  ASSUME NEW p \in Procs, NEW n \in Sizes, NEW r \in 1..Capacity
  PROVE  LET s == [i \in 1..r |-> [w |-> p, n |-> n, i |-> i]]
         IN  s \in Seq(Bytes) /\ Len(s) = r
<1> DEFINE s == [i \in 1..r |-> [w |-> p, n |-> n, i |-> i]]
<1>1. r \in Nat
  BY PipeAssumption
<1>2. \A i \in 1..r : i \in 1..Capacity
  BY PipeAssumption
<1>3. \A i \in 1..r : [w |-> p, n |-> n, i |-> i] \in Bytes
  BY <1>2, Zenon DEF Bytes
<1>4. s \in [1..r -> Bytes]
  BY <1>3, Zenon
<1>5. s \in Seq(Bytes)
  BY <1>1, <1>4
<1>6. Len(s) = r
  BY <1>1, <1>4, <1>5
<1>7. QED
  BY <1>5, <1>6

-----------------------------------------------------------------------------
(* Type correctness. *)

(* The types of a process's own state. *)
LEMMA CallTypes ==
  /\ NoCall \in Calls
  /\ \A n \in Sizes : [k |-> "read", on |-> {"r"}, n |-> n, ev |-> {}, left |-> {}] \in Calls
  /\ \A n \in Sizes : [k |-> "write", on |-> {"w"}, n |-> n, ev |-> {}, left |-> {}] \in Calls
  /\ \A E \in SUBSET Ends, ev \in Events :
       [k |-> "poll", on |-> E, n |-> 0, ev |-> ev, left |-> {}] \in Calls
BY DEF Calls, NoCall, Ends

LEMMA CallParts ==
  ASSUME NEW c \in Calls
  PROVE  /\ c.on \in SUBSET Ends /\ c.left \in SUBSET Ends
         /\ c.k \in {"read", "write"} => c.n \in Sizes
BY DEF Calls

LEMMA CallLeft ==
  ASSUME NEW c \in Calls, NEW E \in SUBSET Ends
  PROVE  [c EXCEPT !.left = E] \in Calls
BY DEF Calls

(* The pc, op and ch parts of the type invariant, which every action leaves *)
(* in the same way.                                                         *)
ProcTypes == /\ pc \in [Procs -> Locations]
             /\ op \in [Procs -> Calls]
             /\ ch \in [Procs -> {"none", "open", "closed"}]

LEMMA NotifiedType ==
  ASSUME ProcTypes PROVE Notified \in [Procs -> {"none", "open", "closed"}]
BY DEF ProcTypes, Notified

LEMMA ReturnTypes ==
  ASSUME ProcTypes, NEW p \in Procs, NEW c \in [Procs -> {"none", "open", "closed"}],
         Return(p, c)
  PROVE  ProcTypes'
BY CallTypes DEF ProcTypes, Return, Locations

LEMMA ParkTypes ==
  ASSUME ProcTypes, NEW p \in Procs, Park(p) PROVE ProcTypes'
BY DEF ProcTypes, Park, Locations

(* The table of a process with one entry changed. *)
LEMMA TableTypes ==
  ASSUME NEW t \in [Procs -> Tables], NEW p \in Procs, NEW f \in Fds,
         NEW e \in Ends \cup {None}
  PROVE  [t EXCEPT ![p][f] = e] \in [Procs -> Tables]
BY DEF Tables

LEMMA FdsFinite ==
  ASSUME NEW F \in SUBSET Fds
  PROVE  IsFiniteSet(F) /\ Cardinality(F) \in Nat
<1>1. IsFiniteSet(Fds)
  BY FS_Interval, PipeAssumption DEF Fds
<1>2. QED
  BY <1>1, FS_Subset, FS_CardinalityType

(* The buffer of the pipe keeps its type and its bound when io has a        *)
(* result.                                                                  *)
LEMMA ReadKeepsType ==
  ASSUME TypeOK, NEW n \in Sizes, ReadResult(n) > 0
  PROVE  LET b == SubSeq(buf, ReadResult(n) + 1, Len(buf))
         IN  b \in Seq(Bytes) /\ Len(b) <= Capacity
<1> DEFINE r == ReadResult(n)
           b == SubSeq(buf, r + 1, Len(buf))
<1>1. buf \in Seq(Bytes) /\ Len(buf) \in Nat /\ Len(buf) <= Capacity
  BY DEF TypeOK
<1>2. r \in 1..Len(buf)
  BY <1>1, ReadResultRange DEF EAGAIN
<1>3. \A i \in (r + 1)..Len(buf) : buf[i] \in Bytes
  BY <1>1, <1>2
<1>4. /\ b \in Seq(Bytes)
      /\ Len(b) = IF r + 1 <= Len(buf) THEN Len(buf) - (r + 1) + 1 ELSE 0
  BY <1>1, <1>2, <1>3, SubSeqProperties
<1>5. QED
  BY <1>1, <1>2, <1>4, PipeAssumption

LEMMA WriteKeepsType ==
  ASSUME TypeOK, NEW p \in Procs, NEW n \in Sizes, WriteResult(n) > 0
  PROVE  LET s == [i \in 1..WriteResult(n) |-> [w |-> p, n |-> n, i |-> i]]
         IN  buf \o s \in Seq(Bytes) /\ Len(buf \o s) <= Capacity
<1> DEFINE r == WriteResult(n)
           s == [i \in 1..r |-> [w |-> p, n |-> n, i |-> i]]
<1>1. buf \in Seq(Bytes) /\ Len(buf) \in Nat /\ Space \in Nat /\ Space <= Capacity
  BY PipeAssumption DEF TypeOK, Space
<1>2. r \in 1..Space
  BY WriteResultRange DEF EAGAIN, EPIPE
<1>3. r \in 1..Capacity
  BY <1>1, <1>2, PipeAssumption
<1>4. s \in Seq(Bytes) /\ Len(s) = r
  BY <1>3, BytesOfWrite
<1> HIDE DEF s, r
<1>5. buf \o s \in Seq(Bytes) /\ Len(buf \o s) = Len(buf) + r
  BY <1>1, <1>4, ConcatProperties
<1>6. QED
  BY <1>1, <1>2, <1>5, PipeAssumption DEF Space, s, r

(* Every reachable state is well typed; in particular the pipe never holds  *)
(* more than pipeCapacity bytes.                                            *)
LEMMA TypeStep == TypeOK /\ [Next]_vars => TypeOK'
<1> SUFFICES ASSUME TypeOK, [Next]_vars PROVE TypeOK'
  OBVIOUS
<1>0. ProcTypes
  BY DEF TypeOK, ProcTypes
<1>1. CASE UNCHANGED vars
  BY <1>1 DEF vars, pipe, TypeOK
<1>2. ASSUME NEW p \in Procs, NEW f \in Fds, NEW g \in Fds, PipeCall(p, f, g) PROVE TypeOK'
  <2>1. fds' \in [Procs -> Tables]
    BY <1>2 DEF PipeCall, TypeOK, Tables, Ends
  <2>2. QED
    BY <1>2, <2>1 DEF PipeCall, TypeOK
<1>3. ASSUME NEW p \in Procs, NEW f \in Fds, NEW g \in Fds, Dup(p, f, g) PROVE TypeOK'
  <2>1. fds[p][f] \in Ends
    BY <1>3 DEF Dup, Holds, TypeOK, Tables
  <2>2. fds' \in [Procs -> Tables]
    BY <1>3, <2>1, TableTypes DEF Dup, Add, TypeOK
  <2>3. refs' \in [Ends -> Int]
    BY <1>3, <2>1 DEF Dup, Add, TypeOK
  <2>4. QED
    BY <1>3, <2>2, <2>3 DEF Dup, TypeOK
<1>4. ASSUME NEW p \in Procs, NEW f \in Fds, NEW g \in Fds, DupOnto(p, f, g) PROVE TypeOK'
  <2>1. fds[p][f] \in Ends /\ fds[p][g] \in Ends \cup {None}
    BY <1>4 DEF DupOnto, Holds, TypeOK, Tables
  <2>2. fds' \in [Procs -> Tables]
    BY <1>4, <2>1, TableTypes DEF DupOnto, TypeOK
  <2>3. refs' \in [Ends -> Int]
    BY <1>4, <2>1 DEF DupOnto, TypeOK
  <2>4. drop' \in [Procs -> Tables] /\ pc' \in [Procs -> Locations]
    <3>1. CASE fds[p][g] = None
      BY <1>4, <3>1 DEF DupOnto, TypeOK
    <3>2. CASE fds[p][g] # None
      <4>1. drop' = [drop EXCEPT ![p][g] = fds[p][g]] /\ pc' = [pc EXCEPT ![p] = "drop"]
        BY <1>4, <3>2 DEF DupOnto, Goto
      <4>2. drop' \in [Procs -> Tables]
        BY <2>1, <4>1, TableTypes DEF TypeOK
      <4>3. QED
        BY <4>1, <4>2 DEF TypeOK, Locations
    <3>3. QED
      BY <3>1, <3>2
  <2>5. QED
    BY <1>4, <2>2, <2>3, <2>4 DEF DupOnto, TypeOK
<1>5. ASSUME NEW p \in Procs, NEW f \in Fds, Close(p, f) PROVE TypeOK'
  <2>1. fds[p][f] \in Ends
    BY <1>5 DEF Close, Holds, TypeOK, Tables
  <2>2. fds' \in [Procs -> Tables] /\ drop' \in [Procs -> Tables]
    BY <1>5, <2>1, TableTypes DEF Close, TypeOK
  <2>3. QED
    BY <1>5, <2>2 DEF Close, TypeOK, Goto, Locations, pipe
<1>6. ASSUME NEW p \in Procs, NEW c \in Procs, NEW F \in SUBSET Fds, Spawn(p, c, F) PROVE TypeOK'
  <2> DEFINE kept == [f \in Fds |-> IF f \in F THEN None ELSE fds[p][f]]
  <2>1. kept \in Tables
    BY DEF TypeOK, Tables
  <2>2. fds' \in [Procs -> Tables]
    BY <1>6, <2>1 DEF Spawn, TypeOK
  <2>3. \A e \in Ends : Cardinality({f \in Fds : kept[f] = e}) \in Nat
    BY FdsFinite
  <2>4. refs' \in [Ends -> Int]
    <3>1. refs' = [e \in Ends |-> refs[e] + Cardinality({f \in Fds : kept[f] = e})]
      BY <1>6 DEF Spawn
    <3> HIDE DEF kept
    <3>2. \A e \in Ends : refs[e] + Cardinality({f \in Fds : kept[f] = e}) \in Int
      BY <2>3 DEF TypeOK
    <3>3. QED
      BY <3>1, <3>2
  <2>5. QED
    BY <1>6, <2>2, <2>4 DEF Spawn, TypeOK, Locations
<1>7. ASSUME NEW p \in Procs, NEW f \in Fds, Drop(p, f) \/ CloseAll(p, f) PROVE TypeOK'
  <2>1. drop[p][f] \in Ends
    BY <1>7 DEF Drop, CloseAll, IsLowestUsed, TypeOK, Tables
  <2>2. drop' \in [Procs -> Tables]
    <3>1. drop' = [drop EXCEPT ![p][f] = None]
      BY <1>7 DEF Drop, CloseAll
    <3>2. QED
      BY <3>1, TableTypes DEF TypeOK
  <2>3. PICK a \in Locations, b \in Locations : Unref(p, drop[p][f], a, b)
    BY <1>7 DEF Drop, CloseAll, Locations
  <2>4. refs' \in [Ends -> Int] /\ count' \in [Ends -> Int]
    BY <2>1, <2>3 DEF Unref, TypeOK
  <2>5. pc' \in [Procs -> Locations]
    BY <2>3 DEF Unref, TypeOK
  <2>6. QED
    BY <1>7, <2>2, <2>4, <2>5 DEF Drop, CloseAll, TypeOK
<1>8. ASSUME NEW p \in Procs, Notify(p) \/ CloseAllNotify(p) PROVE TypeOK'
  BY <1>0, <1>8, NotifiedType DEF Notify, CloseAllNotify, Goto, TypeOK, Locations, pipe
<1>9. ASSUME NEW p \in Procs, Exit(p) PROVE TypeOK'
  <2>1. Empty \in Tables
    BY DEF Empty, Tables
  <2>2. fds' \in [Procs -> Tables] /\ drop' \in [Procs -> Tables]
    BY <1>9, <2>1 DEF Exit, TypeOK
  <2>3. QED
    BY <1>9, <2>2, CallTypes DEF Exit, TypeOK, Locations, pipe
<1>10. ASSUME NEW p \in Procs, CloseAllDone(p) PROVE TypeOK'
  BY <1>10 DEF CloseAllDone, Goto, TypeOK, Locations, pipe
<1>11. ASSUME NEW p \in Procs, NEW f \in Fds, NEW n \in Sizes,
              ReadCall(p, f, n) \/ WriteCall(p, f, n) PROVE TypeOK'
  <2>1. op' \in [Procs -> Calls]
    BY <1>11, CallTypes DEF ReadCall, WriteCall, Call, TypeOK
  <2>2. QED
    BY <1>11, <2>1 DEF ReadCall, WriteCall, Call, Goto, TypeOK, Locations, pipe
<1>12. ASSUME NEW p \in Procs, NEW F \in SUBSET Fds, NEW ev \in Events,
              PollCall(p, F, ev) PROVE TypeOK'
  <2>1. {fds[p][f] : f \in F} \in SUBSET Ends
    BY <1>12 DEF PollCall, Holds, TypeOK, Tables
  <2>2. op' \in [Procs -> Calls]
    BY <1>12, <2>1, CallTypes DEF PollCall, Call, TypeOK
  <2>3. QED
    BY <1>12, <2>2 DEF PollCall, Call, Goto, TypeOK, Locations, pipe
<1>13. ASSUME NEW p \in Procs, TakeChannel(p) PROVE TypeOK'
  <2>1. op' \in [Procs -> Calls]
    <3>1. op[p] \in Calls /\ op' = [op EXCEPT ![p] = [op[p] EXCEPT !.left = op[p].on]]
      BY <1>13 DEF TakeChannel, TypeOK
    <3>2. [op[p] EXCEPT !.left = op[p].on] \in Calls
      BY <3>1, CallParts, CallLeft
    <3>3. QED
      BY <3>1, <3>2 DEF TypeOK
  <2>2. QED
    BY <1>13, <2>1 DEF TakeChannel, Goto, TypeOK, Locations, pipe
<1>14. ASSUME NEW p \in Procs, Read(p) PROVE TypeOK'
  <2>1. op[p].n \in Sizes
    <3>1. op[p] \in Calls /\ op[p].k \in {"read", "write"}
      BY <1>14 DEF Read, TypeOK
    <3>2. QED
      BY <3>1, CallParts
  <2>2. buf' \in Seq(Bytes) /\ Len(buf') <= Capacity
    BY <1>14, <2>1, ReadKeepsType DEF Read, IoResult, TypeOK
  <2>3. ProcTypes'
    BY <1>0, <1>14, ReturnTypes, ParkTypes, NotifiedType DEF Read, IoResult, ProcTypes
  <2>4. QED
    BY <1>14, <2>2, <2>3 DEF Read, TypeOK, ProcTypes
<1>15. ASSUME NEW p \in Procs, Write(p) PROVE TypeOK'
  <2>1. op[p].n \in Sizes
    <3>1. op[p] \in Calls /\ op[p].k \in {"read", "write"}
      BY <1>15 DEF Write, TypeOK
    <3>2. QED
      BY <3>1, CallParts
  <2>2. buf' \in Seq(Bytes) /\ Len(buf') <= Capacity
    BY <1>15, <2>1, WriteKeepsType DEF Write, IoResult, TypeOK
  <2>3. ProcTypes'
    BY <1>0, <1>15, ReturnTypes, ParkTypes, NotifiedType DEF Write, IoResult, ProcTypes
  <2>4. QED
    BY <1>15, <2>2, <2>3 DEF Write, TypeOK, ProcTypes
<1>16. ASSUME NEW p \in Procs, NEW e \in Ends, Poll(p, e) PROVE TypeOK'
  <2>1. CASE Return(p, ch) \/ Park(p)
    BY <1>0, <1>16, <2>1, ReturnTypes, ParkTypes DEF Poll, TypeOK, ProcTypes, pipe
  <2>2. CASE op' = [op EXCEPT ![p].left = @ \ {e}] /\ UNCHANGED <<pc, ch>>
    <3>1. op[p] \in Calls /\ op' = [op EXCEPT ![p] = [op[p] EXCEPT !.left = op[p].left \ {e}]]
      BY <2>2 DEF TypeOK
    <3>2. op[p].left \in SUBSET Ends
      BY <3>1, CallParts
    <3>3. [op[p] EXCEPT !.left = op[p].left \ {e}] \in Calls
      BY <3>1, <3>2, CallLeft
    <3>4. QED
      BY <1>16, <2>2, <3>1, <3>3 DEF Poll, TypeOK, pipe
  <2>3. QED
    BY <1>16, <2>1, <2>2 DEF Poll
<1>17. ASSUME NEW p \in Procs, ParkWoken(p) PROVE TypeOK'
  BY <1>17 DEF ParkWoken, Goto, TypeOK, Locations, pipe
<1>18. ASSUME NEW p \in Procs, ParkEnded(p) PROVE TypeOK'
  BY <1>0, <1>18, ReturnTypes DEF ParkEnded, TypeOK, ProcTypes, pipe
<1>19. QED
  BY <1>1, <1>2, <1>3, <1>4, <1>5, <1>6, <1>7, <1>8, <1>9, <1>10, <1>11, <1>12,
     <1>13, <1>14, <1>15, <1>16, <1>17, <1>18 DEF Next
(* The descriptor tables, the pipe's buffer within pipeCapacity, and where  *)
(* each process is are well typed in every reachable state.                 *)
THEOREM TypeCorrect == Spec => []TypeOK
<1>1. Init => TypeOK
  <2>1. Empty \in Tables
    BY DEF Empty, Tables
  <2>2. <<>> \in Seq(Bytes) /\ Len(<<>>) = 0
    OBVIOUS
  <2>3. QED
    BY <2>1, <2>2, CallTypes, PipeAssumption DEF Init, TypeOK, Locations
<1>2. QED
  BY <1>1, TypeStep, PTL DEF Spec, SafeSpec

-----------------------------------------------------------------------------
(* poll and the operations it announces. *)

(* What poll reports of an end is what read and write then do, in any state *)
(* of the pipe and for any length: a descriptor reported writable takes a   *)
(* write without blocking.                                                  *)
THEOREM PollIsTruthful == Spec => []PollAgrees
<1>1. TypeOK => PollAgrees
  <2> SUFFICES ASSUME TypeOK, NEW n \in Sizes
               PROVE  /\ (PollBits("r") # {}) <=> (ReadResult(n) # EAGAIN)
                      /\ (PollBits("w") # {}) => (WriteResult(n) # EAGAIN)
    BY DEF PollAgrees
  <2>1. /\ Len(buf) \in Nat /\ (buf # <<>> => Len(buf) > 0)
        /\ n \in Nat /\ n > 0 /\ Atomic \in Nat /\ Atomic > 0 /\ Capacity \in Nat
    BY SizesPositive, PipeAssumption DEF TypeOK
  <2>2. (PollBits("r") # {}) <=> (buf # <<>> \/ Writers = 0)
    BY DEF PollBits
  <2>3. (ReadResult(n) # EAGAIN) <=> (buf # <<>> \/ Writers = 0)
    BY <2>1 DEF ReadResult, EAGAIN, Least
  <2>4. (PollBits("w") # {}) <=> (Readers = 0 \/ Space >= Atomic)
    BY DEF PollBits
  <2>5. (Readers = 0 \/ Space >= Atomic) => (WriteResult(n) # EAGAIN)
    BY <2>1 DEF WriteResult, EAGAIN, EPIPE, Least, Space
  <2>6. QED
    BY <2>2, <2>3, <2>4, <2>5
<1>2. QED
  BY <1>1, TypeCorrect, PTL

-----------------------------------------------------------------------------
(* Short writes. *)

(* A read takes a prefix: what is left is as little split as before. *)
LEMMA SuffixWhole ==
  ASSUME NEW s \in Seq(Bytes), Whole(s), NEW r \in 1..Len(s)
  PROVE  Whole(SubSeq(s, r + 1, Len(s)))
<1> DEFINE t == SubSeq(s, r + 1, Len(s))
<1>1. Len(s) \in Nat /\ r \in Nat /\ r <= Len(s) /\ DOMAIN s = 1..Len(s)
  OBVIOUS
<1>2. \A i \in (r + 1)..Len(s) : s[i] \in Bytes
  BY <1>1
<1>3. /\ t \in Seq(Bytes)
      /\ Len(t) = IF r + 1 <= Len(s) THEN Len(s) - (r + 1) + 1 ELSE 0
      /\ \A i \in 1..(Len(s) - (r + 1) + 1) : t[i] = s[(r + 1) + i - 1]
  BY <1>1, <1>2, SubSeqProperties
<1> HIDE DEF t
<1>4. Len(t) = Len(s) - r /\ DOMAIN t = 1..(Len(s) - r)
  <2>1. Len(t) = Len(s) - r
    <3>1. CASE r + 1 <= Len(s)
      <4>1. Len(t) = Len(s) - (r + 1) + 1
        BY <1>3, <3>1
      <4>2. QED
        BY <1>1, <4>1
    <3>2. CASE ~(r + 1 <= Len(s))
      <4>1. Len(t) = 0
        BY <1>3, <3>2
      <4>2. r = Len(s)
        <5>1. \A a, b \in Nat : (a <= b /\ ~(a + 1 <= b)) => a = b
          OBVIOUS
        <5>2. QED
          BY ONLY <1>1, <3>2, <5>1
      <4>3. QED
        BY <1>1, <4>1, <4>2
    <3>3. QED
      BY <3>1, <3>2
  <2>2. QED
    BY <1>3, <2>1
<1>5. \A i \in 1..(Len(s) - r) : t[i] = s[r + i]
  <2> SUFFICES ASSUME NEW i \in 1..(Len(s) - r) PROVE t[i] = s[r + i]
    OBVIOUS
  <2>1. i \in 1..(Len(s) - (r + 1) + 1) /\ (r + 1) + i - 1 = r + i
    BY <1>1
  <2>2. QED
    BY <1>3, <2>1
<1>6. SUFFICES ASSUME NEW j \in DOMAIN t, t[j].n <= Atomic, t[j].i < t[j].n
               PROVE  j < Len(t) /\ t[j + 1] = [w |-> t[j].w, n |-> t[j].n, i |-> t[j].i + 1]
  BY DEF Whole, t
<1>7. t[j] = s[r + j] /\ r + j \in DOMAIN s /\ j \in Nat
  BY <1>1, <1>4, <1>5
<1>8. r + j < Len(s)
  BY <1>6, <1>7 DEF Whole
<1>9. s[(r + j) + 1] = [w |-> t[j].w, n |-> t[j].n, i |-> t[j].i + 1]
  BY <1>6, <1>7 DEF Whole
<1>10. j + 1 \in 1..(Len(s) - r) /\ (r + j) + 1 = r + (j + 1) /\ j < Len(t)
  BY <1>1, <1>4, <1>7, <1>8
<1>11. t[j + 1] = s[(r + j) + 1]
  BY <1>5, <1>10
<1>12. QED
  BY <1>9, <1>10, <1>11

(* A write appends a short one whole, or the start of a long one. *)
LEMMA ConcatWhole ==
  ASSUME NEW s \in Seq(Bytes), Whole(s), NEW p \in Procs, NEW n \in Sizes,
         NEW r \in 1..Capacity, n <= Atomic => r = n
  PROVE  Whole(s \o [i \in 1..r |-> [w |-> p, n |-> n, i |-> i]])
<1> DEFINE u == [i \in 1..r |-> [w |-> p, n |-> n, i |-> i]]
           t == s \o u
<1>1. Len(s) \in Nat /\ r \in Nat /\ r > 0 /\ n \in Nat /\ DOMAIN s = 1..Len(s)
  BY PipeAssumption, SizesPositive
<1>2. u \in Seq(Bytes) /\ Len(u) = r
  BY BytesOfWrite
<1>3. \A i \in 1..r : u[i] = [w |-> p, n |-> n, i |-> i]
  OBVIOUS
<1> HIDE DEF u
<1>4. /\ t \in Seq(Bytes) /\ Len(t) = Len(s) + Len(u)
      /\ \A i \in 1..Len(s) + Len(u) : t[i] = IF i <= Len(s) THEN s[i] ELSE u[i - Len(s)]
  BY <1>2, ConcatProperties
<1> HIDE DEF t
<1>5. Len(t) = Len(s) + r /\ DOMAIN t = 1..(Len(s) + r)
  BY <1>1, <1>2, <1>4
<1>6. SUFFICES ASSUME NEW j \in DOMAIN t, t[j].n <= Atomic, t[j].i < t[j].n
               PROVE  j < Len(t) /\ t[j + 1] = [w |-> t[j].w, n |-> t[j].n, i |-> t[j].i + 1]
  BY DEF Whole, t, u
<1>7. j \in 1..(Len(s) + r) /\ j \in Nat
  BY <1>1, <1>5
<1>8. CASE j <= Len(s)
  <2>1. j \in DOMAIN s /\ t[j] = s[j]
    BY <1>1, <1>2, <1>4, <1>7, <1>8
  <2>2. j < Len(s) /\ s[j + 1] = [w |-> t[j].w, n |-> t[j].n, i |-> t[j].i + 1]
    BY <1>6, <2>1 DEF Whole
  <2>3. j + 1 \in 1..(Len(s) + r) /\ j + 1 <= Len(s) /\ j < Len(t)
    BY <1>1, <1>5, <1>7, <2>2
  <2>4. t[j + 1] = s[j + 1]
    BY <1>2, <1>4, <2>3
  <2>5. QED
    BY <2>2, <2>3, <2>4
<1>9. CASE ~(j <= Len(s))
  <2>1. PICK k \in 1..r : k = j - Len(s) /\ k \in Nat
    BY <1>1, <1>7, <1>9
  <2>2. t[j] = u[k]
    BY <1>2, <1>4, <1>7, <1>9, <2>1
  <2>3. t[j] = [w |-> p, n |-> n, i |-> k]
    BY <1>3, <2>2
  <2>4. t[j].w = p /\ t[j].n = n /\ t[j].i = k
    BY <2>3
  <2>5. n <= Atomic /\ k < n
    BY <1>6, <2>4
  <2>6. k + 1 \in 1..r
    BY <1>1, <2>1, <2>5
  <2>7. /\ j + 1 \in 1..(Len(s) + r) /\ (j + 1) - Len(s) = k + 1
        /\ ~(j + 1 <= Len(s)) /\ j < Len(t)
    BY <1>1, <1>5, <1>7, <1>9, <2>1, <2>6
  <2>8. t[j + 1] = u[k + 1]
    BY <1>2, <1>4, <2>7
  <2>9. t[j + 1] = [w |-> p, n |-> n, i |-> k + 1]
    BY <1>3, <2>6, <2>8
  <2>10. QED
    BY <2>4, <2>7, <2>9
<1>10. QED
  BY <1>8, <1>9

(* "Writes up to this size are never split" (pipe.go): whatever is read, by *)
(* whom and in which portions, and however writers compete for the room, a  *)
(* short write stands in the pipe in one piece.                             *)
THEOREM ShortWritesWhole == Spec => []NeverSplit
<1>1. Init => NeverSplit
  BY DEF Init, NeverSplit, Whole
<1>2. TypeOK /\ NeverSplit /\ [Next]_vars => NeverSplit'
  <2> SUFFICES ASSUME TypeOK, NeverSplit, [Next]_vars PROVE NeverSplit'
    OBVIOUS
  <2>1. CASE UNCHANGED buf
    BY <2>1 DEF NeverSplit, Whole
  <2>2. buf \in Seq(Bytes) /\ Len(buf) \in Nat /\ Space \in Nat /\ Space <= Capacity
    BY PipeAssumption DEF TypeOK, Space
  <2>3. ASSUME NEW p \in Procs, Read(p) PROVE NeverSplit'
    <3> DEFINE r == ReadResult(op[p].n)
    <3>1. op[p] \in Calls /\ op[p].k \in {"read", "write"}
      BY <2>3 DEF Read, TypeOK
    <3>2. op[p].n \in Sizes
      BY <3>1, CallParts
    <3>3. r > 0 => r \in 1..Len(buf)
      BY <2>2, <3>2, ReadResultRange DEF EAGAIN
    <3>4. r > 0 => Whole(SubSeq(buf, r + 1, Len(buf)))
      BY <2>2, <3>3, SuffixWhole DEF NeverSplit
    <3>5. UNCHANGED buf \/ (r > 0 /\ buf' = SubSeq(buf, r + 1, Len(buf)))
      BY <2>3 DEF Read, IoResult
    <3>6. QED
      BY <2>1, <3>4, <3>5 DEF NeverSplit, Whole
  <2>4. ASSUME NEW p \in Procs, Write(p) PROVE NeverSplit'
    <3> DEFINE n == op[p].n
               r == WriteResult(n)
               s == [i \in 1..r |-> [w |-> p, n |-> n, i |-> i]]
    <3>1. op[p] \in Calls /\ op[p].k \in {"read", "write"}
      BY <2>4 DEF Write, TypeOK
    <3>2. n \in Sizes
      BY <3>1, CallParts
    <3>3. r > 0 => r \in 1..Space /\ (n <= Atomic => r = n)
      BY <3>2, WriteResultRange DEF EAGAIN, EPIPE
    <3>4. r > 0 => r \in 1..Capacity /\ (n <= Atomic => r = n)
      BY <2>2, <3>3, PipeAssumption
    <3>5. UNCHANGED buf \/ (r > 0 /\ buf' = buf \o s)
      BY <2>4 DEF Write, IoResult
    <3> HIDE DEF n, r
    <3>6. r > 0 => Whole(buf \o s)
      BY <2>2, <3>2, <3>4, ConcatWhole DEF NeverSplit
    <3> HIDE DEF s
    <3>7. QED
      BY <2>1, <3>5, <3>6 DEF NeverSplit, Whole
  <2>5. CASE UNCHANGED vars
    BY <2>1, <2>5 DEF vars, pipe
  <2>6. ASSUME NEW p \in Procs, NEW f \in Fds, NEW g \in Fds,
               PipeCall(p, f, g) \/ Dup(p, f, g) \/ DupOnto(p, f, g) PROVE NeverSplit'
    BY <2>1, <2>6 DEF PipeCall, Dup, DupOnto
  <2>7. ASSUME NEW p \in Procs, NEW f \in Fds, Close(p, f) \/ Drop(p, f) \/ CloseAll(p, f)
        PROVE  NeverSplit'
    BY <2>1, <2>7 DEF Close, Drop, CloseAll, pipe
  <2>8. ASSUME NEW p \in Procs, NEW c \in Procs, NEW F \in SUBSET Fds, Spawn(p, c, F)
        PROVE  NeverSplit'
    BY <2>1, <2>8 DEF Spawn
  <2>9. ASSUME NEW p \in Procs, Notify(p) \/ Exit(p) \/ CloseAllNotify(p) \/ CloseAllDone(p)
        PROVE  NeverSplit'
    BY <2>1, <2>9 DEF Notify, Exit, CloseAllNotify, CloseAllDone, pipe
  <2>10. ASSUME NEW p \in Procs, NEW f \in Fds, NEW n \in Sizes,
                ReadCall(p, f, n) \/ WriteCall(p, f, n) PROVE NeverSplit'
    BY <2>1, <2>10 DEF ReadCall, WriteCall, Call, pipe
  <2>11. ASSUME NEW p \in Procs, NEW F \in SUBSET Fds, NEW ev \in Events, PollCall(p, F, ev)
         PROVE  NeverSplit'
    BY <2>1, <2>11 DEF PollCall, Call, pipe
  <2>12. ASSUME NEW p \in Procs, TakeChannel(p) \/ ParkWoken(p) \/ ParkEnded(p)
         PROVE  NeverSplit'
    BY <2>1, <2>12 DEF TakeChannel, ParkWoken, ParkEnded, pipe
  <2>13. ASSUME NEW p \in Procs, NEW e \in Ends, Poll(p, e) PROVE NeverSplit'
    BY <2>1, <2>13 DEF Poll, pipe
  <2>14. QED
    BY <2>3, <2>4, <2>5, <2>6, <2>7, <2>8, <2>9, <2>10, <2>11, <2>12, <2>13 DEF Next
<1>3. QED
  BY <1>1, <1>2, TypeCorrect, PTL DEF Spec, SafeSpec
-----------------------------------------------------------------------------
(* Changes are not missed. *)

(* NoMissedChange for one process, and the same of a poll that is half      *)
(* through its files: what it has found not ready has not changed since, or *)
(* its channel is closed, or a notify is due.                               *)
Informed(p) ==
  /\ (pc[p] = "park" /\ ch[p] = "open" /\ CanGoOn(p)) => NotifyDue
  /\ (pc[p] = "op" /\ op[p].k = "poll" /\ ch[p] = "open") =>
       \A e \in op[p].on \ op[p].left : Ready(e, op[p].ev) => NotifyDue

(* The inductive invariant. *)
ChangeInv == \A p \in Procs : Informed(p)

(* Whether a call can go on depends on the pipe and the call only. *)
LEMMA SamePipe ==
  ASSUME UNCHANGED <<buf, count>>, NEW q \in Procs, op'[q] = op[q]
  PROVE  /\ CanGoOn(q)' <=> CanGoOn(q)
         /\ \A e : Ready(e, op[q].ev)' <=> Ready(e, op[q].ev)
<1>1. \A n : ReadResult(n)' = ReadResult(n) /\ WriteResult(n)' = WriteResult(n)
  BY DEF ReadResult, WriteResult, Writers, Readers, Space, EAGAIN, EPIPE
<1>2. \A e : PollBits(e)' = PollBits(e)
  BY DEF PollBits, Writers, Readers, Space
<1>3. \A e, ev : Ready(e, ev)' <=> Ready(e, ev)
  BY <1>2 DEF Ready
<1>4. QED
  BY <1>1, <1>3 DEF CanGoOn, EAGAIN

(* A step of p that leaves the pipe alone preserves the invariant if p is   *)
(* informed after it, and was not the one to notify.                        *)
LEMMA QuietStep ==
  ASSUME ChangeInv, UNCHANGED <<buf, count>>, NEW p \in Procs,
         pc[p] \notin {"notify", "endnotify"},
         \A q \in Procs \ {p} : pc'[q] = pc[q] /\ op'[q] = op[q] /\ ch'[q] = ch[q],
         Informed(p)'
  PROVE  ChangeInv'
<1>1. NotifyDue => NotifyDue'
  BY DEF NotifyDue
<1>2. ASSUME NEW q \in Procs \ {p} PROVE Informed(q)'
  <2>1. op'[q] = op[q] /\ pc'[q] = pc[q] /\ ch'[q] = ch[q]
    OBVIOUS
  <2>2. /\ CanGoOn(q)' <=> CanGoOn(q)
        /\ \A e : Ready(e, op[q].ev)' <=> Ready(e, op[q].ev)
    BY <2>1, SamePipe
  <2>3. Informed(q)
    BY DEF ChangeInv
  <2>4. QED
    BY <1>1, <2>1, <2>2, <2>3 DEF Informed
<1>3. QED
  BY <1>2 DEF ChangeInv
(* A process that neither looks nor waits is informed. *)
LEMMA ElsewhereInformed ==
  ASSUME NEW p \in Procs, pc'[p] \notin {"op", "park"} PROVE Informed(p)'
BY DEF Informed

(* A step that notifies informs everybody. *)
LEMMA LoudStep ==
  ASSUME \A q \in Procs : ch'[q] # "open" PROVE ChangeInv'
BY DEF ChangeInv, Informed

(* After the count of an end has gone down a notify is due. *)
LEMMA DueStep ==
  ASSUME NotifyDue' PROVE ChangeInv'
BY DEF ChangeInv, Informed

LEMMA NotifiedClosed == ASSUME ProcTypes PROVE \A q \in Procs : Notified[q] # "open"
BY DEF ProcTypes, Notified

(* The step of a process that has finished its look at the pipe: it made    *)
(* progress and notified, or it returns, or it parks and cannot go on.      *)
LEMMA IoInforms ==
  ASSUME ProcTypes, ChangeInv, NEW p \in Procs, NEW r, NEW b, pc[p] = "op",
         IoResult(p, r, b), UNCHANGED count,
         (r = EAGAIN /\ UNCHANGED <<buf, op>>) => ~CanGoOn(p)'
  PROVE  ChangeInv'
<1>1. CASE r > 0 /\ buf' = b /\ Return(p, Notified)
  <2>1. \A q \in Procs : ch'[q] # "open"
    BY <1>1, NotifiedClosed DEF Return, Notified, ProcTypes
  <2>2. QED
    BY <2>1, LoudStep
<1>2. CASE r <= 0 /\ Return(p, ch) /\ UNCHANGED buf
  <2>1. pc'[p] = "guest" /\ pc[p] \notin {"notify", "endnotify"}
    BY <1>2 DEF Return, ProcTypes
  <2>2. \A q \in Procs \ {p} : pc'[q] = pc[q] /\ op'[q] = op[q] /\ ch'[q] = ch[q]
    BY <1>2 DEF Return, ProcTypes
  <2>3. QED
    BY <1>2, <2>1, <2>2, QuietStep, ElsewhereInformed
<1>3. CASE r = EAGAIN /\ Park(p) /\ UNCHANGED buf
  <2>1. pc'[p] = "park" /\ pc[p] \notin {"notify", "endnotify"}
    BY <1>3 DEF Park, ProcTypes
  <2>2. \A q \in Procs \ {p} : pc'[q] = pc[q] /\ op'[q] = op[q] /\ ch'[q] = ch[q]
    BY <1>3 DEF Park, ProcTypes
  <2>3. ~CanGoOn(p)'
    BY <1>3 DEF Park
  <2>4. Informed(p)'
    BY <2>1, <2>3 DEF Informed
  <2>5. QED
    BY <1>3, <2>1, <2>2, <2>4, QuietStep
<1>4. QED
  BY <1>1, <1>2, <1>3 DEF IoResult

(* "A change between the check and the wait is not missed" (poll.go), nor   *)
(* one between two checks of the same poll: whoever stays parked on an open *)
(* channel could not go on, or is about to be notified.                     *)
THEOREM ChangeNeverMissed == Spec => []NoMissedChange
<1>1. Init => ChangeInv
  BY DEF Init, ChangeInv, Informed
<1>2. TypeOK /\ ChangeInv /\ [Next]_vars => ChangeInv'
  <2> SUFFICES ASSUME TypeOK, ChangeInv, [Next]_vars PROVE ChangeInv'
    OBVIOUS
  <2>0. ProcTypes
    BY DEF TypeOK, ProcTypes
  <2> DEFINE Alone(p) == \A q \in Procs \ {p} :
                           pc'[q] = pc[q] /\ op'[q] = op[q] /\ ch'[q] = ch[q]
             Outside(p) == pc[p] \notin {"notify", "endnotify"}
  <2>1. CASE UNCHANGED vars
    <3>1. SUFFICES ASSUME NEW p \in Procs PROVE Informed(p)'
      BY DEF ChangeInv
    <3>2. op'[p] = op[p] /\ UNCHANGED <<buf, count>> /\ UNCHANGED <<pc, ch, op>>
      BY <2>1 DEF vars, pipe
    <3>3. /\ CanGoOn(p)' <=> CanGoOn(p)
          /\ \A e : Ready(e, op[p].ev)' <=> Ready(e, op[p].ev)
      BY <3>2, SamePipe
    <3>4. QED
      BY <3>2, <3>3 DEF ChangeInv, Informed, NotifyDue
  <2>2. ASSUME NEW p \in Procs, NEW f \in Fds, NEW g \in Fds,
               PipeCall(p, f, g) \/ Dup(p, f, g) \/ DupOnto(p, f, g) PROVE ChangeInv'
    <3>1. UNCHANGED <<buf, count>> /\ Alone(p) /\ pc[p] = "guest" /\ pc'[p] \in {"guest", "drop"}
      BY <2>0, <2>2 DEF PipeCall, Dup, DupOnto, Holds, Goto, ProcTypes
    <3>2. QED
      BY <3>1, QuietStep, ElsewhereInformed
  <2>3. ASSUME NEW p \in Procs, NEW f \in Fds, Close(p, f) PROVE ChangeInv'
    <3>1. UNCHANGED <<buf, count>> /\ Alone(p) /\ pc[p] = "guest" /\ pc'[p] = "drop"
      BY <2>0, <2>3 DEF Close, Holds, Goto, ProcTypes, pipe
    <3>2. QED
      BY <3>1, QuietStep, ElsewhereInformed
  <2>4. ASSUME NEW p \in Procs, NEW f \in Fds, Drop(p, f) \/ CloseAll(p, f) PROVE ChangeInv'
    <3>1. drop[p][f] \in Ends
      BY <2>4 DEF Drop, CloseAll, IsLowestUsed, TypeOK, Tables
    <3>2. CASE refs[drop[p][f]] = 1
      <4>1. pc'[p] \in {"notify", "endnotify"}
        BY <2>0, <2>4, <3>2 DEF Drop, CloseAll, Unref, ProcTypes
      <4>2. NotifyDue'
        BY <4>1 DEF NotifyDue
      <4>3. QED
        BY <4>2, DueStep
    <3>3. CASE refs[drop[p][f]] # 1
      <4>1. Alone(p) /\ pc[p] \in {"drop", "enddrop"} /\ pc'[p] \in {"guest", "enddrop"}
        BY <2>0, <2>4, <3>3 DEF Drop, CloseAll, Unref, ProcTypes
      <4>2. buf' = buf /\ count' = [count EXCEPT ![drop[p][f]] = @]
        BY <2>4, <3>3 DEF Drop, CloseAll, Unref
      <4>3. UNCHANGED <<buf, count>>
        BY <3>1, <4>2 DEF TypeOK
      <4>4. QED
        BY <4>1, <4>3, QuietStep, ElsewhereInformed
    <3>4. QED
      BY <3>2, <3>3
  <2>5. ASSUME NEW p \in Procs, NEW c \in Procs, NEW F \in SUBSET Fds, Spawn(p, c, F)
        PROVE  ChangeInv'
    <3>1. UNCHANGED <<buf, count>> /\ Alone(c) /\ pc[c] = "unborn" /\ pc'[c] = "guest"
      BY <2>0, <2>5 DEF Spawn, ProcTypes
    <3>2. QED
      BY <3>1, QuietStep, ElsewhereInformed
  <2>6. ASSUME NEW p \in Procs, Notify(p) \/ CloseAllNotify(p) PROVE ChangeInv'
    <3>1. ch' = Notified
      BY <2>6 DEF Notify, CloseAllNotify
    <3>2. QED
      BY <2>0, <3>1, NotifiedClosed, LoudStep
  <2>7. ASSUME NEW p \in Procs, Exit(p) PROVE ChangeInv'
    <3>1. /\ UNCHANGED <<buf, count>> /\ Alone(p)
          /\ pc[p] \in {"guest", "park"} /\ pc'[p] = "enddrop"
      BY <2>0, <2>7 DEF Exit, ProcTypes, pipe
    <3>2. QED
      BY <3>1, QuietStep, ElsewhereInformed
  <2>8. ASSUME NEW p \in Procs, CloseAllDone(p) PROVE ChangeInv'
    <3>1. UNCHANGED <<buf, count>> /\ Alone(p) /\ pc[p] = "enddrop" /\ pc'[p] = "gone"
      BY <2>0, <2>8 DEF CloseAllDone, Goto, ProcTypes, pipe
    <3>2. QED
      BY <3>1, QuietStep, ElsewhereInformed
  <2>9. ASSUME NEW p \in Procs, NEW c, Call(p, c) PROVE ChangeInv'
    <3>1. UNCHANGED <<buf, count>> /\ Alone(p) /\ pc[p] = "guest" /\ pc'[p] = "wait"
      BY <2>0, <2>9 DEF Call, Goto, ProcTypes, pipe
    <3>2. QED
      BY <3>1, QuietStep, ElsewhereInformed
  <2>10. ASSUME NEW p \in Procs, TakeChannel(p) PROVE ChangeInv'
    <3>1. UNCHANGED <<buf, count>> /\ Alone(p) /\ pc[p] = "wait" /\ pc'[p] = "op"
      BY <2>0, <2>10 DEF TakeChannel, Goto, ProcTypes, pipe
    <3>2. op[p] \in Calls /\ op'[p] = [op[p] EXCEPT !.left = op[p].on]
      BY <2>0, <2>10 DEF TakeChannel, ProcTypes
    <3>3. op'[p].on \ op'[p].left = {}
      BY <3>2 DEF Calls
    <3>4. Informed(p)'
      BY <3>1, <3>3 DEF Informed
    <3>5. QED
      BY <3>1, <3>4, QuietStep
  <2>11. ASSUME NEW p \in Procs, Read(p) PROVE ChangeInv'
    <3> DEFINE r == ReadResult(op[p].n)
    <3>1. /\ pc[p] = "op" /\ UNCHANGED count /\ op[p].k = "read"
          /\ IoResult(p, r, SubSeq(buf, r + 1, Len(buf)))
      BY <2>11 DEF Read
    <3>2. (r = EAGAIN /\ UNCHANGED <<buf, op>>) => ~CanGoOn(p)'
      <4>1. SUFFICES ASSUME r = EAGAIN, UNCHANGED <<buf, op>> PROVE ~CanGoOn(p)'
        OBVIOUS
      <4>2. ~CanGoOn(p)
        BY <3>1, <4>1 DEF CanGoOn
      <4>3. QED
        BY <3>1, <4>1, <4>2, SamePipe
    <3> HIDE DEF r
    <3>3. QED
      BY <2>0, <3>1, <3>2, IoInforms
  <2>12. ASSUME NEW p \in Procs, Write(p) PROVE ChangeInv'
    <3> DEFINE r == WriteResult(op[p].n)
               b == buf \o [i \in 1..r |-> [w |-> p, n |-> op[p].n, i |-> i]]
    <3>1. /\ pc[p] = "op" /\ UNCHANGED count /\ op[p].k = "write"
          /\ IoResult(p, r, b)
      BY <2>12 DEF Write
    <3>2. (r = EAGAIN /\ UNCHANGED <<buf, op>>) => ~CanGoOn(p)'
      <4>1. SUFFICES ASSUME r = EAGAIN, UNCHANGED <<buf, op>> PROVE ~CanGoOn(p)'
        OBVIOUS
      <4>2. ~CanGoOn(p)
        BY <3>1, <4>1 DEF CanGoOn
      <4>3. QED
        BY <3>1, <4>1, <4>2, SamePipe
    <3> HIDE DEF r, b
    <3>3. QED
      BY <2>0, <3>1, <3>2, IoInforms
  <2>13. ASSUME NEW p \in Procs, NEW e \in Ends, Poll(p, e) PROVE ChangeInv'
    <3>1. /\ UNCHANGED <<buf, count>> /\ pc[p] = "op" /\ op[p].k = "poll"
          /\ e \in op[p].left /\ Informed(p)
      BY <2>13 DEF Poll, pipe, ChangeInv
    <3>2. CASE Return(p, ch)
      <4>1. Alone(p) /\ pc'[p] = "guest"
        BY <2>0, <3>2 DEF Return, ProcTypes
      <4>2. QED
        BY <3>1, <4>1, QuietStep, ElsewhereInformed
    <3>3. CASE ~Ready(e, op[p].ev) /\ op[p].left = {e} /\ Park(p)
      <4>1. Alone(p) /\ pc'[p] = "park" /\ op'[p] = op[p] /\ ch'[p] = ch[p]
        BY <2>0, <3>3 DEF Park, ProcTypes
      <4>2. NotifyDue => NotifyDue'
        BY <3>1, <4>1 DEF NotifyDue
      <4>3. (ch[p] = "open" /\ CanGoOn(p)) => NotifyDue
        BY <3>1, <3>3 DEF CanGoOn, Informed
      <4>4. CanGoOn(p)' <=> CanGoOn(p)
        BY <3>1, <4>1, SamePipe
      <4>5. Informed(p)'
        BY <4>1, <4>2, <4>3, <4>4 DEF Informed
      <4>6. QED
        BY <3>1, <4>1, <4>5, QuietStep
    <3>4. CASE /\ ~Ready(e, op[p].ev)
               /\ op' = [op EXCEPT ![p].left = @ \ {e}] /\ UNCHANGED <<pc, ch>>
      <4>1. op[p] \in Calls /\ op'[p] = [op[p] EXCEPT !.left = op[p].left \ {e}]
        BY <2>0, <3>4 DEF ProcTypes
      <4>2. /\ op'[p].k = op[p].k /\ op'[p].on = op[p].on /\ op'[p].ev = op[p].ev
            /\ op'[p].left = op[p].left \ {e}
        BY <4>1 DEF Calls
      <4>3. Alone(p) /\ pc'[p] = "op" /\ ch'[p] = ch[p]
        BY <2>0, <3>1, <3>4 DEF ProcTypes
      <4>4. NotifyDue' <=> NotifyDue
        BY <3>4 DEF NotifyDue
      <4>5. \A x : Ready(x, op[p].ev)' <=> Ready(x, op[p].ev)
        BY <3>1, <4>2 DEF Ready, PollBits, Readers, Writers, Space
      <4>6. Informed(p)'
        BY <3>1, <3>4, <4>2, <4>3, <4>4, <4>5 DEF Informed
      <4>7. QED
        BY <3>1, <4>3, <4>6, QuietStep
    <3>5. QED
      BY <2>13, <3>2, <3>3, <3>4 DEF Poll
  <2>14. ASSUME NEW p \in Procs, ParkWoken(p) \/ ParkEnded(p) PROVE ChangeInv'
    <3>1. /\ UNCHANGED <<buf, count>> /\ Alone(p)
          /\ pc[p] = "park" /\ pc'[p] \in {"wait", "guest"}
      BY <2>0, <2>14 DEF ParkWoken, ParkEnded, Return, Goto, ProcTypes, pipe
    <3>2. QED
      BY <3>1, QuietStep, ElsewhereInformed
  <2>15. QED
    BY <2>1, <2>2, <2>3, <2>4, <2>5, <2>6, <2>7, <2>8, <2>9, <2>10, <2>11, <2>12, <2>13, <2>14
       DEF Next, ReadCall, WriteCall, PollCall
<1>3. ChangeInv => NoMissedChange
  BY DEF ChangeInv, Informed, NoMissedChange
<1>4. QED
  BY <1>1, <1>2, <1>3, TypeCorrect, PTL DEF Spec, SafeSpec

-----------------------------------------------------------------------------
(* Reference counts. *)

(* The places of the tables t that hold the open file e: Open(e) for the    *)
(* descriptors, Dropped(e) for what is being dropped.                       *)
At(t, e) == {h \in Procs \X Fds : t[h[1]][h[2]] = e}

(* The tables t with x at one place, and with the table r for one process. *)
Put(t, p, f, x) == [t EXCEPT ![p][f] = x]
PutAll(t, p, r) == [t EXCEPT ![p] = r]

(* Two facts of the library, in the form used here. *)
LEMMA OneMore ==
  ASSUME NEW S, NEW x, IsFiniteSet(S), x \notin S
  PROVE  IsFiniteSet(S \cup {x}) /\ Cardinality(S \cup {x}) = Cardinality(S) + 1
BY FS_AddElement

LEMMA DisjointUnion ==
  ASSUME NEW S, NEW T, IsFiniteSet(S), IsFiniteSet(T), S \cap T = {}
  PROVE  IsFiniteSet(S \cup T) /\ Cardinality(S \cup T) = Cardinality(S) + Cardinality(T)
<1>1. /\ IsFiniteSet(S \cup T)
      /\ Cardinality(S \cup T) = Cardinality(S) + Cardinality(T) - Cardinality(S \cap T)
  BY FS_Union, Zenon
<1>2. Cardinality(S \cap T) = 0
  BY FS_EmptySet
<1>3. Cardinality(S) \in Nat /\ Cardinality(T) \in Nat
  BY FS_CardinalityType
<1>4. QED
  BY <1>1, <1>2, <1>3

LEMMA PlaceIn ==
  ASSUME NEW t, NEW e, NEW p \in Procs, NEW f \in Fds
  PROVE  <<p, f>> \in At(t, e) <=> t[p][f] = e
BY DEF At

(* A file put at a free place is at one more place. *)
LEMMA SetPlace ==
  ASSUME NEW t \in [Procs -> Tables], NEW p \in Procs, NEW f \in Fds, t[p][f] = None,
         NEW x \in Ends \cup {None}, NEW u, u = Put(t, p, f, x),
         NEW e \in Ends, IsFiniteSet(At(t, e))
  PROVE  /\ IsFiniteSet(At(u, e))
         /\ Cardinality(At(u, e)) = Cardinality(At(t, e)) + (IF x = e THEN 1 ELSE 0)
<1>1. u \in [Procs -> Tables]
  BY TableTypes DEF Put
<1>2. \A q \in Procs, g \in Fds : u[q][g] = IF q = p /\ g = f THEN x ELSE t[q][g]
  BY <1>1 DEF Tables, Put
<1>3. e # None
  BY DEF Ends, None
<1>4. <<p, f>> \notin At(t, e) /\ Cardinality(At(t, e)) \in Nat
  BY <1>3, PlaceIn, FS_CardinalityType
<1>5. CASE x = e
  <2>1. At(u, e) = At(t, e) \cup {<<p, f>>}
    BY <1>2, <1>5 DEF At
  <2>2. IsFiniteSet(At(u, e)) /\ Cardinality(At(u, e)) = Cardinality(At(t, e)) + 1
    BY ONLY <1>4, <2>1, OneMore, IsFiniteSet(At(t, e)), ZenonT(30)
  <2>3. QED
    BY <1>1, <1>5, <2>2
<1>6. CASE x # e
  <2>1. At(u, e) = At(t, e)
    BY <1>2, <1>3, <1>6 DEF At
  <2>2. QED
    BY <1>1, <1>4, <1>6, <2>1
<1>7. QED
  BY <1>5, <1>6

(* A file taken out of a place is at one less. *)
LEMMA ClearPlace ==
  ASSUME NEW t \in [Procs -> Tables], NEW p \in Procs, NEW f \in Fds,
         NEW u, u = Put(t, p, f, None), NEW e \in Ends, IsFiniteSet(At(t, e))
  PROVE  /\ IsFiniteSet(At(u, e))
         /\ Cardinality(At(u, e)) = Cardinality(At(t, e)) - (IF t[p][f] = e THEN 1 ELSE 0)
         /\ t[p][f] = e => Cardinality(At(t, e)) > 0
<1>1. u \in [Procs -> Tables]
  BY TableTypes DEF Put
<1>2. \A q \in Procs, g \in Fds : u[q][g] = IF q = p /\ g = f THEN None ELSE t[q][g]
  BY <1>1 DEF Tables, Put
<1>3. e # None
  BY DEF Ends, None
<1>4. Cardinality(At(t, e)) \in Nat
  BY FS_CardinalityType
<1>5. CASE t[p][f] = e
  <2>1. At(u, e) = At(t, e) \ {<<p, f>>} /\ <<p, f>> \in At(t, e)
    BY <1>2, <1>3, <1>5 DEF At
  <2>2. IsFiniteSet(At(u, e)) /\ Cardinality(At(u, e)) = Cardinality(At(t, e)) - 1
    BY <2>1, FS_RemoveElement
  <2>3. Cardinality(At(u, e)) \in Nat
    BY <2>2, FS_CardinalityType
  <2>4. Cardinality(At(t, e)) > 0
    BY <1>4, <2>2, <2>3
  <2>5. QED
    BY <1>1, <1>5, <2>2, <2>4
<1>6. CASE t[p][f] # e
  <2>1. At(u, e) = At(t, e)
    BY <1>2, <1>3, <1>6 DEF At
  <2>2. QED
    BY <1>1, <1>4, <1>6, <2>1
<1>7. QED
  BY <1>5, <1>6

(* A table put in the place of an empty one adds what it holds. *)
LEMMA SetRow ==
  ASSUME NEW t \in [Procs -> Tables], NEW p \in Procs, t[p] = Empty,
         NEW row \in Tables, NEW u, u = PutAll(t, p, row),
         NEW e \in Ends, IsFiniteSet(At(t, e))
  PROVE  /\ IsFiniteSet(At(u, e))
         /\ Cardinality(At(u, e)) = Cardinality(At(t, e)) + Cardinality({f \in Fds : row[f] = e})
<1> DEFINE F == {f \in Fds : row[f] = e}
           P == {<<p, f>> : f \in F}
<1>1. u \in [Procs -> Tables]
  BY DEF PutAll
<1>2. \A q \in Procs, g \in Fds : u[q][g] = IF q = p THEN row[g] ELSE t[q][g]
  BY <1>1 DEF PutAll
<1>3. e # None /\ \A g \in Fds : t[p][g] = None
  BY DEF Ends, None, Empty
<1>4. At(u, e) = At(t, e) \cup P
  BY <1>2, <1>3 DEF At
<1>5. At(t, e) \cap P = {}
  BY <1>3 DEF At
<1>6. IsFiniteSet(F) /\ Cardinality(F) \in Nat
  BY FdsFinite
<1>7. IsFiniteSet(P) /\ Cardinality(P) = Cardinality(F)
  <2>1. PICK k : k = [f \in F |-> <<p, f>>]
    OBVIOUS
  <2>2. k \in Bijection(F, P)
    <3> HIDE DEF F
    <3>1. k \in [F -> P] /\ \A f \in F : k[f] = <<p, f>>
      BY <2>1
    <3>2. \A a, b \in F : k[a] = k[b] => a = b
      BY <3>1
    <3>3. \A y \in P : \E a \in F : k[a] = y
      BY <3>1
    <3>4. QED
      BY <3>1, <3>2, <3>3 DEF Bijection, Injection, Surjection, IsInjective
  <2>3. ExistsBijection(F, P)
    BY <2>2 DEF ExistsBijection
  <2>4. QED
    BY <1>6, <2>3, FS_Bijection
<1> HIDE DEF F, P
<1>8. /\ IsFiniteSet(At(t, e) \cup P)
      /\ Cardinality(At(t, e) \cup P) = Cardinality(At(t, e)) + Cardinality(F)
  BY <1>5, <1>7, DisjointUnion, Zenon
<1>9. QED
  BY <1>1, <1>4, <1>8 DEF F

(* A table that is emptied held what is missing then. *)
LEMMA ClearRow ==
  ASSUME NEW t \in [Procs -> Tables], NEW p \in Procs, NEW u, u = PutAll(t, p, Empty),
         NEW row \in Tables, row = t[p], NEW e \in Ends, IsFiniteSet(At(t, e))
  PROVE  /\ IsFiniteSet(At(u, e))
         /\ Cardinality(At(t, e)) = Cardinality(At(u, e)) + Cardinality({f \in Fds : row[f] = e})
<1>1. Empty \in Tables
  BY DEF Empty, Tables
<1>2. u \in [Procs -> Tables]
  BY <1>1 DEF PutAll
<1>3. u[p] = Empty /\ t = PutAll(u, p, row)
  BY <1>2 DEF PutAll
<1>4. \A g \in Fds : u[p][g] # e
  BY <1>3 DEF Empty, Ends, None
<1>5. At(u, e) \subseteq At(t, e)
  BY <1>2, <1>4 DEF At, PutAll
<1>6. IsFiniteSet(At(u, e))
  BY <1>5, FS_Subset
<1>7. Cardinality(At(t, e)) = Cardinality(At(u, e)) + Cardinality({f \in Fds : row[f] = e})
  BY ONLY <1>2, <1>3, <1>6, SetRow, p \in Procs, row \in Tables, e \in Ends
<1>8. QED
  BY <1>6, <1>7

(* The inductive invariant.  A process that is not closing has nothing to   *)
(* drop, and Close and Dup have one file to drop each; the counts of an end *)
(* are those of its places, from before the pipe is created.                *)
Early == {"unborn", "guest", "wait", "op", "park", "notify"}
Tidy(p) == /\ pc[p] = "unborn" => fds[p] = Empty
           /\ pc[p] \in Early => drop[p] = Empty
           /\ pc[p] = "drop" =>
                \A f, g \in Fds : (drop[p][f] # None /\ drop[p][g] # None) => f = g
Counted(e) == /\ IsFiniteSet(At(fds, e)) /\ IsFiniteSet(At(drop, e))
              /\ refs[e] = Cardinality(At(fds, e)) + Cardinality(At(drop, e))
Released(e) == NewPipe \/ count[e] = IF refs[e] > 0 THEN 1 ELSE 0
RefInv == /\ \A p \in Procs : Tidy(p)
          /\ \A e \in Ends : Counted(e) /\ Released(e)

(* A place that holds an end counts: the pipe exists. *)
LEMMA HeldIsCounted ==
  ASSUME TypeOK, RefInv, NEW e \in Ends, NEW p \in Procs, NEW f \in Fds,
         fds[p][f] = e \/ drop[p][f] = e
  PROVE  refs[e] > 0 /\ ~NewPipe
<1>t. fds \in [Procs -> Tables] /\ drop \in [Procs -> Tables]
  BY DEF TypeOK
<1>1. /\ IsFiniteSet(At(fds, e)) /\ IsFiniteSet(At(drop, e))
      /\ refs[e] = Cardinality(At(fds, e)) + Cardinality(At(drop, e))
  BY DEF RefInv, Counted
<1>2. Cardinality(At(fds, e)) \in Nat /\ Cardinality(At(drop, e)) \in Nat
  BY <1>1, FS_CardinalityType
<1>3. fds[p][f] = e => Cardinality(At(fds, e)) > 0
  BY <1>1, <1>t, ClearPlace
<1>4. drop[p][f] = e => Cardinality(At(drop, e)) > 0
  BY <1>1, <1>t, ClearPlace
<1>5. refs[e] > 0
  BY <1>1, <1>2, <1>3, <1>4
<1>6. QED
  BY <1>5 DEF NewPipe, Ends

(* A step that only moves the process p on. *)
LEMMA MovesOn ==
  ASSUME RefInv, UNCHANGED <<fds, refs, count, drop>>, NEW p \in Procs,
         \A q \in Procs \ {p} : pc'[q] = pc[q],
         pc'[p] \notin {"unborn", "drop"}, pc'[p] \in Early => pc[p] \in Early
  PROVE  RefInv'
<1>1. ASSUME NEW q \in Procs PROVE Tidy(q)'
  <2>1. Tidy(q)
    BY DEF RefInv
  <2>2. CASE q = p
    BY <2>1, <2>2 DEF Tidy
  <2>3. CASE q # p
    <3>1. pc'[q] = pc[q]
      BY <2>3
    <3>2. QED
      BY <2>1, <3>1 DEF Tidy
  <2>4. QED
    BY <2>2, <2>3
<1>2. ASSUME NEW e \in Ends PROVE Counted(e)' /\ Released(e)'
  BY DEF RefInv, Counted, Released, NewPipe
<1>3. QED
  BY <1>1, <1>2 DEF RefInv

(* The last unref of an end, and no other, takes down its count. *)
LEMMA UnrefCounts ==
  ASSUME TypeOK, RefInv, NEW p \in Procs, NEW f \in Fds, drop[p][f] # None,
         NEW a, NEW b, Unref(p, drop[p][f], a, b),
         UNCHANGED fds, drop' = [drop EXCEPT ![p][f] = None]
  PROVE  \A e \in Ends : Counted(e)' /\ Released(e)'
<1>t. fds \in [Procs -> Tables] /\ drop \in [Procs -> Tables]
  BY DEF TypeOK
<1>1. PICK d \in Ends : d = drop[p][f]
  BY DEF TypeOK, Tables
<1>p. drop' = Put(drop, p, f, None)
  BY DEF Put
<1>2. refs[d] > 0 /\ ~NewPipe
  BY <1>1, HeldIsCounted
<1>3. SUFFICES ASSUME NEW e \in Ends PROVE Counted(e)' /\ Released(e)'
  OBVIOUS
<1>4. /\ IsFiniteSet(At(fds, e)) /\ IsFiniteSet(At(drop, e))
      /\ refs[e] = Cardinality(At(fds, e)) + Cardinality(At(drop, e))
      /\ count[e] = IF refs[e] > 0 THEN 1 ELSE 0
  BY <1>2 DEF RefInv, Counted, Released
<1>5. /\ IsFiniteSet(At(drop', e))
      /\ Cardinality(At(drop', e)) = Cardinality(At(drop, e)) - (IF d = e THEN 1 ELSE 0)
  BY ONLY <1>1, <1>4, <1>p, <1>t, ClearPlace, p \in Procs, f \in Fds, e \in Ends
<1>6. /\ Cardinality(At(fds, e)) \in Nat /\ Cardinality(At(drop, e)) \in Nat
      /\ Cardinality(At(drop', e)) \in Nat
  BY <1>4, <1>5, FS_CardinalityType
<1>7. refs'[e] = refs[e] - (IF d = e THEN 1 ELSE 0)
  BY <1>1 DEF Unref, TypeOK
<1>8. count'[e] = IF d = e /\ refs[e] = 1 THEN count[e] - 1 ELSE count[e]
  BY <1>1 DEF Unref, TypeOK
<1>9. refs'[e] = Cardinality(At(fds, e)) + Cardinality(At(drop', e))
  BY ONLY <1>4, <1>5, <1>6, <1>7
<1>10. Counted(e)'
  BY <1>4, <1>5, <1>9 DEF Counted
<1>11. refs[e] \in Int /\ count[e] \in Int /\ (d = e => refs[e] > 0)
  BY <1>2 DEF TypeOK
<1>12. count'[e] = IF refs'[e] > 0 THEN 1 ELSE 0
  BY ONLY <1>4, <1>7, <1>8, <1>11
<1>13. QED
  BY <1>10, <1>12 DEF Released

(* What the actions do to the tables and the counts. *)
LEMMA RefStep == TypeOK /\ RefInv /\ [Next]_vars => RefInv'
<1> SUFFICES ASSUME TypeOK, RefInv, [Next]_vars PROVE RefInv'
  OBVIOUS
<1>0. /\ \A p \in Procs : Tidy(p)
      /\ \A e \in Ends : Counted(e) /\ Released(e)
  BY DEF RefInv
<1>t. fds \in [Procs -> Tables] /\ drop \in [Procs -> Tables]
  BY DEF TypeOK
<1>w. "r" \in Ends \cup {None} /\ "w" \in Ends \cup {None}
  BY DEF Ends
<1>1. CASE UNCHANGED vars
  BY <1>1 DEF vars, pipe, RefInv, Tidy, Counted, Released, NewPipe
<1>2. ASSUME NEW p \in Procs, NEW f \in Fds, NEW g \in Fds, PipeCall(p, f, g) PROVE RefInv'
  <2>1. f # g /\ fds[p][f] = None /\ fds[p][g] = None
    BY <1>2 DEF PipeCall, IsLowestFree, TypeOK, Tables, None
  <2>2. PICK t \in [Procs -> Tables] : t = Put(fds, p, f, "r")
    BY <1>t, <1>w, TableTypes DEF Put
  <2>3. t[p][g] = None /\ fds' = Put(t, p, g, "w")
    BY <1>2, <1>t, <2>1, <2>2 DEF PipeCall, Tables, Put
  <2>4. ASSUME NEW e \in Ends PROVE Counted(e)' /\ Released(e)'
    <3>1. /\ IsFiniteSet(At(fds, e)) /\ IsFiniteSet(At(drop, e)) /\ refs[e] = 0
          /\ refs[e] = Cardinality(At(fds, e)) + Cardinality(At(drop, e))
      BY <1>0, <1>2 DEF Counted, PipeCall, NewPipe, Ends
    <3>2. /\ IsFiniteSet(At(t, e))
          /\ Cardinality(At(t, e)) = Cardinality(At(fds, e)) + (IF "r" = e THEN 1 ELSE 0)
      BY <1>t, <1>w, <2>1, <2>2, <3>1, SetPlace
    <3>3. /\ IsFiniteSet(At(fds', e))
          /\ Cardinality(At(fds', e)) = Cardinality(At(t, e)) + (IF "w" = e THEN 1 ELSE 0)
      BY <1>w, <2>2, <2>3, <3>2, SetPlace
    <3>4. Cardinality(At(fds, e)) \in Nat /\ Cardinality(At(drop, e)) \in Nat
      BY <3>1, FS_CardinalityType
    <3>5. refs'[e] = 1 /\ count'[e] = 1 /\ UNCHANGED drop
      BY <1>2 DEF PipeCall, NewPipe, Ends
    <3>6. ("r" = e /\ "w" # e) \/ ("r" # e /\ "w" = e)
      BY DEF Ends
    <3>7. refs'[e] = Cardinality(At(fds', e)) + Cardinality(At(drop, e))
      BY ONLY <3>1, <3>2, <3>3, <3>4, <3>5, <3>6
    <3>8. QED
      BY <3>1, <3>3, <3>5, <3>7 DEF Counted, Released
  <2>5. ASSUME NEW q \in Procs PROVE Tidy(q)'
    <3>1. UNCHANGED <<pc, drop>> /\ (q # p => fds'[q] = fds[q]) /\ pc[p] # "unborn"
      BY <1>2 DEF PipeCall, TypeOK
    <3>2. QED
      BY <1>0, <3>1 DEF Tidy
  <2>6. QED
    BY <2>4, <2>5 DEF RefInv
<1>3. ASSUME NEW p \in Procs, NEW f \in Fds, NEW g \in Fds, Dup(p, f, g) PROVE RefInv'
  <2>1. PICK d \in Ends : d = fds[p][f]
    BY <1>3 DEF Dup, Holds, TypeOK, Tables
  <2>2. fds[p][g] = None /\ fds' = Put(fds, p, g, d) /\ refs' = [refs EXCEPT ![d] = @ + 1]
    BY <1>3, <2>1 DEF Dup, Add, IsLowestFree, Put
  <2>3. refs[d] > 0 /\ ~NewPipe
    BY <2>1, HeldIsCounted
  <2>4. ASSUME NEW e \in Ends PROVE Counted(e)' /\ Released(e)'
    <3>1. /\ IsFiniteSet(At(fds, e)) /\ IsFiniteSet(At(drop, e))
          /\ refs[e] = Cardinality(At(fds, e)) + Cardinality(At(drop, e))
          /\ count[e] = IF refs[e] > 0 THEN 1 ELSE 0
      BY <1>0, <2>3 DEF Counted, Released
    <3>2. /\ IsFiniteSet(At(fds', e))
          /\ Cardinality(At(fds', e)) = Cardinality(At(fds, e)) + (IF d = e THEN 1 ELSE 0)
      BY <1>t, <2>1, <2>2, <3>1, SetPlace
    <3>3. Cardinality(At(fds, e)) \in Nat /\ Cardinality(At(drop, e)) \in Nat
      BY <3>1, FS_CardinalityType
    <3>4. /\ refs'[e] = refs[e] + (IF d = e THEN 1 ELSE 0) /\ UNCHANGED <<count, drop>>
          /\ (d = e => refs[e] > 0)
      BY <1>3, <2>2, <2>3 DEF Dup, TypeOK
    <3>5. refs'[e] = Cardinality(At(fds', e)) + Cardinality(At(drop, e))
      BY ONLY <3>1, <3>2, <3>3, <3>4
    <3>6. count[e] = IF refs'[e] > 0 THEN 1 ELSE 0
      BY ONLY <3>1, <3>3, <3>4
    <3>7. QED
      BY <3>1, <3>2, <3>4, <3>5, <3>6 DEF Counted, Released
  <2>5. ASSUME NEW q \in Procs PROVE Tidy(q)'
    <3>1. UNCHANGED <<pc, drop>> /\ (q # p => fds'[q] = fds[q]) /\ pc[p] # "unborn"
      BY <1>3, <2>2 DEF Dup, Holds, TypeOK, Put
    <3>2. QED
      BY <1>0, <3>1 DEF Tidy
  <2>6. QED
    BY <2>4, <2>5 DEF RefInv

<1>4. ASSUME NEW p \in Procs, NEW f \in Fds, NEW g \in Fds, DupOnto(p, f, g) PROVE RefInv'
  <2>1. PICK d \in Ends : d = fds[p][f]
    BY <1>4 DEF DupOnto, Holds, TypeOK, Tables
  <2>2. PICK o \in Ends \cup {None} : o = fds[p][g]
    BY DEF TypeOK, Tables
  <2>3. fds' = Put(fds, p, g, d) /\ refs' = [refs EXCEPT ![d] = @ + 1]
    BY <1>4, <2>1 DEF DupOnto, Put
  <2>4. drop[p] = Empty /\ pc[p] = "guest"
    BY <1>0, <1>4 DEF DupOnto, Holds, Tidy, Early
  <2>5. drop[p][g] = None
    BY <2>4 DEF Empty
  <2>6. drop' = Put(drop, p, g, o)
    <3>1. CASE o = None
      BY <1>4, <2>2, <2>5, <3>1 DEF DupOnto, TypeOK, Tables, Put
    <3>2. CASE o # None
      BY <1>4, <2>2, <3>2 DEF DupOnto, Put
    <3>3. QED
      BY <3>1, <3>2
  <2>7. PICK t \in [Procs -> Tables] : t = Put(fds, p, g, None)
    BY <1>t, TableTypes DEF Put
  <2>8. t[p][g] = None /\ fds' = Put(t, p, g, d)
    BY <1>t, <2>3, <2>7 DEF Tables, Put
  <2>9. refs[d] > 0 /\ ~NewPipe
    BY <2>1, HeldIsCounted
  <2>10. ASSUME NEW e \in Ends PROVE Counted(e)' /\ Released(e)'
    <3>1. /\ IsFiniteSet(At(fds, e)) /\ IsFiniteSet(At(drop, e))
          /\ refs[e] = Cardinality(At(fds, e)) + Cardinality(At(drop, e))
          /\ count[e] = IF refs[e] > 0 THEN 1 ELSE 0
      BY <1>0, <2>9 DEF Counted, Released
    <3>2. /\ IsFiniteSet(At(t, e))
          /\ Cardinality(At(t, e)) = Cardinality(At(fds, e)) - (IF o = e THEN 1 ELSE 0)
      BY <1>t, <2>2, <2>7, <3>1, ClearPlace
    <3>3. /\ IsFiniteSet(At(fds', e))
          /\ Cardinality(At(fds', e)) = Cardinality(At(t, e)) + (IF d = e THEN 1 ELSE 0)
      BY <2>8, <3>2, SetPlace
    <3>4. /\ IsFiniteSet(At(drop', e))
          /\ Cardinality(At(drop', e)) = Cardinality(At(drop, e)) + (IF o = e THEN 1 ELSE 0)
      BY <1>t, <2>2, <2>5, <2>6, <3>1, SetPlace
    <3>5. /\ Cardinality(At(fds, e)) \in Nat /\ Cardinality(At(drop, e)) \in Nat
      BY <3>1, FS_CardinalityType
    <3>6. /\ refs'[e] = refs[e] + (IF d = e THEN 1 ELSE 0) /\ UNCHANGED count
          /\ (d = e => refs[e] > 0)
      BY <1>4, <2>3, <2>9 DEF DupOnto, TypeOK
    <3>7. refs'[e] = Cardinality(At(fds', e)) + Cardinality(At(drop', e))
      BY ONLY <3>1, <3>2, <3>3, <3>4, <3>5, <3>6
    <3>8. count[e] = IF refs'[e] > 0 THEN 1 ELSE 0
      BY ONLY <3>1, <3>5, <3>6
    <3>9. QED
      BY <3>3, <3>4, <3>6, <3>7, <3>8 DEF Counted, Released
  <2>11. ASSUME NEW q \in Procs PROVE Tidy(q)'
    <3>1. CASE q # p
      <4>1. pc'[q] = pc[q] /\ fds'[q] = fds[q] /\ drop'[q] = drop[q]
        BY <1>4, <2>3, <2>6, <3>1 DEF DupOnto, Goto, TypeOK, Put
      <4>2. QED
        BY <1>0, <4>1 DEF Tidy
    <3>2. CASE q = p
      <4>1. \A h \in Fds : h # g => drop'[p][h] = None
        BY <2>4, <2>6 DEF TypeOK, Tables, Empty, Put
      <4>2. pc'[p] = IF o = None THEN "guest" ELSE "drop"
        BY <1>4, <2>2, <2>4 DEF DupOnto, Goto, TypeOK
      <4>3. o = None => drop' = drop
        BY <1>4, <2>2 DEF DupOnto
      <4>4. QED
        BY <2>4, <3>2, <4>1, <4>2, <4>3 DEF Tidy, Early
    <3>3. QED
      BY <3>1, <3>2
  <2>12. QED
    BY <2>10, <2>11 DEF RefInv
<1>5. ASSUME NEW p \in Procs, NEW f \in Fds, Close(p, f) PROVE RefInv'
  <2>1. PICK d \in Ends : d = fds[p][f]
    BY <1>5 DEF Close, Holds, TypeOK, Tables
  <2>2. /\ fds' = Put(fds, p, f, None) /\ drop' = Put(drop, p, f, d)
        /\ UNCHANGED <<refs, count>>
    BY <1>5, <2>1 DEF Close, pipe, Put
  <2>3. drop[p] = Empty /\ pc[p] = "guest"
    BY <1>0, <1>5 DEF Close, Holds, Tidy, Early
  <2>4. drop[p][f] = None
    BY <2>3 DEF Empty
  <2>5. ASSUME NEW e \in Ends PROVE Counted(e)' /\ Released(e)'
    <3>1. /\ IsFiniteSet(At(fds, e)) /\ IsFiniteSet(At(drop, e)) /\ Released(e)
          /\ refs[e] = Cardinality(At(fds, e)) + Cardinality(At(drop, e))
      BY <1>0 DEF Counted
    <3>2. /\ IsFiniteSet(At(fds', e))
          /\ Cardinality(At(fds', e)) = Cardinality(At(fds, e)) - (IF d = e THEN 1 ELSE 0)
      BY <1>t, <2>1, <2>2, <3>1, ClearPlace
    <3>3. /\ IsFiniteSet(At(drop', e))
          /\ Cardinality(At(drop', e)) = Cardinality(At(drop, e)) + (IF d = e THEN 1 ELSE 0)
      BY <1>t, <2>1, <2>2, <2>4, <3>1, SetPlace
    <3>4. Cardinality(At(fds, e)) \in Nat /\ Cardinality(At(drop, e)) \in Nat
      BY <3>1, FS_CardinalityType
    <3>5. refs[e] = Cardinality(At(fds', e)) + Cardinality(At(drop', e))
      BY ONLY <3>1, <3>2, <3>3, <3>4
    <3>6. QED
      BY <2>2, <3>1, <3>2, <3>3, <3>5 DEF Counted, Released, NewPipe
  <2>6. ASSUME NEW q \in Procs PROVE Tidy(q)'
    <3>1. CASE q # p
      <4>1. pc'[q] = pc[q] /\ fds'[q] = fds[q] /\ drop'[q] = drop[q]
        BY <1>5, <2>2, <3>1 DEF Close, Goto, TypeOK, Put
      <4>2. QED
        BY <1>0, <4>1 DEF Tidy
    <3>2. CASE q = p
      <4>1. \A h \in Fds : h # f => drop'[p][h] = None
        BY <2>2, <2>3 DEF TypeOK, Tables, Empty, Put
      <4>2. pc'[p] = "drop"
        BY <1>5 DEF Close, Goto, TypeOK
      <4>3. QED
        BY <3>2, <4>1, <4>2 DEF Tidy, Early
    <3>3. QED
      BY <3>1, <3>2
  <2>7. QED
    BY <2>5, <2>6 DEF RefInv
<1>6. ASSUME NEW p \in Procs, NEW c \in Procs, NEW F \in SUBSET Fds, Spawn(p, c, F) PROVE RefInv'
  <2>1. PICK kept \in Tables : kept = [f \in Fds |-> IF f \in F THEN None ELSE fds[p][f]]
    <3>1. \A f \in Fds : (IF f \in F THEN None ELSE fds[p][f]) \in Ends \cup {None}
      BY DEF TypeOK, Tables
    <3>2. QED
      BY <3>1 DEF Tables
  <2>2. /\ fds' = PutAll(fds, c, kept) /\ UNCHANGED <<count, drop>>
        /\ refs' = [e \in Ends |-> refs[e] + Cardinality({f \in Fds : kept[f] = e})]
        /\ pc[c] = "unborn" /\ pc' = [pc EXCEPT ![c] = "guest"]
    BY <1>6, <2>1 DEF Spawn, PutAll
  <2>3. fds[c] = Empty /\ drop[c] = Empty
    BY <1>0, <2>2 DEF Tidy, Early
  <2>4. ASSUME NEW e \in Ends PROVE Counted(e)' /\ (NewPipe' \/ (count[e] = IF refs'[e] > 0 THEN 1 ELSE 0))
    <3>1. /\ IsFiniteSet(At(fds, e)) /\ IsFiniteSet(At(drop, e)) /\ Released(e)
          /\ refs[e] = Cardinality(At(fds, e)) + Cardinality(At(drop, e))
      BY <1>0 DEF Counted
    <3> DEFINE k == Cardinality({f \in Fds : kept[f] = e})
    <3>2. IsFiniteSet(At(fds', e)) /\ Cardinality(At(fds', e)) = Cardinality(At(fds, e)) + k
      BY <1>t, <2>2, <2>3, <3>1, SetRow
    <3>3. Cardinality(At(fds, e)) \in Nat /\ Cardinality(At(drop, e)) \in Nat /\ k \in Nat
      BY <3>1, FS_CardinalityType, FdsFinite
    <3>4. refs'[e] = refs[e] + k
      BY <2>2
    <3> HIDE DEF k
    <3>5. refs'[e] = Cardinality(At(fds', e)) + Cardinality(At(drop, e))
      BY ONLY <3>1, <3>2, <3>3, <3>4
    <3>6. Counted(e)'
      BY <2>2, <3>1, <3>2, <3>5 DEF Counted
    <3>7. CASE NewPipe
      (* Nobody holds anything, so nothing is inherited. *)
      <4>1. \A f \in Fds : kept[f] \notin Ends
        <5>1. \A f \in Fds : fds[p][f] \in Ends \cup {None}
          BY DEF TypeOK, Tables
        <5>2. \A f \in Fds : fds[p][f] \notin Ends
          BY <3>7, HeldIsCounted
        <5>3. None \notin Ends
          BY DEF None, Ends
        <5>4. QED
          BY <2>1, <5>2, <5>3
      <4>2. \A d \in Ends : {f \in Fds : kept[f] = d} = {}
        BY <4>1
      <4>3. \A d \in Ends : refs'[d] = refs[d] + 0
        <5>1. SUFFICES ASSUME NEW d \in Ends PROVE refs'[d] = refs[d] + 0
          OBVIOUS
        <5>2. refs'[d] = refs[d] + Cardinality({f \in Fds : kept[f] = d})
          BY <2>2
        <5>3. {f \in Fds : kept[f] = d} = {}
          BY <4>2
        <5>4. QED
          BY <5>2, <5>3, FS_EmptySet, Zenon
      <4>4. NewPipe'
        BY <2>2, <3>7, <4>3 DEF NewPipe, Ends
      <4>5. QED
        BY <3>6, <4>4
    <3>8. CASE ~NewPipe
      <4>1. count[e] = IF refs[e] > 0 THEN 1 ELSE 0
        BY <3>1, <3>8 DEF Released
      <4>2. refs[e] > 0 \/ k = 0
        (* What is inherited is held by the parent. *)
        <5>1. CASE \E f \in Fds : kept[f] = e
          <6>1. PICK f \in Fds : kept[f] = e
            BY <5>1
          <6>2. fds[p][f] = e
            BY <2>1, <6>1 DEF Ends, None
          <6>3. QED
            BY <6>2, HeldIsCounted
        <5>2. CASE ~\E f \in Fds : kept[f] = e
          BY <5>2, FS_EmptySet DEF k
        <5>3. QED
          BY <5>1, <5>2
      <4>3. count[e] = IF refs'[e] > 0 THEN 1 ELSE 0
        BY ONLY <3>1, <3>3, <3>4, <4>1, <4>2
      <4>4. QED
        BY <3>6, <4>3
    <3>9. QED
      BY <3>7, <3>8
  <2>5. ASSUME NEW q \in Procs PROVE Tidy(q)'
    <3>1. CASE q # c
      <4>1. pc'[q] = pc[q] /\ fds'[q] = fds[q] /\ drop'[q] = drop[q]
        BY <2>2, <3>1 DEF TypeOK, PutAll
      <4>2. QED
        BY <1>0, <4>1 DEF Tidy
    <3>2. CASE q = c
      BY <2>2, <2>3, <3>2 DEF Tidy, TypeOK
    <3>3. QED
      BY <3>1, <3>2
  <2>6. QED
    BY <2>2, <2>4, <2>5 DEF RefInv, Released
<1>7. ASSUME NEW p \in Procs, NEW f \in Fds, Drop(p, f) \/ CloseAll(p, f) PROVE RefInv'
  <2>1. /\ drop[p][f] # None /\ drop' = [drop EXCEPT ![p][f] = None] /\ UNCHANGED fds
        /\ \E a, b : Unref(p, drop[p][f], a, b)
    BY <1>7 DEF Drop, CloseAll, IsLowestUsed
  <2>2. \A e \in Ends : Counted(e)' /\ Released(e)'
    BY <2>1, UnrefCounts
  <2>3. ASSUME NEW q \in Procs PROVE Tidy(q)'
    <3>1. CASE q # p
      <4>1. pc'[q] = pc[q] /\ fds'[q] = fds[q] /\ drop'[q] = drop[q]
        BY <2>1, <3>1 DEF Unref, TypeOK
      <4>2. QED
        BY <1>0, <4>1 DEF Tidy
    <3>2. CASE q = p /\ Drop(p, f)
      <4>1. pc[p] = "drop" /\ pc'[p] \in {"notify", "guest"}
        BY <3>2 DEF Drop, Unref, TypeOK
      <4>2. \A g \in Fds : g # f => drop[p][g] = None
        BY <1>0, <2>1, <4>1 DEF Tidy
      <4>3. drop'[p] = Empty
        <5>1. drop'[p] \in Tables
          BY <1>t, <2>1 DEF Tables
        <5>2. \A g \in Fds : drop'[p][g] = None
          BY <2>1, <4>2 DEF TypeOK, Tables
        <5>3. QED
          BY <5>1, <5>2 DEF Tables, Empty
      <4>4. QED
        BY <3>2, <4>1, <4>3 DEF Tidy
    <3>3. CASE q = p /\ CloseAll(p, f)
      BY <3>3 DEF CloseAll, Unref, Tidy, Early, TypeOK
    <3>4. QED
      BY <1>7, <3>1, <3>2, <3>3
  <2>4. QED
    BY <2>2, <2>3 DEF RefInv
<1>8. ASSUME NEW p \in Procs, Exit(p) PROVE RefInv'
  <2>1. /\ pc[p] \in {"guest", "park"} /\ pc' = [pc EXCEPT ![p] = "enddrop"]
        /\ UNCHANGED <<refs, count>>
    BY <1>8 DEF Exit, pipe
  <2>2. drop[p] = Empty
    BY <1>0, <2>1 DEF Tidy, Early
  <2>3. PICK row \in Tables : row = fds[p]
    BY DEF TypeOK
  <2>p. drop' = PutAll(drop, p, row) /\ fds' = PutAll(fds, p, Empty)
    BY <1>8, <2>3 DEF Exit, PutAll
  <2>4. ASSUME NEW e \in Ends PROVE Counted(e)' /\ Released(e)'
    <3>1. /\ IsFiniteSet(At(fds, e)) /\ IsFiniteSet(At(drop, e)) /\ Released(e)
          /\ refs[e] = Cardinality(At(fds, e)) + Cardinality(At(drop, e))
      BY <1>0 DEF Counted
    <3> DEFINE k == Cardinality({f \in Fds : row[f] = e})
    <3>2. IsFiniteSet(At(fds', e)) /\ Cardinality(At(fds, e)) = Cardinality(At(fds', e)) + k
      BY <1>t, <2>p, <2>3, <3>1, ClearRow
    <3>3. IsFiniteSet(At(drop', e)) /\ Cardinality(At(drop', e)) = Cardinality(At(drop, e)) + k
      <4>1. drop \in [Procs -> Tables] /\ drop' = PutAll(drop, p, row) /\ IsFiniteSet(At(drop, e))
        BY <1>t, <2>p, <3>1
      <4>2. QED
        BY ONLY <2>2, <4>1, SetRow, p \in Procs, row \in Tables, e \in Ends
    <3>4. /\ Cardinality(At(fds', e)) \in Nat /\ Cardinality(At(drop, e)) \in Nat /\ k \in Nat
      BY <3>1, <3>2, FS_CardinalityType, FdsFinite
    <3> HIDE DEF k
    <3>5. refs[e] = Cardinality(At(fds', e)) + Cardinality(At(drop', e))
      BY ONLY <3>1, <3>2, <3>3, <3>4
    <3>6. QED
      BY <2>1, <3>1, <3>2, <3>3, <3>5 DEF Counted, Released, NewPipe
  <2>5. ASSUME NEW q \in Procs PROVE Tidy(q)'
    <3>1. CASE q # p
      <4>1. pc'[q] = pc[q] /\ fds'[q] = fds[q] /\ drop'[q] = drop[q]
        BY <2>1, <2>p, <3>1 DEF TypeOK, PutAll
      <4>2. QED
        BY <1>0, <4>1 DEF Tidy
    <3>2. CASE q = p
      BY <2>1, <3>2 DEF Tidy, Early, TypeOK
    <3>3. QED
      BY <3>1, <3>2
  <2>6. QED
    BY <2>4, <2>5 DEF RefInv
<1>9. ASSUME NEW p \in Procs,
             UNCHANGED <<fds, refs, count, drop>>,
             \E l \in Locations \ {"unborn", "drop"} :
               pc' = [pc EXCEPT ![p] = l] /\ (l \in Early => pc[p] \in Early)
      PROVE  RefInv'
  BY <1>9, MovesOn DEF TypeOK
<1>10. ASSUME NEW p \in Procs, Notify(p) \/ CloseAllNotify(p) \/ CloseAllDone(p) PROVE RefInv'
  BY <1>9, <1>10 DEF Notify, CloseAllNotify, CloseAllDone, Goto, Early, Locations, pipe
<1>11. ASSUME NEW p \in Procs, NEW c, Call(p, c) PROVE RefInv'
  BY <1>9, <1>11 DEF Call, Goto, Early, Locations, pipe
<1>12. ASSUME NEW p \in Procs, TakeChannel(p) \/ ParkWoken(p) \/ ParkEnded(p) PROVE RefInv'
  BY <1>9, <1>12 DEF TakeChannel, ParkWoken, ParkEnded, Return, Goto, Early, Locations, pipe
<1>13. ASSUME NEW p \in Procs, Read(p) \/ Write(p) PROVE RefInv'
  <2>1. UNCHANGED <<fds, refs, count, drop>> /\ pc[p] = "op"
    BY <1>13 DEF Read, Write
  <2>2. pc' = [pc EXCEPT ![p] = "guest"] \/ pc' = [pc EXCEPT ![p] = "park"]
    BY <1>13 DEF Read, Write, IoResult, Return, Park
  <2>3. QED
    BY <1>9, <2>1, <2>2 DEF Early, Locations
<1>14. ASSUME NEW p \in Procs, NEW e \in Ends, Poll(p, e) PROVE RefInv'
  <2>1. UNCHANGED <<fds, refs, count, drop>> /\ pc[p] = "op"
    BY <1>14 DEF Poll, pipe
  <2>2. \/ pc' = [pc EXCEPT ![p] = "guest"] \/ pc' = [pc EXCEPT ![p] = "park"]
        \/ pc' = [pc EXCEPT ![p] = "op"]
    BY <1>14, <2>1 DEF Poll, Return, Park, TypeOK
  <2>3. QED
    BY <1>9, <2>1, <2>2 DEF Early, Locations
<1>15. QED
  BY <1>1, <1>2, <1>3, <1>4, <1>5, <1>6, <1>7, <1>8, <1>10, <1>11, <1>12, <1>13, <1>14
     DEF Next, ReadCall, WriteCall, PollCall

(* fdtable.go and pipe.go: whatever is inherited, duplicated, duplicated    *)
(* onto a descriptor in use, closed, or dropped by closeAll, in whatever    *)
(* order by whichever processes, openFile.refs counts the descriptors of an *)
(* end, and the last unref, and no other, releases it.                      *)
THEOREM RefsAreExact == Spec => []RefsExact
<1>1. Init => RefInv
  <2> SUFFICES ASSUME Init PROVE RefInv
    OBVIOUS
  <2>1. \A p \in Procs : Tidy(p)
    <3>1. \A p \in Procs : fds[p] = Empty /\ drop[p] = Empty /\ pc[p] # "drop"
      BY DEF Init
    <3>2. QED
      BY <3>1 DEF Tidy
  <2>2. ASSUME NEW e \in Ends PROVE Counted(e) /\ Released(e)
    <3>1. e # None
      BY DEF Ends, None
    <3>2. At(fds, e) = {} /\ At(drop, e) = {}
      BY <3>1 DEF Init, At, Empty
    <3>3. IsFiniteSet({}) /\ Cardinality({}) = 0
      BY FS_EmptySet
    <3>4. refs[e] = 0 /\ NewPipe
      BY DEF Init, NewPipe, Ends
    <3>5. QED
      BY <3>2, <3>3, <3>4 DEF Counted, Released
  <2>3. QED
    BY <2>1, <2>2 DEF RefInv
<1>2. RefInv => RefsExact
  BY DEF RefInv, Counted, Released, RefsExact, Created, Open, Dropped, At
<1>3. QED
  BY <1>1, <1>2, RefStep, TypeCorrect, PTL DEF Spec, SafeSpec

-----------------------------------------------------------------------------
(* Standard input, for any number of processes, any lengths and any buffer  *)
(* that is larger than one chunk.                                           *)

(* The pump reads only while there is room and the input has not ended,     *)
(* and waits only before the end.                                           *)
PumpState == /\ pump \in {"read", "room", "woken"} => ~eof
             /\ pump = "read" => input < Ahead
             /\ pump = "notify" => (input < Ahead \/ eof)

(* The inductive invariant. *)
StdinInv == StdinTypeOK /\ PumpState /\ NoMissedRoom /\ NoMissedInput

(* The type invariant, what the pump's state says, and both promises are    *)
(* preserved together: a parked process saw the buffer empty, so whatever   *)
(* the pump appends next is one chunk, does not fill the buffer, and is     *)
(* announced before the pump reads on.                                      *)
LEMMA StdinInvariance == StdinSpec => []StdinInv
<1>1. StdinInit => StdinInv
  <2> SUFFICES ASSUME StdinInit PROVE StdinInv
    OBVIOUS
  <2>1. 0 \in 0..(Ahead + Chunk - 1)
    BY StdinAssumption
  <2>2. call \in [Users -> ReadSizes \cup {0}]
    BY DEF StdinInit
  <2>3. StdinTypeOK
    BY <2>1, <2>2 DEF StdinInit, StdinTypeOK
  <2>4. PumpState
    BY StdinAssumption DEF StdinInit, PumpState
  <2>5. NoMissedRoom /\ NoMissedInput
    BY DEF StdinInit, NoMissedRoom, NoMissedInput
  <2>6. QED
    BY <2>3, <2>4, <2>5 DEF StdinInv
<1>2. StdinInv /\ [StdinNext]_stdinVars => StdinInv'
  <2> SUFFICES ASSUME StdinInv, [StdinNext]_stdinVars PROVE StdinInv'
    OBVIOUS
  <2> USE StdinAssumption DEF StdinInv, StdinTypeOK, PumpState, NoMissedRoom, NoMissedInput, Full
  <2>1. CASE UNCHANGED stdinVars
    BY <2>1 DEF stdinVars
  <2>2. ASSUME NEW n \in 0..Chunk, NEW err \in BOOLEAN, PumpRead(n, err) PROVE StdinInv'
    BY <2>2 DEF PumpRead
  <2>3. CASE PumpWoken
    BY <2>3 DEF PumpWoken
  <2>4. CASE PumpNotify
    BY <2>4 DEF PumpNotify
  <2>5. ASSUME NEW p \in Users, NEW n \in ReadSizes \cup {0}, StdinCall(p, n) PROVE StdinInv'
    BY <2>5 DEF StdinCall
  <2>6. ASSUME NEW p \in Users, StdinChannel(p) PROVE StdinInv'
    BY <2>6 DEF StdinChannel
  <2>7. ASSUME NEW p \in Users, StdinRead(p) PROVE StdinInv'
    <3> USE DEF StdinRead, StdinReturn, SignalRoom
    <3>1. call[p] \in ReadSizes \cup {0}
      BY <2>7
    <3>2. \A n \in ReadSizes : n \in Nat
      BY StdinAssumption, Zenon
    <3>3. call[p] > 0
      BY <2>7
    <3>4. call[p] \in Nat /\ call[p] > 0
      <4>1. CASE call[p] \in ReadSizes
        BY ONLY <4>1, <3>2, <3>3
      <4>2. CASE call[p] = 0
        BY ONLY <4>2, <3>3
      <4>3. QED
        BY ONLY <4>1, <4>2, <3>1
    <3>5. input' \in 0..input
      BY <2>7, <3>4
    <3>6. StdinTypeOK'
      BY <2>7, <3>5
    <3>7. PumpState'
      BY <2>7, <3>5
    <3>8. NoMissedRoom'
      BY <2>7, <3>5
    <3>9. NoMissedInput'
      <4> SUFFICES ASSUME NEW q \in Users, reader'[q] = "park", chan'[q] = "open"
                   PROVE  pump' = "notify"
        OBVIOUS
      <4>1. q # p /\ reader[q] = "park" /\ chan[q] = "open"
        BY <2>7
      <4>2. pump = "notify"
        BY <2>7, <4>1
      <4>3. QED
        BY <2>7, <4>2
    <3>10. QED
      BY <3>6, <3>7, <3>8, <3>9
  <2>8. ASSUME NEW p \in Users, NoWait(p) PROVE StdinInv'
    BY <2>8 DEF NoWait, StdinReturn
  <2>9. ASSUME NEW p \in Users, StdinPark(p) PROVE StdinInv'
    BY <2>9 DEF StdinPark
  <2>10. ASSUME NEW p \in Users, StdinWoken(p) PROVE StdinInv'
    BY <2>10 DEF StdinWoken
  <2>11. ASSUME NEW p \in Users, StdinEnded(p) PROVE StdinInv'
    BY <2>11 DEF StdinEnded, StdinReturn
  <2>12. QED
    BY <2>1, <2>2, <2>3, <2>4, <2>5, <2>6, <2>7, <2>8, <2>9, <2>10, <2>11 DEF StdinNext
<1>3. QED
  BY <1>1, <1>2, PTL DEF StdinSpec

(* The buffer of standard input never holds more than readerAhead and one   *)
(* chunk: the pump's bound is effective.                                    *)
THEOREM StdinTypeCorrect == StdinSpec => []StdinTypeOK
BY StdinInvariance, PTL DEF StdinInv

(* No process stays parked while there is input or the end of it, although  *)
(* the pump waits for room before it notifies.                              *)
THEOREM InputNeverMissed == StdinSpec => []NoMissedInput
BY StdinInvariance, PTL DEF StdinInv

(* The pump never waits for room that is there. *)
THEOREM RoomNeverMissed == StdinSpec => []NoMissedRoom
BY StdinInvariance, PTL DEF StdinInv
=============================================================================
