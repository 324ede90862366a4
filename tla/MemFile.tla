------------------------------ MODULE MemFile ------------------------------
(***************************************************************************)
(* The contents of one regular file of the in-memory file system           *)
(* (internal/memfs/memfs.go) and the Files that are open on it.  node.data *)
(* is a Go slice: a backing array, of which the first len bytes count; the *)
(* rest keeps what was there before the file shrank.  node.mu makes each   *)
(* access to it one step; Write with O_APPEND is two, under File.mu.       *)
(***************************************************************************)
EXTENDS Integers, Sequences, FiniteSets

CONSTANTS Users,      \* processes that use the Files
          Files,      \* open Files of the node
          Appenders,  \* those opened with O_APPEND
          Payloads,   \* what is written: non-empty sequences of bytes
          MaxSize     \* bound: the size of a file

ASSUME MemFileAssumption == /\ Appenders \subseteq Files /\ MaxSize \in Nat
                            /\ Payloads \subseteq Seq(Nat) \ {<<>>}
                            /\ "nobody" \notin Users /\ "resized" \notin Files

VARIABLES
  arr,       \* the backing array of node.data, with all of its capacity
  len,       \* len(node.data)
  offset,    \* File.offset
  locked,    \* who holds File.mu
  pending,   \* what each user is writing
  touched,   \* ghost: the Files that have written, and "resized"
  log        \* ghost: what has been appended, in the order of the writes

fileVars == <<arr, len, offset, locked, pending, touched, log>>

NoUser == "nobody"
Nothing == <<>>
Resized == "resized"

FileTypeOK ==
  /\ arr \in Seq(Nat) /\ len \in 0..Len(arr)
  /\ offset \in [Files -> Nat]
  /\ locked \in [Files -> Users \cup {NoUser}]
  /\ pending \in [Users -> Payloads \cup {Nothing}]
  /\ touched \subseteq Files \cup {Resized}
  /\ log \in Seq(Nat)

FileInit ==
  /\ arr = <<>> /\ len = 0
  /\ offset = [f \in Files |-> 0]
  /\ locked = [f \in Files |-> NoUser]
  /\ pending = [p \in Users |-> Nothing]
  /\ touched = {} /\ log = <<>>

Visible == SubSeq(arr, 1, len)
AppendedOnly == touched \subseteq Appenders /\ Cardinality(touched) <= 1
Larger(a, b) == IF a >= b THEN a ELSE b

(* A mutant: growth within the capacity shows what was there before. *)
GrownStale(n) ==
  IF n <= Len(arr) THEN arr
  ELSE [i \in 1..Larger(n, 2 * Len(arr)) |-> IF i <= len THEN arr[i] ELSE 0]
(* grow: within the capacity, what is added is cleared; beyond it, the      *)
(* contents move to a new array.                                            *)
Grown(n) ==
  IF n <= Len(arr) THEN [i \in DOMAIN arr |-> IF i \in (len + 1)..n THEN 0 ELSE arr[i]]
  ELSE [i \in 1..Larger(n, 2 * Len(arr)) |-> IF i <= len THEN arr[i] ELSE 0]

(* WriteAt, under node.mu. *)
WriteAt(off, b) ==
  LET end == off + Len(b)
      data == IF end > len THEN Grown(end) ELSE arr IN
  /\ end <= MaxSize
  /\ arr' = [i \in DOMAIN data |-> IF i \in (off + 1)..end THEN b[i - off] ELSE data[i]]
  /\ len' = Larger(len, end)

(* A call of WriterAt on File f. *)
Pwrite(f, off, b) ==
  /\ WriteAt(off, b)
  /\ touched' = touched \cup {f, Resized}
  /\ UNCHANGED <<offset, locked, pending, log>>

(* A mutant: O_APPEND is left to the offset of the File. *)
StartAtOffset(f) == offset[f]
Start(f) == IF f \in Appenders THEN len ELSE offset[f]

(* Write, up to the position that O_APPEND reads. *)
WriteBegin(p, f, b) ==
  /\ locked[f] = NoUser /\ pending[p] = Nothing
  /\ locked' = [locked EXCEPT ![f] = p]
  /\ pending' = [pending EXCEPT ![p] = b]
  /\ offset' = [offset EXCEPT ![f] = Start(f)]
  /\ touched' = touched \cup {f}
  /\ UNCHANGED <<arr, len, log>>

WriteEnd(p, f) ==
  LET b == pending[p] IN
  /\ locked[f] = p
  /\ WriteAt(offset[f], b)
  /\ offset' = [offset EXCEPT ![f] = @ + Len(b)]
  /\ locked' = [locked EXCEPT ![f] = NoUser]
  /\ pending' = [pending EXCEPT ![p] = Nothing]
  /\ log' = IF AppendedOnly THEN log \o b ELSE Nothing
  /\ UNCHANGED touched

(* Read of at most n bytes. *)
Read(f, n) ==
  /\ locked[f] = NoUser /\ offset[f] < len
  /\ offset' = [offset EXCEPT ![f] = IF @ + n < len THEN @ + n ELSE len]
  /\ UNCHANGED <<arr, len, locked, pending, touched, log>>

(* Seek from the start, the offset or the end; not to before the start. *)
Seek(f, base, n) ==
  /\ locked[f] = NoUser
  /\ base \in {0, offset[f], len} /\ base + n \in 0..MaxSize
  /\ offset' = [offset EXCEPT ![f] = base + n]
  /\ UNCHANGED <<arr, len, locked, pending, touched, log>>

(* Truncate. *)
Truncate(n) ==
  /\ arr' = IF n <= len THEN arr ELSE Grown(n)
  /\ len' = n
  /\ touched' = touched \cup {Resized}
  /\ UNCHANGED <<offset, locked, pending, log>>

(* OpenAt with O_TRUNC of a File that can be written: the capacity stays. *)
OpenTrunc == /\ len' = 0
             /\ touched' = touched \cup {Resized}
             /\ UNCHANGED <<arr, offset, locked, pending, log>>

FileNext ==
  \/ \E f \in Files :
       \/ \E off \in 0..MaxSize, b \in Payloads : Pwrite(f, off, b)
       \/ \E n \in 1..MaxSize : Read(f, n)
       \/ \E base \in 0..MaxSize, n \in -1..1 : Seek(f, base, n)
       \/ \E p \in Users : WriteEnd(p, f) \/ \E b \in Payloads : WriteBegin(p, f, b)
  \/ OpenTrunc
  \/ \E n \in 0..MaxSize : Truncate(n)

FileSpec == FileInit /\ [][FileNext]_fileVars

-----------------------------------------------------------------------------
(* Properties. *)

(* The visible part of the array is a file: whatever the capacity, bytes    *)
(* that a file loses when it shrinks never come back, gaps read as zero.    *)
Posix == INSTANCE AbstractFile WITH content <- Visible
ImplementsPosixFile == Posix!AbsSpec

(* While all output goes through one File with O_APPEND, by any number of   *)
(* users, the file is what they have written, whatever they read and where  *)
(* they seek.  Through two Files it need not be: a write may come between   *)
(* the two steps of an append.                                              *)
AppendsKept == AppendedOnly => Visible = log
=============================================================================
