-------------------------------- MODULE Pipe --------------------------------
(***************************************************************************)
(* Descriptor tables, open files and pipes: internal/kernel/fdtable.go,    *)
(* pipe.go, poll.go and the fd calls of host.go.  Processes inherit        *)
(* descriptors when they are spawned, duplicate and close them, and read,  *)
(* write and poll one pipe; its two ends are the open files of the model.  *)
(*                                                                         *)
(* A descriptor table is used by its own process only, so an operation on  *)
(* it is one step, up to the unref of what it dropped.  Operations on the  *)
(* pipe are one step each: they run under pipe.mu and notify before they   *)
(* release it.  Only release notifies after the unlock.                    *)
(***************************************************************************)
EXTENDS Integers, Sequences, FiniteSets

CONSTANTS Procs,      \* processes, the first of which exists
          First,
          NFds,       \* bound: descriptors of a process
          Capacity,   \* pipeCapacity
          Atomic,     \* pipeAtomic
          Sizes,      \* the lengths of reads and writes
          Events      \* the sets of events poll is asked for

ASSUME PipeAssumption == /\ First \in Procs
                         /\ NFds \in Nat \ {0}
                         /\ Capacity \in Nat /\ Atomic \in 1..Capacity
                         /\ Sizes \subseteq Nat \ {0}
                         /\ Events \subseteq SUBSET {"IN", "OUT"}

Fds == 1..NFds
Ends == {"r", "w"}
None == "none"

VARIABLES
  fds,        \* fdTable.fds: the open file of each descriptor
  refs,       \* openFile.refs of each end
  count,      \* pipe.readers and pipe.writers
  buf,        \* pipe.buf
  pc,         \* where each process is
  op,         \* the call it is in: read, write or poll
  ch,         \* the channel it took from pipe.n
  drop        \* what it has taken out of its table and not yet unrefed

pipe == <<refs, count, buf>>
vars == <<fds, pipe, pc, op, ch, drop>>

(* Byte i of a write of n bytes by process w. *)
Bytes == [w : Procs, n : Sizes, i : 1..Capacity]

(* A call: the ends it is about, the length (0 for poll), the poll events,  *)
(* and the ends poll has yet to look at.                                    *)
Calls == [k : {"read", "write"}, on : SUBSET Ends, n : Sizes, ev : {{}}, left : SUBSET Ends]
           \cup [k : {"poll", "none"}, on : SUBSET Ends, n : {0}, ev : Events \cup {{}},
                 left : SUBSET Ends]
NoCall == [k |-> "none", on |-> {}, n |-> 0, ev |-> {}, left |-> {}]

(***************************************************************************)
(* unborn                 guest : running wasm                             *)
(* wait, op, park         : io and poll                                    *)
(* drop, notify           : unref; enddrop, endnotify : in closeAll        *)
(* gone                                                                    *)
(***************************************************************************)
Locations == {"unborn", "guest", "wait", "op", "park", "drop", "notify",
              "enddrop", "endnotify", "gone"}

Tables == [Fds -> Ends \cup {None}]
Empty == [f \in Fds |-> None]

TypeOK == /\ fds \in [Procs -> Tables]
          /\ refs \in [Ends -> Int]
          /\ count \in [Ends -> Int]
          /\ buf \in Seq(Bytes) /\ Len(buf) <= Capacity
          /\ pc \in [Procs -> Locations]
          /\ op \in [Procs -> Calls]
          /\ ch \in [Procs -> {"none", "open", "closed"}]
          /\ drop \in [Procs -> Tables]

Init == /\ fds = [p \in Procs |-> Empty]
        /\ refs = [e \in Ends |-> 0]
        /\ count = [e \in Ends |-> 1]
        /\ buf = <<>>
        /\ pc = [p \in Procs |-> IF p = First THEN "guest" ELSE "unborn"]
        /\ op = [p \in Procs |-> NoCall]
        /\ ch = [p \in Procs |-> "none"]
        /\ drop = [p \in Procs |-> Empty]

Goto(p, from, to) == pc[p] = from /\ pc' = [pc EXCEPT ![p] = to]

(* notify, as seen by those who hold a channel. *)
Notified == [q \in Procs |-> IF ch[q] = "open" THEN "closed" ELSE ch[q]]
NewPipe == refs["r"] = 0 /\ refs["w"] = 0 /\ count["r"] = 1 /\ count["w"] = 1
Holds(p, f) == pc[p] = "guest" /\ fds[p][f] # None

-----------------------------------------------------------------------------
(* The descriptor table. *)

IsLowestFree(t, f) == t[f] = None /\ \A g \in Fds : t[g] = None => f <= g

(* A mutant: add without a reference of its own. *)
AddUncounted(p, f, e) ==
  /\ IsLowestFree(fds[p], f)
  /\ fds' = [fds EXCEPT ![p][f] = e]
  /\ UNCHANGED refs

(* add: e at the lowest free number. *)
Add(p, f, e) ==
  /\ IsLowestFree(fds[p], f)
  /\ fds' = [fds EXCEPT ![p][f] = e]
  /\ refs' = [refs EXCEPT ![e] = @ + 1]

(* The Pipe call.  If the guest's array is not writable both ends are       *)
(* closed again, which leaves no trace.                                     *)
PipeCall(p, f, g) ==
  /\ pc[p] = "guest" /\ NewPipe
  /\ IsLowestFree(fds[p], f) /\ IsLowestFree([fds[p] EXCEPT ![f] = "r"], g)
  /\ fds' = [fds EXCEPT ![p][f] = "r", ![p][g] = "w"]
  /\ refs' = [e \in Ends |-> 1]
  /\ UNCHANGED <<count, buf, pc, op, ch, drop>>

(* Dup with a negative number, F_DUPFD and F_DUPFD_CLOEXEC. *)
Dup(p, f, g) ==
  /\ Holds(p, f)
  /\ Add(p, g, fds[p][f])
  /\ UNCHANGED <<count, buf, pc, op, ch, drop>>

(* Dup onto a given number: install, then the unref of what was there. *)
DupOnto(p, f, g) ==
  LET old == fds[p][g] IN
  /\ Holds(p, f) /\ f # g
  /\ fds' = [fds EXCEPT ![p][g] = fds[p][f]]
  /\ refs' = [refs EXCEPT ![fds[p][f]] = @ + 1]
  /\ IF old = None THEN UNCHANGED <<pc, drop>>
     ELSE Goto(p, "guest", "drop") /\ drop' = [drop EXCEPT ![p][g] = old]
  /\ UNCHANGED <<count, buf, op, ch>>

Close(p, f) ==
  /\ Holds(p, f)
  /\ fds' = [fds EXCEPT ![p][f] = None]
  /\ drop' = [drop EXCEPT ![p][f] = fds[p][f]]
  /\ Goto(p, "guest", "drop")
  /\ UNCHANGED <<pipe, op, ch>>

(* spawn: cloneForExec, then the child starts.  Only cloneForExec reads the *)
(* close-on-exec marks, and a process may set them as it likes before it    *)
(* spawns (F_SETFD): the descriptors F are marked.                          *)
Spawn(p, c, F) ==
  LET kept == [f \in Fds |-> IF f \in F THEN None ELSE fds[p][f]] IN
  /\ pc[p] = "guest" /\ pc[c] = "unborn"
  /\ fds' = [fds EXCEPT ![c] = kept]
  /\ refs' = [e \in Ends |-> refs[e] + Cardinality({f \in Fds : kept[f] = e})]
  /\ pc' = [pc EXCEPT ![c] = "guest"]
  /\ UNCHANGED <<count, buf, op, ch, drop>>

-----------------------------------------------------------------------------
(* unref and release. *)

(* A mutant: a release that does not notify. *)
UnrefSilently(p, e, releases, stays) ==
  /\ refs' = [refs EXCEPT ![e] = @ - 1]
  /\ count' = [count EXCEPT ![e] = IF refs[e] = 1 THEN @ - 1 ELSE @]
  /\ pc' = [pc EXCEPT ![p] = stays]

(* unref, with the count that release takes down for the last reference. *)
Unref(p, e, releases, stays) ==
  /\ refs' = [refs EXCEPT ![e] = @ - 1]
  /\ count' = [count EXCEPT ![e] = IF refs[e] = 1 THEN @ - 1 ELSE @]
  /\ pc' = [pc EXCEPT ![p] = IF refs[e] = 1 THEN releases ELSE stays]

(* The next one to unref; closeAll goes through its descriptors in order. *)
IsLowestUsed(t, f) == t[f] # None /\ \A g \in Fds : t[g] # None => f <= g

Drop(p, f) ==
  /\ pc[p] = "drop" /\ IsLowestUsed(drop[p], f)
  /\ Unref(p, drop[p][f], "notify", "guest")
  /\ drop' = [drop EXCEPT ![p][f] = None]
  /\ UNCHANGED <<fds, buf, op, ch>>

(* release, after the unlock. *)
Notify(p) == /\ Goto(p, "notify", "guest")
             /\ ch' = Notified
             /\ UNCHANGED <<fds, pipe, op, drop>>

(* The process ends, by itself or killed in a blocking call: closeAll. *)
Exit(p) ==
  /\ pc[p] \in {"guest", "park"}
  /\ pc' = [pc EXCEPT ![p] = "enddrop"]
  /\ drop' = [drop EXCEPT ![p] = fds[p]]
  /\ fds' = [fds EXCEPT ![p] = Empty]
  /\ op' = [op EXCEPT ![p] = NoCall]
  /\ ch' = [ch EXCEPT ![p] = "none"]
  /\ UNCHANGED pipe

CloseAll(p, f) ==
  /\ pc[p] = "enddrop" /\ IsLowestUsed(drop[p], f)
  /\ Unref(p, drop[p][f], "endnotify", "enddrop")
  /\ drop' = [drop EXCEPT ![p][f] = None]
  /\ UNCHANGED <<fds, buf, op, ch>>

CloseAllNotify(p) == /\ Goto(p, "endnotify", "enddrop")
                     /\ ch' = Notified
                     /\ UNCHANGED <<fds, pipe, op, drop>>

CloseAllDone(p) == /\ drop[p] = Empty
                   /\ Goto(p, "enddrop", "gone")
                   /\ UNCHANGED <<fds, pipe, op, ch, drop>>

-----------------------------------------------------------------------------
(* The pipe. *)

Readers == count["r"]
Writers == count["w"]
Space == Capacity - Len(buf)

(* Results below zero are errors, as in the code; zero is the end of file. *)
EAGAIN == -1
EPIPE == -2

Least(a, b) == IF a <= b THEN a ELSE b

(* pipeReader.read and pipeWriter.write: how many bytes, or the error. *)
ReadResult(n) == IF buf # <<>> THEN Least(n, Len(buf))
                 ELSE IF Writers = 0 THEN 0 ELSE EAGAIN

(* A mutant: a write that takes what fits, also of a short one. *)
WriteResultSplit(n) == IF Readers = 0 THEN EPIPE
                       ELSE IF Space <= 0 THEN EAGAIN ELSE Least(n, Space)
WriteResult(n) == IF Readers = 0 THEN EPIPE
                  ELSE IF Space <= 0 \/ (n <= Atomic /\ Space < n) THEN EAGAIN
                  ELSE Least(n, Space)

(* A mutant: writable as long as there is any room. *)
PollBitsEager(e) == IF e = "r" THEN (IF buf # <<>> THEN {"IN"} ELSE {}) \cup
                                    (IF Writers = 0 THEN {"HUP"} ELSE {})
                    ELSE IF Readers = 0 THEN {"ERR"} ELSE IF Space > 0 THEN {"OUT"} ELSE {}
(* The poll of either end. *)
PollBits(e) == IF e = "r" THEN (IF buf # <<>> THEN {"IN"} ELSE {}) \cup
                               (IF Writers = 0 THEN {"HUP"} ELSE {})
               ELSE IF Readers = 0 THEN {"ERR"} ELSE IF Space >= Atomic THEN {"OUT"} ELSE {}

-----------------------------------------------------------------------------
(* Read, Write and Poll.  Calls on a descriptor that is not open, or reads  *)
(* from a write end and the reverse, fail (EBADF, POLLNVAL) and change      *)
(* nothing.                                                                 *)

Call(p, c) == /\ Goto(p, "guest", "wait")
              /\ op' = [op EXCEPT ![p] = c]
              /\ UNCHANGED <<fds, pipe, ch, drop>>

ReadCall(p, f, n) ==
  /\ Holds(p, f) /\ fds[p][f] = "r"
  /\ Call(p, [k |-> "read", on |-> {"r"}, n |-> n, ev |-> {}, left |-> {}])
WriteCall(p, f, n) ==
  /\ Holds(p, f) /\ fds[p][f] = "w"
  /\ Call(p, [k |-> "write", on |-> {"w"}, n |-> n, ev |-> {}, left |-> {}])
PollCall(p, F, ev) ==
  /\ F # {} /\ \A f \in F : Holds(p, f)
  /\ Call(p, [k |-> "poll", on |-> {fds[p][f] : f \in F}, n |-> 0, ev |-> ev, left |-> {}])

(* changed(): both ends have the same notifier. *)
TakeChannel(p) ==
  /\ Goto(p, "wait", "op")
  /\ ch' = [ch EXCEPT ![p] = "open"]
  /\ op' = [op EXCEPT ![p].left = op[p].on]
  /\ UNCHANGED <<fds, pipe, drop>>

(* The call of p returns, when the channels are as in c. *)
Return(p, c) == /\ pc' = [pc EXCEPT ![p] = "guest"]
                /\ op' = [op EXCEPT ![p] = NoCall]
                /\ ch' = [c EXCEPT ![p] = "none"]
Park(p) == pc' = [pc EXCEPT ![p] = "park"] /\ UNCHANGED <<op, ch>>

(* io, when its operation had the result r and left b in the pipe.  The     *)
(* flag O_NONBLOCK is read here only, and a process may change it before    *)
(* the call (F_SETFL): what would block parks, or fails with EAGAIN.        *)
IoResult(p, r, b) ==
  \/ r > 0 /\ buf' = b /\ Return(p, Notified)
  \/ r <= 0 /\ Return(p, ch) /\ UNCHANGED buf
  \/ r = EAGAIN /\ Park(p) /\ UNCHANGED buf

Read(p) ==
  LET r == ReadResult(op[p].n) IN
  /\ pc[p] = "op" /\ op[p].k = "read"
  /\ IoResult(p, r, SubSeq(buf, r + 1, Len(buf)))
  /\ UNCHANGED <<fds, refs, count, drop>>

(* A write that fails with EPIPE also sends SIGPIPE, after which the        *)
(* process may end or go on.                                                *)
Write(p) ==
  LET n == op[p].n
      r == WriteResult(n) IN
  /\ pc[p] = "op" /\ op[p].k = "write"
  /\ IoResult(p, r, buf \o [i \in 1..r |-> [w |-> p, n |-> n, i |-> i]])
  /\ UNCHANGED <<fds, refs, count, drop>>

(* poll looks at one file after the other.  That it also looks at the rest  *)
(* when one is ready makes no difference but in what it returns.            *)
Ready(e, ev) == PollBits(e) \cap (ev \cup {"ERR", "HUP"}) # {}
Poll(p, e) ==
  /\ pc[p] = "op" /\ op[p].k = "poll" /\ e \in op[p].left
  /\ IF Ready(e, op[p].ev) THEN Return(p, ch)
     ELSE IF op[p].left = {e} THEN Park(p)
     ELSE op' = [op EXCEPT ![p].left = @ \ {e}] /\ UNCHANGED <<pc, ch>>
  /\ UNCHANGED <<fds, pipe, drop>>

(* block ends: the channel was closed; or a signal came, or poll's timeout  *)
(* passed (at once, with timeout 0).                                        *)
ParkWoken(p) == /\ ch[p] = "closed"
                /\ Goto(p, "park", "wait")
                /\ ch' = [ch EXCEPT ![p] = "none"]
                /\ UNCHANGED <<fds, pipe, op, drop>>
ParkEnded(p) == /\ pc[p] = "park"
                /\ Return(p, ch)
                /\ UNCHANGED <<fds, pipe, drop>>

-----------------------------------------------------------------------------
InHost(p) == \/ \E f \in Fds : Drop(p, f) \/ CloseAll(p, f)
             \/ Notify(p) \/ CloseAllNotify(p) \/ CloseAllDone(p)
             \/ TakeChannel(p) \/ Read(p) \/ Write(p) \/ (\E e \in Ends : Poll(p, e))
             \/ ParkWoken(p)

Next == \E p \in Procs :
  \/ \E f, g \in Fds : \/ PipeCall(p, f, g) \/ Dup(p, f, g) \/ DupOnto(p, f, g)
  \/ \E f \in Fds : Close(p, f) \/ Drop(p, f) \/ CloseAll(p, f)
  \/ \E c \in Procs, F \in SUBSET Fds : Spawn(p, c, F)
  \/ Notify(p) \/ Exit(p) \/ CloseAllNotify(p) \/ CloseAllDone(p)
  \/ \E f \in Fds, n \in Sizes : ReadCall(p, f, n) \/ WriteCall(p, f, n)
  \/ \E F \in SUBSET Fds, ev \in Events : PollCall(p, F, ev)
  \/ TakeChannel(p) \/ Read(p) \/ Write(p) \/ \E e \in Ends : Poll(p, e)
  \/ ParkWoken(p) \/ ParkEnded(p)

(* A goroutine inside a host call keeps running.  No program need read,     *)
(* write, close or end, and no signal need come.                            *)
Fairness == \A p \in Procs : WF_vars(InHost(p))

SafeSpec == Init /\ [][Next]_vars
Spec == SafeSpec /\ Fairness

-----------------------------------------------------------------------------
(* Properties. *)

Created == ~NewPipe

(* The descriptors of all processes for end e, and those being dropped. *)
Open(e) == {h \in Procs \X Fds : fds[h[1]][h[2]] = e}
Dropped(e) == {h \in Procs \X Fds : drop[h[1]][h[2]] = e}

(* Reference counts are exact, through inheritance, dup, dup onto a         *)
(* descriptor in use, close and closeAll: an end is released when its last  *)
(* descriptor in any process is closed, not earlier, and once.              *)
RefsExact ==
  Created => \A e \in Ends :
    /\ refs[e] = Cardinality(Open(e)) + Cardinality(Dropped(e))
    /\ count[e] = IF refs[e] > 0 THEN 1 ELSE 0

(* What a parked call waits for has happened. *)
CanGoOn(p) == \/ op[p].k = "read" /\ ReadResult(op[p].n) # EAGAIN
              \/ op[p].k = "write" /\ WriteResult(op[p].n) # EAGAIN
              \/ op[p].k = "poll" /\ \E e \in op[p].on : Ready(e, op[p].ev)

(* poll.go: "so a change between the check and the wait is not missed".     *)
(* A parked call that could go on has been woken, or a release has yet to   *)
(* notify.                                                                  *)
NotifyDue == \E q \in Procs : pc[q] \in {"notify", "endnotify"}
NoMissedChange ==
  \A p \in Procs : (pc[p] = "park" /\ ch[p] = "open" /\ CanGoOn(p)) => NotifyDue

(* pipe.go: "writes up to this size are never split".  In the pipe, each    *)
(* byte of a short write is followed by the next byte of the same write.    *)
Whole(s) == \A j \in DOMAIN s : (s[j].n <= Atomic /\ s[j].i < s[j].n) =>
              /\ j < Len(s)
              /\ s[j + 1] = [w |-> s[j].w, n |-> s[j].n, i |-> s[j].i + 1]
NeverSplit == Whole(buf)

(* What poll reports is what the call then finds: a write end reported      *)
(* ready takes a write of any length without blocking, and a read end is    *)
(* reported ready exactly when a read would not block.                      *)
PollAgrees ==
  \A n \in Sizes :
    /\ (PollBits("r") # {}) <=> (ReadResult(n) # EAGAIN)
    /\ (PollBits("w") # {}) => (WriteResult(n) # EAGAIN)

(* A reader parked on a pipe without writers, and a writer on one without   *)
(* readers, get their end of file or EPIPE.                                 *)
HangupEndsWait ==
  \A p \in Procs :
    (pc[p] = "park" /\ ((op[p].k = "read" /\ Writers = 0) \/ (op[p].k = "write" /\ Readers = 0)))
      ~> (pc[p] # "park")
=============================================================================
