# TLA+ models of pgzero's kernel

pgzero runs PostgreSQL, compiled to WebAssembly, inside a Go program. What
PostgreSQL expects from an operating system is provided by a small kernel in Go
(`src/internal/kernel`) and a C library that is linked into every guest program
(`src/wasm/libpgzero`): processes, pids and `waitpid`, signals, an interval
timer, descriptors, pipes and `poll`, sockets, shared memory, semaphores and a
file system. Each guest process is one goroutine; everything it shares with
others is reached through mutexes, condition variables and channels. These
modules model that kernel, model-check it on small instances, and prove the
central properties for instances of any size.

Contents: 1 inventory · 2 plan · 3 modules and code · 4 runs · 5 bounds ·
6 fairness · 7 proofs · 8 findings · 9 what is not modelled.

## 1. Inventory

| Component | State | Operations | What makes it correct |
|---|---|---|---|
| Notifier, blocking calls (`notify.go`, `Process.block`) | the notifier's current channel; per process `ctx`, the one-slot `sigWake` | `wait`, `notify`, `block` | no wakeup, signal or SIGKILL is lost between a check and the wait that follows it |
| Semaphores (`sema.go`) | a count and a notifier | create, Lock, TryLock, Unlock, Reset | behaves as an atomic counter; a unit does not lie idle while somebody waits |
| Signals, host (`process.go`) | pending/blocked/ignored words in guest memory, `early`, `sigWake` | `Signal`, `registerSignals`, `stopSignals`, `interrupted` | nothing is lost while the process starts; nothing is written after its memory is freed |
| Signals, guest (`signal.c`, `pgzero.h`, `internal.h`) | dispositions, mask, the control block, nested handlers | `sigaction`, `sigprocmask`, `sigsuspend`, `sigwait`, dispatch | masks are restored however handlers nest, EINTR means that a handler ran |
| Process life cycle (`process.go`, `kernel.go`) | process table, pid owners, `children`, `parentGone`, `done` | Start, spawn, `waitpid`, `finish`, Close | a pid leads to the process that has it, no pid leaks, no exit goes unnoticed, Close ends everything |
| Interval timer (`process.go`) | `alarmState` and the timers it has started | `setAlarm`, fire, stop | an alarm is not lost; one that was disarmed does not fire |
| Descriptors, pipes, poll (`fdtable.go`, `pipe.go`, `poll.go`) | descriptor tables, reference counts, pipe buffers | pipe, dup, close, read, write, poll, inheritance, exit | exact reference counts, no missed change, atomic short writes |
| Standard streams (`stdio.go`) | read-ahead buffer of the pump | pump, read, poll | neither the pump nor a reader waits for what has happened |
| Connected sockets (`socket.go`, `host.go`) | two bounded buffers, the error and shutdown flags, two pump goroutines | `readLoop`, `writeLoop`, recv, send, poll, shutdown, release | both streams arrive whole and in order; nobody waits for what has happened; output is flushed before the close; releasing ends both pumps |
| Listening sockets, virtual listeners (`socket.go`, `kernel.go`) | names, accept queues, `acceptLoop` goroutines | bind, listen, accept, release, `DialUnix` | a dial is accepted or refused; a name leads to a live socket; no accepted connection is left without an owner |
| Shared memory (`shm.go`, `vmem`, `shm.c`, `wasm_shmem.c`) | segments, names, counts, attachments, what each page of a memory shows, the guest's blocks | create, attach, remove, open, unlink, truncate, mmap, munmap, exit | a segment is freed exactly when nobody can reach it; malloc never hands out a page that shows one |
| In-memory file system (`memfs`) | a tree of nodes, open Files, the backing array of each file | open, mkdir, rename, link, unlink, readdir, clone; read, write, seek, truncate | operations keep a tree and lose nothing they do not name; a file is a sequence of bytes; appends do not overwrite each other |
| Server (`pgzero.go`) | data directory, postmaster process, readiness | Start, `waitReady`, `probe`, Dial, Close | Start and Close return in every race; a half-made data directory is not taken for a good one |
| Host files (`osfs`), shell, `dl`, ABI bindings, build tools | none of their own | | sequential or generated code |

**How they interact.** The guest enters the kernel by host calls and comes back
through `sysret`, which dispatches signals. A call that would block takes the
change channel of what it waits for, looks again, and then parks in
`Process.block`, which waits for that channel, a token in `sigWake`, the
process's context or a deadline. Whoever changes the state closes the channel.
`Signal` is called from other processes' goroutines, from timers and from
`finish`, and writes bits into the target's own memory. `finish` tears down in
order: signals, timer, descriptors, shared memory, then `done`, the process
table, the parent's `childEvts` and SIGCHLD. `Kernel.Close` kills and awaits
everything.

**What is hard.** Check-then-park with no lock held in between; bit and token
sent in two steps to a channel with one slot; a signal word that host and guest
both write; the exits of parent and child crossing each other; pids that are
reused; timers whose function may run after they were stopped; reference counts
that are spread over processes; producers that wait for room before they
announce what they have; a buffer that grows while a slice of it is written;
listeners that close under a dial or an accept; segments that are unlinked,
unmapped, closed and left by exit in any order; a rename that could tie a tree
into a knot; a copy that is cut short by a crash. `PROJECT.json` lists the hazards, each at its line.

## 2. Plan

Order of work, most important behaviour first.

1. `AbstractSema`, `Sema`: notifier, block and semaphores, with the refinement. *Done, proved.*
2. `Signals`: host and guest side of delivery. *Done, proved.*
3. `Process`: pids, spawn, wait, kill, finish, Close. *Done, proved.*
4. `Alarm`: the interval timer. *Done, proved.*
5. `Pipe`: descriptors, pipes, io and poll. *Done, proved.*
6. `Stdin`: the read-ahead pump. *Done, proved.*
7. `Socket`: a connected socket, its pumps, shutdown and release. *Done, proved.*
8. `Shm`: segments, windows, mappings, the 32-bit sizes. *Done, proved.*
9. `MemTree`, `MemFile`, `AbstractFile`: the namespace, and a file with its
   refinement. *Done, proved.*
10. `Server`, `DataDir`: listeners, dials, Start and Close; the template copy with
    crashes. *Done; `Server` is proved.*

*Proved* means: every invariant and every safety property that a run checks is
a theorem as well. Liveness stays with TLC.

Composition: `Server` composes what `pgzero.go`, the virtual listeners and the
listening sockets do, since their races are with each other. The pairs
`Process`/`Alarm`, `Pipe`/`Stdin` and `MemTree`/`MemFile` share no state and are
checked side by side in one run each.

Left for later: type theorems for the modules that have none (`Socket`,
`MemTree`).

## 3. Modules and the code

One step of a module is one critical section, one channel operation, or a run of
code that touches nothing shared. Where a step merges more, the module says why
nobody can tell. `map` in `PROJECT.json` gives the lines of every definition.
`MCx.tla` instantiates module `x` (`MCDescriptors` has both `Pipe` and `Stdin`,
`MCProcess` both `Process` and `Alarm`, `MCMemFS` both `MemTree` and `MemFile`: a
variable `part` says which of the two moves, so that TLC explores the sum of
their states and not the product); `xProofs.tla` holds its theorems, for such a
pair in one module (`PipeProofs`, `ProcessProofs`, `MemFSProofs`). Definitions
marked *a mutant* are variants of the one that follows; no specification uses
them.

**`Sema.tla`** (`sema.go`, `notify.go`, `Process.block`, `Process.Signal`). `pc`
follows a process through `semaLock`: `wait` (take the channel), `try`
(`tryLock`), `check` (top of block's loop), `select`. A notifier owns one open
channel, so what a waiter holds is "open" or "closed". `Unlock` and `Notify` are
two steps, as in the code; so are the two halves of `Signal`.
**`AbstractSema.tla`** is the promise: a counter that is taken and given
atomically, waiters that may give up, and fairness: a unit that stays available
while somebody waits is taken.

**`Signals.tla`** (`process.go`, `signal.c`, `pgzero.h`, `internal.h`). One process
and any senders. `life` goes from `boot` (no control block yet) over `run` to
`freed`. `stack` holds the frames of `signal.c` that are active: dispatch loops,
handlers and sigsuspend. `owed`, `codeMask` and `eintr` are history variables.
Assumed of the program: a handler only adds to the mask (so it does not unblock
its own signal), does not leave by `longjmp`, and handlers are installed without
`SA_NODEFER`, which nothing in the repository uses and which would let handlers of
one signal nest without a bound. `Sigwait` takes the lowest pending signal of any
set, blocked or not; its loop around `host_sleep` is an action that is not enabled
yet.

**`Process.tla`** (`process.go`, `kernel.go`). Processes are numbered in the order
of creation, as objects; `pid`, `procs` and `owners` are the resources they
hold. `spawn`, `waitpid` and `finish` take one step for each critical section.
`twice` is a history variable: the pids that an exiting parent forgot for a child
which had closed `done` and will, as an orphan, forget the same number itself.
A pid that leaves the kernel is put together from the host pid and the number
(`PidBase`) and taken apart by `killForeign`, which other kernels of the Go process
and other pgzero processes of the host ask. Host pids below the wrap at
`HostPidRange` are assumed: above it, the code says, they cannot be recovered.
`HandleSigchld` is the program's handler, which calls `waitpid(-1, WNOHANG)`
until nothing is left, as the postmaster does (external).

**`Alarm.tla`** (`setAlarm` and its `fire`). Every `time.AfterFunc` is a timer of its
own; after `Expire` its function may run at any later moment, and `Stop` has no
effect on it any more, which is what the Go runtime promises (external).

**`Pipe.tla`** (`fdtable.go`, `pipe.go`, `poll.go`, the fd calls of `host.go`). The
tables of all processes, the two open files of one pipe, and the pipe. Bytes
carry their writer, the length of their write and their index, so that
interleaving shows. `drop` is what a process has taken out of its table and not
yet unrefed, as between the unlock and the `unref` in the code. The
close-on-exec mark and `O_NONBLOCK` are read in one place each and set freely by
programs, so they are choices made there (the set `F` of `Spawn`; the last two
disjuncts of `IoResult`). Calls that fail without changing anything (EBADF,
EFAULT, lengths of 0) are left out. The SIGPIPE that follows EPIPE is the
business of `Signals`.

**`Stdin.tla`** (`stdio.go`). Only the number of buffered bytes matters. `room` and
`woken` are the two sides of the condition variable's wait.

**`Socket.tla`** (`socket.go`, `host.go`). Bytes are numbered in the order in which
they are sent. `rpc` and `wpc` follow the two pumps; a Write of the host
connection takes its bytes one at a time (`PeerTake`) while `send` appends to the
same buffer, and may fail half-way. `close` and `linger` are the two ends of
`release`, which depend on whether `writeLoop` has stopped. The peer is external:
it may send, take, leave and reset at any time. Connecting is not part of it.

**`Shm.tla`** (`shm.go`, `vmem.go`, `shm.c`, and `wasm_shmem.c` in the Postgres
patch). A memory is a row of pages, each private or showing a segment; `heap` are
the pages malloc has, `blocks` those mmap has taken from it, `mappedEnd` and
`used` the state of Postgres's port layer. `Unsigned` and `Signed` are the
conversions between the guest's 32-bit sizes and the host's results. A main
segment of just under half the word is created but rounded up to a size that
`size` reports as negative, and no child can attach to it; the model has that
case (`Sizes` holds 3 of a word of 8, pages of 2).

**`MemTree.tla`** (`memfs.go`). Nodes, entries and parents as functions; paths are
walked as `resolve` does, also from directories that are open but no longer
linked. `Panic` is the use of a nil node, which a path such as `file/..` leads to:
`..` does not look whether the walk has come to a file, and the next component, or
the test after the last one, looks at its parent. Operations range over
what resolves. `AddTar` fills a new file system component by component before
anybody else has it (`phase`), and may fail in the middle. `Reached` is the smallest
set that holds the root and the entries of its directories. **`MemFile.tla`** is one file: the array with its capacity, its
visible length, and Files with their offsets; an append takes its position and
writes in two steps under `File.mu`. `touched` and `log` are ghosts.
**`AbstractFile.tla`** is the promise: a byte sequence that is overwritten,
extended with zeros and cut.

**`Server.tla`** (`pgzero.go`, `kernel.go`, `socket.go`). Each process has one socket
that it may bind to the name that is dialed, and bind again if that fails; the
others may inherit the socket and keep it open when the process is gone (`Kept`).
`start` follows Start through its
probes, `closing` follows Close, `release` the steps of releasing a listening
socket, `loop` its acceptLoop, `server` who has the server end of a connection.
A dial and an Accept meet in one step, as on an unbuffered channel, even when the
listener has just been closed: select prefers no case.

**`DataDir.tla`** (`initDataDir`). The entries of the template, created and written
one by one, with a crash or an error between any two steps and Start called
again.

## 4. Runs

| Run | Shows | States |
|---|---|---|
| `sema` | No wakeup is lost; SIGKILL ends every wait; the whole implements `AbstractSema`, its fairness included. | 35,132 |
| `signals` | No deliverable signal is slept through or dropped, also while the process starts; no write after free; the mask is restored however handlers nest; EINTR means that a handler ran; a pending signal ends a call. | 334,404 |
| `process` | A pid leads to the living process that has it unless it was released twice (finding 1, which happens in the run), pids do not leak, waiters hear of exits, SIGCHLDs that merge hide no zombie, Close terminates, zombies are reaped. An alarm is not lost; there is at most one timer unless an alarm was set between an expiry and its fire. | 84,088 |
| `descriptors` | Exact reference counts, no missed change, short writes whole, `poll` truthful, hangup ends a wait. Standard input: no missed input, no missed room. | 933,630 |
| `socket` | Streams intact, also what is sent during a Write; no missed change but the one of shutdown (section 8); output flushed before the close; release ends both pumps. | 1,189,059 |
| `shm` | Segments are freed when unused, not before and not twice; what is shown is attached; the heap is private. | 1,126,692 |
| `memfs` | The tree stays a tree and loses only what an operation names; a file implements `AbstractFile`; appends through one File are kept. | 64,412 |
| `server` | No connection without an owner; the name leads to a live socket; dials to a closing listener end; Start and Close return. | 246,592 |
| `pid_reuse`, `close_race`, `alarm_race`, `init_crash` | The four findings of section 8. | violations |

For each property of a passing run `PROJECT.json` names a mutant of the model, a
plausible slip in the code, under which TLC finds that property violated: among
them an unlock that does not notify, a signal check that is skipped before
parking, deferred calls in the other order, a release that does not notify, a
short write that takes what fits, a waitpid that leaves a child it has reaped among
the children, a pump that drops what was appended during its Write, an acceptLoop that queues without looking, a munmap that leaves the page
shared, a rename that only refuses the directory itself, a Close without its
timeout.

Deadlock is checked in `sema` and `signals`, where some program can always go
on. In the others all processes may have ended, or the bounded supply of timers,
bytes, nodes or connections may be used up, which is a normal end.

## 5. Bounds and why they suffice

* `sema`: three processes, so that one can wake another while a third competes;
  signals go to one of them (symmetric otherwise); two units; two simultaneous
  senders, which are enough to overrun the one-slot channel.
* `signals`: two signals, one ignored by default, one whose handler blocks the
  other: handlers nest once in either order. Two senders and SIGKILL.
* `process`: four objects and three pids, so that a pid is reused while its last
  process is still in `finish`, which finding 1 needs; processes 1 and 2 spawn, so
  that a process is parent and child. Two pgzero processes on a host with pids up
  to 3: each asks for the other's pids. Processes are explored in two parts, since
  the whole is too large: without Close and kills (a guest may end at any moment
  anyway), where `WaitBound` has a particular child waited for only if there are
  several; and with them, then three objects, two pids at a time (`FewProcesses`), so
  that pids run out, and kills only where they change what can happen next
  (`KillBound`). Three timers, two ticks, with and without an interval.
* `descriptors`: two processes, two descriptors each (both ends, or one end
  twice), capacity 3 with atomic size 2: a short write that does not fit and a
  long one that is cut both happen. Standard input: a chunk of 2 and a buffer of
  3, so that the buffer overshoots. The proofs cover more processes.
* `socket`: two processes, one of which reads, peeks, polls for input and sends,
  while the other reads, sends and polls for output; buffers of 2 bytes each way
  and Reads of 1, so that either pump is held up. Two parts: without input, calls
  of 1 and 2 bytes and 4 bytes out, so that a send appends to a buffer from which a
  Write is taking, a Write ends or fails with more behind it, and a buffer fills,
  drains and fills again; and with 2 bytes in and 2 out, so that both directions
  meet shutdown, reset and release.
* `shm`: the postmaster and a child, two segments (so that the main segment can
  be created again, or lie beside a POSIX object), two open files, which may be
  of one segment, memories of three pages with the window in the middle of the
  heap's reach, objects and mappings of one and two pages.
* `memfs`: four nodes, two names, a path of up to two components from an open
  directory, and as many in the names of an archive that `AddTar` unpacks first, plus
  one: a rename into a grandchild, onto an empty directory and through a
  removed directory all happen; one open handle. A file of up to two bytes, two
  users, two Files of which one is O_APPEND.
* `server`: two processes, a client and the probe, two connections at a time, so
  that a name changes hands, the second process keeps the postmaster's socket, and
  one connection waits while another is served. A socket is bound again only when
  nobody dials the listener of the failed bind any more: the model has one
  listener for each socket.

## 6. Fairness

A goroutine inside a host call is scheduled by the Go runtime and keeps running:
weak fairness of its host steps, and of the pumps, acceptLoops and dials. A
sender that has set a bit goes on to send the token: weak fairness. Guest code
tests for cancellation when it enters a function or repeats a loop
(`WithCloseOnContextDone`) and dispatches signals on the way back from host
calls, but does not sit at such a point for ever: strong fairness of being
stopped when killed, and, for the programs assumed to handle SIGCHLD, of running
that handler. `select` chooses among ready cases at random: strong fairness of
the case of `waitReady` that ends it, once the context or Done stays ready. Timers
expire: the deadlines of `probe` and of Close, and the write deadline that
`release` sets, after which a Write that the peer does not take fails. Nothing is
assumed of what programs, peers and clients choose to do: no Lock is followed by
an Unlock, nobody need read, write, accept, close or exit, no signal need come,
the peer of a socket may stop taking bytes, the postmaster need not react to
SIGINT, and the reader behind standard input may block for ever.

## 7. Proofs

All theorems hold for every value of the constants that satisfies the named
assumption of the module: any number of processes, signals, senders,
descriptors, connections, any capacity and any lengths.

* **`SemaProofs`**. `TypeCorrect`; `WakeupNeverLost` and `SignalNeverLost`, each
  inductive together with the type invariant; `ImplementsAtomicCounter`: every
  step is a step of the counter or a stutter.
* **`SignalsProofs`**. `TypeCorrect`, `SignalNeverLost`, `SignalNeverDropped`,
  `FreedMemoryUntouched`, `EintrIsHandled`, `MaskIsRestored`. None is inductive alone.
  `SignalInv` adds in which part of its life the host may see the control block, that
  the ignored mask is always the one the dispositions call for, that after EINTR a
  dispatch loop is on top of the stack with the cause still pending, and `StackInv`:
  which frame may lie on which, and that the mask the program asked for is installed
  or saved in the frame that restores it last.
* **`ProcessProofs`**. `ProcTypeCorrect`, `PidsAreNotLeaked`, `ChildEventsAreNotLost`,
  `ZombiesAreNotForgotten` and `AliveAreFound`. `TableInv` has four
  parts: a child that is being made and the parent that makes it point at each other
  (`Birth`); children know their parent until it reaps them or ends (`Family`); a pid in
  use leads to its process, or to none while that process is being made (`Table`); and
  what is in the table is an orphan that will release itself, or has a parent that can
  reap it (`Reaped`). `Announced` says that a child that is gone has left SIGCHLD set,
  or a handler that has not looked for the last time. `AliveAreFound` holds for any
  spawners: unless a pid is in `twice`, the table leads from it to its keeper
  (`Registered`), and keepers (`KeepsPid`) are, beside the living, those whose pid
  somebody has yet to release: by reaping, in the parent's `finish`, or as an orphan.
  So a release by number hits the process that is meant; `AliveIsRegistered`, without
  the exception, is what finding 1 refutes.
  The arithmetic of `killForeign` is a lemma (a base and a number are taken apart
  again). `AlarmsAreNotLost` and `OneTimerRuns` are inductive together: while no race
  has happened, `a.timer` is the timer that runs, and none runs while one fires.
* **`PipeProofs`**. `TypeCorrect` (the buffer stays within the capacity);
  `ShortWritesWhole`, from two lemmas on what a prefix taken and a write appended
  do to a sequence of whole writes; `ChangeNeverMissed`, where the invariant
  also covers a poll that is half through its files: what it has found not ready
  has not changed since, or its channel is closed, or a notify is due;
  `PollIsTruthful`, which compares the conditions of `poll`, `read` and `write`
  in every well-typed state. `RefsAreExact` counts places: lemmas say what setting or
  clearing one place, and one row, does to the set of places that hold an end, and
  `RefInv` adds that a process which is not closing has nothing to drop and that
  the pipe exists as long as a place holds an end.
  For standard input `StdinTypeCorrect`, `InputNeverMissed`, `RoomNeverMissed`. They rest
  on one chunk being smaller than the buffer (32K and 64K in the code). Were it
  not, the first chunk could fill the buffer and the pump would wait for room
  with its data unannounced.
* **`ServerProofs`**. `TypeCorrect`, `NameAlwaysLive`, `ConnectionNeverOrphaned`.
  `InHand` adds to the types that a dial which waits, and an acceptLoop which has
  accepted, have a connection in hand. `NoOrphan` is inductive only together with
  `DoomedByRelease`: connections are set aside for closing by a release that has
  begun, and by nothing else.
* **`SocketProofs`**. `OutputIsFlushed`, where `FlushInv` ties the two places that
  close a connection to the state of `writeLoop`; `PumpsNeverIdle`, that no pump
  sleeps with work to do; `ChangeNeverMissed`, from `FlushInv`, the types of the
  buffers (`BufferInv`) and `MissInv`, which is `NoMissedChange` with the condition of each
  call spelled out in terms of the buffers: a parked call that could go on has been
  woken, or readLoop is about to notify, or it is a send, or a poll for output, that
  found the buffer full and was shut down while a Write runs (`Asleep`). No call
  that waits for input is excepted, nor is any once the Write has ended. It rests, as for standard input, on one
  Read being smaller than the read-ahead. `StreamsAreIntact`, where `StreamInv` says of
  every buffered byte which byte of its stream it is; bytes that the peer has
  taken out of a Write which has not returned are counted on both sides.
* **`ShmProofs`**. `ShmTypeCorrect` and `HeapAlwaysPrivate`. `HeapIsPrivate` is not
  inductive: `WindowApart` adds that the heap lies in the committed memory and outside
  the window, below which it stayed or above which it goes on, and that nothing is
  shown where there is no memory yet, so that the next page of malloc is private.
  `SegmentsAreFreedOnce` and `ShownPagesAreAttached`, from `SegInv`: the counters of a
  segment are the cardinalities of its attachments and open files (`CountInv`); a
  segment is blank before it exists, in use while it is listed, and unused and freed
  once after that (`LifeInv`); it is known by one name or to one exit hook (`KnownInv`);
  and a page that shows a segment is covered by an attachment (`ViewInv`).
* **`MemFSProofs`**. `TreesStayIntact`. `TreeInv` adds that nodes which do not exist yet
  have no entry anywhere and that only directories have entries. A rename closes no
  circle: the loop up from the new parent did not meet the directory that moves, so the
  part of a circle that lies on the loop would have been one before. `NothingElseIsLost`
  compares what can be reached before and after each step, by giving a set that is closed
  under entries: for a rename into a directory that cannot be reached afterwards,
  everything but the directories on the loop up from it, and what is still reached.
  `FileTypeCorrect`, `FilesArePosix`, the refinement of `AbstractFile` with the visible
  part of the array as the contents: what `grow` and `writeAt` leave in each position are
  lemmas, and `LockInv` says that whoever holds `File.mu` has something to write, in one
  File only. `AppendsAreKept`, where `AppendInv` adds that a writer with `File.mu` of the only
  File that has written stands at the end of the file.

Nothing is assumed of the constants but what the modules' `ASSUME`s say, which TLC
evaluates in the runs.

Only model-checked: every liveness property (`KillTakesEffect`, `SignalEndsCall`,
`CloseTerminates`, `ZombiesAreReaped`, `HangupEndsWait`, `ReleaseEndsAll`, `DialsEnd`,
`StartEnds`, `CloseReturns`) and the fairness half of the refinement of `AbstractSema`,
since the prover handles neither fairness nor ENABLED; and the deadlock checks. What a
path resolves to is a fold over its components, about which nothing can be proved for
every length without induction; the proofs of `MemTree` need only that an operation
is given a node or a directory. The type invariant is proved for `Sema`, `Signals`,
`Process`, `Alarm`, `Pipe`, `Stdin`, `Shm`, `MemFile` and `Server`; for `Socket` and
`MemTree` the parts that the other proofs need.

## 8. Findings

1. **A pid released twice** (`pid_reuse`, `kernel.go:358`). `finish` and `waitpid`
   release a pid by its number. A child that has closed `done` but not yet taken
   `k.mu` may be forgotten by its exiting parent; the pid goes to a new process;
   then the child, now an orphan, forgets the same number again and unregisters
   the new process, which is alive.
2. **Close misses late children** (`close_race`, `kernel.go:243`). Close kills and
   awaits one snapshot of the process table. A child registered after it
   survives a Close that "kills all processes".
3. **A timer that cannot be disarmed** (`alarm_race`, `process.go:512`). `fire` does
   not know which timer it belongs to. If `setAlarm` arms a timer between the
   expiry of the previous one and its fire, `fire` overwrites `a.timer`, and the
   timer that runs is no longer reached by `setAlarm(0)`.
4. **Half a cluster taken for one** (`init_crash`, `pgzero.go:239`). `PG_VERSION` is
   the first entry of the template and the mark by which `initDataDir` recognises
   a cluster. A crash or an error later in the copy leaves a directory that the
   next Start does not complete.

Two further disagreements are named by the exceptions of two properties, which
the code meets in no wider form:

* **shutdown wakes nobody** (`AsleepInShutdown` in `NoMissedChange`, `socket.go:488`).
  `fdtable.go:22-23` promises a channel that is "closed at the next change in
  readiness". shutdown for writing makes a send fail and a poll for output return,
  but does not notify. A send that is parked on a full buffer stays parked until the
  Write in progress returns; before release no deadline is set, so with a peer that
  does not read that may be never. Everybody else is woken.
* **rename into a removed directory** (`MovedAway` in `NothingLost`, `memfs.go:478`).
  The comment claims "rename(2) semantics", under which that fails with ENOENT. The
  code moves the directory, and its contents are out of the tree.

One more exception is a choice of the design: a Start whose dial has reached a
process that bound the name, or inherited the socket that has it, but does not
listen waits for that process or the context, not for the end of the postmaster
(`HeldUp` in `StartEnds`).

## 9. Not modelled

In modelled parts: the guest's `connect` before the connection is there, socket
options and address encoding; times and Stat of the in-memory file system;
host pids above the wrap of `pidBase`; standard output, a mutex around an
`io.Writer`. Not modelled at all: the host file adapter (`osfs`, no state of its
own), the guest's shell, argument and `dlopen` code (sequential), the compilation
of programs (a third-party engine), generated bindings (they marshal arguments
and have no state), build tools, and `pgzerox`.
