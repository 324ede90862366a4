-------------------------------- MODULE Shm --------------------------------
(***************************************************************************)
(* Shared memory: the kernel's segments (internal/kernel/shm.go), the      *)
(* linear memories they are mapped over (internal/vmem), the guest's       *)
(* shm_open, mmap and munmap (libpgzero/src/shm.c) and the fixed window    *)
(* that Postgres keeps its main segment in (wasm_shmem.c, in the patch).   *)
(*                                                                         *)
(* A segment is identified by its id.  Memory is a row of wasm pages; each *)
(* shows private memory or a segment.  Sizes are requested in bytes of a   *)
(* word of Word values.  Segment operations run under shmTable.mu and are  *)
(* one step; what a process does to its own memory in the same call is     *)
(* private to it and part of the step.                                     *)
(***************************************************************************)
EXTENDS Integers, FiniteSets

CONSTANTS Procs,     \* processes; one of them is the postmaster
          Postmaster,
          Names,     \* names of POSIX shared memory objects
          Files,     \* bound: open files
          NSegs,     \* bound: segments ever created
          MaxBlocks, \* bound: blocks that mmap has taken at a time
          NPages,    \* the maximum of a memory, in pages
          Base,      \* PGZERO_SHM_BASE, in pages
          PageSize,  \* 64K in the code
          Word,      \* 2^32 in the code
          Sizes      \* the sizes that programs ask for, in bytes

ASSUME ShmAssumption == /\ Postmaster \in Procs
                        /\ NSegs \in Nat \ {0} /\ MaxBlocks \in Nat /\ NPages \in Nat \ {0} /\ Base \in 1..(NPages - 1)
                        /\ PageSize \in Nat \ {0} /\ Word \in Nat \ {0}
                        /\ Sizes \subseteq 1..(Word - 1)

Segs == 1..NSegs
Pages == 0..(NPages - 1)
None == 0       \* private memory, no segment

VARIABLES
  next,        \* shmTable.next
  listed,      \* shmTable.segs
  names,       \* shmTable.names
  size,        \* the size of segment.seg in pages, 0 if it is nil
  attached, fds, removed,    \* fields of segment
  closes,      \* how often the segment's memory has been released
  att,         \* Process.shmAttached: ranges of pages and their segments
  fileSeg, holders,          \* the segment of an shmFile, and who has it open
  pc,          \* the state of each process
  committed,   \* Memory.committed, in pages
  view,        \* what each page of a memory shows
  heap,        \* the pages that malloc has got from the system
  blocks,      \* mappings of shm.c: the blocks that mmap has taken from malloc
  used,        \* UsedShmemSegID, handed down to children
  hook,        \* the segment that the exit hook shmem_delete removes
  mappedEnd    \* mapped_end of wasm_shmem.c, in pages

table == <<next, listed, names, size, attached, fds, removed, closes>>
openFiles == <<fileSeg, holders>>
memory == <<committed, view, heap, blocks>>
window == <<used, hook, mappedEnd>>
vars == <<table, att, openFiles, pc, memory, window>>

Ranges == [addr : Pages, len : 1..NPages]
Attachments == [addr : Pages, len : 1..NPages, s : Segs]

TypeOK ==
  /\ next \in 1..(NSegs + 1) /\ listed \subseteq Segs
  /\ names \in [Names -> Segs \cup {None}]
  /\ size \in [Segs -> Nat] /\ attached \in [Segs -> Nat] /\ fds \in [Segs -> Nat]
  /\ removed \in [Segs -> BOOLEAN] /\ closes \in [Segs -> Nat]
  /\ att \in [Procs -> SUBSET Attachments]
  /\ fileSeg \in [Files -> Segs \cup {None}] /\ holders \in [Files -> SUBSET Procs]
  /\ pc \in [Procs -> {"unborn", "running", "freed", "gone"}]
  /\ committed \in [Procs -> 0..NPages]
  /\ view \in [Procs -> [Pages -> Segs \cup {None}]]
  /\ heap \in [Procs -> SUBSET Pages]
  /\ blocks \in [Procs -> SUBSET Ranges]
  /\ used \in [Procs -> Segs \cup {None}] /\ hook \in [Procs -> Segs \cup {None}]
  /\ mappedEnd \in [Procs -> 0..NPages]

(* shmTable.init; the postmaster runs. *)
Init ==
  /\ next = 1 /\ listed = {} /\ names = [n \in Names |-> None]
  /\ size = [s \in Segs |-> 0] /\ attached = [s \in Segs |-> 0] /\ fds = [s \in Segs |-> 0]
  /\ removed = [s \in Segs |-> FALSE] /\ closes = [s \in Segs |-> 0]
  /\ att = [p \in Procs |-> {}]
  /\ fileSeg = [f \in Files |-> None] /\ holders = [f \in Files |-> {}]
  /\ pc = [p \in Procs |-> IF p = Postmaster THEN "running" ELSE "unborn"]
  /\ committed = [p \in Procs |-> 0]
  /\ view = [p \in Procs |-> [i \in Pages |-> None]]
  /\ heap = [p \in Procs |-> {}] /\ blocks = [p \in Procs |-> {}]
  /\ used = [p \in Procs |-> None] /\ hook = [p \in Procs |-> None]
  /\ mappedEnd = [p \in Procs |-> 0]

(* alignUp, in pages. *)
PagesOf(n) == (n + PageSize - 1) \div PageSize

(* The conversions to uint32 and int32. *)
Unsigned(n) == n % Word
Signed(n) == IF Unsigned(n) < Word \div 2 THEN Unsigned(n) ELSE Unsigned(n) - Word

Cells(r) == r.addr..(r.addr + r.len - 1)
Running(p) == pc[p] = "running"

-----------------------------------------------------------------------------
(* Memory: vmem.Memory. *)

(* MapRange of segment s, of which length pages are wanted. *)
CanMap(p, s, addr, length) ==
  /\ length # 0 /\ length <= size[s]
  /\ addr + length <= committed[p]

Shown(p, addr, length, what) ==
  [view EXCEPT ![p] = [i \in Pages |-> IF i \in addr..(addr + length - 1) THEN what ELSE @[i]]]

(* Reallocate: malloc asks for one more page. *)
Sbrk(p) ==
  /\ Running(p) /\ committed[p] < NPages
  /\ committed' = [committed EXCEPT ![p] = @ + 1]
  /\ heap' = [heap EXCEPT ![p] = @ \cup {committed[p]}]
  /\ UNCHANGED <<table, att, openFiles, pc, view, blocks, window>>

-----------------------------------------------------------------------------
(* The table of segments. *)

(* maybeFree for the segments S, with the counters and flags of after. *)
Unused(s, atts, opens, rem) == rem[s] /\ atts[s] = 0 /\ opens[s] = 0
MaybeFree(S, atts, opens, rem) ==
  LET F == {s \in S : Unused(s, atts, opens, rem)} IN
  /\ listed' = listed \ F
  /\ closes' = [s \in Segs |-> IF s \in F /\ size[s] # 0 THEN closes[s] + 1 ELSE closes[s]]
  /\ size' = [s \in Segs |-> IF s \in F THEN 0 ELSE size[s]]

(* A mutant: attachments are dropped as soon as a range touches them. *)
WithinTouching(a, addr, length) == Cells(a) \cap (addr..(addr + length - 1)) # {}
Within(a, addr, length) == a.addr >= addr /\ a.addr + a.len <= addr + length

Dropped(p, addr, length) == {a \in att[p] : Within(a, addr, length)}
Less(D) == [s \in Segs |-> attached[s] - Cardinality({a \in D : a.s = s})]
SegsOf(D) == {a.s : a \in D}

(* mapLocked: the mapping, the attachments it replaces, and the new one. *)
MapLocked(p, s, addr, length) ==
  LET D == Dropped(p, addr, length) IN
  /\ view' = Shown(p, addr, length, s)
  /\ MaybeFree(SegsOf(D), Less(D), fds, removed)
  /\ attached' = [Less(D) EXCEPT ![s] = @ + 1]
  /\ att' = [att EXCEPT ![p] = (@ \ D) \cup {[addr |-> addr, len |-> length, s |-> s]}]

NewSegment(s) == /\ s = next /\ s \in Segs
                 /\ next' = next + 1
                 /\ listed' = listed \cup {s}

(* The host's side of the calls below; size and attach find only segments   *)
(* that have not been removed.                                              *)
ShmCreate(s, n) == NewSegment(s) /\ size' = [size EXCEPT ![s] = PagesOf(n)]

IsThere(s) == s \in listed /\ ~removed[s] /\ size[s] # 0
ShmAttach(p, s) == IsThere(s) /\ MapLocked(p, s, Base, size[s])

MapFd(p, s, addr, length) == CanMap(p, s, addr, length) /\ MapLocked(p, s, addr, length)

(* A mutant: the range still shows the segment. *)
UnmappedStill(p, r) == view
Unmapped(p, r) == Shown(p, r.addr, r.len, None)

ShmUnmap(p, r) ==
  LET D == Dropped(p, r.addr, r.len) IN
  /\ view' = Unmapped(p, r)
  /\ MaybeFree(SegsOf(D), Less(D), fds, removed)
  /\ attached' = Less(D)
  /\ att' = [att EXCEPT ![p] = @ \ D]

-----------------------------------------------------------------------------
(* The main segment: wasm_shmem.c and the calls create, size, attach and    *)
(* remove.  elog(FATAL) ends the process, which it may do at any time.      *)

(* PGSharedMemoryCreate up to the exit hook: create, unless the size is     *)
(* above PG_INT32_MAX.                                                      *)
Create(p, s, n) ==
  /\ p = Postmaster /\ Running(p) /\ hook[p] = None
  /\ n < Word \div 2
  /\ ShmCreate(s, n)
  /\ hook' = [hook EXCEPT ![p] = s]
  /\ UNCHANGED <<names, attached, fds, removed, closes, att, openFiles, pc, memory, used, mappedEnd>>

(* map_segment: the heap has not reached the window, which can be reserved, *)
(* or the window is the process's already.                                  *)
WindowFree(p, end) == IF committed[p] > Base THEN mappedEnd[p] # 0 /\ end <= mappedEnd[p]
                                             ELSE end <= NPages

(* The rest of PGSharedMemoryCreate, and PGSharedMemoryReAttach in a child. *)
Attach(p) ==
  LET s == IF p = Postmaster THEN hook[p] ELSE used[p]
      end == Base + size[s] IN
  /\ Running(p) /\ s # None
  /\ IF p = Postmaster THEN used[p] # s
     ELSE mappedEnd[p] = 0 /\ Signed(size[s] * PageSize) >= 0    \* pgzero_shm_size
  /\ WindowFree(p, end)
  /\ ShmAttach(p, s)
  /\ committed' = [committed EXCEPT ![p] = IF @ > Base THEN @ ELSE end]
  /\ mappedEnd' = [mappedEnd EXCEPT ![p] = IF end > @ THEN end ELSE @]
  /\ used' = [used EXCEPT ![p] = s]
  /\ UNCHANGED <<next, names, fds, removed, openFiles, pc, heap, blocks, hook>>

(* shmem_delete, at exit or before shared memory is created anew. *)
Remove(p) ==
  LET s == hook[p] IN
  /\ Running(p) /\ s # None
  /\ removed' = [removed EXCEPT ![s] = TRUE]
  /\ MaybeFree({s}, attached, fds, removed')
  /\ hook' = [hook EXCEPT ![p] = None]
  /\ UNCHANGED <<next, names, attached, fds, att, openFiles, pc, memory, used, mappedEnd>>

-----------------------------------------------------------------------------
(* POSIX objects: shm_open, shm_unlink, ftruncate, mmap, munmap, close. *)

(* open: the object s, new or found by its name; O_EXCL and a name that is  *)
(* missing only fail.                                                       *)
ShmOpen(p, n, s, f) ==
  /\ Running(p) /\ holders[f] = {}
  /\ IF names[n] # None
     THEN s = names[n] /\ UNCHANGED <<next, listed, names>>
     ELSE NewSegment(s) /\ names' = [names EXCEPT ![n] = s]
  /\ fds' = [fds EXCEPT ![s] = @ + 1]
  /\ fileSeg' = [fileSeg EXCEPT ![f] = s]
  /\ holders' = [holders EXCEPT ![f] = {p}]
  /\ UNCHANGED <<size, attached, removed, closes, att, pc, memory, window>>

ShmUnlink(p, n) ==
  LET s == names[n] IN
  /\ Running(p) /\ s # None
  /\ names' = [names EXCEPT ![n] = None]
  /\ removed' = [removed EXCEPT ![s] = TRUE]
  /\ MaybeFree({s}, attached, fds, removed')
  /\ UNCHANGED <<next, attached, fds, att, openFiles, pc, memory, window>>

(* truncate gives an object its size once; later it only agrees or fails. *)
Truncate(p, f, n) ==
  LET s == fileSeg[f] IN
  /\ Running(p) /\ p \in holders[f]
  /\ size[s] = 0
  /\ size' = [size EXCEPT ![s] = PagesOf(n)]
  /\ UNCHANGED <<next, listed, names, attached, fds, removed, closes, att, openFiles, pc,
                 memory, window>>

(* malloc's choice of a free, aligned block. *)
FreeBlock(p, r) == /\ Cells(r) \subseteq heap[p]
                   /\ \A b \in blocks[p] : Cells(b) \cap Cells(r) = {}

Mmap(p, f, n, addr) ==
  LET length == Unsigned(n + PageSize - 1) \div PageSize
      r == [addr |-> addr, len |-> length] IN
  /\ Running(p) /\ p \in holders[f]
  /\ Cardinality(blocks[p]) < MaxBlocks /\ FreeBlock(p, r)
  /\ MapFd(p, fileSeg[f], addr, length)
  /\ blocks' = [blocks EXCEPT ![p] = @ \cup {r}]
  /\ UNCHANGED <<next, names, fds, removed, openFiles, pc, committed, heap, window>>

Munmap(p, r) ==
  /\ Running(p) /\ r \in blocks[p]
  /\ ShmUnmap(p, r)
  /\ blocks' = [blocks EXCEPT ![p] = @ \ {r}]
  /\ UNCHANGED <<next, names, fds, removed, openFiles, pc, committed, heap, window>>

(* close, by the program or by finish; the last one releases the shmFile. *)
CloseFile(p, f) ==
  LET s == fileSeg[f] IN
  /\ pc[p] \in {"running", "freed"} /\ p \in holders[f]
  /\ holders' = [holders EXCEPT ![f] = @ \ {p}]
  /\ IF holders[f] = {p}
     THEN /\ fds' = [fds EXCEPT ![s] = @ - 1]
          /\ fileSeg' = [fileSeg EXCEPT ![f] = None]
          /\ MaybeFree({s}, attached, fds', removed)
     ELSE UNCHANGED <<fds, fileSeg, listed, closes, size>>
  /\ UNCHANGED <<next, names, attached, removed, att, pc, memory, window>>

-----------------------------------------------------------------------------
(* The life of processes, as far as shared memory is concerned. *)

(* A child starts with a fresh memory; it inherits the descriptors and is   *)
(* told the id of the main segment.                                         *)
Spawn(p, c) ==
  /\ Running(p) /\ pc[c] = "unborn"
  /\ pc' = [pc EXCEPT ![c] = "running"]
  /\ holders' = [f \in Files |-> IF p \in holders[f] THEN holders[f] \cup {c} ELSE holders[f]]
  /\ used' = [used EXCEPT ![c] = used[p]]
  /\ UNCHANGED <<table, att, fileSeg, memory, hook, mappedEnd>>

(* The guest has ended and inst.Close has freed its memory. *)
Exit(p) ==
  /\ Running(p)
  /\ pc' = [pc EXCEPT ![p] = "freed"]
  /\ committed' = [committed EXCEPT ![p] = 0]
  /\ view' = Shown(p, 0, NPages, None)
  /\ heap' = [heap EXCEPT ![p] = {}] /\ blocks' = [blocks EXCEPT ![p] = {}]
  /\ used' = [used EXCEPT ![p] = None] /\ hook' = [hook EXCEPT ![p] = None]
  /\ mappedEnd' = [mappedEnd EXCEPT ![p] = 0]
  /\ UNCHANGED <<table, att, openFiles>>

(* A mutant: segments that were removed meanwhile are left behind. *)
DetachAllKeeping(p) ==
  /\ pc[p] = "freed" /\ \A f \in Files : p \notin holders[f]
  /\ pc' = [pc EXCEPT ![p] = "gone"]
  /\ attached' = Less(att[p])
  /\ att' = [att EXCEPT ![p] = {}]
  /\ UNCHANGED <<next, listed, names, size, fds, removed, closes, openFiles, memory, window>>

(* detachAll, after the descriptors. *)
DetachAll(p) ==
  /\ pc[p] = "freed" /\ \A f \in Files : p \notin holders[f]
  /\ pc' = [pc EXCEPT ![p] = "gone"]
  /\ attached' = Less(att[p])
  /\ MaybeFree(SegsOf(att[p]), attached', fds, removed)
  /\ att' = [att EXCEPT ![p] = {}]
  /\ UNCHANGED <<next, names, fds, removed, openFiles, memory, window>>

(* Kernel.Close, when every process has ended. *)
CloseAll ==
  /\ \A p \in Procs : pc[p] \in {"unborn", "gone"}
  /\ listed # {}
  /\ closes' = [s \in Segs |-> IF s \in listed /\ size[s] # 0 THEN closes[s] + 1 ELSE closes[s]]
  /\ listed' = {}
  /\ names' = [n \in Names |-> None]
  /\ UNCHANGED <<next, size, attached, fds, removed, att, openFiles, pc, memory, window>>

-----------------------------------------------------------------------------
Next ==
  \/ \E p \in Procs :
       \/ Sbrk(p) \/ Attach(p) \/ Remove(p) \/ Exit(p) \/ DetachAll(p)
       \/ \E s \in Segs, n \in Sizes : Create(p, s, n)
       \/ \E n \in Names : ShmUnlink(p, n) \/ \E s \in Segs, f \in Files : ShmOpen(p, n, s, f)
       \/ \E f \in Files : CloseFile(p, f) \/ \E n \in Sizes : Truncate(p, f, n)
       \/ \E f \in Files, n \in Sizes, addr \in Pages : Mmap(p, f, n, addr)
       \/ \E r \in blocks[p] : Munmap(p, r)
       \/ \E c \in Procs : Spawn(p, c)
  \/ CloseAll

Spec == Init /\ [][Next]_vars

-----------------------------------------------------------------------------
(* Properties. *)

InUse(s) == \/ \E f \in Files : holders[f] # {} /\ fileSeg[f] = s
            \/ \E p \in Procs : \E a \in att[p] : a.s = s
Ended == \A p \in Procs : pc[p] \in {"unborn", "gone"}

(* "It is freed once it has been removed (or unlinked) and nothing maps it  *)
(* or holds a descriptor for it": not earlier, not twice, and in every      *)
(* order of unlink, munmap, close and exit, also not never.                 *)
FreedOnceUnused ==
  \A s \in 1..(next - 1) :
    /\ s \notin listed => Ended \/ (removed[s] /\ ~InUse(s))
    /\ (removed[s] /\ ~InUse(s)) => s \notin listed
    /\ closes[s] <= 1

(* What a page shows has not been freed, and is counted: an attachment of   *)
(* the process covers the page.                                             *)
ShownIsAttached ==
  \A p \in Procs : \A i \in Pages :
    view[p][i] # None => /\ view[p][i] \in listed
                         /\ \E a \in att[p] : i \in Cells(a) /\ a.s = view[p][i]

InBlock(p, i) == \E b \in blocks[p] : i \in Cells(b)

(* The heap is the process's own: a page that malloc may hand out is        *)
(* private memory, and only blocks that mmap has taken show a segment.      *)
HeapIsPrivate ==
  \A p \in Procs : \A i \in heap[p] : ~InBlock(p, i) => view[p][i] = None
=============================================================================
