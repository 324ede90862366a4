----------------------------- MODULE ShmProofs -----------------------------
(***************************************************************************)
(* The heap of a process and what is mapped over it (Shm.tla), for any     *)
(* number of processes, segments and objects, any sizes and any layout.    *)
(***************************************************************************)
EXTENDS Shm, FiniteSetTheorems, TLAPS

(* The part of the type invariant that the argument needs. *)
MemoryType ==
  /\ size \in [Segs -> Nat]
  /\ committed \in [Procs -> Nat] /\ mappedEnd \in [Procs -> Nat]
  /\ heap \in [Procs -> SUBSET Pages]
  /\ view \in [Procs -> [Pages -> Segs \cup {None}]]
  /\ blocks \in [Procs -> SUBSET [addr : Pages, len : Nat]]
  /\ fileSeg \in [Files -> Segs \cup {None}]
  /\ hook \in [Procs -> Segs \cup {None}] /\ used \in [Procs -> Segs \cup {None}]

(* What malloc has got lies in the committed part of the memory and outside *)
(* the window of the main segment: the window is reserved while the heap is *)
(* below it, and the heap goes on above it.  Nothing is shown where there   *)
(* is no memory yet, so that what malloc gets next is private.              *)
WindowApart ==
  \A p \in Procs :
    /\ mappedEnd[p] <= committed[p]
    /\ \A i \in heap[p] : i < committed[p] /\ (i < Base \/ mappedEnd[p] <= i)
    /\ \A i \in Pages : committed[p] <= i => view[p][i] = None

HeapInv == MemoryType /\ WindowApart /\ HeapIsPrivate

-----------------------------------------------------------------------------
LEMMA Constants == Base \in Nat /\ NPages \in Nat /\ PageSize \in Nat \ {0} /\ None \notin Segs
BY ShmAssumption DEF Segs, None

LEMMA SegsAreNat == NSegs \in Nat /\ \A s \in Segs : s \in Nat /\ 1 <= s /\ s <= NSegs
BY ShmAssumption DEF Segs

LEMMA QuotientIsNat == ASSUME NEW a \in Nat, NEW b \in Nat \ {0} PROVE a \div b \in Nat
OBVIOUS

LEMMA PagesAreNat == \A n \in Sizes : PagesOf(n) \in Nat
<1>1. TAKE n \in Sizes
<1>2. n \in 1..(Word - 1) /\ Word \in Nat
  BY <1>1, ShmAssumption
<1>3. n + PageSize - 1 \in Nat
  BY <1>2, Constants
<1> QED
  BY <1>3, Constants, QuotientIsNat DEF PagesOf

(* What the pages show after a mapping, or after it is undone. *)
LEMMA ShownPages ==
  ASSUME MemoryType, NEW p \in Procs, NEW addr, NEW length, NEW what \in Segs \cup {None}
  PROVE  LET v == Shown(p, addr, length, what) IN
         /\ v \in [Procs -> [Pages -> Segs \cup {None}]]
         /\ \A q \in Procs : q # p => v[q] = view[q]
         /\ \A i \in Pages : v[p][i] = IF i \in addr..(addr + length - 1) THEN what ELSE view[p][i]
BY DEF MemoryType, Shown

(* maybeFree only takes the size of a segment away. *)
LEMMA FreeKeepsSizes ==
  ASSUME MemoryType, NEW S, NEW a, NEW o, NEW r, MaybeFree(S, a, o, r)
  PROVE  size' \in [Segs -> Nat]
BY DEF MemoryType, MaybeFree

(* A step that changes no memory keeps the heap as it is. *)
LEMMA MemoryUntouched ==
  ASSUME HeapInv, UNCHANGED <<memory, mappedEnd>>
  PROVE  WindowApart' /\ HeapIsPrivate'
BY DEF HeapInv, WindowApart, HeapIsPrivate, InBlock, Cells, memory

LEMMA LengthIsNat == \A n \in Sizes : Unsigned(n + PageSize - 1) \div PageSize \in Nat
<1>1. TAKE n \in Sizes
<1>2. n \in 1..(Word - 1) /\ Word \in Nat \ {0}
  BY <1>1, ShmAssumption
<1>3. Unsigned(n + PageSize - 1) \in Nat
  BY <1>2, Constants DEF Unsigned
<1> QED
  BY <1>3, Constants, QuotientIsNat

-----------------------------------------------------------------------------
LEMMA HeapInit == Init => HeapInv
BY ShmAssumption DEF Init, HeapInv, MemoryType, WindowApart, HeapIsPrivate, Segs, Pages, None

(* malloc's next page lies above the window and shows nothing yet. *)
LEMMA SbrkStep == ASSUME HeapInv, NEW p \in Procs, Sbrk(p) PROVE HeapInv'
<1> USE Constants DEF HeapInv
<1>1. committed[p] \in Pages
  BY DEF Sbrk, MemoryType, Pages
<1>2. MemoryType'
  BY <1>1 DEF Sbrk, MemoryType, table, window, openFiles
<1>3. WindowApart'
  BY <1>1 DEF Sbrk, MemoryType, WindowApart, window, Pages
<1>4. HeapIsPrivate'
  BY <1>1 DEF Sbrk, MemoryType, WindowApart, HeapIsPrivate, InBlock, Pages
<1> QED
  BY <1>2, <1>3, <1>4

(* map_segment takes the window below which the heap has stayed, or shows   *)
(* the segment in the window that it has already.                           *)
LEMMA AttachStep == ASSUME HeapInv, NEW p \in Procs, Attach(p) PROVE HeapInv'
<1> USE Constants DEF HeapInv
<1> DEFINE s == IF p = Postmaster THEN hook[p] ELSE used[p]
           end == Base + size[s]
<1>1. /\ s \in Segs /\ WindowFree(p, end) /\ MapLocked(p, s, Base, size[s])
      /\ committed' = [committed EXCEPT ![p] = IF @ > Base THEN @ ELSE end]
      /\ mappedEnd' = [mappedEnd EXCEPT ![p] = IF end > @ THEN end ELSE @]
      /\ used' = [used EXCEPT ![p] = s]
      /\ UNCHANGED <<openFiles, heap, blocks, hook>>
  BY DEF Attach, ShmAttach, MemoryType
<1>2. size[s] \in Nat /\ end \in Nat /\ Base <= end /\ end = Base + size[s]
  BY <1>1 DEF MemoryType
<1>3. size' \in [Segs -> Nat]
  BY <1>1, FreeKeepsSizes DEF MapLocked
<1>4. /\ view' \in [Procs -> [Pages -> Segs \cup {None}]]
      /\ \A q \in Procs : q # p => view'[q] = view[q]
      /\ \A i \in Pages : ~(Base <= i /\ i < end) => view'[p][i] = view[p][i]
  <2>1. view' = Shown(p, Base, size[s], s)
    BY <1>1 DEF MapLocked
  <2>2. \A i \in Pages : i \in Base..(Base + size[s] - 1) => Base <= i /\ i < end
    BY <1>2 DEF Pages
  <2> HIDE DEF s, end
  <2> QED
    BY <1>1, <2>1, <2>2, ShownPages
<1> HIDE DEF s, end
<1>5. MemoryType'
  BY <1>1, <1>2, <1>3, <1>4 DEF MemoryType, openFiles
<1>6. /\ end <= committed'[p] /\ committed[p] <= committed'[p]
      /\ mappedEnd'[p] <= committed'[p]
      /\ \A i \in heap[p] : i < Base \/ (end <= i /\ mappedEnd'[p] <= i)
  <2>1. CASE committed[p] > Base
    <3>1. end <= mappedEnd[p] /\ mappedEnd'[p] = mappedEnd[p] /\ committed'[p] = committed[p]
      BY <1>1, <1>2, <2>1 DEF WindowFree, MemoryType
    <3> QED
      BY <1>2, <3>1 DEF WindowApart, MemoryType, Pages
  <2>2. CASE ~(committed[p] > Base)
    <3>0. /\ committed[p] \in Nat /\ mappedEnd[p] \in Nat
          /\ mappedEnd[p] <= committed[p] /\ committed[p] <= Base
      BY <2>2 DEF WindowApart, MemoryType
    <3>1. committed'[p] = end /\ mappedEnd'[p] = IF end > mappedEnd[p] THEN end ELSE mappedEnd[p]
      BY <1>1, <2>2 DEF MemoryType
    <3>2. mappedEnd'[p] = end
      BY <1>2, <3>0, <3>1
    <3> QED
      BY <1>2, <3>0, <3>1, <3>2 DEF WindowApart, MemoryType, Pages
  <2> QED
    BY <2>1, <2>2
<1>7. \A q \in Procs : q # p => committed'[q] = committed[q] /\ mappedEnd'[q] = mappedEnd[q]
  BY <1>1 DEF MemoryType
<1>8. WindowApart'
  <2> SUFFICES ASSUME NEW q \in Procs
               PROVE  /\ mappedEnd'[q] <= committed'[q]
                      /\ \A i \in heap[q] : i < committed'[q] /\ (i < Base \/ mappedEnd'[q] <= i)
                      /\ \A i \in Pages : committed'[q] <= i => view'[q][i] = None
    BY <1>1 DEF WindowApart
  <2>1. CASE q # p
    BY <1>4, <1>7, <2>1 DEF WindowApart
  <2>2. CASE q = p
    <3>1. committed[p] \in Nat /\ committed'[p] \in Nat
      BY <1>5 DEF MemoryType
    <3>2. \A i \in heap[p] : i \in Nat /\ i < committed'[p]
      BY <1>6, <3>1 DEF WindowApart, MemoryType, Pages
    <3>3. ASSUME NEW i \in Pages, committed'[p] <= i PROVE view'[p][i] = None
      <4>1. i \in Nat /\ committed[p] <= i /\ ~(i < end)
        BY <1>2, <1>6, <3>1, <3>3 DEF Pages
      <4> QED
        BY <1>4, <4>1 DEF WindowApart
    <3> QED
      BY <1>6, <2>2, <3>2, <3>3
  <2> QED
    BY <2>1, <2>2
<1>9. HeapIsPrivate'
  <2> SUFFICES ASSUME NEW q \in Procs, NEW i \in heap[q], ~InBlock(q, i)
               PROVE  view'[q][i] = None
    BY <1>1 DEF HeapIsPrivate, InBlock
  <2>1. view[q][i] = None /\ i \in Pages
    BY DEF HeapIsPrivate, MemoryType
  <2>2. CASE q # p
    BY <1>4, <2>1, <2>2
  <2>3. CASE q = p
    BY <1>2, <1>4, <1>6, <2>1, <2>3, SMTT(30) DEF Pages
  <2> QED
    BY <2>2, <2>3
<1> QED
  BY <1>5, <1>8, <1>9

(* mmap shows the object in a block of the heap, which malloc then has not. *)
LEMMA MmapStep ==
  ASSUME HeapInv, NEW p \in Procs, NEW f \in Files, NEW n \in Sizes, NEW addr \in Pages,
         Mmap(p, f, n, addr)
  PROVE  HeapInv'
<1> USE Constants DEF HeapInv
<1> DEFINE length == Unsigned(n + PageSize - 1) \div PageSize
           r == [addr |-> addr, len |-> length]
<1>1. /\ length \in Nat /\ addr + length <= committed[p]
      /\ Cells(r) = addr..(addr + length - 1)
      /\ MapLocked(p, fileSeg[f], addr, length)
      /\ blocks' = [blocks EXCEPT ![p] = @ \cup {r}]
      /\ UNCHANGED <<openFiles, committed, heap, window>>
  BY LengthIsNat DEF Mmap, MapFd, CanMap, Cells
<1>2. size' \in [Segs -> Nat]
  BY <1>1, FreeKeepsSizes DEF MapLocked
<1>3. fileSeg[f] \in Segs \cup {None}
  BY DEF MemoryType
<1>4. /\ view' \in [Procs -> [Pages -> Segs \cup {None}]]
      /\ \A q \in Procs : q # p => view'[q] = view[q]
      /\ \A i \in Pages : i \notin Cells(r) => view'[p][i] = view[p][i]
  <2>1. view' = Shown(p, addr, length, fileSeg[f])
    BY <1>1 DEF MapLocked
  <2> HIDE DEF length, r
  <2> QED
    BY <1>1, <1>3, <2>1, ShownPages
<1>5. r \in [addr : Pages, len : Nat]
  BY <1>1
<1>6. \A i \in Cells(r) : i < committed[p]
  <2> HIDE DEF length, r
  <2> QED
    BY <1>1 DEF MemoryType, Pages
<1> HIDE DEF length, r
<1>7. MemoryType'
  BY <1>1, <1>2, <1>4, <1>5 DEF MemoryType, openFiles, window
<1>8. WindowApart'
  <2>1. ASSUME NEW q \in Procs, NEW i \in Pages, committed[q] <= i PROVE view'[q][i] = None
    <3>1. q = p => i \notin Cells(r)
      BY <1>6, <2>1 DEF MemoryType, Pages
    <3> QED
      BY <1>4, <2>1, <3>1 DEF WindowApart
  <2> QED
    BY <1>1, <2>1 DEF WindowApart, window
<1>9. HeapIsPrivate'
  <2> SUFFICES ASSUME NEW q \in Procs, NEW i \in heap[q], ~InBlock(q, i)'
               PROVE  view'[q][i] = None
    BY <1>1 DEF HeapIsPrivate
  <2>1. i \in Pages /\ ~InBlock(q, i)
    BY <1>1 DEF InBlock, MemoryType
  <2>2. q = p => i \notin Cells(r)
    BY <1>1 DEF InBlock, MemoryType
  <2> QED
    BY <1>4, <2>1, <2>2 DEF HeapIsPrivate
<1> QED
  BY <1>7, <1>8, <1>9

(* munmap makes the pages of the block private before free gets them. *)
LEMMA MunmapStep ==
  ASSUME HeapInv, NEW p \in Procs, NEW r \in blocks[p], Munmap(p, r)
  PROVE  HeapInv'
<1> USE Constants DEF HeapInv
<1>1. /\ ShmUnmap(p, r) /\ blocks' = [blocks EXCEPT ![p] = @ \ {r}]
      /\ UNCHANGED <<openFiles, committed, heap, window>>
  BY DEF Munmap
<1>2. size' \in [Segs -> Nat]
  BY <1>1, FreeKeepsSizes DEF ShmUnmap
<1>3. /\ view' \in [Procs -> [Pages -> Segs \cup {None}]]
      /\ \A q \in Procs : q # p => view'[q] = view[q]
      /\ \A i \in Pages : view'[p][i] = IF i \in Cells(r) THEN None ELSE view[p][i]
  BY <1>1, ShownPages DEF ShmUnmap, Unmapped, Cells
<1>4. MemoryType'
  BY <1>1, <1>2, <1>3 DEF MemoryType, openFiles, window
<1>5. WindowApart'
  BY <1>1, <1>3, ZenonT(30) DEF MemoryType, WindowApart, window
<1>6. HeapIsPrivate'
  <2> SUFFICES ASSUME NEW q \in Procs, NEW i \in heap[q], ~InBlock(q, i)'
               PROVE  view'[q][i] = None
    BY <1>1 DEF HeapIsPrivate
  <2>1. i \in Pages
    BY DEF MemoryType
  <2>2. CASE q = p /\ i \in Cells(r)
    BY <1>3, <2>1, <2>2
  <2>3. CASE ~(q = p /\ i \in Cells(r))
    <3>1. ~InBlock(q, i)
      BY <1>1, <2>3 DEF InBlock, MemoryType
    <3> QED
      BY <1>3, <2>1, <2>3, <3>1 DEF HeapIsPrivate
  <2> QED
    BY <2>2, <2>3
<1> QED
  BY <1>4, <1>5, <1>6

(* A process that has ended has no heap and shows nothing. *)
LEMMA ExitStep == ASSUME HeapInv, NEW p \in Procs, Exit(p) PROVE HeapInv'
<1> USE Constants DEF HeapInv
<1>1. /\ view' \in [Procs -> [Pages -> Segs \cup {None}]]
      /\ \A q \in Procs : q # p => view'[q] = view[q]
      /\ \A i \in Pages : view'[p][i] = None
  <2>1. \A i \in Pages : i \in 0..(0 + NPages - 1)
    BY DEF Pages
  <2> QED
    BY <2>1, ShownPages DEF Exit
<1>2. MemoryType'
  BY <1>1 DEF Exit, MemoryType, table, openFiles
<1>3. WindowApart'
  BY <1>1 DEF Exit, MemoryType, WindowApart
<1>4. HeapIsPrivate'
  BY <1>1 DEF Exit, MemoryType, HeapIsPrivate, InBlock
<1> QED
  BY <1>2, <1>3, <1>4

(* What is left changes the table, the descriptors or the processes. *)
LEMMA TableStep ==
  ASSUME HeapInv, NEW p \in Procs,
         \/ Remove(p) \/ DetachAll(p)
         \/ \E s \in Segs, n \in Sizes : Create(p, s, n)
         \/ \E n \in Names : ShmUnlink(p, n) \/ \E s \in Segs, f \in Files : ShmOpen(p, n, s, f)
         \/ \E f \in Files : CloseFile(p, f) \/ \E n \in Sizes : Truncate(p, f, n)
         \/ \E c \in Procs : Spawn(p, c)
  PROVE  HeapInv'
<1> USE DEF HeapInv
<1>1. ASSUME Remove(p) PROVE MemoryType' /\ UNCHANGED <<memory, mappedEnd>>
  <2>1. size' \in [Segs -> Nat]
    BY <1>1, FreeKeepsSizes DEF Remove
  <2> QED
    BY <1>1, <2>1 DEF Remove, MemoryType, memory, openFiles
<1>2. ASSUME DetachAll(p) PROVE MemoryType' /\ UNCHANGED <<memory, mappedEnd>>
  <2>1. size' \in [Segs -> Nat]
    BY <1>2, FreeKeepsSizes DEF DetachAll
  <2> QED
    BY <1>2, <2>1 DEF DetachAll, MemoryType, memory, openFiles, window
<1>3. ASSUME NEW s \in Segs, NEW n \in Sizes, Create(p, s, n)
      PROVE  MemoryType' /\ UNCHANGED <<memory, mappedEnd>>
  BY <1>3, PagesAreNat DEF Create, ShmCreate, MemoryType, memory, openFiles
<1>4. ASSUME NEW n \in Names, ShmUnlink(p, n) PROVE MemoryType' /\ UNCHANGED <<memory, mappedEnd>>
  <2>1. size' \in [Segs -> Nat]
    BY <1>4, FreeKeepsSizes DEF ShmUnlink
  <2> QED
    BY <1>4, <2>1 DEF ShmUnlink, MemoryType, memory, openFiles, window
<1>5. ASSUME NEW n \in Names, NEW s \in Segs, NEW f \in Files, ShmOpen(p, n, s, f)
      PROVE  MemoryType' /\ UNCHANGED <<memory, mappedEnd>>
  BY <1>5 DEF ShmOpen, MemoryType, memory, window
<1>6. ASSUME NEW f \in Files, CloseFile(p, f) PROVE MemoryType' /\ UNCHANGED <<memory, mappedEnd>>
  <2>1. size' \in [Segs -> Nat]
    BY <1>6, FreeKeepsSizes DEF CloseFile, MemoryType
  <2> QED
    BY <1>6, <2>1 DEF CloseFile, MemoryType, memory, window
<1>7. ASSUME NEW f \in Files, NEW n \in Sizes, Truncate(p, f, n)
      PROVE  MemoryType' /\ UNCHANGED <<memory, mappedEnd>>
  BY <1>7, PagesAreNat DEF Truncate, MemoryType, memory, openFiles, window
<1>8. ASSUME NEW c \in Procs, Spawn(p, c) PROVE MemoryType' /\ UNCHANGED <<memory, mappedEnd>>
  BY <1>8 DEF Spawn, MemoryType, memory, table
<1> QED
  BY <1>1, <1>2, <1>3, <1>4, <1>5, <1>6, <1>7, <1>8, MemoryUntouched

LEMMA HeapStep == HeapInv /\ [Next]_vars => HeapInv'
<1> SUFFICES ASSUME HeapInv, [Next]_vars PROVE HeapInv'
  OBVIOUS
<1>1. ASSUME NEW p \in Procs, Sbrk(p) PROVE HeapInv'
  BY <1>1, SbrkStep
<1>2. ASSUME NEW p \in Procs, Attach(p) PROVE HeapInv'
  BY <1>2, AttachStep
<1>3. ASSUME NEW p \in Procs, NEW f \in Files, NEW n \in Sizes, NEW addr \in Pages,
             Mmap(p, f, n, addr)
      PROVE  HeapInv'
  BY <1>3, MmapStep
<1>4. ASSUME NEW p \in Procs, NEW r \in blocks[p], Munmap(p, r) PROVE HeapInv'
  BY <1>4, MunmapStep
<1>5. ASSUME NEW p \in Procs, Exit(p) PROVE HeapInv'
  BY <1>5, ExitStep
<1>6. CASE CloseAll
  BY <1>6, MemoryUntouched DEF CloseAll, HeapInv, MemoryType, memory, openFiles, window
<1>7. CASE UNCHANGED vars
  BY <1>7, MemoryUntouched DEF vars, HeapInv, MemoryType, table, memory, openFiles, window
<1> QED
  BY <1>1, <1>2, <1>3, <1>4, <1>5, <1>6, <1>7, TableStep DEF Next

(* malloc hands out private memory only, whatever mmap, munmap and the main *)
(* segment have done to the memory before: a block goes back to the heap    *)
(* after its pages were made private, and the window of map_segment never   *)
(* overlaps the heap.                                                       *)
THEOREM HeapAlwaysPrivate == Spec => []HeapIsPrivate
<1>1. HeapInv => HeapIsPrivate
  BY DEF HeapInv
<1> QED
  BY <1>1, HeapInit, HeapStep, PTL DEF Spec

-----------------------------------------------------------------------------
(* The life of segments. *)

(* The attachments of segment s in t, whose values are as those of att, and *)
(* the open files for it.                                                   *)
Uses(t, s) == {h \in Procs \X Attachments : h[2] \in t[h[1]] /\ h[2].s = s}
Opens(hs, fs, s) == {f \in Files : hs[f] # {} /\ fs[f] = s}

SegType ==
  /\ next \in 1..(NSegs + 1) /\ listed \subseteq Segs
  /\ names \in [Names -> Segs \cup {None}]
  /\ attached \in [Segs -> Int] /\ fds \in [Segs -> Int]
  /\ removed \in [Segs -> BOOLEAN] /\ closes \in [Segs -> Nat]
  /\ att \in [Procs -> SUBSET Attachments]
  /\ holders \in [Files -> SUBSET Procs]
  /\ pc \in [Procs -> {"unborn", "running", "freed", "gone"}]
  /\ committed \in [Procs -> 0..NPages]
  /\ mappedEnd \in [Procs -> 0..NPages]
  /\ blocks \in [Procs -> SUBSET Ranges]

(* The counters of a segment are exact. *)
CountInv ==
  \A s \in Segs :
    /\ IsFiniteSet(Uses(att, s)) /\ attached[s] = Cardinality(Uses(att, s))
    /\ IsFiniteSet(Opens(holders, fileSeg, s))
    /\ fds[s] = Cardinality(Opens(holders, fileSeg, s))

(* A segment that does not exist yet is blank; one that is listed has its   *)
(* memory; one that is no longer listed is unused and has none, unless the  *)
(* kernel has been closed; and one that is removed and unused is not        *)
(* listed.                                                                  *)
IsUnused(s) == removed[s] /\ attached[s] = 0 /\ fds[s] = 0
Blank(s) == size[s] = 0 /\ closes[s] = 0 /\ ~removed[s] /\ attached[s] = 0 /\ fds[s] = 0
Life(s) == /\ s >= next => Blank(s) /\ s \notin listed
           /\ s \in listed => closes[s] = 0 /\ ~IsUnused(s)
           /\ (s < next /\ s \notin listed) => Ended \/ (IsUnused(s) /\ size[s] = 0)
           /\ closes[s] <= 1
LifeInv == \A s \in Segs : Life(s)

(* A segment is known by one name, or to one exit hook, and until then it   *)
(* has not been removed; an open file has a segment.                        *)
KnownInv ==
  /\ \A n \in Names : names[n] # None => names[n] < next /\ ~removed[names[n]]
  /\ \A m, n \in Names : (m # n /\ names[n] # None) => names[m] # names[n]
  /\ \A p \in Procs : hook[p] # None =>
       hook[p] < next /\ \A n \in Names : names[n] # hook[p]
  /\ \A f \in Files : holders[f] # {} => fileSeg[f] # None

(* A page that shows a segment is covered by an attachment; only a running  *)
(* process has such pages.                                                  *)
ViewInv ==
  \A p \in Procs : \A i \in Pages :
    view[p][i] # None => /\ pc[p] = "running"
                         /\ \E a \in att[p] : i \in Cells(a) /\ a.s = view[p][i]

SegInv == SegType /\ CountInv /\ LifeInv /\ KnownInv /\ ViewInv


-----------------------------------------------------------------------------
(* Counting. *)

(* The attachments t with those of p replaced by A. *)
PutAtt(t, p, A) == [t EXCEPT ![p] = A]
At(D, s) == {a \in D : a.s = s}

LEMMA NoneLeft ==
  ASSUME NEW S, IsFiniteSet(S) PROVE Cardinality(S) \in Nat /\ (Cardinality(S) = 0 <=> S = {})
BY FS_EmptySet, FS_CardinalityType

(* A process has as many uses of a segment as attachments for it. *)
LEMMA SameCount ==
  ASSUME NEW p, NEW A, LET P == {<<p, a>> : a \in A} IN IsFiniteSet(P)
  PROVE  LET P == {<<p, a>> : a \in A} IN IsFiniteSet(A) /\ Cardinality(P) = Cardinality(A)
<1> DEFINE P == {<<p, a>> : a \in A}
<1>1. PICK k : k = [h \in P |-> h[2]]
  OBVIOUS
<1>2. k \in [P -> A] /\ \A a \in A : <<p, a>> \in P /\ k[<<p, a>>] = a
  BY <1>1
<1>3. \A g, h \in P : k[g] = k[h] => g = h
  BY <1>2
<1>4. \A a \in A : \E h \in P : k[h] = a
  BY <1>2
<1>5. k \in Bijection(P, A)
  <2> HIDE DEF P
  <2>1. QED
    BY <1>2, <1>3, <1>4 DEF Bijection, Injection, Surjection, IsInjective
<1>6. ExistsBijection(P, A)
  BY <1>5 DEF ExistsBijection
<1> HIDE DEF P
<1>7. IsFiniteSet(P)
  BY DEF P
<1>8. IsFiniteSet(A) /\ Cardinality(A) = Cardinality(P)
  BY <1>6, <1>7, FS_Bijection, Zenon
<1>9. QED
  BY <1>8 DEF P

(* Attachments that p gives up. *)
LEMMA FewerUses ==
  ASSUME NEW t \in [Procs -> SUBSET Attachments], NEW p \in Procs, NEW D \in SUBSET t[p],
         NEW u, u = PutAtt(t, p, t[p] \ D), NEW s \in Segs, IsFiniteSet(Uses(t, s))
  PROVE  /\ IsFiniteSet(Uses(u, s))
         /\ Cardinality(Uses(u, s)) = Cardinality(Uses(t, s)) - Cardinality(At(D, s))
         /\ Cardinality(At(D, s)) \in Nat
<1> DEFINE P == {<<p, a>> : a \in At(D, s)}
<1>1. \A q \in Procs : u[q] = IF q = p THEN t[q] \ D ELSE t[q]
  BY DEF PutAtt
<1>2. P \subseteq Uses(t, s)
  BY DEF Uses, At
<1>3. IsFiniteSet(P)
  BY <1>2, FS_Subset
<1>4. IsFiniteSet(At(D, s)) /\ Cardinality(P) = Cardinality(At(D, s))
  BY <1>3, SameCount
<1>5. Uses(u, s) = Uses(t, s) \ P
  <2>1. \A h \in Procs \X Attachments : h \in P <=> h[1] = p /\ h[2] \in At(D, s)
    OBVIOUS
  <2> HIDE DEF P
  <2>2. \A h \in Procs \X Attachments : h \in Uses(u, s) <=> h \in Uses(t, s) /\ h \notin P
    <3>1. TAKE h \in Procs \X Attachments
    <3>2. h[1] \in Procs /\ (h \in P <=> h[1] = p /\ h[2] \in D /\ h[2].s = s)
      BY <2>1 DEF At
    <3>3. h \in Uses(t, s) <=> h[2] \in t[h[1]] /\ h[2].s = s
      BY DEF Uses
    <3>4. h \in Uses(u, s) <=> h[2] \in u[h[1]] /\ h[2].s = s
      BY DEF Uses
    <3>5. QED
      BY <1>1, <3>2, <3>3, <3>4
  <2>3. Uses(u, s) \subseteq Procs \X Attachments /\ Uses(t, s) \subseteq Procs \X Attachments
    BY DEF Uses
  <2>4. QED
    BY <2>2, <2>3, Zenon
<1>6. Uses(t, s) \cap P = P
  BY <1>2
<1> HIDE DEF P
<1>7. IsFiniteSet(Uses(u, s)) /\ Cardinality(Uses(u, s)) = Cardinality(Uses(t, s)) - Cardinality(P)
  BY ONLY <1>5, <1>6, FS_Difference, IsFiniteSet(Uses(t, s))
<1>8. QED
  BY <1>4, <1>7, FS_CardinalityType

(* An attachment that p has not had. *)
LEMMA OneMoreUse ==
  ASSUME NEW t \in [Procs -> SUBSET Attachments], NEW p \in Procs, NEW a \in Attachments,
         a \notin t[p], NEW u, u = PutAtt(t, p, t[p] \cup {a}),
         NEW s \in Segs, IsFiniteSet(Uses(t, s))
  PROVE  /\ IsFiniteSet(Uses(u, s))
         /\ Cardinality(Uses(u, s)) = Cardinality(Uses(t, s)) + (IF a.s = s THEN 1 ELSE 0)
<1>1. \A q \in Procs : u[q] = IF q = p THEN t[q] \cup {a} ELSE t[q]
  BY DEF PutAtt
<1>2. Cardinality(Uses(t, s)) \in Nat
  BY FS_CardinalityType
<1>3. CASE a.s = s
  <2>1. PICK x \in Procs \X Attachments : x = <<p, a>>
    OBVIOUS
  <2>2. \A h \in Procs \X Attachments : h = x <=> h[1] = p /\ h[2] = a
    BY <2>1
  <2>3. \A h \in Procs \X Attachments : h \in Uses(u, s) <=> h \in Uses(t, s) \/ h = x
    <3>1. TAKE h \in Procs \X Attachments
    <3>2. h[1] \in Procs /\ (h = x <=> h[1] = p /\ h[2] = a)
      BY <2>2
    <3>3. h \in Uses(t, s) <=> h[2] \in t[h[1]] /\ h[2].s = s
      BY DEF Uses
    <3>4. h \in Uses(u, s) <=> h[2] \in u[h[1]] /\ h[2].s = s
      BY DEF Uses
    <3>5. QED
      BY <1>1, <1>3, <3>2, <3>3, <3>4
  <2>4. Uses(u, s) \subseteq Procs \X Attachments /\ Uses(t, s) \subseteq Procs \X Attachments
    BY DEF Uses
  <2>5. Uses(u, s) = Uses(t, s) \cup {x}
    BY <2>3, <2>4, Zenon
  <2>6. x \notin Uses(t, s)
    BY <2>1 DEF Uses
  <2>7. IsFiniteSet(Uses(u, s)) /\ Cardinality(Uses(u, s)) = Cardinality(Uses(t, s)) + 1
    BY ONLY <2>5, <2>6, FS_AddElement, IsFiniteSet(Uses(t, s))
  <2>8. QED
    BY <1>3, <2>7
<1>4. CASE a.s # s
  <2>1. Uses(u, s) = Uses(t, s)
    BY <1>1, <1>4 DEF Uses
  <2>2. QED
    BY <1>2, <1>4, <2>1
<1>5. QED
  BY <1>3, <1>4

(* A file that comes, and one that goes. *)
LEMMA OneMore ==
  ASSUME NEW S, NEW x, IsFiniteSet(S), x \notin S
  PROVE  IsFiniteSet(S \cup {x}) /\ Cardinality(S \cup {x}) = Cardinality(S) + 1
BY FS_AddElement

LEMMA OneLess ==
  ASSUME NEW S, NEW x, IsFiniteSet(S), x \in S
  PROVE  IsFiniteSet(S \ {x}) /\ Cardinality(S \ {x}) = Cardinality(S) - 1
BY FS_RemoveElement

-----------------------------------------------------------------------------
(* What frees a segment. *)

LEMMA NotEnded ==
  ASSUME NEW p \in Procs, pc[p] \in {"running", "freed"} PROVE ~Ended
BY DEF Ended

(* While a process lives, a segment that somebody uses is listed. *)
LEMMA UsedIsListed ==
  ASSUME SegType, CountInv, LifeInv, ~Ended, NEW s \in Segs, s < next, ~IsUnused(s)
  PROVE  s \in listed
BY DEF LifeInv, Life

(* maybeFree, after the counters or marks of some segments changed: it has  *)
(* to be called for every segment that is unused now and was not before.    *)
LEMMA FreeStep ==
  ASSUME SegType, MemoryType, LifeInv, ~Ended, UNCHANGED next,
         NEW S, NEW A, NEW O, NEW R, MaybeFree(S, A, O, R),
         \A s \in Segs : /\ Unused(s, A, O, R) => IsUnused(s)'
                         /\ IsUnused(s) => IsUnused(s)'
                         /\ IsUnused(s)' => IsUnused(s) \/ (s \in S /\ Unused(s, A, O, R))
                         /\ s >= next => ~removed'[s] /\ attached'[s] = 0 /\ fds'[s] = 0
  PROVE  LifeInv' /\ listed' \subseteq Segs /\ closes' \in [Segs -> Nat]
<1> DEFINE F == {s \in S : Unused(s, A, O, R)}
<1>1. /\ listed' = listed \ F
      /\ closes' = [s \in Segs |-> IF s \in F /\ size[s] # 0 THEN closes[s] + 1 ELSE closes[s]]
      /\ size' = [s \in Segs |-> IF s \in F THEN 0 ELSE size[s]]
  BY DEF MaybeFree
<1> HIDE DEF F
<1>2. ASSUME NEW s \in Segs PROVE Life(s)'
  <2>1. Life(s) /\ next \in Nat /\ s \in Nat /\ closes[s] \in Int
    BY ShmAssumption DEF LifeInv, SegType, Segs
  <2>2. /\ s \in F <=> s \in S /\ Unused(s, A, O, R)
        /\ s \in F => IsUnused(s)'
        /\ IsUnused(s) => IsUnused(s)'
        /\ IsUnused(s)' => IsUnused(s) \/ s \in F
        /\ s >= next => ~removed'[s] /\ attached'[s] = 0 /\ fds'[s] = 0
    BY DEF F
  <2>3. /\ s \in listed' <=> s \in listed /\ s \notin F
        /\ closes'[s] = IF s \in F /\ size[s] # 0 THEN closes[s] + 1 ELSE closes[s]
        /\ size'[s] = IF s \in F THEN 0 ELSE size[s]
    BY <1>1
  <2>4. s \in F => s < next
    BY <2>1, <2>2 DEF IsUnused
  <2>5. s >= next' => Blank(s)' /\ s \notin listed'
    BY <2>1, <2>2, <2>3, <2>4 DEF Life, Blank
  <2>6. s \in listed' => closes'[s] = 0 /\ ~IsUnused(s)'
    BY <2>1, <2>2, <2>3 DEF Life
  <2>7. (s < next' /\ s \notin listed') => IsUnused(s)' /\ size'[s] = 0
    BY <2>1, <2>2, <2>3 DEF Life
  <2>8. closes'[s] <= 1
    BY <2>1, <2>3, <2>4 DEF Life
  <2>9. QED
    BY <2>5, <2>6, <2>7, <2>8 DEF Life
<1>3. listed' \subseteq Segs /\ closes' \in [Segs -> Nat]
  BY <1>1 DEF SegType
<1>4. QED
  BY <1>2, <1>3 DEF LifeInv

(* A step that leaves the table alone. *)
LEMMA TableSame ==
  ASSUME LifeInv, ~Ended, UNCHANGED <<next, listed, size, attached, fds, removed, closes>>
  PROVE  LifeInv'
BY DEF LifeInv, Life, Blank, IsUnused

(* A new segment is used, or waits to be, and has not been removed. *)
LEMMA NewStep ==
  ASSUME SegType, LifeInv, ~Ended, NEW s \in Segs, s = next, NewSegment(s),
         UNCHANGED <<attached, removed, closes>>,
         \A t \in Segs : t # s => size'[t] = size[t] /\ fds'[t] = fds[t]
  PROVE  LifeInv'
<1>1. ASSUME NEW t \in Segs PROVE Life(t)'
  <2>1. Life(t) /\ Life(s) /\ next \in Nat /\ t \in Nat
    <3>1. Life(t) /\ Life(s)
      BY DEF LifeInv
    <3>2. QED
      BY <3>1 DEF SegType, Segs
  <2>2. next' = next + 1 /\ listed' = listed \cup {s}
    BY DEF NewSegment
  <2>3. CASE t = s
    BY <2>1, <2>2, <2>3 DEF Life, Blank, IsUnused
  <2>4. CASE t # s
    BY <2>1, <2>2, <2>4 DEF Life, Blank, IsUnused
  <2>5. QED
    BY <2>3, <2>4
<1>2. QED
  BY <1>1 DEF LifeInv

(* The counters when p gives up the attachments D. *)
LEMMA LessCounts ==
  ASSUME SegType, CountInv, NEW p \in Procs, NEW D \in SUBSET att[p],
         NEW u, u = PutAtt(att, p, att[p] \ D)
  PROVE  /\ Less(D) \in [Segs -> Int]
         /\ \A s \in Segs : /\ IsFiniteSet(Uses(u, s)) /\ Less(D)[s] = Cardinality(Uses(u, s))
                            /\ Less(D)[s] >= 0 /\ Less(D)[s] <= attached[s]
                            /\ s \notin SegsOf(D) => Less(D)[s] = attached[s]
<1>1. ASSUME NEW s \in Segs
      PROVE  /\ Less(D)[s] \in Int
             /\ IsFiniteSet(Uses(u, s)) /\ Less(D)[s] = Cardinality(Uses(u, s))
             /\ Less(D)[s] >= 0 /\ Less(D)[s] <= attached[s]
             /\ s \notin SegsOf(D) => Less(D)[s] = attached[s]
  <2>1. Less(D)[s] = attached[s] - Cardinality(At(D, s))
    BY DEF Less, At
  <2>2. IsFiniteSet(Uses(att, s)) /\ attached[s] = Cardinality(Uses(att, s))
    BY DEF CountInv
  <2>3. /\ IsFiniteSet(Uses(u, s))
        /\ Cardinality(Uses(u, s)) = Cardinality(Uses(att, s)) - Cardinality(At(D, s))
        /\ Cardinality(At(D, s)) \in Nat
    <3>1. att \in [Procs -> SUBSET Attachments]
      BY DEF SegType
    <3>2. QED
      BY ONLY <2>2, <3>1, FewerUses, p \in Procs, D \in SUBSET att[p],
              u = PutAtt(att, p, att[p] \ D), s \in Segs
  <2>4. Cardinality(Uses(u, s)) \in Nat /\ Cardinality(Uses(att, s)) \in Nat
    BY <2>2, <2>3, FS_CardinalityType
  <2>5. s \notin SegsOf(D) => Cardinality(At(D, s)) = 0
    <3>1. s \notin SegsOf(D) => At(D, s) = {}
      BY DEF SegsOf, At
    <3>2. QED
      BY <3>1, FS_EmptySet
  <2>6. QED
    BY ONLY <2>1, <2>2, <2>3, <2>4, <2>5
<1>2. Less(D) \in [Segs -> Int]
  BY <1>1 DEF Less
<1>3. QED
  BY <1>1, <1>2


(* munmap and detachAll: the attachments D go. *)
LEMMA GiveUp ==
  ASSUME SegType, MemoryType, CountInv, LifeInv, ~Ended,
         NEW p \in Procs, NEW D \in SUBSET att[p],
         MaybeFree(SegsOf(D), Less(D), fds, removed), attached' = Less(D),
         att' = PutAtt(att, p, att[p] \ D), UNCHANGED <<next, fds, removed, openFiles>>
  PROVE  /\ CountInv' /\ LifeInv' /\ listed' \subseteq Segs /\ closes' \in [Segs -> Nat]
         /\ attached' \in [Segs -> Int] /\ att' \in [Procs -> SUBSET Attachments]
<1>1. /\ Less(D) \in [Segs -> Int]
      /\ \A s \in Segs : /\ IsFiniteSet(Uses(att', s)) /\ Less(D)[s] = Cardinality(Uses(att', s))
                         /\ Less(D)[s] >= 0 /\ Less(D)[s] <= attached[s]
                         /\ s \notin SegsOf(D) => Less(D)[s] = attached[s]
  BY LessCounts
<1>2. CountInv'
  BY <1>1 DEF CountInv, openFiles
<1>3. ASSUME NEW s \in Segs
      PROVE  /\ Unused(s, Less(D), fds, removed) => IsUnused(s)'
             /\ IsUnused(s) => IsUnused(s)'
             /\ IsUnused(s)' => IsUnused(s) \/ (s \in SegsOf(D) /\ Unused(s, Less(D), fds, removed))
             /\ s >= next => ~removed'[s] /\ attached'[s] = 0 /\ fds'[s] = 0
  <2>1. /\ Less(D)[s] >= 0 /\ Less(D)[s] <= attached[s] /\ attached'[s] = Less(D)[s]
        /\ Less(D)[s] \in Int /\ attached[s] \in Int
        /\ s \notin SegsOf(D) => Less(D)[s] = attached[s]
    BY <1>1 DEF SegType
  <2>2. s >= next => ~removed[s] /\ attached[s] = 0 /\ fds[s] = 0
    BY DEF LifeInv, Life, Blank
  <2>3. QED
    BY <2>1, <2>2 DEF IsUnused, Unused
<1>4. LifeInv' /\ listed' \subseteq Segs /\ closes' \in [Segs -> Nat]
  BY <1>3, FreeStep
<1>5. att' \in [Procs -> SUBSET Attachments]
  BY DEF SegType, PutAtt
<1>6. QED
  BY <1>1, <1>2, <1>4, <1>5

(* mapLocked: the attachments that the new one covers go.  The segment that *)
(* is mapped is not freed with them: it has not been removed, or it is      *)
(* mapped through an open file.                                             *)
LEMMA TakeOn ==
  ASSUME SegType, MemoryType, CountInv, LifeInv, ~Ended,
         NEW p \in Procs, NEW s \in Segs, NEW addr \in Pages, NEW length \in 1..NPages,
         s < next, ~removed[s] \/ fds[s] # 0,
         MapLocked(p, s, addr, length), UNCHANGED <<next, fds, removed, openFiles>>
  PROVE  /\ CountInv' /\ LifeInv' /\ listed' \subseteq Segs /\ closes' \in [Segs -> Nat]
         /\ attached' \in [Segs -> Int] /\ att' \in [Procs -> SUBSET Attachments]
<1> DEFINE D == Dropped(p, addr, length)
<1>1. PICK a \in Attachments : a = [addr |-> addr, len |-> length, s |-> s]
  BY DEF Attachments
<1>2. /\ MaybeFree(SegsOf(D), Less(D), fds, removed)
      /\ attached' = [Less(D) EXCEPT ![s] = @ + 1]
      /\ att' = [att EXCEPT ![p] = (att[p] \ D) \cup {a}]
  BY <1>1 DEF MapLocked
<1>3. D \in SUBSET att[p] /\ att \in [Procs -> SUBSET Attachments]
  BY DEF Dropped, SegType
<1>4. a \notin att[p] \ D
  <2>1. length \in Nat /\ addr \in Nat
    BY Constants DEF Pages
  <2>2. Within(a, addr, length)
    BY <1>1, <2>1 DEF Within
  <2>3. QED
    BY <2>2 DEF Dropped
<1> HIDE DEF D
<1>5. PICK u : u = PutAtt(att, p, att[p] \ D)
  OBVIOUS
<1>6. /\ u \in [Procs -> SUBSET Attachments] /\ a \notin u[p]
      /\ att' = PutAtt(u, p, u[p] \cup {a})
  BY <1>2, <1>3, <1>4, <1>5 DEF PutAtt
<1>7. /\ Less(D) \in [Segs -> Int]
      /\ \A t \in Segs : /\ IsFiniteSet(Uses(u, t)) /\ Less(D)[t] = Cardinality(Uses(u, t))
                         /\ Less(D)[t] >= 0 /\ Less(D)[t] <= attached[t]
                         /\ t \notin SegsOf(D) => Less(D)[t] = attached[t]
  BY <1>3, <1>5, LessCounts
<1>8. \A t \in Segs : attached'[t] = Less(D)[t] + (IF s = t THEN 1 ELSE 0)
  BY <1>2, <1>7
<1>9. ASSUME NEW t \in Segs
      PROVE  IsFiniteSet(Uses(att', t)) /\ attached'[t] = Cardinality(Uses(att', t))
  <2>1. /\ IsFiniteSet(Uses(att', t))
        /\ Cardinality(Uses(att', t)) = Cardinality(Uses(u, t)) + (IF a.s = t THEN 1 ELSE 0)
    BY <1>6, <1>7, OneMoreUse
  <2>2. a.s = s
    BY <1>1
  <2>3. QED
    BY <1>7, <1>8, <2>1, <2>2
<1>10. CountInv'
  BY <1>9 DEF CountInv, openFiles
<1>11. ASSUME NEW t \in Segs
       PROVE  /\ Unused(t, Less(D), fds, removed) => IsUnused(t)'
              /\ IsUnused(t) => IsUnused(t)'
              /\ IsUnused(t)' => IsUnused(t) \/ (t \in SegsOf(D) /\ Unused(t, Less(D), fds, removed))
              /\ t >= next => ~removed'[t] /\ attached'[t] = 0 /\ fds'[t] = 0
  <2>1. /\ Less(D)[t] >= 0 /\ Less(D)[t] <= attached[t]
        /\ attached'[t] = Less(D)[t] + (IF s = t THEN 1 ELSE 0)
        /\ Less(D)[t] \in Int /\ attached[t] \in Int /\ next \in Nat /\ t \in Nat
        /\ t \notin SegsOf(D) => Less(D)[t] = attached[t]
    <3>1. next \in Nat /\ t \in Nat
      BY SegsAreNat DEF SegType
    <3>2. QED
      BY <1>7, <1>8, <3>1 DEF SegType
  <2>2. t >= next => ~removed[t] /\ attached[t] = 0 /\ fds[t] = 0
    BY DEF LifeInv, Life, Blank
  <2>3. CASE t = s
    BY <2>1, <2>3 DEF IsUnused, Unused
  <2>4. CASE t # s
    BY <2>1, <2>2, <2>4 DEF IsUnused, Unused
  <2>5. QED
    BY <2>3, <2>4
<1>12. LifeInv' /\ listed' \subseteq Segs /\ closes' \in [Segs -> Nat]
  BY <1>2, <1>11, FreeStep
<1>13. attached' \in [Segs -> Int]
  BY <1>2, <1>7
<1>14. att' \in [Procs -> SUBSET Attachments]
  BY <1>6 DEF PutAtt
<1>15. QED
  BY <1>10, <1>12, <1>13, <1>14

(* What a memory shows when a range is mapped, or unmapped: an attachment   *)
(* is given up only with all its pages.                                     *)
LEMMA ViewStep ==
  ASSUME SegType, MemoryType, ViewInv, NEW p \in Procs, NEW addr \in Nat, NEW length \in Nat,
         NEW what \in Segs \cup {None}, view' = Shown(p, addr, length, what),
         pc[p] = "running", UNCHANGED pc,
         \A q \in Procs : q # p => att'[q] = att[q],
         att[p] \ Dropped(p, addr, length) \subseteq att'[p],
         what # None => [addr |-> addr, len |-> length, s |-> what] \in att'[p]
  PROVE  ViewInv'
<1>1. SUFFICES ASSUME NEW q \in Procs, NEW i \in Pages, view'[q][i] # None
               PROVE  pc[q] = "running" /\ \E a \in att'[q] : i \in Cells(a) /\ a.s = view'[q][i]
  BY DEF ViewInv, Cells
<1>2. /\ q # p => view'[q] = view[q]
      /\ view'[p][i] = IF i \in addr..(addr + length - 1) THEN what ELSE view[p][i]
  BY ShownPages
<1>3. CASE q # p
  BY <1>1, <1>2, <1>3 DEF ViewInv
<1>4. CASE q = p /\ i \in addr..(addr + length - 1)
  <2>1. what # None /\ view'[p][i] = what
    BY <1>1, <1>2, <1>4
  <2>2. PICK a \in att'[p] : a = [addr |-> addr, len |-> length, s |-> what]
    BY <2>1
  <2>3. i \in Cells(a) /\ a.s = what
    BY <1>4, <2>2 DEF Cells
  <2>4. QED
    BY <1>4, <2>1, <2>3
<1>5. CASE q = p /\ i \notin addr..(addr + length - 1)
  <2>1. view'[p][i] = view[p][i]
    BY <1>2, <1>5
  <2>2. PICK a \in att[p] : i \in Cells(a) /\ a.s = view[p][i]
    BY <1>1, <1>5, <2>1 DEF ViewInv
  <2>3. a.addr \in Nat /\ a.len \in Nat /\ i \in Nat
    <3>1. a \in Attachments
      BY DEF SegType
    <3>2. QED
      BY <3>1, Constants DEF Attachments, Pages
  <2>4. ~Within(a, addr, length)
    BY <1>5, <2>2, <2>3 DEF Within, Cells
  <2>5. a \in att'[p]
    BY <2>4 DEF Dropped
  <2>6. QED
    BY <1>5, <2>1, <2>2, <2>5
<1>6. QED
  BY <1>3, <1>4, <1>5


-----------------------------------------------------------------------------
(* The actions. *)

LEMMA SegInit == Init => SegInv
<1> SUFFICES ASSUME Init PROVE SegInv
  OBVIOUS
<1>1. SegType
  BY Constants, ShmAssumption DEF Init, SegType, None
<1>2. \A s \in Segs : Uses(att, s) = {} /\ Opens(holders, fileSeg, s) = {}
  BY DEF Init, Uses, Opens
<1>3. CountInv
  BY <1>2, FS_EmptySet DEF CountInv, Init
<1>4. LifeInv
  BY DEF Init, LifeInv, Life, Blank, IsUnused, Segs
<1>5. KnownInv /\ ViewInv
  BY DEF Init, KnownInv, ViewInv
<1>6. QED
  BY <1>1, <1>3, <1>4, <1>5 DEF SegInv

LEMMA SegAttach ==
  ASSUME SegInv, MemoryType, NEW p \in Procs, Attach(p) PROVE SegInv'
<1> DEFINE s == IF p = Postmaster THEN hook[p] ELSE used[p]
           end == Base + size[s]
<1>0. SegType /\ CountInv /\ LifeInv /\ KnownInv /\ ViewInv
  BY DEF SegInv
<1>1. /\ s \in Segs /\ IsThere(s) /\ WindowFree(p, end) /\ MapLocked(p, s, Base, size[s])
      /\ committed' = [committed EXCEPT ![p] = IF @ > Base THEN @ ELSE end]
      /\ mappedEnd' = [mappedEnd EXCEPT ![p] = IF end > @ THEN end ELSE @]
      /\ pc[p] = "running"
      /\ UNCHANGED <<next, names, fds, removed, openFiles, pc, heap, blocks, hook>>
  BY Constants DEF Attach, ShmAttach, MemoryType, Running
<1> HIDE DEF s
<1>2. size[s] \in Nat /\ size[s] # 0 /\ ~removed[s] /\ s < next
  <2>1. s \in listed /\ size[s] # 0 /\ ~removed[s]
    BY <1>1 DEF IsThere
  <2>2. s < next
    BY <1>0, <1>1, <2>1 DEF LifeInv, Life, SegType, Segs
  <2>3. QED
    BY <1>1, <2>1, <2>2 DEF MemoryType
<1>3. end \in Nat /\ end <= NPages /\ size[s] \in 1..NPages /\ Base \in Pages
  BY <1>0, <1>1, <1>2, Constants, ShmAssumption DEF WindowFree, SegType, Pages
<1>4. /\ CountInv' /\ LifeInv' /\ listed' \subseteq Segs /\ closes' \in [Segs -> Nat]
      /\ attached' \in [Segs -> Int] /\ att' \in [Procs -> SUBSET Attachments]
  BY <1>0, <1>1, <1>2, <1>3, NotEnded, TakeOn
<1>5. committed' \in [Procs -> 0..NPages] /\ mappedEnd' \in [Procs -> 0..NPages]
  <2> HIDE DEF end
  <2>1. end \in 0..NPages
    BY <1>3, Constants
  <2>2. QED
    BY <1>0, <1>1, <2>1 DEF SegType
<1>6. SegType'
  BY <1>0, <1>1, <1>4, <1>5 DEF SegType, openFiles
<1>7. KnownInv'
  BY <1>0, <1>1 DEF KnownInv, openFiles
<1>8. ViewInv'
  <2>1. /\ view' = Shown(p, Base, size[s], s)
        /\ att' = [att EXCEPT ![p] = (@ \ Dropped(p, Base, size[s])) \cup
                                       {[addr |-> Base, len |-> size[s], s |-> s]}]
    BY <1>1 DEF MapLocked
  <2>2. /\ \A q \in Procs : q # p => att'[q] = att[q]
        /\ att[p] \ Dropped(p, Base, size[s]) \subseteq att'[p]
        /\ [addr |-> Base, len |-> size[s], s |-> s] \in att'[p]
    BY <1>0, <2>1 DEF SegType
  <2>3. QED
    BY <1>0, <1>1, <1>2, <2>1, <2>2, Constants, ViewStep
<1>9. QED
  BY <1>4, <1>6, <1>7, <1>8 DEF SegInv

LEMMA SegMmap ==
  ASSUME SegInv, MemoryType, NEW p \in Procs, NEW f \in Files, NEW n \in Sizes,
         NEW addr \in Pages, Mmap(p, f, n, addr)
  PROVE  SegInv'
<1>0. SegType /\ CountInv /\ LifeInv /\ KnownInv /\ ViewInv
  BY DEF SegInv
<1>1. PICK length \in Nat : length = Unsigned(n + PageSize - 1) \div PageSize
  BY LengthIsNat
<1>2. /\ pc[p] = "running" /\ p \in holders[f]
      /\ CanMap(p, fileSeg[f], addr, length) /\ MapLocked(p, fileSeg[f], addr, length)
      /\ blocks' = [blocks EXCEPT ![p] = @ \cup {[addr |-> addr, len |-> length]}]
      /\ UNCHANGED <<next, names, fds, removed, openFiles, pc, committed, heap, window>>
  BY <1>1 DEF Mmap, MapFd, Running
<1>3. PICK s \in Segs : s = fileSeg[f]
  BY <1>0, <1>2 DEF KnownInv, MemoryType
<1>4. length # 0 /\ length <= size[s] /\ addr + length <= committed[p] /\ committed[p] \in 0..NPages
  BY <1>0, <1>2, <1>3 DEF CanMap, SegType
<1>5. length \in 1..NPages /\ addr \in Nat
  BY <1>4, Constants DEF Pages
<1>6. fds[s] # 0
  <2>1. f \in Opens(holders, fileSeg, s)
    BY <1>2, <1>3 DEF Opens
  <2>2. QED
    BY <1>0, <2>1, NoneLeft DEF CountInv
<1>7. s < next
  BY <1>0, <1>6 DEF LifeInv, Life, Blank, SegType, Segs
<1>8. /\ CountInv' /\ LifeInv' /\ listed' \subseteq Segs /\ closes' \in [Segs -> Nat]
      /\ attached' \in [Segs -> Int] /\ att' \in [Procs -> SUBSET Attachments]
  BY <1>0, <1>2, <1>3, <1>5, <1>6, <1>7, NotEnded, TakeOn
<1>9. blocks' \in [Procs -> SUBSET Ranges]
  BY <1>0, <1>2, <1>5 DEF SegType, Ranges
<1>10. SegType'
  BY <1>0, <1>2, <1>8, <1>9 DEF SegType, openFiles, window
<1>11. KnownInv'
  BY <1>0, <1>2 DEF KnownInv, openFiles, window
<1>12. ViewInv'
  <2>1. /\ view' = Shown(p, addr, length, s)
        /\ att' = [att EXCEPT ![p] = (@ \ Dropped(p, addr, length)) \cup
                                       {[addr |-> addr, len |-> length, s |-> s]}]
    BY <1>2, <1>3 DEF MapLocked
  <2>2. /\ \A q \in Procs : q # p => att'[q] = att[q]
        /\ att[p] \ Dropped(p, addr, length) \subseteq att'[p]
        /\ [addr |-> addr, len |-> length, s |-> s] \in att'[p]
    BY <1>0, <2>1 DEF SegType
  <2>3. QED
    BY <1>0, <1>2, <1>5, <2>1, <2>2, ViewStep
<1>13. QED
  BY <1>8, <1>10, <1>11, <1>12 DEF SegInv

LEMMA SegMunmap ==
  ASSUME SegInv, MemoryType, NEW p \in Procs, NEW r \in blocks[p], Munmap(p, r) PROVE SegInv'
<1> DEFINE D == Dropped(p, r.addr, r.len)
<1>0. SegType /\ CountInv /\ LifeInv /\ KnownInv /\ ViewInv
  BY DEF SegInv
<1>1. /\ pc[p] = "running" /\ view' = Shown(p, r.addr, r.len, None)
      /\ MaybeFree(SegsOf(D), Less(D), fds, removed) /\ attached' = Less(D)
      /\ att' = PutAtt(att, p, att[p] \ D)
      /\ blocks' = [blocks EXCEPT ![p] = @ \ {r}]
      /\ UNCHANGED <<next, names, fds, removed, openFiles, pc, committed, heap, window>>
  BY DEF Munmap, ShmUnmap, Unmapped, Running, PutAtt
<1>2. D \in SUBSET att[p]
  BY DEF Dropped
<1>3. r.addr \in Nat /\ r.len \in Nat
  BY <1>0, Constants DEF SegType, Ranges, Pages
<1>4. /\ CountInv' /\ LifeInv' /\ listed' \subseteq Segs /\ closes' \in [Segs -> Nat]
      /\ attached' \in [Segs -> Int] /\ att' \in [Procs -> SUBSET Attachments]
  <2> HIDE DEF D
  <2>1. QED
    BY <1>0, <1>1, <1>2, NotEnded, GiveUp
<1>5. SegType'
  BY <1>0, <1>1, <1>4 DEF SegType, openFiles, window
<1>6. KnownInv'
  BY <1>0, <1>1 DEF KnownInv, openFiles, window
<1>7. ViewInv'
  <2>1. /\ \A q \in Procs : q # p => att'[q] = att[q]
        /\ att[p] \ Dropped(p, r.addr, r.len) \subseteq att'[p]
    BY <1>0, <1>1 DEF SegType, PutAtt
  <2>2. QED
    BY <1>0, <1>1, <1>3, <2>1, ViewStep
<1>8. QED
  BY <1>4, <1>5, <1>6, <1>7 DEF SegInv

LEMMA SegDetachAll ==
  ASSUME SegInv, MemoryType, NEW p \in Procs, DetachAll(p) PROVE SegInv'
<1>0. SegType /\ CountInv /\ LifeInv /\ KnownInv /\ ViewInv
  BY DEF SegInv
<1>1. PICK D \in SUBSET att[p] : D = att[p]
  OBVIOUS
<1>2. /\ pc[p] = "freed" /\ pc' = [pc EXCEPT ![p] = "gone"]
      /\ MaybeFree(SegsOf(D), Less(D), fds, removed) /\ attached' = Less(D)
      /\ att' = [att EXCEPT ![p] = {}]
      /\ UNCHANGED <<next, names, fds, removed, openFiles, memory, window>>
  BY <1>1 DEF DetachAll
<1>3. att' = PutAtt(att, p, att[p] \ D)
  BY <1>1, <1>2 DEF PutAtt
<1>4. /\ CountInv' /\ LifeInv' /\ listed' \subseteq Segs /\ closes' \in [Segs -> Nat]
      /\ attached' \in [Segs -> Int] /\ att' \in [Procs -> SUBSET Attachments]
  BY <1>0, <1>2, <1>3, NotEnded, GiveUp
<1>5. SegType'
  BY <1>0, <1>2, <1>4 DEF SegType, openFiles, memory, window
<1>6. KnownInv'
  BY <1>0, <1>2 DEF KnownInv, openFiles, window
<1>7. ViewInv'
  BY <1>0, <1>2 DEF ViewInv, SegType, memory, Cells
<1>8. QED
  BY <1>4, <1>5, <1>6, <1>7 DEF SegInv


(* shmem_delete and shm_unlink mark the segment. *)
LEMMA Marked ==
  ASSUME SegType, MemoryType, CountInv, LifeInv, ~Ended, NEW s \in Segs, s < next,
         removed' = [removed EXCEPT ![s] = TRUE], MaybeFree({s}, attached, fds, removed'),
         UNCHANGED <<next, attached, fds, att, openFiles>>
  PROVE  /\ CountInv' /\ LifeInv' /\ listed' \subseteq Segs /\ closes' \in [Segs -> Nat]
         /\ removed' \in [Segs -> BOOLEAN]
<1>1. CountInv'
  BY DEF CountInv, openFiles
<1>2. ASSUME NEW t \in Segs
      PROVE  /\ Unused(t, attached, fds, removed') => IsUnused(t)'
             /\ IsUnused(t) => IsUnused(t)'
             /\ IsUnused(t)' => IsUnused(t) \/ (t \in {s} /\ Unused(t, attached, fds, removed'))
             /\ t >= next => ~removed'[t] /\ attached'[t] = 0 /\ fds'[t] = 0
  <2>1. removed'[t] = IF t = s THEN TRUE ELSE removed[t]
    BY DEF SegType
  <2>2. t >= next => ~removed[t] /\ attached[t] = 0 /\ fds[t] = 0
    BY DEF LifeInv, Life, Blank
  <2>3. t >= next => t # s
    BY DEF SegType, Segs
  <2>4. QED
    BY <2>1, <2>2, <2>3 DEF IsUnused, Unused
<1>3. LifeInv' /\ listed' \subseteq Segs /\ closes' \in [Segs -> Nat]
  BY <1>2, FreeStep
<1>4. removed' \in [Segs -> BOOLEAN]
  BY DEF SegType
<1>5. QED
  BY <1>1, <1>3, <1>4

LEMMA SegRemove ==
  ASSUME SegInv, MemoryType, NEW p \in Procs, Remove(p) PROVE SegInv'
<1>0. SegType /\ CountInv /\ LifeInv /\ KnownInv /\ ViewInv
  BY DEF SegInv
<1>1. PICK s \in Segs : s = hook[p] /\ s # None
  BY DEF Remove, MemoryType
<1>2. /\ pc[p] = "running" /\ removed' = [removed EXCEPT ![s] = TRUE]
      /\ MaybeFree({s}, attached, fds, removed')
      /\ hook' = [hook EXCEPT ![p] = None]
      /\ UNCHANGED <<next, names, attached, fds, att, openFiles, pc, memory, used, mappedEnd>>
  BY <1>1 DEF Remove, Running
<1>3. s < next /\ \A n \in Names : names[n] # s
  BY <1>0, <1>1 DEF KnownInv
<1>4. /\ CountInv' /\ LifeInv' /\ listed' \subseteq Segs /\ closes' \in [Segs -> Nat]
      /\ removed' \in [Segs -> BOOLEAN]
  BY <1>0, <1>2, <1>3, NotEnded, Marked
<1>5. SegType'
  BY <1>0, <1>2, <1>4 DEF SegType, openFiles, memory
<1>6. KnownInv'
  <2>1. \A n \in Names : names[n] # None => names[n] \in Segs
    BY <1>0 DEF SegType
  <2>2. \A n \in Names : names[n] # None => removed'[names[n]] = removed[names[n]]
    BY <1>0, <1>2, <1>3, <2>1 DEF SegType
  <2>3. \A q \in Procs : hook'[q] # None => hook'[q] = hook[q]
    BY <1>2 DEF MemoryType
  <2>4. QED
    <3>1. \A n \in Names : names[n] # None => names[n] < next /\ ~removed'[names[n]]
      BY <1>0, <2>2 DEF KnownInv
    <3>2. \A q \in Procs : hook'[q] # None =>
            hook'[q] < next /\ \A n \in Names : names[n] # hook'[q]
      BY <1>0, <2>3 DEF KnownInv
    <3>3. QED
      BY <1>0, <1>2, <3>1, <3>2 DEF KnownInv, openFiles
<1>7. ViewInv'
  BY <1>0, <1>2 DEF ViewInv, memory, Cells
<1>8. QED
  BY <1>4, <1>5, <1>6, <1>7 DEF SegInv

LEMMA SegUnlink ==
  ASSUME SegInv, MemoryType, NEW p \in Procs, NEW n \in Names, ShmUnlink(p, n) PROVE SegInv'
<1>0. SegType /\ CountInv /\ LifeInv /\ KnownInv /\ ViewInv
  BY DEF SegInv
<1>1. PICK s \in Segs : s = names[n] /\ s # None
  BY <1>0 DEF ShmUnlink, SegType
<1>2. /\ pc[p] = "running" /\ removed' = [removed EXCEPT ![s] = TRUE]
      /\ MaybeFree({s}, attached, fds, removed')
      /\ names' = [names EXCEPT ![n] = None]
      /\ UNCHANGED <<next, attached, fds, att, openFiles, pc, memory, window>>
  BY <1>1 DEF ShmUnlink, Running
<1>3. s < next /\ \A m \in Names : m # n => names[m] # s
  BY <1>0, <1>1 DEF KnownInv
<1>4. /\ CountInv' /\ LifeInv' /\ listed' \subseteq Segs /\ closes' \in [Segs -> Nat]
      /\ removed' \in [Segs -> BOOLEAN]
  BY <1>0, <1>2, <1>3, NotEnded, Marked
<1>5. SegType'
  BY <1>0, <1>2, <1>4 DEF SegType, openFiles, memory, window
<1>6. KnownInv'
  <2>1. \A m \in Names : names'[m] = IF m = n THEN None ELSE names[m]
    BY <1>0, <1>2 DEF SegType
  <2>2. \A m \in Names : names[m] # None => names[m] \in Segs
    BY <1>0 DEF SegType
  <2>3. \A m \in Names : names'[m] # None => removed'[names[m]] = removed[names[m]]
    BY <1>0, <1>2, <1>3, <2>1, <2>2 DEF SegType
  <2>4. \A q \in Procs : hook[q] # None => \A m \in Names : names'[m] # hook[q]
    BY <1>0, <2>1 DEF KnownInv
  <2>5. QED
    <3>1. \A m \in Names : names'[m] # None => names'[m] < next /\ ~removed'[names'[m]]
      BY <1>0, <2>1, <2>3 DEF KnownInv
    <3>2. \A l, m \in Names : (l # m /\ names'[m] # None) => names'[l] # names'[m]
      BY <1>0, <2>1 DEF KnownInv
    <3>3. QED
      BY <1>0, <1>2, <2>4, <3>1, <3>2 DEF KnownInv, openFiles, window
<1>7. ViewInv'
  BY <1>0, <1>2 DEF ViewInv, memory, Cells
<1>8. QED
  BY <1>4, <1>5, <1>6, <1>7 DEF SegInv

(* close: only the last one of a file counts. *)
LEMMA SegClose ==
  ASSUME SegInv, MemoryType, NEW p \in Procs, NEW f \in Files, CloseFile(p, f) PROVE SegInv'
<1>0. SegType /\ CountInv /\ LifeInv /\ KnownInv /\ ViewInv
  BY DEF SegInv
<1>1. /\ pc[p] \in {"running", "freed"} /\ p \in holders[f]
      /\ holders' = [holders EXCEPT ![f] = @ \ {p}]
      /\ UNCHANGED <<next, names, attached, removed, att, pc, memory, window>>
  BY DEF CloseFile
<1>2. PICK s \in Segs : s = fileSeg[f]
  BY <1>0, <1>1 DEF KnownInv, MemoryType
<1>3. /\ \A x \in Files : x # f => holders'[x] = holders[x]
      /\ holders'[f] = holders[f] \ {p} /\ holders' \in [Files -> SUBSET Procs]
  BY <1>0, <1>1 DEF SegType
<1>4. CASE holders[f] = {p}
  <2>1. /\ fds' = [fds EXCEPT ![s] = @ - 1] /\ fileSeg' = [fileSeg EXCEPT ![f] = None]
        /\ MaybeFree({s}, attached, fds', removed)
    BY <1>2, <1>4 DEF CloseFile
  <2>2. /\ \A x \in Files : x # f => fileSeg'[x] = fileSeg[x]
        /\ holders'[f] = {} /\ holders[f] # {}
    BY <1>3, <1>4, <2>1 DEF MemoryType
  <2>3. \A t \in Segs : fds'[t] = fds[t] - (IF s = t THEN 1 ELSE 0)
    BY <1>0, <2>1 DEF SegType
  <2>4. ASSUME NEW t \in Segs
        PROVE  /\ IsFiniteSet(Opens(holders', fileSeg', t))
               /\ fds'[t] = Cardinality(Opens(holders', fileSeg', t))
    <3>1. /\ IsFiniteSet(Opens(holders, fileSeg, t))
          /\ fds[t] = Cardinality(Opens(holders, fileSeg, t))
      BY <1>0 DEF CountInv
    <3>2. CASE s = t
      <4>1. /\ Opens(holders', fileSeg', t) = Opens(holders, fileSeg, t) \ {f}
            /\ f \in Opens(holders, fileSeg, t)
        BY <1>2, <1>3, <2>2, <3>2 DEF Opens
      <4>2. QED
        BY <2>3, <3>1, <3>2, <4>1, OneLess
    <3>3. CASE s # t
      <4>1. Opens(holders', fileSeg', t) = Opens(holders, fileSeg, t)
        BY <1>2, <1>3, <2>2, <3>3 DEF Opens
      <4>2. fds'[t] = fds[t]
        BY <1>0, <2>1, <3>3 DEF SegType
      <4>3. QED
        BY <3>1, <4>1, <4>2
    <3>4. QED
      BY <3>2, <3>3
  <2>5. CountInv'
    BY <1>0, <1>1, <2>4 DEF CountInv
  <2>6. fds[s] > 0
    <3>1. f \in Opens(holders, fileSeg, s)
      BY <1>2, <2>2 DEF Opens
    <3>2. QED
      BY <1>0, <3>1, NoneLeft DEF CountInv
  <2>7. ASSUME NEW t \in Segs
        PROVE  /\ Unused(t, attached, fds', removed) => IsUnused(t)'
               /\ IsUnused(t) => IsUnused(t)'
               /\ IsUnused(t)' => IsUnused(t) \/ (t \in {s} /\ Unused(t, attached, fds', removed))
               /\ t >= next => ~removed'[t] /\ attached'[t] = 0 /\ fds'[t] = 0
    <3>1. t >= next => ~removed[t] /\ attached[t] = 0 /\ fds[t] = 0
      BY <1>0 DEF LifeInv, Life, Blank
    <3>2. CASE t = s
      BY <1>1, <2>6, <3>1, <3>2 DEF IsUnused, Unused
    <3>3. CASE t # s
      <4>1. fds'[t] = fds[t]
        BY <1>0, <2>1, <3>3 DEF SegType
      <4>2. QED
        BY <1>1, <3>1, <3>3, <4>1 DEF IsUnused, Unused
    <3>4. QED
      BY <3>2, <3>3
  <2>8. LifeInv' /\ listed' \subseteq Segs /\ closes' \in [Segs -> Nat]
    BY <1>0, <1>1, <2>1, <2>7, NotEnded, FreeStep
  <2>9. SegType'
    <3>1. fds' \in [Segs -> Int]
      BY <1>0, <2>1 DEF SegType
    <3>2. QED
      BY <1>0, <1>1, <1>3, <2>8, <3>1 DEF SegType, memory, window
  <2>10. KnownInv'
    BY <1>0, <1>1, <1>3, <2>2 DEF KnownInv, window
  <2>11. ViewInv'
    BY <1>0, <1>1 DEF ViewInv, memory, Cells
  <2>12. QED
    BY <2>5, <2>8, <2>9, <2>10, <2>11 DEF SegInv
<1>5. CASE holders[f] # {p}
  <2>1. UNCHANGED <<fds, fileSeg, listed, closes, size>> /\ holders'[f] # {}
    BY <1>1, <1>3, <1>5 DEF CloseFile
  <2>2. \A t : Opens(holders', fileSeg', t) = Opens(holders, fileSeg, t)
    BY <1>1, <1>3, <2>1 DEF Opens
  <2>3. CountInv'
    BY <1>0, <1>1, <2>1, <2>2 DEF CountInv
  <2>4. LifeInv'
    BY <1>0, <1>1, <2>1, NotEnded, TableSame
  <2>5. SegType' /\ KnownInv' /\ ViewInv'
    BY <1>0, <1>1, <1>3, <2>1 DEF SegType, KnownInv, ViewInv, memory, window, Cells
  <2>6. QED
    BY <2>3, <2>4, <2>5 DEF SegInv
<1>6. QED
  BY <1>4, <1>5


(* A new segment s that a file, or the exit hook, knows. *)
LEMMA SegCreate ==
  ASSUME SegInv, MemoryType, NEW p \in Procs, NEW s \in Segs, NEW n \in Sizes, Create(p, s, n)
  PROVE  SegInv'
<1>0. SegType /\ CountInv /\ LifeInv /\ KnownInv /\ ViewInv
  BY DEF SegInv
<1>1. /\ pc[p] = "running" /\ NewSegment(s) /\ s = next /\ next' = next + 1
      /\ listed' = listed \cup {s}
      /\ size' = [size EXCEPT ![s] = PagesOf(n)] /\ hook' = [hook EXCEPT ![p] = s]
      /\ UNCHANGED <<names, attached, fds, removed, closes, att, openFiles, pc, memory, used,
                     mappedEnd>>
  BY DEF Create, ShmCreate, NewSegment, Running
<1>2. LifeInv'
  BY <1>0, <1>1, NotEnded, NewStep DEF MemoryType
<1>3. CountInv'
  BY <1>0, <1>1 DEF CountInv, openFiles
<1>4. SegType'
  <2>1. next' \in 1..(NSegs + 1)
    BY <1>1, SegsAreNat
  <2>2. QED
    BY <1>0, <1>1, <2>1 DEF SegType, openFiles, memory
<1>5. KnownInv'
  <2>1. next \in Nat /\ \A q \in Procs : hook[q] \in Nat
    BY <1>0 DEF SegType, MemoryType, Segs, None
  <2>2. \A m \in Names : names[m] # None => names[m] \in Nat /\ names[m] < next
    BY <1>0 DEF SegType, Segs, None, KnownInv
  <2>3. \A q \in Procs : hook'[q] = IF q = p THEN s ELSE hook[q]
    BY <1>1 DEF MemoryType
  <2>4. s # None
    BY Constants
  <2>5. \A m \in Names : names[m] # None => names[m] < next' /\ ~removed[names[m]]
    BY <1>0, <1>1, <2>1, <2>2 DEF KnownInv
  <2>6. \A q \in Procs : hook'[q] # None =>
          hook'[q] < next' /\ \A m \in Names : names[m] # hook'[q]
    BY <1>0, <1>1, <2>1, <2>2, <2>3, <2>4 DEF KnownInv
  <2>7. QED
    BY <1>0, <1>1, <2>5, <2>6 DEF KnownInv, openFiles
<1>6. ViewInv'
  BY <1>0, <1>1 DEF ViewInv, memory, Cells
<1>7. QED
  BY <1>2, <1>3, <1>4, <1>5, <1>6 DEF SegInv

LEMMA SegOpen ==
  ASSUME SegInv, MemoryType, NEW p \in Procs, NEW n \in Names, NEW s \in Segs, NEW f \in Files,
         ShmOpen(p, n, s, f)
  PROVE  SegInv'
<1>0. SegType /\ CountInv /\ LifeInv /\ KnownInv /\ ViewInv
  BY DEF SegInv
<1>1. /\ pc[p] = "running" /\ holders[f] = {}
      /\ fds' = [fds EXCEPT ![s] = @ + 1] /\ fileSeg' = [fileSeg EXCEPT ![f] = s]
      /\ holders' = [holders EXCEPT ![f] = {p}]
      /\ UNCHANGED <<size, attached, removed, closes, att, pc, memory, window>>
  BY DEF ShmOpen, Running
<1>2. /\ \A x \in Files : x # f => holders'[x] = holders[x] /\ fileSeg'[x] = fileSeg[x]
      /\ holders'[f] = {p} /\ fileSeg'[f] = s
      /\ holders' \in [Files -> SUBSET Procs] /\ fds' \in [Segs -> Int]
      /\ fds[s] \in Int /\ fds'[s] = fds[s] + 1 /\ \A t \in Segs : t # s => fds'[t] = fds[t]
  BY <1>0, <1>1 DEF SegType, MemoryType
<1>3. ASSUME NEW t \in Segs
      PROVE  /\ IsFiniteSet(Opens(holders', fileSeg', t))
             /\ fds'[t] = Cardinality(Opens(holders', fileSeg', t))
  <2>1. /\ IsFiniteSet(Opens(holders, fileSeg, t)) /\ f \notin Opens(holders, fileSeg, t)
        /\ fds[t] = Cardinality(Opens(holders, fileSeg, t))
    BY <1>0, <1>1 DEF CountInv, Opens
  <2>2. CASE s = t
    <3>1. Opens(holders', fileSeg', t) = Opens(holders, fileSeg, t) \cup {f}
      BY <1>2, <2>2 DEF Opens
    <3>2. QED
      BY <1>2, <2>1, <2>2, <3>1, OneMore
  <2>3. CASE s # t
    <3>1. Opens(holders', fileSeg', t) = Opens(holders, fileSeg, t)
      BY <1>1, <1>2, <2>3 DEF Opens
    <3>2. QED
      BY <1>2, <2>1, <2>3, <3>1
  <2>4. QED
    BY <2>2, <2>3
<1>4. CountInv'
  BY <1>0, <1>1, <1>3 DEF CountInv
<1>5. fds[s] >= 0
  BY <1>0, NoneLeft DEF CountInv
<1>6. \A m \in Names : names[m] \in Nat /\ (names[m] # None => names[m] < next)
  BY <1>0 DEF SegType, Segs, None, KnownInv
<1>7. \A x \in Files : holders'[x] # {} => fileSeg'[x] # None
  BY <1>0, <1>2, Constants DEF KnownInv
<1>8. ViewInv'
  BY <1>0, <1>1 DEF ViewInv, memory, Cells
<1>9. CASE names[n] # None
  <2>1. s = names[n] /\ s < next /\ ~removed[s] /\ UNCHANGED <<next, listed, names>>
    BY <1>0, <1>9 DEF ShmOpen, KnownInv
  <2>2. SegType'
    BY <1>0, <1>1, <1>2, <2>1 DEF SegType, memory, window
  <2>3. KnownInv'
    BY <1>0, <1>1, <1>7, <2>1 DEF KnownInv, window
  <2>4. ASSUME NEW t \in Segs PROVE Life(t)'
    <3>1. Life(t) /\ ~Ended /\ next \in Nat /\ t \in Nat
      BY <1>0, <1>1, NotEnded DEF LifeInv, SegType, Segs
    <3>2. CASE t = s
      <4>1. t < next /\ ~IsUnused(t) /\ ~IsUnused(t)'
        BY <1>1, <2>1, <3>2 DEF IsUnused
      <4>2. t \in listed
        BY <3>1, <4>1 DEF Life
      <4>3. QED
        BY <1>1, <2>1, <3>1, <4>1, <4>2 DEF Life
    <3>3. CASE t # s
      <4>1. fds'[t] = fds[t]
        BY <1>2, <3>3
      <4>2. QED
        BY <1>1, <2>1, <3>1, <4>1 DEF Life, Blank, IsUnused
    <3>4. QED
      BY <3>2, <3>3
  <2>5. LifeInv'
    BY <2>4 DEF LifeInv
  <2>6. QED
    BY <1>4, <1>8, <2>2, <2>3, <2>5 DEF SegInv
<1>10. CASE names[n] = None
  <2>1. /\ NewSegment(s) /\ s = next /\ next' = next + 1 /\ listed' = listed \cup {s}
        /\ names' = [names EXCEPT ![n] = s]
    BY <1>10 DEF ShmOpen, NewSegment
  <2>2. LifeInv'
    BY <1>0, <1>1, <1>2, <2>1, NotEnded, NewStep
  <2>3. SegType'
    <3>1. next' \in 1..(NSegs + 1)
      BY <2>1, SegsAreNat
    <3>2. QED
      BY <1>0, <1>1, <1>2, <2>1, <3>1 DEF SegType, memory, window
  <2>4. KnownInv'
    <3>1. \A m \in Names : names'[m] = IF m = n THEN s ELSE names[m]
      BY <1>0, <2>1 DEF SegType
    <3>2. ~removed[s] /\ next \in Nat /\ \A q \in Procs : hook[q] \in Nat
      BY <1>0, <2>1 DEF LifeInv, Life, Blank, SegType, MemoryType, Segs, None
    <3>3. \A m \in Names : names'[m] # None => names'[m] < next' /\ ~removed[names'[m]]
      BY <1>0, <1>6, <2>1, <3>1, <3>2 DEF KnownInv
    <3>4. \A l, m \in Names : (l # m /\ names'[m] # None) => names'[l] # names'[m]
      <4>1. \A m \in Names : names[m] # s
        BY <1>6, <2>1, <3>2, Constants
      <4>2. QED
        BY <1>0, <3>1, <4>1 DEF KnownInv
    <3>5. \A q \in Procs : hook[q] # None =>
            hook[q] < next' /\ \A m \in Names : names'[m] # hook[q]
      <4>1. TAKE q \in Procs
      <4>2. HAVE hook[q] # None
      <4>3. hook[q] < next /\ \A m \in Names : names[m] # hook[q]
        BY <1>0, <4>2 DEF KnownInv
      <4>4. hook[q] # s /\ hook[q] < next'
        BY <2>1, <3>2, <4>3
      <4>5. QED
        BY <3>1, <4>3, <4>4
    <3>6. QED
      BY <1>1, <1>7, <3>3, <3>4, <3>5 DEF KnownInv, window
  <2>5. QED
    BY <1>4, <1>8, <2>2, <2>3, <2>4 DEF SegInv
<1>11. QED
  BY <1>9, <1>10


(* ftruncate: an object that is open has not been freed. *)
LEMMA SegTruncate ==
  ASSUME SegInv, MemoryType, NEW p \in Procs, NEW f \in Files, NEW n \in Sizes, Truncate(p, f, n)
  PROVE  SegInv'
<1>0. SegType /\ CountInv /\ LifeInv /\ KnownInv /\ ViewInv
  BY DEF SegInv
<1>1. PICK s \in Segs : s = fileSeg[f]
  BY <1>0 DEF KnownInv, MemoryType, Truncate
<1>2. /\ pc[p] = "running" /\ p \in holders[f] /\ size' = [size EXCEPT ![s] = PagesOf(n)]
      /\ UNCHANGED <<next, listed, names, attached, fds, removed, closes, att, openFiles, pc,
                     memory, window>>
  BY <1>1 DEF Truncate, Running
<1>3. fds[s] # 0
  <2>1. f \in Opens(holders, fileSeg, s)
    BY <1>1, <1>2 DEF Opens
  <2>2. QED
    BY <1>0, <2>1, NoneLeft DEF CountInv
<1>4. s < next /\ s \in listed
  <2>1. s < next
    BY <1>0, <1>3 DEF LifeInv, Life, Blank, SegType, Segs
  <2>2. QED
    BY <1>0, <1>2, <1>3, <2>1, NotEnded, UsedIsListed DEF IsUnused
<1>5. ASSUME NEW t \in Segs PROVE Life(t)'
  <2>1. Life(t) /\ ~Ended /\ next \in Nat /\ s \in Nat
    BY <1>0, <1>2, NotEnded DEF LifeInv, SegType, Segs
  <2>2. t # s => size'[t] = size[t]
    BY <1>2 DEF MemoryType
  <2>3. QED
    BY <1>2, <1>4, <2>1, <2>2 DEF Life, Blank, IsUnused
<1>6. CountInv' /\ SegType' /\ KnownInv' /\ ViewInv'
  BY <1>0, <1>2 DEF CountInv, SegType, KnownInv, ViewInv, openFiles, memory, window, Cells
<1>7. QED
  BY <1>5, <1>6 DEF SegInv, LifeInv

(* The steps of a process that leave the table alone. *)
LEMMA SegProcess ==
  ASSUME SegInv, MemoryType, NEW p \in Procs,
         Sbrk(p) \/ Exit(p) \/ \E c \in Procs : Spawn(p, c)
  PROVE  SegInv'
<1>0. SegType /\ CountInv /\ LifeInv /\ KnownInv /\ ViewInv
  BY DEF SegInv
<1>1. pc[p] = "running" /\ UNCHANGED <<table, att, fileSeg>>
  BY DEF Sbrk, Exit, Spawn, Running, openFiles
<1>2. LifeInv'
  BY <1>0, <1>1, NotEnded, TableSame DEF table
<1>3. CASE Sbrk(p)
  <2>1. SegType'
    BY <1>0, <1>3, Constants DEF Sbrk, SegType, table, openFiles, window
  <2>2. CountInv' /\ KnownInv' /\ ViewInv'
    BY <1>0, <1>3 DEF Sbrk, CountInv, KnownInv, ViewInv, table, openFiles, window, Cells
  <2>3. QED
    BY <1>2, <2>1, <2>2 DEF SegInv
<1>4. CASE Exit(p)
  <2>1. SegType'
    BY <1>0, <1>4, Constants DEF Exit, SegType, table, openFiles
  <2>2. CountInv'
    BY <1>0, <1>4 DEF Exit, CountInv, table, openFiles
  <2>3. KnownInv'
    <3>1. \A q \in Procs : hook'[q] # None => hook'[q] = hook[q]
      BY <1>4 DEF Exit, MemoryType
    <3>2. \A q \in Procs : hook'[q] # None =>
            hook'[q] < next /\ \A n \in Names : names[n] # hook'[q]
      BY <1>0, <3>1 DEF KnownInv
    <3>3. QED
      BY <1>0, <1>4, <3>2 DEF Exit, KnownInv, table, openFiles
  <2>4. ViewInv'
    <3>1. view' = Shown(p, 0, NPages, None) /\ pc' = [pc EXCEPT ![p] = "freed"] /\ UNCHANGED att
      BY <1>4 DEF Exit
    <3>2. \A i \in Pages : i \in 0..(0 + NPages - 1)
      BY Constants DEF Pages
    <3>3. \A i \in Pages : view'[p][i] = None
      BY <3>1, <3>2, ShownPages
    <3>4. \A q \in Procs : q # p => view'[q] = view[q] /\ pc'[q] = pc[q]
      BY <1>0, <3>1, ShownPages DEF SegType
    <3>5. QED
      BY <1>0, <3>1, <3>3, <3>4 DEF ViewInv, Cells
  <2>5. QED
    BY <1>2, <2>1, <2>2, <2>3, <2>4 DEF SegInv
<1>5. ASSUME NEW c \in Procs, Spawn(p, c) PROVE SegInv'
  <2>1. /\ pc' = [pc EXCEPT ![c] = "running"]
        /\ holders' = [f \in Files |-> IF p \in holders[f] THEN holders[f] \cup {c} ELSE holders[f]]
        /\ UNCHANGED <<table, att, fileSeg, memory, hook, mappedEnd>>
    BY <1>5 DEF Spawn
  <2>2. holders' \in [Files -> SUBSET Procs] /\ \A f \in Files : holders'[f] = {} <=> holders[f] = {}
    BY <1>0, <2>1 DEF SegType
  <2>3. \A s : Opens(holders', fileSeg', s) = Opens(holders, fileSeg, s)
    BY <2>1, <2>2 DEF Opens
  <2>4. CountInv'
    BY <1>0, <2>1, <2>3 DEF CountInv, table
  <2>5. SegType'
    BY <1>0, <2>1, <2>2 DEF SegType, table, memory
  <2>6. KnownInv'
    BY <1>0, <2>1, <2>2 DEF KnownInv, table
  <2>7. ViewInv'
    <3>1. \A q \in Procs : pc[q] = "running" => pc'[q] = "running"
      BY <1>0, <2>1 DEF SegType
    <3>2. QED
      BY <1>0, <2>1, <3>1 DEF ViewInv, memory, Cells
  <2>8. QED
    BY <1>2, <2>4, <2>5, <2>6, <2>7 DEF SegInv
<1>6. QED
  BY <1>3, <1>4, <1>5

(* Kernel.Close frees what is left, when nobody can come any more. *)
LEMMA SegCloseAll == ASSUME SegInv, MemoryType, CloseAll PROVE SegInv'
<1>0. SegType /\ CountInv /\ LifeInv /\ KnownInv /\ ViewInv
  BY DEF SegInv
<1>1. /\ Ended /\ listed' = {} /\ names' = [n \in Names |-> None]
      /\ closes' = [s \in Segs |-> IF s \in listed /\ size[s] # 0 THEN closes[s] + 1 ELSE closes[s]]
      /\ UNCHANGED <<next, size, attached, fds, removed, att, openFiles, pc, memory, window>>
  BY DEF CloseAll, Ended
<1>2. ASSUME NEW s \in Segs PROVE Life(s)'
  <2>1. Life(s) /\ closes[s] \in Int /\ Ended'
    BY <1>0, <1>1 DEF LifeInv, SegType, Ended
  <2>2. closes'[s] = IF s \in listed /\ size[s] # 0 THEN closes[s] + 1 ELSE closes[s]
    BY <1>1
  <2>3. QED
    BY <1>1, <2>1, <2>2 DEF Life, Blank, IsUnused
<1>3. SegType'
  BY <1>0, <1>1 DEF SegType, openFiles, memory, window
<1>4. CountInv' /\ ViewInv'
  BY <1>0, <1>1 DEF CountInv, ViewInv, openFiles, memory, Cells
<1>5. KnownInv'
  <2>1. \A n \in Names : names'[n] = None
    BY <1>1
  <2>2. QED
    BY <1>0, <1>1, <2>1 DEF KnownInv, openFiles, window
<1>6. QED
  BY <1>2, <1>3, <1>4, <1>5 DEF SegInv, LifeInv

LEMMA SegStep == SegInv /\ MemoryType /\ [Next]_vars => SegInv'
<1> SUFFICES ASSUME SegInv, MemoryType, [Next]_vars PROVE SegInv'
  OBVIOUS
<1>1. CASE UNCHANGED vars
  BY <1>1 DEF vars, table, openFiles, memory, window, SegInv, SegType, CountInv, LifeInv, Life,
              Blank, IsUnused, Ended, KnownInv, ViewInv, Cells
<1>2. CASE Next
  BY <1>2, SegAttach, SegMmap, SegMunmap, SegDetachAll, SegRemove, SegUnlink, SegClose,
     SegCreate, SegOpen, SegTruncate, SegProcess, SegCloseAll DEF Next
<1>3. QED
  BY <1>1, <1>2

LEMMA SegAlways == Spec => [](SegInv /\ MemoryType)
<1>1. Init => SegInv /\ HeapInv
  BY SegInit, HeapInit
<1>2. SegInv /\ HeapInv /\ [Next]_vars => (SegInv /\ HeapInv)'
  BY SegStep, HeapStep DEF HeapInv
<1>3. SegInv /\ HeapInv => SegInv /\ MemoryType
  BY DEF HeapInv
<1>4. QED
  BY <1>1, <1>2, <1>3, PTL DEF Spec

(* The counters of a segment say whether it is in use. *)
LEMMA InUseCounted ==
  ASSUME SegInv, NEW s \in Segs PROVE InUse(s) <=> attached[s] # 0 \/ fds[s] # 0
<1>0. SegType /\ CountInv
  BY DEF SegInv
<1>1. attached[s] = 0 <=> Uses(att, s) = {}
  BY <1>0, NoneLeft DEF CountInv
<1>2. fds[s] = 0 <=> Opens(holders, fileSeg, s) = {}
  BY <1>0, NoneLeft DEF CountInv
<1>3. Opens(holders, fileSeg, s) # {} <=> \E f \in Files : holders[f] # {} /\ fileSeg[f] = s
  BY DEF Opens
<1>4. Uses(att, s) # {} <=> \E p \in Procs : \E a \in att[p] : a.s = s
  <2>1. ASSUME NEW h \in Uses(att, s) PROVE \E p \in Procs : \E a \in att[p] : a.s = s
    BY DEF Uses
  <2>2. ASSUME NEW p \in Procs, NEW a \in att[p], a.s = s PROVE <<p, a>> \in Uses(att, s)
    <3>1. a \in Attachments
      BY <1>0 DEF SegType
    <3>2. QED
      BY <2>2, <3>1 DEF Uses
  <2>3. QED
    BY <2>1, <2>2
<1>5. QED
  BY <1>1, <1>2, <1>3, <1>4 DEF InUse

(* shm.go: a segment is freed exactly when it has been removed or unlinked  *)
(* and no process maps it or has it open, whatever the order of unlink,     *)
(* munmap, close, exit and detachAll, and its memory is released once.      *)
THEOREM SegmentsAreFreedOnce == Spec => []FreedOnceUnused
<1>1. SegInv /\ MemoryType => FreedOnceUnused
  <2> SUFFICES ASSUME SegInv, MemoryType, NEW s \in 1..(next - 1)
               PROVE  /\ s \notin listed => Ended \/ (removed[s] /\ ~InUse(s))
                      /\ (removed[s] /\ ~InUse(s)) => s \notin listed
                      /\ closes[s] <= 1
    BY DEF FreedOnceUnused
  <2>1. s \in Segs
    BY ShmAssumption DEF SegInv, SegType, Segs
  <2>2. Life(s) /\ next \in Nat
    BY <2>1, ShmAssumption DEF SegInv, LifeInv, SegType
  <2>3. InUse(s) <=> attached[s] # 0 \/ fds[s] # 0
    BY <2>1, InUseCounted
  <2>4. QED
    BY <2>2, <2>3 DEF Life, IsUnused
<1>2. QED
  BY <1>1, SegAlways, PTL

(* vmem.go and shm.go: a page of a guest's memory never shows a segment     *)
(* that has been freed, or one that the process is not counted for: a range *)
(* is mapped over others, and unmapped, with its attachments.               *)
THEOREM ShownPagesAreAttached == Spec => []ShownIsAttached
<1>1. SegInv /\ MemoryType => ShownIsAttached
  <2> SUFFICES ASSUME SegInv, MemoryType, NEW p \in Procs, NEW i \in Pages, view[p][i] # None
               PROVE  /\ view[p][i] \in listed
                      /\ \E a \in att[p] : i \in Cells(a) /\ a.s = view[p][i]
    BY DEF ShownIsAttached
  <2>1. /\ pc[p] = "running"
        /\ \E a \in att[p] : i \in Cells(a) /\ a.s = view[p][i]
    BY DEF SegInv, ViewInv
  <2>2. PICK s \in Segs : s = view[p][i]
    BY DEF MemoryType
  <2>3. InUse(s)
    BY <2>1, <2>2 DEF InUse
  <2>4. attached[s] # 0 \/ fds[s] # 0
    BY <2>3, InUseCounted
  <2>5. s < next
    BY <2>4, ShmAssumption DEF SegInv, LifeInv, Life, Blank, SegType, Segs
  <2>6. s \in listed
    BY <2>1, <2>4, <2>5, NotEnded, UsedIsListed DEF SegInv, IsUnused
  <2>7. QED
    BY <2>1, <2>2, <2>6
<1>2. QED
  BY <1>1, SegAlways, PTL

(* The table of segments, the memories and the attachments are well typed:  *)
(* in particular no counter of a segment goes below zero, and no mapping    *)
(* leaves the memory of its process.                                        *)
THEOREM ShmTypeCorrect == Spec => []TypeOK
<1>1. SegInv /\ MemoryType => TypeOK
  <2> SUFFICES ASSUME SegInv, MemoryType PROVE TypeOK
    OBVIOUS
  <2>1. attached \in [Segs -> Nat] /\ fds \in [Segs -> Nat]
    <3>1. \A s \in Segs : attached[s] \in Nat /\ fds[s] \in Nat
      BY NoneLeft DEF SegInv, CountInv
    <3>2. QED
      BY <3>1 DEF SegInv, SegType
  <2>2. QED
    BY <2>1 DEF SegInv, SegType, MemoryType, TypeOK
<1>2. QED
  BY <1>1, SegAlways, PTL
=============================================================================
