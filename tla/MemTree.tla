------------------------------ MODULE MemTree ------------------------------
(***************************************************************************)
(* The namespace of the in-memory file system, internal/memfs/memfs.go:    *)
(* directory entries, parent pointers and the path walk.  Every operation  *)
(* runs under FS.ns and is one step; an operation that fails changes       *)
(* nothing.  Directories that have been removed can still be open, and     *)
(* are used through their handles.  What files contain is the subject of   *)
(* MemFile.tla.                                                            *)
(***************************************************************************)
EXTENDS Integers, Sequences, FiniteSets, SequencesExt

CONSTANTS NNodes,    \* bound: nodes, the root is node 1
          Names,     \* names of entries
          Handles,   \* bound: open Files
          Depth      \* bound: components of a path before the last one

ASSUME MemTreeAssumption == /\ NNodes \in Nat \ {0}
                            /\ "up" \notin Names /\ Depth \in Nat

Nodes == 1..NNodes
Root == 1
Nil == 0           \* no node

VARIABLES
  kind,      \* node.mode: dir, file, or free: not created yet
  entries,   \* node.entries
  parent,    \* node.parent, nil for files
  at,        \* the node of each open File
  dirPos,    \* File.dirPos
  phase,     \* loading: AddTar runs; ready: it has returned; failed
  todo,      \* AddTar: the components of the entry's name still to be made
  here,      \* AddTar: the node that the components before them lead to
  goal       \* AddTar: the type of the entry, dir or file

tree == <<kind, entries, parent>>
loadVars == <<phase, todo, here, goal>>
treeVars == <<tree, at, dirPos, loadVars>>

IsDir(n) == n \in Nodes /\ kind[n] = "dir"
NoEntries == [x \in Names |-> Nil]

TreeTypeOK ==
  /\ kind \in [Nodes -> {"free", "dir", "file"}]
  /\ entries \in [Nodes -> [Names -> Nodes \cup {Nil}]]
  /\ parent \in [Nodes -> Nodes \cup {Nil}]
  /\ at \in [Handles -> Nodes \cup {Nil}]
  /\ dirPos \in [Handles -> Nat]
  /\ phase \in {"loading", "ready", "failed"}
  /\ todo \in Seq(Names) /\ here \in Nodes /\ goal \in {"dir", "file"}

(* New: an empty root, its own parent. *)
TreeInit ==
  /\ kind = [n \in Nodes |-> IF n = Root THEN "dir" ELSE "free"]
  /\ entries = [n \in Nodes |-> NoEntries]
  /\ parent = [n \in Nodes |-> IF n = Root THEN Root ELSE Nil]
  /\ at = [h \in Handles |-> Nil]
  /\ dirPos = [h \in Handles |-> 0]
  /\ phase = "loading" /\ todo = <<>> /\ here = Root /\ goal = "dir"

-----------------------------------------------------------------------------
(* The path walk. *)

Up == "up"         \* ".."
Err == -1          \* EPERM, ENOENT, ENOTDIR
Panic == -2        \* a nil node is used

(* One component.  A file has no parent, but ".." does not look whether the *)
(* walk has come to a file: the nil node is used by the next component, or  *)
(* by the test after the last one.                                          *)
Walk(cur, x) ==
  CASE cur \in {Err, Panic} -> cur
    [] x = Up /\ cur = Root -> Err
    [] x = Up /\ cur # Root -> IF parent[cur] = Nil THEN Panic ELSE parent[cur]
    [] OTHER -> IF kind[cur] = "dir" /\ entries[cur][x] # Nil THEN entries[cur][x] ELSE Err

Paths == UNION {[1..k -> Names \cup {Up}] : k \in 0..Depth}

(* resolve from a directory that is open, or the root.  With parentOnly the *)
(* last component is left out of the path.                                  *)
Bases == {Root} \cup ({at[h] : h \in Handles} \ {Nil})
Resolve(b, path) == FoldLeft(Walk, b, path)

(* The nodes and directories that callers can name.  Operations take one of *)
(* the directories and a last component.                                    *)
Named == {Resolve(b, path) : b \in Bases, path \in Paths} \cap Nodes
Dirs == {d \in Named : IsDir(d)}

-----------------------------------------------------------------------------
(* Handles. *)

Entry(d, x) == entries[d][x]

(* OpenAt of something that exists; a file, or a directory to read from. *)
Open(h, n) ==
  /\ at[h] = Nil
  /\ at' = [at EXCEPT ![h] = n]
  /\ dirPos' = [dirPos EXCEPT ![h] = 0]
  /\ UNCHANGED tree

Close(h) ==
  /\ at[h] # Nil
  /\ at' = [at EXCEPT ![h] = Nil]
  /\ dirPos' = [dirPos EXCEPT ![h] = 0]
  /\ UNCHANGED tree

(* ReadDir: the next count entries of a listing sorted anew each time. *)
ReadDir(h, count) ==
  LET len == Cardinality({x \in Names : Entry(at[h], x) # Nil}) IN
  /\ IsDir(at[h]) /\ dirPos[h] < len
  /\ dirPos' = [dirPos EXCEPT ![h] = IF count > 0 /\ @ + count < len THEN @ + count ELSE len]
  /\ UNCHANGED <<tree, at>>

-----------------------------------------------------------------------------
(* Changes of the namespace. *)

IsNew(n) == n \in Nodes /\ kind[n] = "free" /\ \A m \in Nodes : kind[m] = "free" => n <= m

(* OpenAt with O_CREAT of a name that is not there. *)
CreateFile(d, x, n) ==
  /\ Entry(d, x) = Nil /\ IsNew(n)
  /\ kind' = [kind EXCEPT ![n] = "file"]
  /\ entries' = [entries EXCEPT ![d][x] = n]
  /\ UNCHANGED <<parent, at, dirPos>>

MkdirAt(d, x, n) ==
  /\ Entry(d, x) = Nil /\ IsNew(n)
  /\ kind' = [kind EXCEPT ![n] = "dir"]
  /\ parent' = [parent EXCEPT ![n] = d]
  /\ entries' = [entries EXCEPT ![d][x] = n]
  /\ UNCHANGED <<at, dirPos>>

IsEmpty(n) == entries[n] = NoEntries

RmdirAt(d, x) ==
  /\ IsDir(Entry(d, x)) /\ IsEmpty(Entry(d, x))
  /\ entries' = [entries EXCEPT ![d][x] = Nil]
  /\ UNCHANGED <<kind, parent, at, dirPos>>

UnlinkAt(d, x) ==
  /\ Entry(d, x) # Nil /\ ~IsDir(Entry(d, x))
  /\ entries' = [entries EXCEPT ![d][x] = Nil]
  /\ UNCHANGED <<kind, parent, at, dirPos>>

LinkAt(n, d, x) ==
  /\ kind[n] = "file" /\ Entry(d, x) = Nil
  /\ entries' = [entries EXCEPT ![d][x] = n]
  /\ UNCHANGED <<kind, parent, at, dirPos>>

(* What a rename may replace. *)
CanReplace(n, target) ==
  \/ target = Nil
  \/ target # Nil /\ IsDir(n) = IsDir(target) /\ (IsDir(target) => IsEmpty(target))

(* A mutant: only a directory itself is refused as its own destination. *)
OutsideSelf(n, d) == d # n
(* The loop from d up to the root does not meet n. *)
Outside(n, d) ==
  \E A \in SUBSET Nodes : /\ d \in A /\ n \notin A
                          /\ \A a \in A \ {Root} : parent[a] \in A

(* RenameAt of entry x of d to entry y of e.  The old entry goes first: the *)
(* two may be the same directory's.                                         *)
RenameAt(d, x, e, y) ==
  LET n == Entry(d, x) IN
  /\ n # Nil /\ n # Entry(e, y)
  /\ CanReplace(n, Entry(e, y))
  /\ IsDir(n) => Outside(n, e)
  /\ parent' = IF IsDir(n) THEN [parent EXCEPT ![n] = e] ELSE parent
  /\ entries' = [[entries EXCEPT ![d][x] = Nil] EXCEPT ![e][y] = n]
  /\ UNCHANGED <<kind, at, dirPos>>

(* What can be reached from the root: what is in every set that holds the   *)
(* root and the entries of its directories.                                 *)
Closed(S) ==
  Root \in S /\ \A d \in S, x \in Names : IsDir(d) /\ Entry(d, x) # Nil => Entry(d, x) \in S
Reached == {n \in Nodes : \A S \in SUBSET Nodes : Closed(S) => n \in S}

(* Clone: what the walk from the root finds, with the directory it came     *)
(* from as parent; the caller goes on with the copy, without open files.    *)
Clone ==
  /\ kind' = [n \in Nodes |-> IF n \in Reached THEN kind[n] ELSE "free"]
  /\ entries' = [n \in Nodes |-> IF n \in Reached THEN entries[n] ELSE NoEntries]
  /\ \E from \in [{n \in Reached \ {Root} : IsDir(n)} -> Reached] :
       /\ \A n \in DOMAIN from : \E x \in Names : Entry(from[n], x) = n
       /\ parent' = [n \in Nodes |-> IF n = Root THEN Root
                                    ELSE IF n \in DOMAIN from THEN from[n] ELSE Nil]
  /\ at' = [h \in Handles |-> Nil]
  /\ dirPos' = [h \in Handles |-> 0]

-----------------------------------------------------------------------------
(* AddTar, on a new file system that nobody else uses yet. *)

TarEntry(name, type) ==
  /\ phase = "loading" /\ todo = <<>>
  /\ todo' = name /\ goal' = type /\ here' = Root
  /\ UNCHANGED <<tree, at, dirPos, phase>>

(* mkdirAll of the name of a directory, or of a file's but for the last     *)
(* component: each component is made, or is there already, whatever it is.  *)
MkdirAll(n) ==
  LET x == Head(todo) IN
  /\ phase = "loading" /\ todo # <<>>
  /\ goal = "dir" \/ Len(todo) > 1
  /\ IsDir(here)
  /\ \/ MkdirAt(here, x, n) /\ here' = n
     \/ Entry(here, x) = n /\ here' = n /\ UNCHANGED <<tree, at, dirPos>>
  /\ todo' = Tail(todo)
  /\ UNCHANGED <<phase, goal>>

(* OpenAt with O_CREAT and O_TRUNC. *)
TarFile(n) ==
  LET x == Head(todo) IN
  /\ phase = "loading" /\ goal = "file" /\ Len(todo) = 1
  /\ IsDir(here)
  /\ \/ CreateFile(here, x, n)
     \/ Entry(here, x) = n /\ ~IsDir(n) /\ UNCHANGED <<tree, at, dirPos>>
  /\ todo' = <<>>
  /\ UNCHANGED <<phase, here, goal>>

(* The archive is over; or it is damaged, a component is not a directory,   *)
(* or a directory has the name of the file: AddTar fails, and its caller    *)
(* drops the file system.                                                   *)
TarEnd == /\ phase = "loading" /\ todo = <<>>
          /\ phase' = "ready" /\ here' = Root /\ goal' = "dir"
          /\ UNCHANGED <<tree, at, dirPos, todo>>

TarFails ==
  /\ phase = "loading"
  /\ \/ todo = <<>> \/ ~IsDir(here)
     \/ goal = "file" /\ Len(todo) = 1 /\ IsDir(Entry(here, Head(todo)))
  /\ phase' = "failed"
  /\ UNCHANGED <<tree, at, dirPos, todo, here, goal>>

AddTar == \/ \E name \in UNION {[1..k -> Names] : k \in 1..(Depth + 1)}, t \in {"dir", "file"} : TarEntry(name, t)
          \/ \E n \in Nodes : MkdirAll(n) \/ TarFile(n)
          \/ TarEnd \/ TarFails

-----------------------------------------------------------------------------
Operation ==
  \/ \E h \in Handles : Close(h) \/ (\E n \in Named : Open(h, n)) \/ (\E c \in {0, 1} : ReadDir(h, c))
  \/ \E d \in Dirs, x \in Names :
       \/ RmdirAt(d, x) \/ UnlinkAt(d, x)
       \/ \E n \in Nodes : CreateFile(d, x, n) \/ MkdirAt(d, x, n)
       \/ \E n \in Named : LinkAt(n, d, x)
       \/ \E e \in Dirs, y \in Names : RenameAt(d, x, e, y)
  \/ Clone

TreeNext == AddTar \/ (phase = "ready" /\ Operation /\ UNCHANGED loadVars)

TreeSpec == TreeInit /\ [][TreeNext]_treeVars

-----------------------------------------------------------------------------
(* Properties. *)

(* Every chain of parents leads to the root, also from directories that     *)
(* have been removed: no set of other directories is closed under parent.   *)
(* The loop in RenameAt and a path of ".." rely on it.                      *)
ChainsEnd ==
  \A S \in SUBSET {n \in Nodes \ {Root} : IsDir(n)} :
    S # {} => \E n \in S : IsDir(parent[n]) /\ parent[n] \notin S

(* A directory has one entry at most, in the directory that is its parent;  *)
(* the root has none.                                                       *)
LinksAgree ==
  \A d \in Nodes, x \in Names : IsDir(Entry(d, x)) =>
    /\ parent[Entry(d, x)] = d /\ Entry(d, x) # Root
    /\ \A y \in Names : Entry(d, y) = Entry(d, x) => y = x

TreeIntact == ChainsEnd /\ LinksAgree

(* A step makes at most one node unreachable, and a directory only if it is *)
(* empty: rename and rmdir lose nothing that they do not name.  The one     *)
(* exception in the code: a directory that is moved into a directory which  *)
(* has been removed but is still open takes all it holds with it, where     *)
(* rename(2) would fail.                                                    *)
Lost == Reached \ Reached'
MovedAway == \E n \in Lost : IsDir(n) /\ parent'[n] \notin Reached
NothingLost ==
  [][MovedAway \/ (Cardinality(Lost) <= 1 /\ \A n \in Lost : IsDir(n) => IsEmpty(n))]_treeVars
=============================================================================
