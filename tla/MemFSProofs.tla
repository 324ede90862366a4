---------------------------- MODULE MemFSProofs ----------------------------
(***************************************************************************)
(* Proofs about the in-memory file system, MemTree.tla and MemFile.tla,    *)
(* for any number of nodes, names, handles, Files and users, any depth of  *)
(* the paths and any payloads.                                             *)
(***************************************************************************)
EXTENDS MemTree, MemFile, FiniteSetTheorems, SequenceTheorems, TLAPS

-----------------------------------------------------------------------------
(* The namespace. *)

TreeTypes == /\ kind \in [Nodes -> {"free", "dir", "file"}]
             /\ entries \in [Nodes -> [Names -> Nodes \cup {Nil}]]
             /\ parent \in [Nodes -> Nodes \cup {Nil}]

(* What has not been created is not in a directory; only directories have   *)
(* entries; the root is a directory.                                        *)
NoneFree == \A d \in Nodes, x \in Names : Entry(d, x) # Nil => kind[Entry(d, x)] # "free"
OnlyDirs == \A d \in Nodes : ~IsDir(d) => IsEmpty(d)
RootStays == kind[Root] = "dir"

(* The inductive invariant of the namespace. *)
TreeInv == TreeTypes /\ NoneFree /\ OnlyDirs /\ RootStays /\ ChainsEnd /\ LinksAgree

LEMMA RootIsNode == Root \in Nodes /\ Nil \notin Nodes
BY MemTreeAssumption DEF Nodes, Root, Nil

LEMMA EntryType == ASSUME TreeTypes, NEW d \in Nodes, NEW x \in Names
                   PROVE  Entry(d, x) \in Nodes \cup {Nil}
BY DEF TreeTypes, Entry

LEMMA DirsAreDirs == \A d \in Dirs : IsDir(d)
BY DEF Dirs

LEMMA NamedAreNodes == \A n \in Named : n \in Nodes
BY DEF Named

(* The entries of one directory change in one place. *)
PutEntry(t, d, x, n) == [t EXCEPT ![d][x] = n]

LEMMA PutEntryIs ==
  ASSUME NEW t \in [Nodes -> [Names -> Nodes \cup {Nil}]],
         NEW d \in Nodes, NEW x \in Names, NEW n \in Nodes \cup {Nil},
         NEW u, u = PutEntry(t, d, x, n)
  PROVE  /\ u \in [Nodes -> [Names -> Nodes \cup {Nil}]]
         /\ u[d][x] = n
         /\ \A c \in Nodes, y \in Names : (c # d \/ y # x) => u[c][y] = t[c][y]
         /\ \A c \in Nodes : c # d => u[c] = t[c]
BY DEF PutEntry

LEMMA EmptyIs == ASSUME TreeTypes, NEW d \in Nodes
                 PROVE  IsEmpty(d) <=> \A x \in Names : Entry(d, x) = Nil
<1>1. entries[d] \in [Names -> Nodes \cup {Nil}]
  BY DEF TreeTypes
<1>2. QED
  BY <1>1 DEF IsEmpty, NoEntries, Entry


LEMMA TreeStarts == TreeInit => TreeInv
<1> SUFFICES ASSUME TreeInit PROVE TreeInv
  OBVIOUS
<1> USE RootIsNode
<1>1. NoEntries \in [Names -> Nodes \cup {Nil}]
  BY DEF NoEntries
<1>2. TreeTypes
  BY <1>1 DEF TreeInit, TreeTypes
<1>3. \A d \in Nodes, x \in Names : Entry(d, x) = Nil
  BY DEF TreeInit, Entry, NoEntries
<1>4. NoneFree
  BY <1>3 DEF NoneFree
<1>5. OnlyDirs /\ RootStays
  BY DEF TreeInit, OnlyDirs, RootStays, IsEmpty
<1>6. \A n \in Nodes : IsDir(n) => n = Root
  BY DEF TreeInit, IsDir
<1>7. ChainsEnd
  BY <1>6 DEF ChainsEnd
<1>8. LinksAgree
  BY <1>3 DEF LinksAgree, IsDir
<1>9. QED
  BY <1>2, <1>4, <1>5, <1>7, <1>8 DEF TreeInv

(* A new file, whoever makes it. *)
LEMMA CreateKeeps ==
  ASSUME TreeInv, NEW d \in Nodes, IsDir(d), NEW x \in Names, NEW n, CreateFile(d, x, n)
  PROVE  TreeInv'
<1> USE RootIsNode
<1>1. /\ n \in Nodes /\ kind[n] = "free" /\ Entry(d, x) = Nil /\ n # d
      /\ kind' = [kind EXCEPT ![n] = "file"] /\ parent' = parent
  BY DEF CreateFile, IsNew, IsDir
<1>2. entries' = PutEntry(entries, d, x, n)
  BY DEF CreateFile, PutEntry
<1> DEFINE E(c, y) == entries'[c][y]
<1>3. /\ entries' \in [Nodes -> [Names -> Nodes \cup {Nil}]]
      /\ E(d, x) = n
      /\ \A c \in Nodes, y \in Names : (c # d \/ y # x) => E(c, y) = Entry(c, y)
      /\ \A c \in Nodes : c # d => entries'[c] = entries[c]
  <2>1. entries \in [Nodes -> [Names -> Nodes \cup {Nil}]]
    BY DEF TreeInv, TreeTypes
  <2>2. n \in Nodes \cup {Nil}
    BY <1>1
  <2>3. QED
    BY ONLY <1>2, <2>1, <2>2, d \in Nodes, x \in Names, PutEntryIs DEF Entry
<1>4. \A c, y : Entry(c, y)' = E(c, y)
  BY DEF Entry
<1> HIDE DEF E
<1>5. /\ kind' \in [Nodes -> {"free", "dir", "file"}] /\ kind'[n] = "file"
      /\ \A m \in Nodes : m # n => kind'[m] = kind[m]
  BY <1>1 DEF TreeInv, TreeTypes
<1>6. TreeTypes'
  BY <1>1, <1>3, <1>5 DEF TreeInv, TreeTypes
<1>7. NoneFree'
  BY <1>1, <1>3, <1>4, <1>5, EntryType DEF TreeInv, NoneFree
<1>8. \A m \in Nodes : IsDir(m)' <=> IsDir(m)
  BY <1>1, <1>5 DEF IsDir
<1>9. OnlyDirs'
  BY <1>3, <1>8 DEF TreeInv, OnlyDirs, IsEmpty
<1>10. RootStays'
  BY <1>1, <1>5 DEF TreeInv, RootStays
<1>11. ChainsEnd'
  BY <1>1, <1>8 DEF TreeInv, ChainsEnd, IsDir
<1>12. LinksAgree'
  BY <1>1, <1>3, <1>4, <1>5, <1>8 DEF TreeInv, LinksAgree, IsDir
<1>13. QED
  BY <1>6, <1>7, <1>9, <1>10, <1>11, <1>12 DEF TreeInv

(* A new directory: it closes no circle, for nothing can have it as parent. *)
LEMMA MkdirKeeps ==
  ASSUME TreeInv, NEW d \in Nodes, IsDir(d), NEW x \in Names, NEW n, MkdirAt(d, x, n)
  PROVE  TreeInv'
<1> USE RootIsNode
<1>1. /\ n \in Nodes /\ kind[n] = "free" /\ Entry(d, x) = Nil /\ n # d
      /\ kind' = [kind EXCEPT ![n] = "dir"] /\ parent' = [parent EXCEPT ![n] = d]
  BY DEF MkdirAt, IsNew, IsDir
<1>2. entries' = PutEntry(entries, d, x, n)
  BY DEF MkdirAt, PutEntry
<1> DEFINE E(c, y) == entries'[c][y]
<1>3. /\ entries' \in [Nodes -> [Names -> Nodes \cup {Nil}]]
      /\ E(d, x) = n
      /\ \A c \in Nodes, y \in Names : (c # d \/ y # x) => E(c, y) = Entry(c, y)
      /\ \A c \in Nodes : c # d => entries'[c] = entries[c]
  <2>1. entries \in [Nodes -> [Names -> Nodes \cup {Nil}]]
    BY DEF TreeInv, TreeTypes
  <2>2. n \in Nodes \cup {Nil}
    BY <1>1
  <2>3. QED
    BY ONLY <1>2, <2>1, <2>2, d \in Nodes, x \in Names, PutEntryIs DEF Entry
<1>4. \A c, y : Entry(c, y)' = E(c, y)
  BY DEF Entry
<1> HIDE DEF E
<1>5. /\ kind' \in [Nodes -> {"free", "dir", "file"}] /\ kind'[n] = "dir"
      /\ \A m \in Nodes : m # n => kind'[m] = kind[m]
      /\ parent' \in [Nodes -> Nodes \cup {Nil}] /\ parent'[n] = d
      /\ \A m \in Nodes : m # n => parent'[m] = parent[m]
  BY <1>1 DEF TreeInv, TreeTypes
<1>6. TreeTypes'
  BY <1>3, <1>5 DEF TreeInv, TreeTypes
<1>7. NoneFree'
  BY <1>1, <1>3, <1>4, <1>5, EntryType DEF TreeInv, NoneFree
<1> DEFINE D(m) == m \in Nodes /\ kind'[m] = "dir"
<1>8. \A m \in Nodes : D(m) <=> IsDir(m) \/ m = n
  BY <1>1, <1>5 DEF IsDir
<1>9. OnlyDirs'
  BY <1>3, <1>8 DEF TreeInv, OnlyDirs, IsEmpty, IsDir
<1>10. RootStays' /\ n # Root
  BY <1>1, <1>5 DEF TreeInv, RootStays
<1>11. ChainsEnd'
  <2> SUFFICES ASSUME NEW S \in SUBSET {m \in Nodes \ {Root} : D(m)}, S # {}
               PROVE  \E m \in S : D(parent'[m]) /\ parent'[m] \notin S
    BY DEF ChainsEnd, IsDir
  <2> DEFINE T == S \ {n}
  <2>1. T \in SUBSET {m \in Nodes \ {Root} : IsDir(m)}
    BY <1>8
  <2>2. CASE T = {}
    <3>1. S = {n}
      BY <2>2
    <3>2. QED
      BY <3>1, <1>1, <1>5, <1>8
  <2>3. CASE T # {}
    <3>1. PICK m \in T : IsDir(parent[m]) /\ parent[m] \notin T
      BY <2>1, <2>3 DEF TreeInv, ChainsEnd
    <3>2. m \in Nodes /\ m # n /\ parent[m] \in Nodes /\ parent[m] # n
      BY <3>1, <2>1, <1>1 DEF IsDir
    <3>3. QED
      BY <3>1, <3>2, <1>5, <1>8
  <2>4. QED
    BY <2>2, <2>3
<1>12. LinksAgree'
  <2> SUFFICES ASSUME NEW c \in Nodes, NEW y \in Names, D(E(c, y))
               PROVE  /\ parent'[E(c, y)] = c /\ E(c, y) # Root
                      /\ \A z \in Names : E(c, z) = E(c, y) => z = y
    BY <1>4 DEF LinksAgree, IsDir
  <2>1. \A a \in Nodes, z \in Names : Entry(a, z) # n
    BY <1>1 DEF TreeInv, NoneFree, Nil
  <2>2. CASE c = d /\ y = x
    BY <2>2, <2>1, <1>3, <1>5, <1>10
  <2>3. CASE c # d \/ y # x
    <3>1. E(c, y) = Entry(c, y) /\ Entry(c, y) # n
      BY <2>1, <2>3, <1>3
    <3>2. IsDir(Entry(c, y)) /\ Entry(c, y) \in Nodes
      BY <3>1, <1>5 DEF IsDir
    <3>3. /\ parent[Entry(c, y)] = c /\ Entry(c, y) # Root
          /\ \A z \in Names : Entry(c, z) = Entry(c, y) => z = y
      BY <3>2 DEF TreeInv, LinksAgree
    <3>4. QED
      BY <3>1, <3>2, <3>3, <1>3, <1>5
  <2>4. QED
    BY <2>2, <2>3
<1>13. QED
  BY <1>6, <1>7, <1>9, <1>10, <1>11, <1>12 DEF TreeInv

(* An entry goes, as rmdir and unlink have it. *)
LEMMA DropKeeps ==
  ASSUME TreeInv, NEW d \in Nodes, NEW x \in Names,
         entries' = PutEntry(entries, d, x, Nil), kind' = kind, parent' = parent
  PROVE  TreeInv'
<1> USE RootIsNode
<1> DEFINE E(c, y) == entries'[c][y]
<1>1. entries \in [Nodes -> [Names -> Nodes \cup {Nil}]]
  BY DEF TreeInv, TreeTypes
<1>2. /\ entries' \in [Nodes -> [Names -> Nodes \cup {Nil}]]
      /\ \A c \in Nodes, y \in Names : E(c, y) \in {Nil, Entry(c, y)}
      /\ \A c \in Nodes : c # d => entries'[c] = entries[c]
  <2>1. Nil \in Nodes \cup {Nil}
    OBVIOUS
  <2>2. /\ entries' \in [Nodes -> [Names -> Nodes \cup {Nil}]]
        /\ E(d, x) = Nil
        /\ \A c \in Nodes, y \in Names : (c # d \/ y # x) => E(c, y) = Entry(c, y)
        /\ \A c \in Nodes : c # d => entries'[c] = entries[c]
    BY ONLY <1>1, <2>1, entries' = PutEntry(entries, d, x, Nil), d \in Nodes, x \in Names,
            PutEntryIs DEF Entry
  <2>3. QED
    BY <2>2
<1>3. \A c, y : Entry(c, y)' = E(c, y)
  BY DEF Entry
<1> HIDE DEF E
<1>4. \A m : IsDir(m)' <=> IsDir(m)
  BY DEF IsDir
<1>5. TreeTypes'
  BY <1>2 DEF TreeInv, TreeTypes
<1>6. NoneFree'
  BY <1>2, <1>3 DEF TreeInv, NoneFree
<1>7. OnlyDirs'
  <2> SUFFICES ASSUME NEW c \in Nodes, ~IsDir(c) PROVE IsEmpty(c)'
    BY <1>4 DEF OnlyDirs
  <2>1. TreeTypes /\ IsEmpty(c)
    BY DEF TreeInv, OnlyDirs
  <2>2. \A y \in Names : Entry(c, y) = Nil
    BY <2>1, EmptyIs
  <2>3. \A y \in Names : E(c, y) = Nil
    BY <2>2, <1>2
  <2>4. entries'[c] \in [Names -> Nodes \cup {Nil}]
    BY <1>2
  <2>5. QED
    BY <2>3, <2>4 DEF IsEmpty, NoEntries, E
<1>8. RootStays' /\ ChainsEnd'
  BY DEF TreeInv, RootStays, ChainsEnd, IsDir
<1>9. LinksAgree'
  BY <1>2, <1>3, <1>4 DEF TreeInv, LinksAgree, IsDir
<1>10. QED
  BY <1>5, <1>6, <1>7, <1>8, <1>9 DEF TreeInv

(* Another link to a file. *)
LEMMA LinkKeeps ==
  ASSUME TreeInv, NEW d \in Nodes, IsDir(d), NEW x \in Names, NEW n \in Nodes, LinkAt(n, d, x)
  PROVE  TreeInv'
<1> USE RootIsNode
<1>1. kind[n] = "file" /\ Entry(d, x) = Nil /\ kind' = kind /\ parent' = parent
  BY DEF LinkAt
<1>2. entries' = PutEntry(entries, d, x, n)
  BY DEF LinkAt, PutEntry
<1> DEFINE E(c, y) == entries'[c][y]
<1>3. /\ entries' \in [Nodes -> [Names -> Nodes \cup {Nil}]]
      /\ E(d, x) = n
      /\ \A c \in Nodes, y \in Names : (c # d \/ y # x) => E(c, y) = Entry(c, y)
      /\ \A c \in Nodes : c # d => entries'[c] = entries[c]
  <2>1. entries \in [Nodes -> [Names -> Nodes \cup {Nil}]]
    BY DEF TreeInv, TreeTypes
  <2>2. n \in Nodes \cup {Nil}
    OBVIOUS
  <2>3. QED
    BY ONLY <1>2, <2>1, <2>2, d \in Nodes, x \in Names, PutEntryIs DEF Entry
<1>4. \A c, y : Entry(c, y)' = E(c, y)
  BY DEF Entry
<1> HIDE DEF E
<1>5. \A m : IsDir(m)' <=> IsDir(m)
  BY <1>1 DEF IsDir
<1>6. TreeTypes'
  BY <1>1, <1>3 DEF TreeInv, TreeTypes
<1>7. NoneFree'
  BY <1>1, <1>3, <1>4 DEF TreeInv, NoneFree
<1>8. OnlyDirs'
  BY <1>3, <1>5 DEF TreeInv, OnlyDirs, IsEmpty
<1>9. RootStays' /\ ChainsEnd'
  BY <1>1 DEF TreeInv, RootStays, ChainsEnd, IsDir
<1>10. LinksAgree'
  BY <1>1, <1>3, <1>4, <1>5 DEF TreeInv, LinksAgree, IsDir
<1>11. QED
  BY <1>6, <1>7, <1>8, <1>9, <1>10 DEF TreeInv

(* What the two assignments of a rename make of the entries. *)
LEMMA RenameEntries ==
  ASSUME TreeInv, NEW d \in Nodes, NEW x \in Names, NEW e \in Nodes, NEW y \in Names,
         RenameAt(d, x, e, y)
  PROVE  /\ entries' \in [Nodes -> [Names -> Nodes \cup {Nil}]]
         /\ entries'[e][y] = Entry(d, x)
         /\ d # e \/ x # y
         /\ entries'[d][x] = Nil
         /\ \A c \in Nodes, z \in Names : (c # d \/ z # x) /\ (c # e \/ z # y) =>
              entries'[c][z] = Entry(c, z)
         /\ \A c \in Nodes : c # d /\ c # e => entries'[c] = entries[c]
<1>1. PICK t : t = PutEntry(entries, d, x, Nil)
  OBVIOUS
<1>2. entries \in [Nodes -> [Names -> Nodes \cup {Nil}]]
  BY DEF TreeInv, TreeTypes
<1>3. Entry(d, x) \in Nodes \cup {Nil}
  BY EntryType DEF TreeInv
<1>4. entries' = PutEntry(t, e, y, Entry(d, x))
  BY <1>1 DEF RenameAt, PutEntry
<1>5. d # e \/ x # y
  BY DEF RenameAt
<1>6. /\ t \in [Nodes -> [Names -> Nodes \cup {Nil}]]
      /\ t[d][x] = Nil
      /\ \A c \in Nodes, z \in Names : (c # d \/ z # x) => t[c][z] = entries[c][z]
      /\ \A c \in Nodes : c # d => t[c] = entries[c]
  <2>1. Nil \in Nodes \cup {Nil}
    OBVIOUS
  <2>2. QED
    BY ONLY <1>1, <1>2, <2>1, d \in Nodes, x \in Names, PutEntryIs
<1>7. /\ entries' \in [Nodes -> [Names -> Nodes \cup {Nil}]]
      /\ entries'[e][y] = Entry(d, x)
      /\ \A c \in Nodes, z \in Names : (c # e \/ z # y) => entries'[c][z] = t[c][z]
      /\ \A c \in Nodes : c # e => entries'[c] = t[c]
  BY ONLY <1>3, <1>4, <1>6, e \in Nodes, y \in Names, PutEntryIs
<1>8. QED
  BY <1>5, <1>6, <1>7 DEF Entry

(* A rename.  A directory that moves closes no circle: the loop up from its *)
(* new parent has not met it, so the part of a circle that lies on the loop *)
(* would be one without it.                                                 *)
LEMMA RenameKeeps ==
  ASSUME TreeInv, NEW d \in Nodes, IsDir(d), NEW x \in Names,
         NEW e \in Nodes, IsDir(e), NEW y \in Names, RenameAt(d, x, e, y)
  PROVE  TreeInv'
<1> USE RootIsNode
<1>1. PICK n : n = Entry(d, x)
  OBVIOUS
<1>2. /\ n \in Nodes /\ kind' = kind
      /\ IsDir(n) => Outside(n, e) /\ parent' = [parent EXCEPT ![n] = e]
      /\ ~IsDir(n) => parent' = parent
  <2>1. n \in Nodes \cup {Nil}
    BY <1>1, EntryType DEF TreeInv
  <2>2. QED
    BY <1>1, <2>1 DEF RenameAt
<1> DEFINE E(c, z) == entries'[c][z]
<1>3. /\ entries' \in [Nodes -> [Names -> Nodes \cup {Nil}]]
      /\ E(e, y) = n /\ E(d, x) = Nil /\ (d # e \/ x # y)
      /\ \A c \in Nodes, z \in Names : (c # d \/ z # x) /\ (c # e \/ z # y) =>
              E(c, z) = Entry(c, z)
      /\ \A c \in Nodes : c # d /\ c # e => entries'[c] = entries[c]
  BY <1>1, RenameEntries
<1>4. \A c, z : Entry(c, z)' = E(c, z)
  BY DEF Entry
<1> HIDE DEF E
<1>5. \A m : IsDir(m)' <=> IsDir(m)
  BY <1>2 DEF IsDir
<1>6. parent' \in [Nodes -> Nodes \cup {Nil}] /\ \A m \in Nodes : m # n => parent'[m] = parent[m]
  BY <1>2 DEF TreeInv, TreeTypes
<1>7. TreeTypes'
  BY <1>2, <1>3, <1>6 DEF TreeInv, TreeTypes
<1>8. NoneFree'
  <2>1. kind[n] # "free"
    BY <1>1, <1>2 DEF TreeInv, NoneFree
  <2>2. QED
    BY <2>1, <1>2, <1>3, <1>4 DEF TreeInv, NoneFree
<1>9. OnlyDirs'
  BY <1>3, <1>5 DEF TreeInv, OnlyDirs, IsEmpty
<1>10. RootStays'
  BY <1>2 DEF TreeInv, RootStays
<1>11. ChainsEnd'
  <2>1. CASE ~IsDir(n)
    BY <2>1, <1>2 DEF TreeInv, ChainsEnd, IsDir
  <2>2. CASE IsDir(n)
    <3>1. parent'[n] = e
      BY <2>2, <1>2 DEF TreeInv, TreeTypes
    <3>2. PICK A \in SUBSET Nodes : e \in A /\ n \notin A /\ \A a \in A \ {Root} : parent[a] \in A
      BY <2>2, <1>2 DEF Outside
    <3> SUFFICES ASSUME NEW S \in SUBSET {m \in Nodes \ {Root} : IsDir(m)}, S # {}
                 PROVE  \E m \in S : parent'[m] \in Nodes /\ kind[parent'[m]] = "dir" /\ parent'[m] \notin S
      BY <1>2 DEF ChainsEnd, IsDir
    <3>3. CASE n \notin S
      <4>1. PICK m \in S : IsDir(parent[m]) /\ parent[m] \notin S
        BY DEF TreeInv, ChainsEnd
      <4>2. QED
        BY <4>1, <3>3, <1>6 DEF IsDir
    <3>4. CASE n \in S /\ e \notin S
      BY <3>1, <3>4 DEF IsDir
    <3>5. CASE n \in S /\ e \in S
      <4>1. S \cap A \in SUBSET {m \in Nodes \ {Root} : IsDir(m)} /\ S \cap A # {}
        BY <3>2, <3>5
      <4>2. PICK m \in S \cap A : IsDir(parent[m]) /\ parent[m] \notin S \cap A
        BY <4>1 DEF TreeInv, ChainsEnd
      <4>3. m \in Nodes /\ m # Root /\ m # n /\ parent[m] \in A
        BY <4>1, <4>2, <3>2
      <4>4. QED
        BY <4>2, <4>3, <1>6 DEF IsDir
    <3>6. QED
      BY <3>3, <3>4, <3>5
  <2>3. QED
    BY <2>1, <2>2
<1>12. LinksAgree'
  <2> SUFFICES ASSUME NEW c \in Nodes, NEW z \in Names, IsDir(E(c, z))
               PROVE  /\ parent'[E(c, z)] = c /\ E(c, z) # Root
                      /\ \A w \in Names : E(c, w) = E(c, z) => w = z
    BY <1>2, <1>4 DEF LinksAgree, IsDir
  <2>1. E(c, z) # Nil /\ (c # d \/ z # x)
    BY <1>3 DEF IsDir
  <2>2. \A a \in Nodes, w \in Names : Entry(a, w) = n /\ IsDir(n) => a = d /\ w = x
    BY <1>1, <1>2 DEF TreeInv, LinksAgree
  <2>3. CASE c = e /\ z = y
    <3>1. IsDir(n) /\ parent'[n] = e
      BY <2>3, <1>2, <1>3 DEF TreeInv, TreeTypes
    <3>2. n # Root
      BY <3>1, <1>1 DEF TreeInv, LinksAgree
    <3>3. \A w \in Names : w # y => E(e, w) # n
      BY <2>2, <3>1, <1>2, <1>3
    <3>4. QED
      BY <2>3, <3>1, <3>2, <3>3, <1>3
  <2>4. CASE c # e \/ z # y
    <3>1. E(c, z) = Entry(c, z)
      BY <2>1, <2>4, <1>3
    <3>2. IsDir(Entry(c, z)) /\ Entry(c, z) # n /\ Entry(c, z) \in Nodes
      <4>1. IsDir(Entry(c, z))
        BY <3>1
      <4>2. QED
        BY <4>1, <2>1, <2>2 DEF IsDir
    <3>3. /\ parent[Entry(c, z)] = c /\ Entry(c, z) # Root
          /\ \A w \in Names : Entry(c, w) = Entry(c, z) => w = z
      BY <3>2 DEF TreeInv, LinksAgree
    <3>4. \A w \in Names : E(c, w) = E(c, z) => w = z
      <4> SUFFICES ASSUME NEW w \in Names, E(c, w) = E(c, z) PROVE w = z
        OBVIOUS
      <4>1. E(c, w) # n /\ E(c, w) # Nil
        BY <3>1, <3>2
      <4>2. E(c, w) = Entry(c, w)
        BY <4>1, <1>3
      <4>3. QED
        BY <4>2, <3>1, <3>3
    <3>5. QED
      BY <3>1, <3>2, <3>3, <3>4, <1>6
  <2>5. QED
    BY <2>3, <2>4
<1>13. QED
  BY <1>7, <1>8, <1>9, <1>10, <1>11, <1>12 DEF TreeInv

(* Reached is closed, and the smallest set that is. *)
LEMMA ReachedIsClosed == ASSUME TreeTypes PROVE Closed(Reached) /\ Reached \subseteq Nodes
<1> USE RootIsNode
<1>1. Root \in Reached
  BY DEF Reached, Closed
<1>2. ASSUME NEW d \in Reached, NEW x \in Names, IsDir(d), Entry(d, x) # Nil
      PROVE  Entry(d, x) \in Reached
  <2>1. d \in Nodes /\ Entry(d, x) \in Nodes
    BY <1>2, EntryType DEF Reached
  <2>2. \A S \in SUBSET Nodes : Closed(S) => d \in S
    BY DEF Reached
  <2>3. \A S \in SUBSET Nodes : Closed(S) => Entry(d, x) \in S
    BY <2>2, <1>2 DEF Closed
  <2>4. QED
    BY <2>1, <2>3 DEF Reached
<1>3. Reached \subseteq Nodes
  BY DEF Reached
<1>4. QED
  BY <1>1, <1>2, <1>3 DEF Closed

LEMMA ReachedIsLeast == ASSUME NEW S \in SUBSET Nodes, Closed(S) PROVE Reached \subseteq S
BY DEF Reached

(* A copy: the walk from the root comes to a directory from its parent.     *)
LEMMA CloneKeeps == ASSUME TreeInv, Clone PROVE TreeInv'
<1> USE RootIsNode
<1>1. TreeTypes /\ Closed(Reached) /\ Reached \subseteq Nodes
  BY ReachedIsClosed DEF TreeInv
<1>2. PICK R : R = Reached
  OBVIOUS
<1>3. Root \in R /\ R \subseteq Nodes
  BY <1>1, <1>2 DEF Closed
<1>4. PICK from \in [{n \in R \ {Root} : IsDir(n)} -> R] :
        /\ \A n \in DOMAIN from : \E x \in Names : Entry(from[n], x) = n
        /\ parent' = [n \in Nodes |-> IF n = Root THEN Root
                                     ELSE IF n \in DOMAIN from THEN from[n] ELSE Nil]
  BY <1>2 DEF Clone
<1>5. /\ kind' = [n \in Nodes |-> IF n \in R THEN kind[n] ELSE "free"]
      /\ entries' = [n \in Nodes |-> IF n \in R THEN entries[n] ELSE NoEntries]
  BY <1>2 DEF Clone
<1>6. /\ kind' \in [Nodes -> {"free", "dir", "file"}]
      /\ \A n \in Nodes : kind'[n] = IF n \in R THEN kind[n] ELSE "free"
  BY <1>1, <1>5 DEF TreeTypes
<1>7. /\ entries' \in [Nodes -> [Names -> Nodes \cup {Nil}]]
      /\ \A n \in Nodes : entries'[n] = IF n \in R THEN entries[n] ELSE NoEntries
  <2>1. NoEntries \in [Names -> Nodes \cup {Nil}]
    BY DEF NoEntries
  <2>2. QED
    BY <2>1, <1>1, <1>5 DEF TreeTypes
<1>8. ASSUME NEW n \in R, n # Root, IsDir(n)
      PROVE  parent'[n] = parent[n] /\ parent[n] \in R /\ IsDir(parent[n])
  <2>1. n \in DOMAIN from /\ from[n] \in R /\ from[n] \in Nodes /\ n \in Nodes
    BY <1>8, <1>3, <1>4
  <2>2. PICK x \in Names : Entry(from[n], x) = n
    BY <2>1, <1>4
  <2>3. parent[n] = from[n]
    BY <2>1, <2>2, <1>8 DEF TreeInv, LinksAgree
  <2>4. IsDir(from[n])
    BY <2>1, <2>2, <1>1, EmptyIs DEF TreeInv, OnlyDirs
  <2>5. parent'[n] = from[n]
    BY <2>1, <1>4, <1>8
  <2>6. QED
    BY <2>1, <2>3, <2>4, <2>5
<1> DEFINE D(n) == n \in Nodes /\ kind'[n] = "dir"
           E(c, z) == entries'[c][z]
<1>9. \A n \in Nodes : D(n) <=> IsDir(n) /\ n \in R
  BY <1>6 DEF IsDir
<1>10. \A c \in Nodes, z \in Names : E(c, z) = IF c \in R THEN Entry(c, z) ELSE Nil
  BY <1>7 DEF Entry, NoEntries
<1>11. parent' \in [Nodes -> Nodes \cup {Nil}]
  BY <1>3, <1>4
<1>12. TreeTypes'
  BY <1>6, <1>7, <1>11 DEF TreeTypes
<1>13. \A c \in R, z \in Names : E(c, z) # Nil => E(c, z) \in R
  <2> SUFFICES ASSUME NEW c \in R, NEW z \in Names, Entry(c, z) # Nil PROVE Entry(c, z) \in R
    BY <1>3, <1>10
  <2>1. IsDir(c)
    BY <1>3, <1>1, EmptyIs DEF TreeInv, OnlyDirs
  <2>2. QED
    BY <2>1, <1>1, <1>2 DEF Closed
<1> HIDE DEF D, E
<1>14. NoneFree'
  <2> SUFFICES ASSUME NEW c \in Nodes, NEW z \in Names, E(c, z) # Nil PROVE kind'[E(c, z)] # "free"
    BY DEF NoneFree, Entry, E
  <2>1. c \in R /\ E(c, z) = Entry(c, z) /\ E(c, z) \in R /\ E(c, z) \in Nodes
    BY <1>3, <1>10, <1>13
  <2>2. kind[Entry(c, z)] # "free"
    BY <2>1 DEF TreeInv, NoneFree
  <2>3. QED
    BY <2>1, <2>2, <1>6
<1>15. OnlyDirs'
  <2> SUFFICES ASSUME NEW c \in Nodes, ~D(c) PROVE entries'[c] = NoEntries
    BY DEF OnlyDirs, IsEmpty, IsDir, D
  <2>1. c \in R => ~IsDir(c)
    BY <1>9
  <2>2. QED
    BY <2>1, <1>7 DEF TreeInv, OnlyDirs, IsEmpty
<1>16. RootStays'
  BY <1>3, <1>6 DEF TreeInv, RootStays
<1>17. ChainsEnd'
  <2> SUFFICES ASSUME NEW S \in SUBSET {n \in Nodes \ {Root} : D(n)}, S # {}
               PROVE  \E n \in S : D(parent'[n]) /\ parent'[n] \notin S
    BY DEF ChainsEnd, IsDir, D
  <2>1. S \in SUBSET {n \in Nodes \ {Root} : IsDir(n)}
    BY <1>9
  <2>2. PICK n \in S : IsDir(parent[n]) /\ parent[n] \notin S
    BY <2>1 DEF TreeInv, ChainsEnd
  <2>3. n \in R /\ n # Root /\ IsDir(n)
    BY <2>2, <1>9
  <2>4. parent'[n] = parent[n] /\ parent[n] \in R
    BY <2>3, <1>8
  <2>5. QED
    BY <2>2, <2>4, <1>3, <1>9
<1>18. LinksAgree'
  <2> SUFFICES ASSUME NEW c \in Nodes, NEW z \in Names, D(E(c, z))
               PROVE  /\ parent'[E(c, z)] = c /\ E(c, z) # Root
                      /\ \A w \in Names : E(c, w) = E(c, z) => w = z
    BY DEF LinksAgree, IsDir, D, E, Entry
  <2>1. E(c, z) \in Nodes /\ E(c, z) # Nil
    BY DEF D
  <2>2. c \in R /\ E(c, z) = Entry(c, z) /\ IsDir(Entry(c, z)) /\ E(c, z) \in R
    BY <2>1, <1>9, <1>10
  <2>3. /\ parent[Entry(c, z)] = c /\ Entry(c, z) # Root
        /\ \A w \in Names : Entry(c, w) = Entry(c, z) => w = z
    BY <2>2 DEF TreeInv, LinksAgree
  <2>4. parent'[E(c, z)] = c
    BY <2>2, <2>3, <1>8
  <2>5. QED
    BY <2>2, <2>3, <2>4, <1>10
<1>19. QED
  BY <1>12, <1>14, <1>15, <1>16, <1>17, <1>18 DEF TreeInv

(* The components that AddTar has to make are names. *)
TodoInv == todo \in Seq(Names)

LEMMA TodoStep == ASSUME TodoInv, [TreeNext]_treeVars PROVE TodoInv'
<1>1. ASSUME NEW name \in UNION {[1..k -> Names] : k \in 1..(Depth + 1)}, NEW t, TarEntry(name, t)
      PROVE  TodoInv'
  <2>1. PICK k \in 1..(Depth + 1) : name \in [1..k -> Names]
    OBVIOUS
  <2>2. k \in Nat
    BY MemTreeAssumption
  <2>3. QED
    BY <1>1, <2>1, <2>2 DEF TarEntry, TodoInv
<1>2. ASSUME NEW n \in Nodes, MkdirAll(n) \/ TarFile(n) PROVE TodoInv'
  <2>1. \/ todo # <<>> /\ todo' = Tail(todo)
        \/ todo' = <<>>
    BY <1>2 DEF MkdirAll, TarFile
  <2>2. <<>> \in Seq(Names)
    BY EmptySeq
  <2>3. todo # <<>> => Tail(todo) \in Seq(Names)
    BY HeadTailProperties DEF TodoInv
  <2>4. QED
    BY <2>1, <2>2, <2>3, Zenon DEF TodoInv
<1>3. CASE TarEnd \/ TarFails
  BY <1>3 DEF TarEnd, TarFails, TodoInv
<1>4. CASE UNCHANGED treeVars \/ UNCHANGED loadVars
  BY <1>4 DEF treeVars, loadVars, TodoInv
<1>5. QED
  BY <1>1, <1>2, <1>3, <1>4 DEF TreeNext, AddTar

LEMMA FirstIsName == ASSUME TodoInv, todo # <<>> PROVE Head(todo) \in Names
BY DEF TodoInv

(* Every step keeps the tree a tree. *)
LEMMA TreeStep == ASSUME TreeInv, TodoInv, [TreeNext]_treeVars PROVE TreeInv'
<1>1. ASSUME UNCHANGED tree PROVE TreeInv'
  <2>1. kind' = kind /\ entries' = entries /\ parent' = parent
    BY <1>1 DEF tree
  <2>2. QED
    BY <2>1 DEF TreeInv, TreeTypes, NoneFree, OnlyDirs, RootStays, ChainsEnd, LinksAgree, IsDir, Entry, IsEmpty
<1>2. CASE UNCHANGED treeVars
  BY <1>1, <1>2 DEF treeVars
<1>3. CASE AddTar
  <2>1. ASSUME NEW name, NEW t, TarEntry(name, t) PROVE TreeInv'
    BY <1>1, <2>1 DEF TarEntry
  <2>2. ASSUME NEW n \in Nodes, MkdirAll(n) PROVE TreeInv'
    <3>1. IsDir(here) /\ here \in Nodes
      BY <2>2 DEF MkdirAll, IsDir
    <3>2. CASE UNCHANGED tree
      BY <1>1, <3>2
    <3>3. CASE MkdirAt(here, Head(todo), n) /\ Head(todo) \in Names
      BY <3>1, <3>3, MkdirKeeps
    <3>4. QED
      BY <2>2, <3>2, <3>3, FirstIsName DEF MkdirAll
  <2>3. ASSUME NEW n \in Nodes, TarFile(n) PROVE TreeInv'
    <3>1. IsDir(here) /\ here \in Nodes
      BY <2>3 DEF TarFile, IsDir
    <3>2. CASE UNCHANGED tree
      BY <1>1, <3>2
    <3>3. CASE CreateFile(here, Head(todo), n) /\ Head(todo) \in Names
      BY <3>1, <3>3, CreateKeeps
    <3>4. Head(todo) \in Names
      <4>1. todo # <<>>
        BY <2>3 DEF TarFile
      <4>2. QED
        BY <4>1, FirstIsName
    <3>5. QED
      BY <2>3, <3>2, <3>3, <3>4 DEF TarFile
  <2>4. CASE TarEnd \/ TarFails
    BY <1>1, <2>4 DEF TarEnd, TarFails
  <2>5. QED
    BY <1>3, <2>1, <2>2, <2>3, <2>4 DEF AddTar
<1>4. CASE Operation
  <2>1. ASSUME NEW h \in Handles,
               Close(h) \/ (\E n \in Named : Open(h, n)) \/ (\E c \in {0, 1} : ReadDir(h, c))
        PROVE  TreeInv'
    BY <1>1, <2>1 DEF Close, Open, ReadDir
  <2>2. ASSUME NEW d \in Dirs, NEW x \in Names PROVE d \in Nodes /\ IsDir(d)
    BY <2>2, DirsAreDirs DEF IsDir
  <2>3. ASSUME NEW d \in Dirs, NEW x \in Names, RmdirAt(d, x) \/ UnlinkAt(d, x) PROVE TreeInv'
    <3>1. entries' = PutEntry(entries, d, x, Nil) /\ kind' = kind /\ parent' = parent
      BY <2>3 DEF RmdirAt, UnlinkAt, PutEntry
    <3>2. QED
      BY <3>1, <2>2, DropKeeps
  <2>4. ASSUME NEW d \in Dirs, NEW x \in Names, NEW n \in Nodes, CreateFile(d, x, n) \/ MkdirAt(d, x, n)
        PROVE  TreeInv'
    BY <2>2, <2>4, CreateKeeps, MkdirKeeps
  <2>5. ASSUME NEW d \in Dirs, NEW x \in Names, NEW n \in Named, LinkAt(n, d, x) PROVE TreeInv'
    BY <2>2, <2>5, LinkKeeps, NamedAreNodes
  <2>6. ASSUME NEW d \in Dirs, NEW x \in Names, NEW e \in Dirs, NEW y \in Names, RenameAt(d, x, e, y)
        PROVE  TreeInv'
    BY <2>2, <2>6, RenameKeeps
  <2>7. QED
    BY <1>4, <2>1, <2>3, <2>4, <2>5, <2>6, CloneKeeps DEF Operation
<1>5. QED
  BY <1>2, <1>3, <1>4 DEF TreeNext

(* The namespace is a tree: every chain of parents ends at the root, also   *)
(* those of directories that were removed while they are open, and entries  *)
(* and parents agree, whatever is created, removed, linked, renamed, cloned *)
(* and unpacked.                                                            *)
THEOREM TreesStayIntact == TreeSpec => []TreeIntact
<1>1. TreeInit => TreeInv /\ TodoInv
  BY TreeStarts DEF TreeInit, TodoInv
<1>2. TreeInv /\ TodoInv /\ [TreeNext]_treeVars => TreeInv' /\ TodoInv'
  BY TreeStep, TodoStep
<1>3. TreeInv => TreeIntact
  BY DEF TreeInv, TreeIntact
<1>4. QED
  BY <1>1, <1>2, <1>3, PTL DEF TreeSpec

-----------------------------------------------------------------------------
(* What a step makes unreachable. *)

(* The clause of NothingLost. *)
Kept == Cardinality(Lost) <= 1 /\ \A n \in Lost : IsDir(n) => IsEmpty(n)

(* Losing one node, which holds nothing, is within it. *)
LEMMA OneLost == ASSUME NEW m, Lost \subseteq {m}, m \in Lost => (IsDir(m) => IsEmpty(m)) PROVE Kept
<1>1. Lost = {} \/ Lost = {m}
  OBVIOUS
<1>2. Cardinality(Lost) <= 1
  BY <1>1, FS_EmptySet, FS_Singleton
<1>3. QED
  BY <1>2 DEF Kept

LEMMA NoneLost == ASSUME Lost = {} PROVE Kept
BY FS_EmptySet DEF Kept

(* The same two facts about Reached, after a step. *)
LEMMA ReachedNext ==
  ASSUME TreeTypes'
  PROVE  /\ Root \in Reached' /\ Reached' \subseteq Nodes
         /\ \A d \in Reached', x \in Names : kind'[d] = "dir" /\ entries'[d][x] # Nil => entries'[d][x] \in Reached'
<1>1. (TreeTypes => Closed(Reached) /\ Reached \subseteq Nodes)'
  BY ReachedIsClosed, PTL
<1>2. QED
  BY <1>1 DEF Closed, IsDir, Entry

(* A step that takes no entry away loses nothing. *)
LEMMA AddLosesNothing ==
  ASSUME TreeTypes, TreeTypes',
         \A d \in Nodes : IsDir(d) => kind'[d] = "dir",
         \A d \in Nodes, x \in Names : Entry(d, x) # Nil => entries'[d][x] = Entry(d, x)
  PROVE  Lost = {}
<1>1. PICK S : S = Reached'
  OBVIOUS
<1>2. /\ Root \in S /\ S \subseteq Nodes
      /\ \A d \in S, x \in Names : kind'[d] = "dir" /\ entries'[d][x] # Nil => entries'[d][x] \in S
  BY <1>1, ReachedNext
<1>3. Closed(S)
  BY <1>2 DEF Closed
<1>4. Reached \subseteq S
  BY <1>2, <1>3, ReachedIsLeast
<1>5. QED
  BY <1>1, <1>4 DEF Lost

(* A step that drops the entry of something that holds nothing loses no     *)
(* more than that.                                                          *)
LEMMA DropLosesOne ==
  ASSUME TreeInv, TreeInv', NEW d \in Nodes, NEW x \in Names, kind' = kind,
         entries' = PutEntry(entries, d, x, Nil),
         Entry(d, x) # Nil, IsDir(Entry(d, x)) => IsEmpty(Entry(d, x))
  PROVE  Kept
<1> USE RootIsNode
<1>1. PICK S : S = Reached'
  OBVIOUS
<1>2. PICK m : m = Entry(d, x)
  OBVIOUS
<1>3. /\ Root \in S /\ S \subseteq Nodes
      /\ \A c \in S, y \in Names : kind'[c] = "dir" /\ entries'[c][y] # Nil => entries'[c][y] \in S
  BY <1>1, ReachedNext DEF TreeInv
<1>4. m \in Nodes /\ TreeTypes
  BY <1>2, EntryType DEF TreeInv
<1>5. \A y \in Names : Entry(m, y) = Nil
  <2>1. IsEmpty(m)
    BY <1>2, <1>4 DEF TreeInv, OnlyDirs
  <2>2. QED
    BY <1>4, <2>1, EmptyIs
<1>6. \A c \in Nodes, y \in Names : (c # d \/ y # x) => entries'[c][y] = Entry(c, y)
  <2>1. entries \in [Nodes -> [Names -> Nodes \cup {Nil}]] /\ Nil \in Nodes \cup {Nil}
    BY <1>4 DEF TreeTypes
  <2>2. QED
    BY ONLY <2>1, entries' = PutEntry(entries, d, x, Nil), d \in Nodes, x \in Names, PutEntryIs DEF Entry
<1>7. Closed(S \cup {m})
  <2> SUFFICES ASSUME NEW c \in S \cup {m}, NEW y \in Names, IsDir(c), Entry(c, y) # Nil
               PROVE  Entry(c, y) \in S \cup {m}
    BY <1>3 DEF Closed
  <2>1. c \in S
    BY <1>5
  <2>2. CASE c = d /\ y = x
    BY <1>2, <2>2
  <2>3. CASE c # d \/ y # x
    BY <2>1, <2>3, <1>3, <1>6 DEF IsDir
  <2>4. QED
    BY <2>2, <2>3
<1>8. Reached \subseteq S \cup {m}
  BY <1>3, <1>4, <1>7, ReachedIsLeast
<1>9. Lost \subseteq {m}
  BY <1>1, <1>8 DEF Lost
<1>10. QED
  BY <1>9, <1>2, OneLost

(* A rename to a directory that stays reachable loses what it replaces. *)
LEMMA RenameReplaces ==
  ASSUME TreeInv, TreeInv', NEW d \in Nodes, IsDir(d), NEW x \in Names,
         NEW e \in Nodes, IsDir(e), NEW y \in Names, RenameAt(d, x, e, y), e \in Reached'
  PROVE  Kept
<1> USE RootIsNode
<1>1. PICK S : S = Reached'
  OBVIOUS
<1>2. PICK n, t : n = Entry(d, x) /\ t = Entry(e, y)
  OBVIOUS
<1>3. /\ Root \in S /\ S \subseteq Nodes
      /\ \A c \in S, z \in Names : kind'[c] = "dir" /\ entries'[c][z] # Nil => entries'[c][z] \in S
  BY <1>1, ReachedNext DEF TreeInv
<1>4. /\ n \in Nodes /\ t \in Nodes \cup {Nil} /\ kind' = kind /\ CanReplace(n, t)
  <2>1. n \in Nodes \cup {Nil} /\ t \in Nodes \cup {Nil}
    BY <1>2, EntryType DEF TreeInv
  <2>2. QED
    BY <1>2, <2>1 DEF RenameAt
<1>5. /\ entries'[e][y] = n
      /\ \A c \in Nodes, z \in Names : (c # d \/ z # x) /\ (c # e \/ z # y) => entries'[c][z] = Entry(c, z)
  BY <1>2, RenameEntries
<1>6. n \in S
  BY <1>1, <1>3, <1>4, <1>5 DEF IsDir
<1>7. t # Nil => IsEmpty(t) /\ \A z \in Names : Entry(t, z) = Nil
  <2> SUFFICES ASSUME t # Nil PROVE IsEmpty(t) /\ \A z \in Names : Entry(t, z) = Nil
    OBVIOUS
  <2>1. t \in Nodes /\ (IsDir(t) => IsEmpty(t))
    BY <1>4 DEF CanReplace
  <2>2. IsEmpty(t)
    BY <2>1 DEF TreeInv, OnlyDirs
  <2>3. QED
    BY <2>1, <2>2, EmptyIs DEF TreeInv
<1> DEFINE T == S \cup ({t} \ {Nil})
<1>8. Closed(T)
  <2> SUFFICES ASSUME NEW c \in T, NEW z \in Names, IsDir(c), Entry(c, z) # Nil
               PROVE  Entry(c, z) \in T
    BY <1>3 DEF Closed
  <2>1. c \in S
    BY <1>7
  <2>2. CASE c = d /\ z = x
    BY <1>2, <1>6, <2>2
  <2>3. CASE c = e /\ z = y
    BY <1>2, <2>3
  <2>4. CASE (c # d \/ z # x) /\ (c # e \/ z # y)
    BY <2>1, <2>4, <1>3, <1>4, <1>5 DEF IsDir
  <2>5. QED
    BY <2>2, <2>3, <2>4
<1>9. T \in SUBSET Nodes
  BY <1>3, <1>4
<1>10. Reached \subseteq T
  BY <1>8, <1>9, ReachedIsLeast
<1>11. Lost \subseteq {t} /\ (t \in Lost => t # Nil)
  <2>1. Reached \subseteq Nodes
    BY DEF Reached
  <2>2. QED
    BY <1>1, <1>10, <2>1 DEF Lost
<1>12. QED
  BY <1>7, <1>11, OneLost

(* A file that is moved into a directory which is not reachable: only that  *)
(* file can go.                                                             *)
LEMMA RenameFileAway ==
  ASSUME TreeInv, TreeInv', NEW d \in Nodes, IsDir(d), NEW x \in Names,
         NEW e \in Nodes, NEW y \in Names, RenameAt(d, x, e, y), e \notin Reached', ~IsDir(Entry(d, x))
  PROVE  Kept
<1> USE RootIsNode
<1>1. PICK S : S = Reached'
  OBVIOUS
<1>2. PICK n : n = Entry(d, x)
  OBVIOUS
<1>3. /\ Root \in S /\ S \subseteq Nodes
      /\ \A c \in S, z \in Names : kind'[c] = "dir" /\ entries'[c][z] # Nil => entries'[c][z] \in S
  BY <1>1, ReachedNext DEF TreeInv
<1>4. n \in Nodes /\ kind' = kind
  <2>1. n \in Nodes \cup {Nil}
    BY <1>2, EntryType DEF TreeInv
  <2>2. QED
    BY <1>2, <2>1 DEF RenameAt
<1>5. \A c \in Nodes, z \in Names : (c # d \/ z # x) /\ (c # e \/ z # y) => entries'[c][z] = Entry(c, z)
  BY <1>2, RenameEntries
<1>6. Closed(S \cup {n})
  <2> SUFFICES ASSUME NEW c \in S \cup {n}, NEW z \in Names, IsDir(c), Entry(c, z) # Nil
               PROVE  Entry(c, z) \in S \cup {n}
    BY <1>3 DEF Closed
  <2>1. c \in S /\ c # e
    BY <1>1, <1>2
  <2>2. CASE c = d /\ z = x
    BY <1>2, <2>2
  <2>3. CASE c # d \/ z # x
    BY <2>1, <2>3, <1>3, <1>4, <1>5 DEF IsDir
  <2>4. QED
    BY <2>2, <2>3
<1>7. Reached \subseteq S \cup {n}
  BY <1>3, <1>4, <1>6, ReachedIsLeast
<1>8. Lost \subseteq {n}
  BY <1>1, <1>7 DEF Lost
<1>9. QED
  BY <1>2, <1>8, OneLost

(* A directory that cannot be reached is moved into another one: the part   *)
(* of the tree that can be reached is as it was.                            *)
LEMMA RenameElsewhere ==
  ASSUME TreeInv, TreeInv', NEW d \in Nodes, IsDir(d), NEW x \in Names,
         NEW e \in Nodes, NEW y \in Names, RenameAt(d, x, e, y), e \notin Reached', Entry(d, x) \notin Reached
  PROVE  Kept
<1> USE RootIsNode
<1>1. PICK S : S = Reached'
  OBVIOUS
<1>2. PICK R : R = Reached
  OBVIOUS
<1>3. /\ Root \in S /\ S \subseteq Nodes
      /\ \A c \in S, z \in Names : kind'[c] = "dir" /\ entries'[c][z] # Nil => entries'[c][z] \in S
  BY <1>1, ReachedNext DEF TreeInv
<1>4. kind' = kind /\ Entry(d, x) # Nil
  BY DEF RenameAt
<1>5. /\ Root \in R /\ R \subseteq Nodes
      /\ \A c \in R, z \in Names : IsDir(c) /\ Entry(c, z) # Nil => Entry(c, z) \in R
  BY <1>2, ReachedIsClosed DEF TreeInv, Closed
<1>6. \A c \in Nodes, z \in Names : (c # d \/ z # x) /\ (c # e \/ z # y) => entries'[c][z] = Entry(c, z)
  BY RenameEntries
<1>7. d \notin R
  BY <1>2, <1>4, <1>5
<1>8. Closed(R \cap S)
  <2> SUFFICES ASSUME NEW c \in R \cap S, NEW z \in Names, IsDir(c), Entry(c, z) # Nil
               PROVE  Entry(c, z) \in R \cap S
    BY <1>3, <1>5 DEF Closed
  <2>1. c # d /\ c # e
    BY <1>1, <1>7
  <2>2. QED
    BY <2>1, <1>3, <1>4, <1>5, <1>6 DEF IsDir
<1>9. Reached \subseteq R \cap S
  BY <1>3, <1>8, ReachedIsLeast
<1>10. QED
  BY <1>1, <1>9, NoneLost DEF Lost

(* A directory that can be reached is moved into one that cannot be reached *)
(* after the step: it could not before either, for what does not lie below  *)
(* the directory that moves stays reachable.                                *)
LEMMA RenameAway ==
  ASSUME TreeInv, TreeInv', NEW d \in Nodes, IsDir(d), NEW x \in Names,
         NEW e \in Nodes, IsDir(e), NEW y \in Names, RenameAt(d, x, e, y), e \notin Reached',
         IsDir(Entry(d, x)), Entry(d, x) \in Reached
  PROVE  MovedAway
<1> USE RootIsNode
<1>1. PICK S : S = Reached'
  OBVIOUS
<1>2. PICK n : n = Entry(d, x)
  OBVIOUS
<1>3. /\ Root \in S /\ S \subseteq Nodes
      /\ \A c \in S, z \in Names : kind'[c] = "dir" /\ entries'[c][z] # Nil => entries'[c][z] \in S
  BY <1>1, ReachedNext DEF TreeInv
<1>4. n \in Nodes /\ kind' = kind /\ Outside(n, e) /\ parent'[n] = e
  <2>1. n \in Nodes
    BY <1>2 DEF IsDir
  <2>2. QED
    BY <1>2, <2>1 DEF RenameAt, TreeInv, TreeTypes
<1>5. /\ entries'[d][x] = Nil /\ entries'[e][y] = n
      /\ \A c \in Nodes, z \in Names : (c # d \/ z # x) /\ (c # e \/ z # y) => entries'[c][z] = Entry(c, z)
  BY <1>2, RenameEntries
<1>6. n # Root /\ \A c \in Nodes, z \in Names : Entry(c, z) = n => c = d /\ z = x
  BY <1>2 DEF TreeInv, LinksAgree
<1>7. n \notin S
  <2> DEFINE T == S \ {n}
  <2>1. \A c \in Nodes, z \in Names : c # e => entries'[c][z] # n
    BY <1>4, <1>5, <1>6
  <2>2. (Closed(T))'
    <3>1. \A c \in T, z \in Names : kind'[c] = "dir" /\ entries'[c][z] # Nil => entries'[c][z] \in T
      BY <1>1, <1>3, <2>1
    <3>2. Root \in T
      BY <1>3, <1>6
    <3>3. PICK U : U = T
      OBVIOUS
    <3>4. (Closed(U))'
      BY <3>1, <3>2, <3>3 DEF Closed, IsDir, Entry
    <3>5. QED
      BY <3>3, <3>4
  <2>3. T \in SUBSET Nodes
    BY <1>3
  <2>4. S \subseteq T
    BY <1>1, <2>2, <2>3 DEF Reached
  <2>5. QED
    BY <2>4
<1>8. e \notin Reached
  <2>1. PICK A \in SUBSET Nodes : e \in A /\ n \notin A /\ \A a \in A \ {Root} : parent[a] \in A
    BY <1>4 DEF Outside
  <2> DEFINE B == {a \in A : IsDir(a)}
             U == S \cup (Nodes \ B)
  <2>2. Closed(U)
    <3> SUFFICES ASSUME NEW c \in U, NEW z \in Names, IsDir(c), Entry(c, z) # Nil, Entry(c, z) \in B
                 PROVE  Entry(c, z) \in S
      <4>1. Root \in U
        BY <1>3
      <4>2. \A c \in U, z \in Names : Entry(c, z) \in Nodes \cup {Nil}
        BY <1>3, EntryType DEF TreeInv
      <4>3. QED
        BY <4>1, <4>2 DEF Closed
    <3>1. c \in Nodes /\ IsDir(Entry(c, z)) /\ Entry(c, z) \in A
      BY <1>3
    <3>2. parent[Entry(c, z)] = c /\ Entry(c, z) # Root
      BY <3>1 DEF TreeInv, LinksAgree
    <3>3. c \in B
      BY <3>1, <3>2, <2>1
    <3>4. c \in S /\ c # e
      BY <3>3, <1>1
    <3>5. c # d \/ z # x
      BY <3>1, <2>1, <1>2
    <3>6. QED
      BY <3>1, <3>4, <3>5, <1>3, <1>4, <1>5 DEF IsDir
  <2>3. U \in SUBSET Nodes
    BY <1>3
  <2>4. Reached \subseteq U
    BY <2>2, <2>3, ReachedIsLeast
  <2>5. e \in B
    BY <2>1
  <2>6. QED
    BY <2>4, <2>5, <1>1
<1>9. n \in Lost
  BY <1>1, <1>2, <1>7 DEF Lost
<1>10. QED
  BY <1>2, <1>4, <1>8, <1>9 DEF MovedAway

(* A copy reaches what the original does. *)
LEMMA CloneLosesNothing == ASSUME TreeInv, TreeInv', Clone PROVE Lost = {}
<1>1. PICK S : S = Reached'
  OBVIOUS
<1>2. PICK R : R = Reached
  OBVIOUS
<1>3. /\ Root \in S /\ S \subseteq Nodes
      /\ \A c \in S, z \in Names : kind'[c] = "dir" /\ entries'[c][z] # Nil => entries'[c][z] \in S
  BY <1>1, ReachedNext DEF TreeInv
<1>4. /\ Root \in R /\ R \subseteq Nodes
      /\ \A c \in R, z \in Names : IsDir(c) /\ Entry(c, z) # Nil => Entry(c, z) \in R
  BY <1>2, ReachedIsClosed DEF TreeInv, Closed
<1>5. \A c \in R : kind'[c] = kind[c] /\ entries'[c] = entries[c]
  BY <1>2, <1>4 DEF Clone
<1>6. Closed(R \cap S)
  <2> SUFFICES ASSUME NEW c \in R \cap S, NEW z \in Names, IsDir(c), Entry(c, z) # Nil
               PROVE  Entry(c, z) \in R \cap S
    BY <1>3, <1>4 DEF Closed
  <2>1. QED
    BY <1>3, <1>4, <1>5 DEF IsDir, Entry
<1>7. Reached \subseteq R \cap S
  BY <1>3, <1>6, ReachedIsLeast
<1>8. QED
  BY <1>1, <1>7 DEF Lost

LEMMA RenameLoses ==
  ASSUME TreeInv, TreeInv', NEW d \in Nodes, IsDir(d), NEW x \in Names,
         NEW e \in Nodes, IsDir(e), NEW y \in Names, RenameAt(d, x, e, y)
  PROVE  MovedAway \/ Kept
<1>1. CASE e \in Reached'
  BY <1>1, RenameReplaces
<1>2. CASE e \notin Reached' /\ ~IsDir(Entry(d, x))
  BY <1>2, RenameFileAway
<1>3. CASE e \notin Reached' /\ IsDir(Entry(d, x))
  BY <1>3, RenameElsewhere, RenameAway
<1>4. QED
  BY <1>1, <1>2, <1>3

(* Every step. *)
LEMMA StepLoses == ASSUME TreeInv, TreeInv', TodoInv, TreeNext PROVE MovedAway \/ Kept
<1> USE RootIsNode
<1>1. TreeTypes /\ TreeTypes'
  BY DEF TreeInv
<1>2. ASSUME UNCHANGED tree PROVE Kept
  <2>1. kind' = kind /\ entries' = entries
    BY <1>2 DEF tree
  <2>2. Lost = {}
    BY <2>1, <1>1, AddLosesNothing DEF IsDir, Entry
  <2>3. QED
    BY <2>2, NoneLost
<1>3. ASSUME NEW d \in Nodes, IsDir(d), NEW x \in Names, NEW n \in Nodes,
             CreateFile(d, x, n) \/ MkdirAt(d, x, n) \/ LinkAt(n, d, x)
      PROVE  Kept
  <2>1. Entry(d, x) = Nil /\ entries' = PutEntry(entries, d, x, n)
    BY <1>3 DEF CreateFile, MkdirAt, LinkAt, PutEntry
  <2>2. \A c \in Nodes : IsDir(c) => kind'[c] = "dir"
    BY <1>1, <1>3 DEF CreateFile, MkdirAt, LinkAt, IsNew, IsDir, TreeTypes
  <2>3. \A c \in Nodes, z \in Names : (c # d \/ z # x) => entries'[c][z] = Entry(c, z)
    <3>1. entries \in [Nodes -> [Names -> Nodes \cup {Nil}]] /\ n \in Nodes \cup {Nil}
      BY <1>1 DEF TreeTypes
    <3>2. QED
      BY ONLY <3>1, <2>1, d \in Nodes, x \in Names, PutEntryIs DEF Entry
  <2>4. \A c \in Nodes, z \in Names : Entry(c, z) # Nil => entries'[c][z] = Entry(c, z)
    BY <2>1, <2>3
  <2>5. QED
    BY <1>1, <2>2, <2>4, AddLosesNothing, NoneLost
<1>4. CASE AddTar
  <2>1. ASSUME NEW name, NEW t, TarEntry(name, t) PROVE Kept
    BY <1>2, <2>1 DEF TarEntry
  <2>2. ASSUME NEW n \in Nodes, MkdirAll(n) PROVE Kept
    <3>1. IsDir(here) /\ here \in Nodes /\ todo # <<>>
      BY <2>2 DEF MkdirAll, IsDir
    <3>2. Head(todo) \in Names
      BY <3>1, FirstIsName
    <3>3. UNCHANGED tree \/ MkdirAt(here, Head(todo), n)
      BY <2>2 DEF MkdirAll
    <3>4. QED
      BY <3>1, <3>2, <3>3, <1>2, <1>3
  <2>3. ASSUME NEW n \in Nodes, TarFile(n) PROVE Kept
    <3>1. IsDir(here) /\ here \in Nodes
      BY <2>3 DEF TarFile, IsDir
    <3>2. todo # <<>>
      BY <2>3 DEF TarFile
    <3>3. Head(todo) \in Names
      BY <3>2, FirstIsName
    <3>4. UNCHANGED tree \/ CreateFile(here, Head(todo), n)
      BY <2>3 DEF TarFile
    <3>5. QED
      BY <3>1, <3>3, <3>4, <1>2, <1>3
  <2>4. CASE TarEnd \/ TarFails
    BY <1>2, <2>4 DEF TarEnd, TarFails
  <2>5. QED
    BY <1>4, <2>1, <2>2, <2>3, <2>4 DEF AddTar
<1>5. CASE Operation
  <2>1. ASSUME NEW h \in Handles,
               Close(h) \/ (\E n \in Named : Open(h, n)) \/ (\E c \in {0, 1} : ReadDir(h, c))
        PROVE  Kept
    BY <1>2, <2>1 DEF Close, Open, ReadDir
  <2>2. ASSUME NEW d \in Dirs PROVE d \in Nodes /\ IsDir(d)
    BY <2>2, DirsAreDirs DEF IsDir
  <2>3. ASSUME NEW d \in Dirs, NEW x \in Names, RmdirAt(d, x) \/ UnlinkAt(d, x) PROVE Kept
    <3>1. entries' = PutEntry(entries, d, x, Nil) /\ kind' = kind
      BY <2>3 DEF RmdirAt, UnlinkAt, PutEntry
    <3>2. Entry(d, x) # Nil /\ (IsDir(Entry(d, x)) => IsEmpty(Entry(d, x)))
      BY <2>3 DEF RmdirAt, UnlinkAt, IsDir
    <3>3. QED
      BY <3>1, <3>2, <2>2, DropLosesOne
  <2>4. ASSUME NEW d \in Dirs, NEW x \in Names, NEW n \in Nodes, CreateFile(d, x, n) \/ MkdirAt(d, x, n)
        PROVE  Kept
    BY <2>2, <2>4, <1>3
  <2>5. ASSUME NEW d \in Dirs, NEW x \in Names, NEW n \in Named, LinkAt(n, d, x) PROVE Kept
    BY <2>2, <2>5, <1>3, NamedAreNodes
  <2>6. ASSUME NEW d \in Dirs, NEW x \in Names, NEW e \in Dirs, NEW y \in Names, RenameAt(d, x, e, y)
        PROVE  MovedAway \/ Kept
    BY <2>2, <2>6, RenameLoses
  <2>7. CASE Clone
    BY <2>7, CloneLosesNothing, NoneLost
  <2>8. QED
    BY <1>5, <2>1, <2>3, <2>4, <2>5, <2>6, <2>7 DEF Operation
<1>6. QED
  BY <1>4, <1>5 DEF TreeNext

(* A step makes one node at most unreachable, and a directory only if it is *)
(* empty, unless a directory is moved into one that has been removed.       *)
THEOREM NothingElseIsLost == TreeSpec => NothingLost
<1>1. TreeInit => TreeInv /\ TodoInv
  BY TreeStarts DEF TreeInit, TodoInv
<1>2. TreeInv /\ TodoInv /\ [TreeNext]_treeVars => TreeInv' /\ TodoInv'
  BY TreeStep, TodoStep
<1>3. TreeInv /\ TodoInv /\ TreeInv' /\ [TreeNext]_treeVars =>
        [MovedAway \/ (Cardinality(Lost) <= 1 /\ \A n \in Lost : IsDir(n) => IsEmpty(n))]_treeVars
  BY StepLoses DEF Kept
<1>4. QED
  BY <1>1, <1>2, <1>3, PTL DEF TreeSpec, NothingLost

-----------------------------------------------------------------------------
(* The contents of a file. *)

ArrayTypes == arr \in Seq(Nat) /\ len \in Nat /\ len <= Len(arr)

LEMMA PayloadTypes == \A b \in Payloads : b \in Seq(Nat) /\ Len(b) \in Nat /\ Len(b) > 0
<1> SUFFICES ASSUME NEW b \in Payloads PROVE b \in Seq(Nat) /\ Len(b) \in Nat /\ Len(b) > 0
  OBVIOUS
<1>1. b \in Seq(Nat) /\ b # <<>>
  BY MemFileAssumption
<1>2. QED
  BY <1>1, EmptySeq

(* The part of the array that counts. *)
LEMMA VisibleIs ==
  ASSUME ArrayTypes
  PROVE  Visible = [i \in 1..len |-> arr[i]] /\ Visible \in Seq(Nat) /\ Len(Visible) = len
BY DEF ArrayTypes, Visible

(* What grow keeps, and what it clears. *)
LEMMA GrownIs ==
  ASSUME ArrayTypes, NEW n \in Nat, n > len
  PROVE  /\ Grown(n) \in Seq(Nat) /\ n <= Len(Grown(n)) /\ DOMAIN Grown(n) = 1..Len(Grown(n))
         /\ \A i \in 1..n : Grown(n)[i] = IF i <= len THEN arr[i] ELSE 0
<1>1. CASE n <= Len(arr)
  <2>1. PICK g : g = [i \in 1..Len(arr) |-> IF i \in (len + 1)..n THEN 0 ELSE arr[i]]
    OBVIOUS
  <2>2. g \in Seq(Nat) /\ Len(g) = Len(arr) /\ DOMAIN g = 1..Len(arr)
    BY <2>1 DEF ArrayTypes
  <2>3. \A i \in 1..n : g[i] = IF i <= len THEN arr[i] ELSE 0
    BY <1>1, <2>1 DEF ArrayTypes
  <2>4. Grown(n) = g
    BY <1>1, <2>1 DEF Grown, ArrayTypes
  <2>5. QED
    BY <1>1, <2>2, <2>3, <2>4
<1>2. CASE n > Len(arr)
  <2>1. PICK m : m = Larger(n, 2 * Len(arr))
    OBVIOUS
  <2>2. m \in Nat /\ n <= m /\ Len(arr) \in Nat
    BY <2>1 DEF Larger, ArrayTypes
  <2>3. PICK g : g = [i \in 1..m |-> IF i <= len THEN arr[i] ELSE 0]
    OBVIOUS
  <2>4. g \in Seq(Nat) /\ Len(g) = m /\ DOMAIN g = 1..m
    BY <2>2, <2>3 DEF ArrayTypes
  <2>5. \A i \in 1..n : g[i] = IF i <= len THEN arr[i] ELSE 0
    BY <2>2, <2>3
  <2>6. Grown(n) = g
    BY <1>2, <2>1, <2>2, <2>3 DEF Grown, ArrayTypes
  <2>7. QED
    BY <2>2, <2>4, <2>5, <2>6
<1>3. QED
  BY <1>1, <1>2 DEF ArrayTypes

(* What writeAt leaves in the file. *)
LEMMA WriteAtIs ==
  ASSUME ArrayTypes, NEW off \in Nat, NEW b \in Seq(Nat), Len(b) > 0, WriteAt(off, b)
  PROVE  /\ ArrayTypes'
         /\ len' = Larger(len, off + Len(b))
         /\ \A i \in 1..len' : arr'[i] = IF i \in (off + 1)..(off + Len(b)) THEN b[i - off]
                                        ELSE IF i <= len THEN arr[i] ELSE 0
<1>1. PICK end : end = off + Len(b)
  OBVIOUS
<1>2. PICK data : data = IF end > len THEN Grown(end) ELSE arr
  OBVIOUS
<1>3. end \in Nat /\ end > 0 /\ len \in Nat
  BY <1>1 DEF ArrayTypes
<1>4. len' = Larger(len, end) /\ arr' = [i \in DOMAIN data |-> IF i \in (off + 1)..end THEN b[i - off] ELSE data[i]]
  BY <1>1, <1>2 DEF WriteAt
<1>5. len' \in Nat /\ len <= len' /\ end <= len'
  BY <1>3, <1>4 DEF Larger
<1>6. /\ data \in Seq(Nat) /\ len' <= Len(data) /\ DOMAIN data = 1..Len(data)
      /\ \A i \in 1..len' : data[i] = IF i <= len THEN arr[i] ELSE 0
  <2>1. CASE end > len
    <3>1. data = Grown(end) /\ len' = end
      BY <2>1, <1>2, <1>3, <1>4 DEF Larger
    <3>2. /\ Grown(end) \in Seq(Nat) /\ end <= Len(Grown(end)) /\ DOMAIN Grown(end) = 1..Len(Grown(end))
          /\ \A i \in 1..end : Grown(end)[i] = IF i <= len THEN arr[i] ELSE 0
      BY <2>1, <1>3, GrownIs
    <3>3. QED
      BY ONLY <3>1, <3>2
  <2>2. CASE end <= len
    <3>1. data = arr /\ len' = len
      BY <2>2, <1>2, <1>3, <1>4 DEF Larger
    <3>2. QED
      BY <3>1 DEF ArrayTypes
  <2>3. QED
    BY <2>1, <2>2, <1>3
<1>7. \A i \in (off + 1)..end : b[i - off] \in Nat
  BY <1>1
<1>8. /\ arr' \in Seq(Nat) /\ Len(arr') = Len(data)
      /\ \A i \in 1..Len(data) : arr'[i] = IF i \in (off + 1)..end THEN b[i - off] ELSE data[i]
  <2>1. Len(data) \in Nat
    BY <1>6
  <2>2. \A i \in 1..Len(data) : data[i] \in Nat
    BY <1>6
  <2>3. QED
    BY <1>4, <1>6, <1>7, <2>1, <2>2
<1>9. ArrayTypes'
  BY <1>5, <1>6, <1>8 DEF ArrayTypes
<1>10. Len(data) \in Nat
  BY <1>6
<1>11. \A i \in 1..len' : arr'[i] = IF i \in (off + 1)..end THEN b[i - off]
                                     ELSE IF i <= len THEN arr[i] ELSE 0
  <2> SUFFICES ASSUME NEW i \in 1..len'
               PROVE  arr'[i] = IF i \in (off + 1)..end THEN b[i - off] ELSE IF i <= len THEN arr[i] ELSE 0
    OBVIOUS
  <2>1. i \in 1..Len(data)
    BY <1>5, <1>6, <1>10
  <2>2. arr'[i] = IF i \in (off + 1)..end THEN b[i - off] ELSE data[i]
    BY <2>1, <1>8
  <2>3. data[i] = IF i <= len THEN arr[i] ELSE 0
    BY <1>6
  <2>4. QED
    BY <2>2, <2>3
<1>12. QED
  BY <1>1, <1>4, <1>9, <1>11

(* Whoever holds File.mu writes, and writes through one File only. *)
LockInv == /\ \A f \in Files : locked[f] # NoUser => pending[locked[f]] \in Payloads
           /\ \A f, g \in Files : locked[f] # NoUser /\ locked[f] = locked[g] => f = g

LEMMA TypesOfArray == ASSUME FileTypeOK PROVE ArrayTypes
BY DEF FileTypeOK, ArrayTypes

LEMMA UserTypes == ASSUME FileTypeOK, LockInv, NEW f \in Files, NEW p \in Users, locked[f] = p
                   PROVE  pending[p] \in Payloads
BY MemFileAssumption DEF LockInv, NoUser

LEMMA FileTypeStep ==
  ASSUME FileTypeOK, LockInv, [FileNext]_fileVars PROVE FileTypeOK' /\ LockInv'
<1> USE MemFileAssumption
<1>1. /\ ArrayTypes /\ offset \in [Files -> Nat] /\ locked \in [Files -> Users \cup {NoUser}]
      /\ pending \in [Users -> Payloads \cup {Nothing}] /\ touched \subseteq Files \cup {Resized}
      /\ log \in Seq(Nat) /\ MaxSize \in Nat
  BY TypesOfArray DEF FileTypeOK
<1> DEFINE Rest == UNCHANGED <<locked, pending>>
<1>2. ASSUME Rest PROVE LockInv'
  BY <1>2 DEF LockInv
<1>3. ASSUME ArrayTypes', offset' \in [Files -> Nat], touched' \subseteq Files \cup {Resized}, log' \in Seq(Nat), Rest
      PROVE  FileTypeOK'
  BY <1>1, <1>3 DEF FileTypeOK, ArrayTypes
<1> HIDE DEF Rest
<1>4. CASE UNCHANGED fileVars
  <2>1. Rest /\ UNCHANGED <<arr, len, offset, touched, log>>
    BY <1>4 DEF fileVars, Rest
  <2>2. ArrayTypes'
    BY <1>1, <2>1 DEF ArrayTypes
  <2>3. QED
    BY <1>1, <1>2, <1>3, <2>1, <2>2
<1>5. ASSUME NEW f \in Files, NEW off \in 0..MaxSize, NEW b \in Payloads, Pwrite(f, off, b)
      PROVE  FileTypeOK' /\ LockInv'
  <2>1. ArrayTypes'
    <3>1. off \in Nat /\ b \in Seq(Nat) /\ Len(b) > 0 /\ WriteAt(off, b)
      BY <1>1, <1>5, PayloadTypes DEF Pwrite
    <3>2. QED
      BY ONLY <1>1, <3>1, WriteAtIs
  <2>2. Rest /\ UNCHANGED <<offset, log>> /\ touched' = touched \cup {f, Resized}
    BY <1>5 DEF Pwrite, Rest
  <2>3. QED
    BY <1>1, <1>2, <1>3, <2>1, <2>2
<1>6. ASSUME NEW f \in Files, NEW n \in 1..MaxSize, Read(f, n) PROVE FileTypeOK' /\ LockInv'
  <2>1. Rest /\ UNCHANGED <<arr, len, touched, log>>
    BY <1>6 DEF Read, Rest
  <2>2. ArrayTypes' /\ offset' \in [Files -> Nat]
    BY <1>1, <1>6, <2>1 DEF Read, ArrayTypes
  <2>3. QED
    BY <1>1, <1>2, <1>3, <2>1, <2>2
<1>7. ASSUME NEW f \in Files, NEW base \in 0..MaxSize, NEW n \in -1..1, Seek(f, base, n)
      PROVE  FileTypeOK' /\ LockInv'
  <2>1. Rest /\ UNCHANGED <<arr, len, touched, log>>
    BY <1>7 DEF Seek, Rest
  <2>2. ArrayTypes' /\ offset' \in [Files -> Nat]
    BY <1>1, <1>7, <2>1 DEF Seek, ArrayTypes
  <2>3. QED
    BY <1>1, <1>2, <1>3, <2>1, <2>2
<1>8. ASSUME NEW f \in Files, NEW p \in Users, WriteEnd(p, f) PROVE FileTypeOK' /\ LockInv'
  <2>1. PICK b : b = pending[p]
    OBVIOUS
  <2>2. locked[f] = p
    BY <1>8 DEF WriteEnd
  <2>3. b \in Payloads /\ b \in Seq(Nat) /\ Len(b) \in Nat /\ Len(b) > 0
    BY <2>1, <2>2, UserTypes, PayloadTypes
  <2>4. ArrayTypes'
    <3>1. offset[f] \in Nat /\ WriteAt(offset[f], b)
      BY <1>1, <1>8, <2>1 DEF WriteEnd
    <3>2. QED
      BY ONLY <1>1, <2>3, <3>1, WriteAtIs
  <2>5. offset' = [offset EXCEPT ![f] = @ + Len(b)] /\ locked' = [locked EXCEPT ![f] = NoUser]
        /\ pending' = [pending EXCEPT ![p] = Nothing] /\ touched' = touched
    BY <1>8, <2>1 DEF WriteEnd
  <2>6. log' \in Seq(Nat)
    <3>1. log' = log \o b \/ log' = Nothing
      BY <1>8, <2>1 DEF WriteEnd
    <3>2. log \o b \in Seq(Nat) /\ Nothing \in Seq(Nat)
      BY <1>1, <2>3 DEF Nothing
    <3>3. QED
      BY ONLY <3>1, <3>2
  <2>7. /\ offset' \in [Files -> Nat] /\ locked' \in [Files -> Users \cup {NoUser}]
        /\ pending' \in [Users -> Payloads \cup {Nothing}]
    BY <1>1, <2>3, <2>5
  <2>8. FileTypeOK'
    BY <1>1, <2>4, <2>5, <2>6, <2>7 DEF FileTypeOK, ArrayTypes
  <2>9. \A g \in Files : locked'[g] # NoUser => g # f /\ locked'[g] = locked[g]
    BY <1>1, <2>5
  <2>10. \A g \in Files : locked'[g] # NoUser => locked[g] # p /\ pending'[locked[g]] = pending[locked[g]]
    <3> SUFFICES ASSUME NEW g \in Files, locked'[g] # NoUser
                 PROVE  locked[g] # p /\ pending'[locked[g]] = pending[locked[g]]
      OBVIOUS
    <3>1. g # f /\ locked[g] # NoUser /\ locked[g] \in Users
      BY <1>1, <2>9
    <3>2. locked[g] # p
      BY <2>2, <3>1 DEF LockInv
    <3>3. QED
      BY <1>1, <2>5, <3>1, <3>2
  <2>11. LockInv'
    BY <2>9, <2>10 DEF LockInv
  <2>12. QED
    BY <2>8, <2>11
<1>9. ASSUME NEW f \in Files, NEW p \in Users, NEW b \in Payloads, WriteBegin(p, f, b)
      PROVE  FileTypeOK' /\ LockInv'
  <2>1. /\ locked[f] = NoUser /\ pending[p] = Nothing
        /\ locked' = [locked EXCEPT ![f] = p] /\ pending' = [pending EXCEPT ![p] = b]
        /\ offset' = [offset EXCEPT ![f] = Start(f)] /\ touched' = touched \cup {f}
        /\ UNCHANGED <<arr, len, log>>
    BY <1>9 DEF WriteBegin
  <2>2. Start(f) \in Nat
    BY <1>1 DEF Start, ArrayTypes
  <2>3. /\ offset' \in [Files -> Nat] /\ locked' \in [Files -> Users \cup {NoUser}]
        /\ pending' \in [Users -> Payloads \cup {Nothing}]
    BY <1>1, <2>1, <2>2
  <2>4. FileTypeOK'
    BY <1>1, <2>1, <2>3 DEF FileTypeOK, ArrayTypes
  <2>5. \A g \in Files : locked[g] # p
    BY <2>1, PayloadTypes DEF LockInv, Nothing, NoUser
  <2>6. p # NoUser
    BY DEF NoUser
  <2>7. \A g \in Files : locked'[g] = IF g = f THEN p ELSE locked[g]
    BY <1>1, <2>1
  <2>8. \A q \in Users : pending'[q] = IF q = p THEN b ELSE pending[q]
    BY <1>1, <2>1
  <2>9. \A g \in Files : locked'[g] # NoUser => pending'[locked'[g]] \in Payloads
    <3> SUFFICES ASSUME NEW g \in Files, locked'[g] # NoUser PROVE pending'[locked'[g]] \in Payloads
      OBVIOUS
    <3>1. CASE g = f
      BY <2>7, <2>8, <3>1
    <3>2. CASE g # f
      <4>1. locked'[g] = locked[g] /\ locked[g] \in Users /\ locked[g] # p
        BY <1>1, <2>5, <2>7, <3>2
      <4>2. QED
        BY <4>1, <2>8 DEF LockInv
    <3>3. QED
      BY <3>1, <3>2
  <2>10. \A g, h \in Files : locked'[g] # NoUser /\ locked'[g] = locked'[h] => g = h
    BY <2>5, <2>7 DEF LockInv
  <2>11. QED
    BY <2>4, <2>9, <2>10 DEF LockInv
<1>10. ASSUME NEW n \in 0..MaxSize, OpenTrunc \/ Truncate(n) PROVE FileTypeOK' /\ LockInv'
  <2>1. Rest /\ UNCHANGED <<offset, log>> /\ touched' = touched \cup {Resized}
    BY <1>10 DEF OpenTrunc, Truncate, Rest
  <2>2. ArrayTypes'
    <3>1. CASE OpenTrunc
      BY <1>1, <3>1 DEF OpenTrunc, ArrayTypes
    <3>2. CASE Truncate(n) /\ n <= len
      BY <1>1, <3>2 DEF Truncate, ArrayTypes
    <3>3. CASE Truncate(n) /\ n > len
      <4>1. arr' = Grown(n) /\ len' = n /\ n \in Nat /\ len \in Nat
        BY <1>1, <3>3 DEF Truncate, ArrayTypes
      <4>2. Grown(n) \in Seq(Nat) /\ n <= Len(Grown(n))
        BY <1>1, <3>3, <4>1, GrownIs
      <4>3. QED
        BY ONLY <4>1, <4>2 DEF ArrayTypes
    <3>4. QED
      BY <1>1, <1>10, <3>1, <3>2, <3>3 DEF ArrayTypes
  <2>3. QED
    BY <1>1, <1>2, <1>3, <2>1, <2>2
<1>11. ASSUME OpenTrunc PROVE FileTypeOK' /\ LockInv'
  <2>1. 0 \in 0..MaxSize
    BY <1>1
  <2>2. QED
    BY <1>10, <1>11, <2>1
<1>12. QED
  BY <1>4, <1>5, <1>6, <1>7, <1>8, <1>9, <1>10, <1>11 DEF FileNext

LEMMA FileStarts == FileInit => FileTypeOK /\ LockInv
<1> SUFFICES ASSUME FileInit PROVE FileTypeOK /\ LockInv
  OBVIOUS
<1>1. <<>> \in Seq(Nat) /\ Len(<<>>) = 0
  BY EmptySeq
<1>2. FileTypeOK
  BY <1>1 DEF FileInit, FileTypeOK, Nothing
<1>3. LockInv
  BY DEF FileInit, LockInv
<1>4. QED
  BY <1>2, <1>3

(* The state of a file, its Files and its users is well typed: the length   *)
(* never exceeds the capacity.                                              *)
THEOREM FileTypeCorrect == FileSpec => []FileTypeOK
<1>1. FileTypeOK /\ LockInv /\ [FileNext]_fileVars => FileTypeOK' /\ LockInv'
  BY FileTypeStep
<1>2. QED
  BY <1>1, FileStarts, PTL DEF FileSpec

-----------------------------------------------------------------------------
(* A file is what AbstractFile promises. *)

(* A write at any position is the abstract write: what lies between the old *)
(* end and the write reads as zero, also where the array held something.    *)
LEMMA WriteIsAbstract ==
  ASSUME ArrayTypes, NEW off \in Nat, NEW b \in Seq(Nat), Len(b) > 0, WriteAt(off, b)
  PROVE  Posix!AbsWrite(off, b)
<1>1. PICK end : end = off + Len(b)
  OBVIOUS
<1>2. PICK s : s = Visible
  OBVIOUS
<1>3. end \in Nat /\ len \in Nat
  BY <1>1 DEF ArrayTypes
<1>4. /\ ArrayTypes' /\ len' = Larger(len, end)
      /\ \A i \in 1..len' : arr'[i] = IF i \in (off + 1)..end THEN b[i - off]
                                     ELSE IF i <= len THEN arr[i] ELSE 0
  BY <1>1, WriteAtIs
<1>5. s = [i \in 1..len |-> arr[i]] /\ s \in Seq(Nat) /\ Len(s) = len
  BY <1>2, VisibleIs
<1>6. Visible' = [i \in 1..len' |-> arr'[i]]
  <2>1. (ArrayTypes => Visible = [i \in 1..len |-> arr[i]])'
    BY VisibleIs, PTL
  <2>2. QED
    BY <1>4, <2>1
<1>7. PICK t : t = Posix!AtLeast(s, end)
  OBVIOUS
<1>8. Len(t) = len' /\ \A i \in 1..len' : t[i] = IF i <= len THEN arr[i] ELSE 0
  <2>1. CASE end <= len
    <3>1. t = s /\ len' = len
      BY <2>1, <1>3, <1>4, <1>5, <1>7 DEF Larger, Posix!AtLeast
    <3>2. QED
      BY <3>1, <1>5, <1>3
  <2>2. CASE end > len
    <3>1. t = [i \in 1..end |-> IF i <= len THEN s[i] ELSE 0] /\ len' = end
      BY <2>2, <1>3, <1>4, <1>5, <1>7 DEF Larger, Posix!AtLeast, Posix!Extended, Posix!Zero
    <3>2. \A i \in 1..end : t[i] = IF i <= len THEN arr[i] ELSE 0
      BY <3>1, <1>3, <1>5
    <3>3. Len(t) = end
      BY <3>1, <1>3
    <3>4. QED
      BY <3>1, <3>2, <3>3
  <2>3. QED
    BY <2>1, <2>2, <1>3
<1>9. Visible' = [i \in 1..Len(t) |-> IF i \in (off + 1)..end THEN b[i - off] ELSE t[i]]
  <2>1. \A i \in 1..len' : arr'[i] = IF i \in (off + 1)..end THEN b[i - off] ELSE t[i]
    BY <1>4, <1>8
  <2>2. QED
    BY <1>6, <1>8, <2>1
<1>10. QED
  BY <1>1, <1>2, <1>7, <1>9 DEF Posix!AbsWrite

(* Truncate in both directions is the abstract resize, whatever the array   *)
(* holds beyond the old end.                                                *)
LEMMA TruncateIsAbstract ==
  ASSUME ArrayTypes, NEW n \in Nat, ArrayTypes', len' = n,
         \A i \in 1..n : arr'[i] = IF i <= len THEN arr[i] ELSE 0
  PROVE  Posix!AbsResize(n)
<1>1. Visible = [i \in 1..len |-> arr[i]] /\ Len(Visible) = len /\ len \in Nat
  BY VisibleIs DEF ArrayTypes
<1>2. (ArrayTypes => Visible = [i \in 1..len |-> arr[i]])'
  BY VisibleIs, PTL
<1>3. Visible' = [i \in 1..n |-> arr'[i]]
  BY <1>2
<1>4. PICK s : s = Visible
  OBVIOUS
<1>5. \A i \in 1..n : arr'[i] = IF i <= Len(s) THEN s[i] ELSE 0
  BY <1>1, <1>4
<1>6. Visible' = [i \in 1..n |-> IF i <= Len(s) THEN s[i] ELSE 0]
  BY <1>3, <1>5
<1>7. QED
  BY <1>4, <1>6 DEF Posix!AbsResize, Posix!Extended, Posix!Zero

(* What every step does to the contents. *)
LEMMA FileStepIsAbstract ==
  ASSUME FileTypeOK, LockInv, FileTypeOK', [FileNext]_fileVars PROVE [Posix!AbsNext]_Visible
<1>1. ArrayTypes /\ offset \in [Files -> Nat] /\ MaxSize \in Nat
  BY TypesOfArray, MemFileAssumption DEF FileTypeOK
<1>2. ArrayTypes'
  BY DEF FileTypeOK, ArrayTypes
<1>3. ASSUME UNCHANGED <<arr, len>> PROVE UNCHANGED Visible
  BY <1>3 DEF Visible
<1>4. ASSUME NEW off \in Nat, NEW b \in Payloads, WriteAt(off, b) PROVE Posix!AbsNext
  <2>1. b \in Seq(Nat) /\ Len(b) \in Nat /\ Len(b) > 0
    BY PayloadTypes
  <2>2. Posix!AbsWrite(off, b)
    BY ONLY <1>1, <1>4, <2>1, off \in Nat, WriteIsAbstract
  <2>3. off + Len(b) <= MaxSize
    BY <1>4 DEF WriteAt
  <2>4. off \in 0..MaxSize
    BY ONLY <1>1, <2>1, <2>3, off \in Nat
  <2>5. QED
    BY <2>2, <2>4 DEF Posix!AbsNext
<1>5. ASSUME NEW n \in 0..MaxSize, Posix!AbsResize(n) PROVE Posix!AbsNext
  BY <1>5 DEF Posix!AbsNext
<1>6. CASE UNCHANGED fileVars
  BY <1>3, <1>6 DEF fileVars
<1>7. ASSUME NEW f \in Files, NEW off \in 0..MaxSize, NEW b \in Payloads, Pwrite(f, off, b)
      PROVE  Posix!AbsNext
  BY <1>1, <1>4, <1>7 DEF Pwrite
<1>8. ASSUME NEW f \in Files, \/ \E n \in 1..MaxSize : Read(f, n)
                              \/ \E base \in 0..MaxSize, n \in -1..1 : Seek(f, base, n)
                              \/ \E p \in Users, b \in Payloads : WriteBegin(p, f, b)
      PROVE  UNCHANGED Visible
  BY <1>3, <1>8 DEF Read, Seek, WriteBegin
<1>9. ASSUME NEW f \in Files, NEW p \in Users, WriteEnd(p, f) PROVE Posix!AbsNext
  <2>1. locked[f] = p /\ WriteAt(offset[f], pending[p])
    BY <1>9 DEF WriteEnd
  <2>2. pending[p] \in Payloads /\ offset[f] \in Nat
    BY <1>1, <2>1, UserTypes
  <2>3. QED
    BY <1>4, <2>1, <2>2
<1>10. ASSUME OpenTrunc PROVE Posix!AbsNext
  <2>1. len' = 0 /\ 0 \in 0..MaxSize
    BY <1>1, <1>10 DEF OpenTrunc
  <2>2. \A i \in 1..0 : arr'[i] = IF i <= len THEN arr[i] ELSE 0
    OBVIOUS
  <2>3. Posix!AbsResize(0)
    BY ONLY <1>1, <1>2, <2>1, <2>2, TruncateIsAbstract
  <2>4. QED
    BY <1>5, <2>1, <2>3
<1>11. ASSUME NEW n \in 0..MaxSize, Truncate(n) PROVE Posix!AbsNext
  <2>1. len' = n /\ n \in Nat /\ len \in Nat
    BY <1>1, <1>11 DEF Truncate, ArrayTypes
  <2>2. \A i \in 1..n : arr'[i] = IF i <= len THEN arr[i] ELSE 0
    <3>1. CASE n <= len
      BY <1>11, <2>1, <3>1 DEF Truncate
    <3>2. CASE n > len
      <4>1. arr' = Grown(n)
        BY <1>11, <2>1, <3>2 DEF Truncate
      <4>2. QED
        BY <1>1, <2>1, <3>2, <4>1, GrownIs
    <3>3. QED
      BY <2>1, <3>1, <3>2
  <2>3. Posix!AbsResize(n)
    BY ONLY <1>1, <1>2, <2>1, <2>2, TruncateIsAbstract
  <2>4. QED
    BY <1>5, <2>3
<1>12. QED
  BY <1>6, <1>7, <1>8, <1>9, <1>10, <1>11 DEF FileNext

(* The array with its spare capacity implements a file: bytes that a file   *)
(* loses when it shrinks never come back, gaps read as zero, and a write is *)
(* seen whole, for any payloads, sizes, Files and users.                    *)
THEOREM FilesArePosix == FileSpec => ImplementsPosixFile
<1>1. FileInit => Posix!AbsInit
  BY DEF FileInit, Posix!AbsInit, Visible
<1>2. FileTypeOK /\ LockInv /\ [FileNext]_fileVars => FileTypeOK' /\ LockInv'
  BY FileTypeStep
<1>3. FileTypeOK /\ LockInv /\ FileTypeOK' /\ [FileNext]_fileVars => [Posix!AbsNext]_Visible
  BY FileStepIsAbstract
<1>4. QED
  BY <1>1, <1>2, <1>3, FileStarts, PTL DEF FileSpec, ImplementsPosixFile, Posix!AbsSpec

-----------------------------------------------------------------------------
(* Appends. *)

(* While only one File with O_APPEND has written, whoever holds it stands   *)
(* at the end of the file, and the file is the log.                         *)
AppendInv == /\ IsFiniteSet(touched)
             /\ AppendedOnly => /\ Visible = log
                                /\ \A f \in Files : locked[f] # NoUser => offset[f] = len /\ f \in touched

(* A File that has not written before is new to the set; resizing counts.   *)
LEMMA TouchedGrows ==
  ASSUME IsFiniteSet(touched), NEW T, IsFiniteSet(T), touched' = touched \cup T
  PROVE  IsFiniteSet(touched') /\ (AppendedOnly' => AppendedOnly)
<1>1. IsFiniteSet(touched')
  BY FS_Union
<1>2. touched \subseteq touched'
  OBVIOUS
<1>3. Cardinality(touched) <= Cardinality(touched') /\ Cardinality(touched) \in Nat /\ Cardinality(touched') \in Nat
  BY <1>1, <1>2, FS_Subset, FS_CardinalityType
<1>4. QED
  BY <1>1, <1>2, <1>3 DEF AppendedOnly

LEMMA ResizedIsSeen == ASSUME Resized \in touched' PROVE ~AppendedOnly'
BY MemFileAssumption DEF AppendedOnly, Resized

LEMMA OnlyOne == ASSUME IsFiniteSet(touched), AppendedOnly, NEW f \in touched, NEW g \in touched PROVE f = g
<1>1. SUFFICES ASSUME f # g PROVE FALSE
  OBVIOUS
<1>2. {f, g} \subseteq touched /\ Cardinality({f, g}) = 2
  <2>1. IsFiniteSet({f}) /\ Cardinality({f}) = 1
    BY FS_Singleton
  <2>2. {f, g} = {f} \cup {g} /\ g \notin {f}
    BY <1>1
  <2>3. Cardinality({f} \cup {g}) = 2
    BY <2>1, <2>2, FS_AddElement
  <2>4. QED
    BY <2>2, <2>3
<1>3. Cardinality({f, g}) <= Cardinality(touched) /\ Cardinality(touched) \in Nat
  BY <1>2, FS_Subset, FS_CardinalityType
<1>4. QED
  BY <1>2, <1>3 DEF AppendedOnly

(* Writing at the end appends. *)
LEMMA WriteAtEnd ==
  ASSUME ArrayTypes, NEW b \in Seq(Nat), Len(b) > 0, WriteAt(len, b)
  PROVE  Visible' = Visible \o b /\ len' = len + Len(b)
<1>1. len \in Nat /\ Len(b) \in Nat
  BY DEF ArrayTypes
<1>2. /\ ArrayTypes' /\ len' = Larger(len, len + Len(b))
      /\ \A i \in 1..len' : arr'[i] = IF i \in (len + 1)..(len + Len(b)) THEN b[i - len]
                                     ELSE IF i <= len THEN arr[i] ELSE 0
  BY <1>1, WriteAtIs
<1>3. len' = len + Len(b)
  BY <1>1, <1>2 DEF Larger
<1>4. Visible = [i \in 1..len |-> arr[i]] /\ Visible \in Seq(Nat) /\ Len(Visible) = len
  BY VisibleIs
<1>5. Visible' = [i \in 1..(len + Len(b)) |-> arr'[i]]
  <2>1. (ArrayTypes => Visible = [i \in 1..len |-> arr[i]])'
    BY VisibleIs, PTL
  <2>2. QED
    BY <1>2, <1>3, <2>1
<1>6. PICK s : s = Visible
  OBVIOUS
<1>7. s \o b = [i \in 1..(len + Len(b)) |-> IF i <= len THEN s[i] ELSE b[i - len]]
  BY <1>1, <1>4, <1>6
<1>8. \A i \in 1..(len + Len(b)) : arr'[i] = IF i <= len THEN s[i] ELSE b[i - len]
  BY <1>1, <1>2, <1>3, <1>4, <1>6
<1>9. QED
  BY <1>3, <1>5, <1>6, <1>7, <1>8

LEMMA AppendStep ==
  ASSUME FileTypeOK, LockInv, AppendInv, [FileNext]_fileVars PROVE AppendInv'
<1> USE MemFileAssumption
<1>1. /\ ArrayTypes /\ offset \in [Files -> Nat] /\ locked \in [Files -> Users \cup {NoUser}]
      /\ touched \subseteq Files \cup {Resized} /\ IsFiniteSet(touched)
  BY TypesOfArray DEF FileTypeOK, AppendInv
<1>2. ASSUME NEW T, IsFiniteSet(T), Resized \in T, touched' = touched \cup T PROVE AppendInv'
  BY <1>1, <1>2, TouchedGrows, ResizedIsSeen DEF AppendInv
<1>3. ASSUME UNCHANGED <<arr, len, locked, touched, log>>,
             \A f \in Files : locked[f] # NoUser => offset'[f] = offset[f]
      PROVE  AppendInv'
  <2>1. Visible' = Visible /\ AppendedOnly' = AppendedOnly
    BY <1>3 DEF Visible, AppendedOnly
  <2>2. QED
    BY <1>1, <1>3, <2>1 DEF AppendInv
<1>4. CASE UNCHANGED fileVars
  BY <1>3, <1>4 DEF fileVars
<1>5. ASSUME NEW f \in Files, NEW off, NEW b, Pwrite(f, off, b) PROVE AppendInv'
  <2>1. IsFiniteSet({f, Resized})
    <3>1. IsFiniteSet({f} \cup {Resized})
      BY FS_Singleton, FS_Union
    <3>2. {f, Resized} = {f} \cup {Resized}
      OBVIOUS
    <3>3. QED
      BY <3>1, <3>2
  <2>2. QED
    BY <1>2, <1>5, <2>1 DEF Pwrite
<1>6. ASSUME NEW f \in Files, NEW n, Read(f, n) PROVE AppendInv'
  BY <1>1, <1>3, <1>6 DEF Read
<1>7. ASSUME NEW f \in Files, NEW base, NEW n, Seek(f, base, n) PROVE AppendInv'
  BY <1>1, <1>3, <1>7 DEF Seek
<1>8. ASSUME NEW f \in Files, NEW p \in Users, WriteEnd(p, f) PROVE AppendInv'
  <2>1. PICK b : b = pending[p]
    OBVIOUS
  <2>2. /\ locked[f] = p /\ locked[f] # NoUser /\ WriteAt(offset[f], b)
        /\ locked' = [locked EXCEPT ![f] = NoUser] /\ touched' = touched
        /\ log' = IF AppendedOnly THEN log \o b ELSE Nothing
    BY <1>8, <2>1 DEF WriteEnd, NoUser
  <2>3. b \in Seq(Nat) /\ Len(b) > 0
    BY <2>1, <2>2, UserTypes, PayloadTypes
  <2>4. AppendedOnly' = AppendedOnly
    BY <2>2 DEF AppendedOnly
  <2>5. SUFFICES ASSUME AppendedOnly
                 PROVE  Visible' = log' /\ \A g \in Files : locked'[g] # NoUser => offset'[g] = len' /\ g \in touched'
    BY <1>1, <2>2, <2>4 DEF AppendInv
  <2>6. Visible = log /\ offset[f] = len /\ f \in touched
    BY <2>2, <2>5 DEF AppendInv
  <2>7. Visible' = Visible \o b
    BY ONLY <1>1, <2>2, <2>3, <2>6, WriteAtEnd
  <2>8. \A g \in Files : locked'[g] = NoUser
    <3> SUFFICES ASSUME NEW g \in Files, g # f PROVE locked[g] = NoUser
      BY <1>1, <2>2
    <3>1. locked[g] # NoUser => g \in touched
      BY <2>5 DEF AppendInv
    <3>2. QED
      BY <1>1, <2>5, <2>6, <3>1, OnlyOne
  <2>9. QED
    BY <2>2, <2>5, <2>6, <2>7, <2>8
<1>9. ASSUME NEW f \in Files, NEW p \in Users, NEW b \in Payloads, WriteBegin(p, f, b) PROVE AppendInv'
  <2>1. /\ locked' = [locked EXCEPT ![f] = p] /\ offset' = [offset EXCEPT ![f] = Start(f)]
        /\ touched' = touched \cup {f} /\ UNCHANGED <<arr, len, log>>
    BY <1>9 DEF WriteBegin
  <2>2. IsFiniteSet({f})
    BY FS_Singleton
  <2>3. IsFiniteSet(touched') /\ (AppendedOnly' => AppendedOnly)
    BY <1>1, <2>1, <2>2, TouchedGrows
  <2>4. SUFFICES ASSUME AppendedOnly', AppendedOnly
                 PROVE  Visible' = log' /\ \A g \in Files : locked'[g] # NoUser => offset'[g] = len' /\ g \in touched'
    BY <2>3 DEF AppendInv
  <2>5. f \in Appenders
    BY <2>1, <2>4 DEF AppendedOnly
  <2>6. Start(f) = len
    BY <2>5 DEF Start
  <2>7. Visible' = log'
    BY <2>1, <2>4 DEF AppendInv, Visible
  <2>8. ASSUME NEW g \in Files, locked'[g] # NoUser PROVE offset'[g] = len' /\ g \in touched'
    <3>1. CASE g = f
      BY <1>1, <2>1, <2>6, <3>1
    <3>2. CASE g # f
      <4>1. locked[g] # NoUser /\ offset'[g] = offset[g]
        BY <1>1, <2>1, <2>8, <3>2
      <4>2. QED
        BY <2>1, <2>4, <4>1 DEF AppendInv
    <3>3. QED
      BY <3>1, <3>2
  <2>9. QED
    BY <2>7, <2>8
<1>10. ASSUME NEW n, OpenTrunc \/ Truncate(n) PROVE AppendInv'
  <2>1. IsFiniteSet({Resized}) /\ touched' = touched \cup {Resized}
    BY <1>10, FS_Singleton DEF OpenTrunc, Truncate
  <2>2. QED
    BY <1>2, <2>1
<1>11. QED
  BY <1>4, <1>5, <1>6, <1>7, <1>8, <1>9, <1>10 DEF FileNext

(* While all output goes through one File with O_APPEND, by any number of   *)
(* users, the file is what they have written, in the order of the writes.   *)
THEOREM AppendsAreKept == FileSpec => []AppendsKept
<1>1. FileInit => AppendInv
  <2> SUFFICES ASSUME FileInit PROVE AppendInv
    OBVIOUS
  <2>1. Visible = log
    BY DEF FileInit, Visible
  <2>2. IsFiniteSet(touched)
    BY FS_EmptySet DEF FileInit
  <2>3. QED
    BY <2>1, <2>2 DEF FileInit, AppendInv
<1>2. FileTypeOK /\ LockInv /\ AppendInv /\ [FileNext]_fileVars => FileTypeOK' /\ LockInv' /\ AppendInv'
  BY FileTypeStep, AppendStep
<1>3. AppendInv => AppendsKept
  BY DEF AppendInv, AppendsKept
<1>4. QED
  BY <1>1, <1>2, <1>3, FileStarts, PTL DEF FileSpec
=============================================================================
