------------------------------ MODULE DataDir ------------------------------
(***************************************************************************)
(* initDataDir (pgzero.go): the template is unpacked, entry by entry, into *)
(* an empty data directory.  PG_VERSION, whose presence tells later calls  *)
(* that the directory holds a cluster, is the first entry of the template. *)
(* The program may crash, and an operation on the host's file system may   *)
(* fail, between any two steps; Start is called again afterwards.          *)
(***************************************************************************)
EXTENDS Integers

CONSTANTS NEntries   \* entries of the template

Entries == 1..NEntries
PgVersion == 1

VARIABLES pc,     \* idle: not in initDataDir; copy, write; ok, failed: returned
          at,     \* the entry the loop is at
          found   \* each entry in the directory: no, part, whole

vars == <<pc, at, found>>

TypeOK == /\ pc \in {"idle", "copy", "write", "ok", "failed"}
          /\ at \in 1..NEntries + 1
          /\ found \in [Entries -> {"no", "part", "whole"}]

Init == pc = "idle" /\ at = 1 /\ found = [e \in Entries |-> "no"]

(* The checks at the head of initDataDir: a cluster, or not even empty. *)
Check ==
  /\ pc = "idle"
  /\ pc' = IF found[PgVersion] # "no" THEN "ok"
           ELSE IF \E e \in Entries : found[e] # "no" THEN "failed" ELSE "copy"
  /\ at' = 1
  /\ UNCHANGED found

(* The next entry is created, and then written; a directory is whole at     *)
(* once.                                                                    *)
Create ==
  /\ pc = "copy" /\ at \in Entries
  /\ \/ found' = [found EXCEPT ![at] = "part"] /\ pc' = "write" /\ UNCHANGED at
     \/ at # PgVersion /\ found' = [found EXCEPT ![at] = "whole"] /\ at' = at + 1 /\ UNCHANGED pc

Write ==
  /\ pc = "write"
  /\ found' = [found EXCEPT ![at] = "whole"]
  /\ at' = at + 1 /\ pc' = "copy"

EndOfTemplate == pc = "copy" /\ at \notin Entries /\ pc' = "ok" /\ UNCHANGED <<at, found>>

(* An error is returned at once; what has been copied stays. *)
Fail == pc \in {"copy", "write"} /\ pc' = "failed" /\ UNCHANGED <<at, found>>

(* The program ends, or crashes, and calls Start again. *)
Again == pc # "idle" /\ pc' = "idle" /\ UNCHANGED <<at, found>>

Next == Check \/ Create \/ Write \/ EndOfTemplate \/ Fail \/ Again
Spec == Init /\ [][Next]_vars

-----------------------------------------------------------------------------
(* What initDataDir's comment says: it makes dir hold a cluster.  Violated: *)
(* after a crash or an error in the middle of the copy the next call takes  *)
(* the half of a cluster for one.                                           *)
HoldsCluster == pc = "ok" => \A e \in Entries : found[e] = "whole"
=============================================================================
