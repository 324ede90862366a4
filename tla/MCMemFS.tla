------------------------------ MODULE MCMemFS ------------------------------
(***************************************************************************)
(* The two halves of the in-memory file system for TLC.  FS.ns guards one, *)
(* node.mu and File.mu the other, and neither reads the other's state: it  *)
(* is enough to explore them one at a time.                                *)
(***************************************************************************)
EXTENDS MemTree, MemFile

VARIABLE part

MCPayloads == {<<1>>, <<2, 2>>}

Init == part \in {"tree", "file"} /\ TreeInit /\ FileInit
Next == \/ part = "tree" /\ TreeNext /\ UNCHANGED <<part, fileVars>>
        \/ part = "file" /\ FileNext /\ UNCHANGED <<part, treeVars>>
Spec == Init /\ [][Next]_<<part, treeVars, fileVars>>
=============================================================================
