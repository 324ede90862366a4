--------------------------- MODULE AbstractFile ---------------------------
(***************************************************************************)
(* What a regular file promises: a sequence of bytes that can be           *)
(* overwritten at any position and resized, and reads as zero where        *)
(* nothing has been written since it last grew.                            *)
(***************************************************************************)
EXTENDS Integers, Sequences

CONSTANTS Payloads,   \* what is written: non-empty sequences of bytes
          MaxSize     \* bound: the size of a file

VARIABLE content

Zero == 0
Extended(s, n) == [i \in 1..n |-> IF i <= Len(s) THEN s[i] ELSE Zero]
AtLeast(s, n) == IF n <= Len(s) THEN s ELSE Extended(s, n)

AbsInit == content = <<>>

AbsWrite(off, b) ==
  content' = [i \in 1..Len(AtLeast(content, off + Len(b))) |->
                IF i \in (off + 1)..(off + Len(b)) THEN b[i - off]
                ELSE AtLeast(content, off + Len(b))[i]]

AbsResize(n) == content' = Extended(content, n)

AbsNext == \/ \E off \in 0..MaxSize, b \in Payloads : AbsWrite(off, b)
           \/ \E n \in 0..MaxSize : AbsResize(n)

AbsSpec == AbsInit /\ [][AbsNext]_content
=============================================================================
