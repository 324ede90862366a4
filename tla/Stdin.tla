------------------------------- MODULE Stdin -------------------------------
(***************************************************************************)
(* The kernel's standard input, internal/kernel/stdio.go: a pump goroutine *)
(* reads ahead from an io.Reader into a bounded buffer and waits for room  *)
(* on a condition variable, while processes that inherited the descriptor  *)
(* read, block and poll.  The pump waits for room before it notifies.      *)
(*                                                                         *)
(* Of the data only the amount matters.                                    *)
(***************************************************************************)
EXTENDS Integers

CONSTANTS Users,      \* processes that share standard input
          Chunk,      \* the most one Read of the io.Reader returns
          Ahead,      \* readerAhead
          ReadSizes   \* the lengths of reads

(* 32K and 64K in the code. *)
ASSUME StdinAssumption == /\ Chunk \in Nat \ {0}
                          /\ Ahead \in Nat /\ Chunk < Ahead
                          /\ ReadSizes \subseteq Nat \ {0}

VARIABLES
  input,      \* len(readerFile.buf)
  eof,        \* readerFile.eof
  pump,       \* the pump: read, room (in room.Wait), woken, notify, ended
  reader,     \* where each process is: guest, wait, op, park
  call,       \* the call it is in: the length of a read, 0 for poll
  chan        \* the channel it took from readerFile.n

stdinVars == <<input, eof, pump, reader, call, chan>>

StdinTypeOK == /\ input \in 0..(Ahead + Chunk - 1)
               /\ eof \in BOOLEAN
               /\ pump \in {"read", "room", "woken", "notify", "ended"}
               /\ reader \in [Users -> {"guest", "wait", "op", "park"}]
               /\ call \in [Users -> ReadSizes \cup {0}]
               /\ chan \in [Users -> {"none", "open", "closed"}]

StdinInit == /\ input = 0
             /\ eof = FALSE
             /\ pump = "read"
             /\ reader = [p \in Users |-> "guest"]
             /\ call = [p \in Users |-> 0]
             /\ chan = [p \in Users |-> "none"]

-----------------------------------------------------------------------------
(* The pump. *)

(* A mutant: a pump that waits until everything it has read is taken. *)
FullWithAnything(b, e) == b > 0 /\ ~e
(* The pump stops reading ahead. *)
Full(b, e) == b >= Ahead /\ ~e

(* Read returns n bytes, with an error (the end of the input) or without;   *)
(* they are appended under mu.                                              *)
PumpRead(n, err) ==
  /\ pump = "read"
  /\ input' = input + n
  /\ eof' = err
  /\ pump' = IF Full(input', eof') THEN "room" ELSE "notify"
  /\ UNCHANGED <<reader, call, chan>>

(* A wait that was signalled returns, and the loop tests again. *)
PumpWoken ==
  /\ pump = "woken"
  /\ pump' = IF Full(input, eof) THEN "room" ELSE "notify"
  /\ UNCHANGED <<input, eof, reader, call, chan>>

PumpNotify ==
  /\ pump = "notify"
  /\ pump' = IF eof THEN "ended" ELSE "read"
  /\ chan' = [p \in Users |-> IF chan[p] = "open" THEN "closed" ELSE chan[p]]
  /\ UNCHANGED <<input, eof, reader, call>>

-----------------------------------------------------------------------------
(* Processes: io and poll, as in Pipe.tla. *)

StdinCall(p, n) == /\ reader[p] = "guest"
                   /\ reader' = [reader EXCEPT ![p] = "wait"]
                   /\ call' = [call EXCEPT ![p] = n]
                   /\ UNCHANGED <<input, eof, pump, chan>>

StdinChannel(p) == /\ reader[p] = "wait"
                   /\ reader' = [reader EXCEPT ![p] = "op"]
                   /\ chan' = [chan EXCEPT ![p] = "open"]
                   /\ UNCHANGED <<input, eof, pump, call>>

StdinReturn(p) == /\ reader' = [reader EXCEPT ![p] = "guest"]
                  /\ chan' = [chan EXCEPT ![p] = "none"]

(* A mutant: a read that leaves the pump waiting. *)
SignalNobody == pump
(* room.Signal: wakes the pump if it waits. *)
SignalRoom == IF pump = "room" THEN "woken" ELSE pump

(* read takes what there is, up to n. *)
StdinRead(p) ==
  /\ reader[p] = "op" /\ call[p] > 0 /\ input > 0
  /\ input' = IF call[p] <= input THEN input - call[p] ELSE 0
  /\ pump' = SignalRoom
  /\ StdinReturn(p)
  /\ UNCHANGED <<eof, call>>

(* A poll that finds input or the end, a read that finds the end, and       *)
(* either one that would block: it parks, or (O_NONBLOCK) returns.          *)
NoWait(p) == /\ reader[p] = "op"
             /\ call[p] = 0 \/ input = 0
             /\ StdinReturn(p)
             /\ UNCHANGED <<input, eof, pump, call>>
StdinPark(p) == /\ reader[p] = "op" /\ input = 0 /\ ~eof
                /\ reader' = [reader EXCEPT ![p] = "park"]
                /\ UNCHANGED <<input, eof, pump, call, chan>>

(* block ends: the channel is closed; or a signal, a timeout or SIGKILL. *)
StdinWoken(p) == /\ reader[p] = "park" /\ chan[p] = "closed"
                 /\ reader' = [reader EXCEPT ![p] = "wait"]
                 /\ chan' = [chan EXCEPT ![p] = "none"]
                 /\ UNCHANGED <<input, eof, pump, call>>
StdinEnded(p) == /\ reader[p] = "park"
                 /\ StdinReturn(p)
                 /\ UNCHANGED <<input, eof, pump, call>>

-----------------------------------------------------------------------------
StdinNext == \/ \E n \in 0..Chunk, err \in BOOLEAN : PumpRead(n, err)
             \/ PumpWoken \/ PumpNotify
             \/ \E p \in Users :
                  \/ \E n \in ReadSizes \cup {0} : StdinCall(p, n)
                  \/ StdinChannel(p) \/ StdinRead(p) \/ NoWait(p) \/ StdinPark(p)
                  \/ StdinWoken(p) \/ StdinEnded(p)

StdinSpec == StdinInit /\ [][StdinNext]_stdinVars

-----------------------------------------------------------------------------
(* Properties. *)

(* Nobody stays parked while there is input, or the end of it: although the *)
(* pump may wait for room with data it has not announced, that data is then *)
(* not the first, and whoever parks has seen the buffer empty.              *)
NoMissedInput ==
  \A p \in Users :
    (reader[p] = "park" /\ chan[p] = "open" /\ (input > 0 \/ eof)) => pump = "notify"

(* The pump waits only while the buffer is full: no order of reads and      *)
(* waits loses the signal that there is room again.                         *)
NoMissedRoom == pump = "room" => Full(input, eof)
=============================================================================
