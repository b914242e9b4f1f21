------------------------------ MODULE ByteQueue ------------------------------
(***************************************************************************)
(* What muduo::net::Buffer promises: a queue of bytes that is appended to  *)
(* and retrieved from in order, may be added to at its front, and can be   *)
(* cut at its end.  done is the last operation: its name and its bytes,    *)
(* put in or taken out.                                                    *)
(***************************************************************************)
EXTENDS Integers, Sequences

CONSTANTS kCheapPrepend

VARIABLES content, room, done

\* However the bytes are moved, as much as kCheapPrepend bytes stay free before them, if
\* they were free; only prepend() uses them up.
KeepsRoom == room' >= IF room < kCheapPrepend THEN room ELSE kCheapPrepend

Init == content = <<>> /\ room = kCheapPrepend /\ done = [op |-> "new", data |-> <<>>]

Append_ == done'.op \in {"append", "readFd"} /\ content' = content \o done'.data /\ KeepsRoom

Retrieve ==
  LET n == Len(done'.data) IN
  /\ done'.op = "retrieve" /\ KeepsRoom
  /\ n <= Len(content) /\ done'.data = SubSeq(content, 1, n)
  /\ content' = SubSeq(content, n + 1, Len(content))

Prepend ==
  LET n == Len(done'.data) IN
  done'.op = "prepend" /\ n <= room /\ content' = done'.data \o content /\ room' = room - n

Unwrite ==
  LET n == Len(done'.data) IN
  /\ done'.op = "unwrite" /\ n <= Len(content) /\ UNCHANGED room
  /\ done'.data = SubSeq(content, Len(content) - n + 1, Len(content))
  /\ content' = SubSeq(content, 1, Len(content) - n)

Rearrange == done'.op \in {"ensureWritableBytes", "shrink"} /\ UNCHANGED content /\ KeepsRoom

Next == Append_ \/ Retrieve \/ Prepend \/ Unwrite \/ Rearrange

Spec == Init /\ [][Next]_<<content, room, done>>
=============================================================================
