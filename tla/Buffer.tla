------------------------------- MODULE Buffer -------------------------------
(***************************************************************************)
(* muduo::net::Buffer: a vector of bytes with a read and a write index.    *)
(* A buffer is a record of the three members; operations take one and      *)
(* return one, as shrink() works on a second buffer.                       *)
(***************************************************************************)
EXTENDS Integers, Sequences

CONSTANTS Base,            \* a byte is one of 0 .. Base - 1 (256)
          kCheapPrepend, kInitialSize,
          ExtraSize,       \* sizeof extrabuf
          Data,            \* byte strings appended, prepended or read from a socket
          Lens,            \* lengths retrieved, cut or reserved
          Ints, Widths,    \* integers written, and their sizes in bytes
          MaxSize          \* bound: the vector's length

Byte == 0 .. Base - 1

ASSUME BufferAssumption ==
  /\ Base \in Nat \ {0, 1} /\ kCheapPrepend \in Nat /\ kInitialSize \in Nat
  /\ ExtraSize \in Nat /\ Data \subseteq Seq(Byte) /\ Lens \subseteq Nat
  /\ Ints \subseteq Int /\ Widths \subseteq Nat \ {0} /\ MaxSize \in Nat

VARIABLES buf,             \* the buffer
          done             \* the last operation: name, bytes, and the integer, if any

bufferVars == <<buf, done>>

------------------------------------------------------------------------------
(* Accessors and operations of a buffer b. *)

readableBytes(b) == b.writerIndex_ - b.readerIndex_
writableBytes(b) == Len(b.buffer_) - b.writerIndex_
prependableBytes(b) == b.readerIndex_

\* The n bytes from peek() on.
Peek(b, n) == SubSeq(b.buffer_, b.readerIndex_ + 1, b.readerIndex_ + n)

New(initialSize) ==
  [buffer_ |-> [i \in 1 .. kCheapPrepend + initialSize |-> 0],
   readerIndex_ |-> kCheapPrepend, writerIndex_ |-> kCheapPrepend]

\* std::copy() of d to the bytes of v from index i on.
Copy(v, i, d) == [k \in 1 .. Len(v) |-> IF k \in i + 1 .. i + Len(d) THEN d[k - i] ELSE v[k]]

\* vector::resize() to at least the present length.
Resize(v, n) == [k \in 1 .. n |-> IF k <= Len(v) THEN v[k] ELSE 0]

Grows(b, len) == writableBytes(b) + prependableBytes(b) < len + kCheapPrepend

makeSpace(b, len) ==
  IF Grows(b, len)
  THEN [b EXCEPT !.buffer_ = Resize(@, b.writerIndex_ + len)]
  ELSE [buffer_ |-> Copy(b.buffer_, kCheapPrepend, Peek(b, readableBytes(b))),
        readerIndex_ |-> kCheapPrepend, writerIndex_ |-> kCheapPrepend + readableBytes(b)]

ensureWritableBytes(b, len) == IF writableBytes(b) < len THEN makeSpace(b, len) ELSE b

append(b, d) ==
  LET e == ensureWritableBytes(b, Len(d)) IN
  [e EXCEPT !.buffer_ = Copy(@, e.writerIndex_, d), !.writerIndex_ = @ + Len(d)]

\* retrieve() and, for the last byte, retrieveAll()
retrieve(b, len) ==
  IF len < readableBytes(b) THEN [b EXCEPT !.readerIndex_ = @ + len]
  ELSE [b EXCEPT !.readerIndex_ = kCheapPrepend, !.writerIndex_ = kCheapPrepend]

unwrite(b, len) == [b EXCEPT !.writerIndex_ = @ - len]

prepend(b, d) ==
  [b EXCEPT !.readerIndex_ = @ - Len(d), !.buffer_ = Copy(@, b.readerIndex_ - Len(d), d)]

\* The buffer that shrink() swaps in.
shrink(b, reserve) ==
  append(ensureWritableBytes(New(kInitialSize), readableBytes(b) + reserve), Peek(b, readableBytes(b)))

\* The bytes that one readv(2) can deliver.
ReadLimit(b) == writableBytes(b) + IF writableBytes(b) < ExtraSize THEN ExtraSize ELSE 0

\* Mutant: the bytes in extrabuf are forgotten.
Overflow_Dropped(b, d) == <<>>

\* The part of d that readv(2) puts in extrabuf.
Overflow(b, d) == SubSeq(d, writableBytes(b) + 1, Len(d))

\* readFd() of d: the kernel fills the writable bytes first.
readFd(b, d) ==
  IF Len(d) <= writableBytes(b)
  THEN [b EXCEPT !.buffer_ = Copy(@, b.writerIndex_, d), !.writerIndex_ = @ + Len(d)]
  ELSE append([b EXCEPT !.buffer_ = Copy(@, b.writerIndex_, SubSeq(d, 1, writableBytes(b))),
                        !.writerIndex_ = Len(b.buffer_)],
              Overflow(b, d))

------------------------------------------------------------------------------
(* Integers in network byte order. *)

\* Mutant: host byte order.
hostToNetwork_Little(x, w) == [i \in 1 .. w |-> (x % Base^w) \div Base^(i - 1) % Base]

\* The w bytes of the two's complement of x, the most significant first.
hostToNetwork(x, w) == [i \in 1 .. w |-> (x % Base^w) \div Base^(w - i) % Base]

networkToHost(d) ==
  LET w == Len(d)
      u[k \in 0 .. w] == IF k = 0 THEN 0 ELSE u[k - 1] * Base + d[k]
  IN  IF 2 * u[w] >= Base^w THEN u[w] - Base^w ELSE u[w]

Fits(x, w) == -(Base^w) <= 2 * x /\ 2 * x < Base^w

peekInt(b, w) == networkToHost(Peek(b, w))

------------------------------------------------------------------------------
(* Operations, each with the precondition that it asserts. *)

BufferInit == buf = New(kInitialSize) /\ done = [op |-> "new", data |-> <<>>]

Becomes(b, what) == Len(b.buffer_) <= MaxSize /\ buf' = b /\ done' = what

Append_ == \E d \in Data : Becomes(append(buf, d), [op |-> "append", data |-> d])

AppendInt == \E x \in Ints, w \in Widths :
  LET d == hostToNetwork(x, w) IN
  Fits(x, w) /\ Becomes(append(buf, d), [op |-> "append", data |-> d, value |-> x])

\* retrieveAsString(), retrieveUntil(), readInt() and the like, which peek first.
Retrieve == \E len \in Lens \union {readableBytes(buf)} :
  /\ len <= readableBytes(buf)
  /\ Becomes(retrieve(buf, len), [op |-> "retrieve", data |-> Peek(buf, len)])

Unwrite == \E len \in Lens :
  /\ len <= readableBytes(buf)
  /\ Becomes(unwrite(buf, len),
             [op |-> "unwrite", data |-> SubSeq(buf.buffer_, buf.writerIndex_ - len + 1, buf.writerIndex_)])

Prepend == \E d \in Data :
  Len(d) <= prependableBytes(buf) /\ Becomes(prepend(buf, d), [op |-> "prepend", data |-> d])

PrependInt == \E x \in Ints, w \in Widths :
  LET d == hostToNetwork(x, w) IN
  /\ Fits(x, w) /\ w <= prependableBytes(buf)
  /\ Becomes(prepend(buf, d), [op |-> "prepend", data |-> d, value |-> x])

EnsureWritableBytes == \E len \in Lens :
  Becomes(ensureWritableBytes(buf, len), [op |-> "ensureWritableBytes", data |-> <<>>])

Shrink == \E reserve \in Lens : Becomes(shrink(buf, reserve), [op |-> "shrink", data |-> <<>>])

\* A read that fails changes nothing.
ReadFd == \E d \in Data :
  Len(d) <= ReadLimit(buf) /\ Becomes(readFd(buf, d), [op |-> "readFd", data |-> d])

BufferNext ==
  \/ Append_ \/ AppendInt \/ Retrieve \/ Unwrite \/ Prepend \/ PrependInt
  \/ EnsureWritableBytes \/ Shrink \/ ReadFd

BufferSpec == BufferInit /\ [][BufferNext]_bufferVars

------------------------------------------------------------------------------
(* Properties. *)

\* 0 <= readerIndex_ <= writerIndex_ <= size, the picture in Buffer.h:38-44.
BufferTypeOK ==
  /\ buf.buffer_ \in Seq(Byte)
  /\ buf.readerIndex_ \in 0 .. buf.writerIndex_ /\ buf.writerIndex_ \in 0 .. Len(buf.buffer_)

Queue == INSTANCE ByteQueue WITH
  content <- Peek(buf, readableBytes(buf)), room <- prependableBytes(buf),
  done <- [op |-> done.op, data |-> done.data]

\* Across growth, moves to the front, reads into two places and shrinking, a buffer is the
\* queue of bytes that its users take it for.
IsByteQueue == Queue!Spec

\* An integer put at the front is read back as it was, whatever its sign and width, and so
\* is one appended to an empty buffer.
IntRoundTrip ==
  BufferTypeOK /\ ("value" \in DOMAIN done /\ (done.op = "prepend" \/ readableBytes(buf) = Len(done.data))
    => peekInt(buf, Len(done.data)) = done.value)

=============================================================================
