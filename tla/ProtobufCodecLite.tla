-------------------------- MODULE ProtobufCodecLite --------------------------
(***************************************************************************)
(* muduo::net::ProtobufCodecLite: frames [length, tag, payload, checksum]  *)
(* on a byte stream that arrives in pieces.  Lengths are counted in units  *)
(* of the model; of the contents of a frame only what parse() tells apart  *)
(* is kept.  A step is a read of the connection or one turn of the loop of *)
(* onMessage().                                                            *)
(***************************************************************************)
EXTENDS Integers, Sequences

CONSTANTS kHeaderLen, tagLen, kChecksumLen, kMaxMessageLen,
          Payloads,       \* sizes of the messages that are sent
          MaxFrames       \* bound: frames on a connection

kMinMessageLen == tagLen + kChecksumLen

\* A frame has a length field and as many units after it, unless the field is invalid; is its tag,
\* its checksum right; can its payload be parsed; does rawCb_ let the message be parsed?
Frame(len, size, tag, sum, payload, raw) ==
  [len |-> len, size |-> size, tag |-> tag, sum |-> sum, payload |-> payload, raw |-> raw]

\* fillEmptyBuffer(): it does not look at kMaxMessageLen.
fillEmptyBuffer(n, raw) ==
  LET len == tagLen + n + kChecksumLen IN Frame(len, kHeaderLen + len, TRUE, TRUE, TRUE, raw)

\* What peers send: messages, some left out by rawCb_, and frames that another program got wrong.
Frames ==
  {fillEmptyBuffer(n, raw) : n \in Payloads, raw \in BOOLEAN}
    \union {Frame(kMinMessageLen, kHeaderLen + kMinMessageLen, tag, sum, FALSE, TRUE) : tag, sum \in BOOLEAN}
    \union {Frame(len, kHeaderLen + kMinMessageLen, TRUE, TRUE, TRUE, TRUE) : len \in {-1, kMinMessageLen - 1}}

VARIABLES sent,           \* the frames sent,
          ends,           \*   and where each of them ends in the stream
          arrived,        \* units read from the connection, counted
          retrieved,      \* frames retrieved from the buffer, counted
          turn,           \* is onMessage() in its loop?
          delivered,      \* the messages given to messageCallback_, by their number
          error,          \* the last ErrorCode given to errorCallback_
          state_          \* of the connection

vars == <<sent, ends, arrived, retrieved, turn, delivered, error, state_>>

\* The length of the first n frames.
Units(n) == IF n = 0 THEN 0 ELSE ends[n]

Init ==
  /\ sent = <<>> /\ ends = <<>> /\ arrived = 0 /\ retrieved = 0 /\ turn = FALSE
  /\ delivered = <<>> /\ error = "kNoError" /\ state_ = "kConnected"

send(f) ==
  /\ Len(sent) < MaxFrames
  /\ sent' = Append(sent, f) /\ ends' = Append(ends, Units(Len(sent)) + f.size)
  /\ UNCHANGED <<arrived, retrieved, turn, delivered, error, state_>>

\* handleRead() reads some units and calls onMessage().
onMessage ==
  /\ ~turn /\ turn' = TRUE
  /\ \E n \in arrived + 1 .. Units(Len(sent)) : arrived' = n
  /\ UNCHANGED <<sent, ends, retrieved, delivered, error, state_>>

------------------------------------------------------------------------------
(* The loop of onMessage(). *)

readableBytes == arrived - Units(retrieved)

Front == sent[retrieved + 1]

\* Mutant: a frame without payload does not count as a whole one.
HeaderReadable_More == readableBytes > kMinMessageLen + kHeaderLen

HeaderReadable == readableBytes >= kMinMessageLen + kHeaderLen

InvalidLength == Front.len > kMaxMessageLen \/ Front.len < kMinMessageLen

parse(f) ==
  CASE ~f.sum -> "kCheckSumError"
    [] f.sum /\ ~f.tag -> "kUnknownMessageType"
    [] f.sum /\ f.tag /\ ~f.payload -> "kParseError"
    [] OTHER -> "kNoError"

\* errorCallback_ is defaultErrorCallback(); the frame stays in the buffer.
Error(code) ==
  /\ error' = code /\ turn' = FALSE /\ state_' = "kDisconnecting"
  /\ UNCHANGED <<retrieved, delivered>>

Retrieve(d) == retrieved' = retrieved + 1 /\ delivered' = d /\ UNCHANGED <<turn, error, state_>>

Turn ==
  /\ turn
  /\ CASE ~HeaderReadable -> turn' = FALSE /\ UNCHANGED <<retrieved, delivered, error, state_>>
       [] HeaderReadable /\ InvalidLength -> Error("kInvalidLength")
       [] HeaderReadable /\ ~InvalidLength /\ readableBytes < kHeaderLen + Front.len ->
            turn' = FALSE /\ UNCHANGED <<retrieved, delivered, error, state_>>
       [] OTHER ->
            IF ~Front.raw THEN Retrieve(delivered)
            ELSE IF parse(Front) = "kNoError" THEN Retrieve(Append(delivered, retrieved + 1))
            ELSE Error(parse(Front))
  /\ UNCHANGED <<sent, ends, arrived>>

Next == (\E f \in Frames : send(f)) \/ onMessage \/ Turn

\* What is sent arrives, and the loop goes on.
Spec == Init /\ [][Next]_vars /\ WF_vars(onMessage) /\ WF_vars(Turn)

------------------------------------------------------------------------------
(* Properties. *)

RefusedFrame(f) == f.len > kMaxMessageLen \/ f.len < kMinMessageLen \/ (f.raw /\ ~(f.sum /\ f.tag /\ f.payload))

Stream ==
  INSTANCE MessageStream WITH
    Messages <- Frames, Refused <- RefusedFrame, Skipped <- LAMBDA f : ~f.raw, handled <- retrieved

\* The connection is shut down for a frame that is refused and for nothing else, and the frame is
\* not consumed (ProtobufCodecLite.cc:65-69, 86-90, 165-168).
RefusedShutsDown ==
  state_ = "kDisconnecting" <=> error # "kNoError" /\ retrieved < Len(sent) /\ RefusedFrame(Front)

\* However the stream is cut into pieces, messages are delivered once each, in order and without
\* waiting for a later one, up to the first frame that is refused (ProtobufCodecLite.cc:62-96);
\* that one, and no other, ends the connection.
ImplementsStream == Stream!Spec /\ []RefusedShutsDown
=============================================================================
