----------------------------- MODULE MCProtocols -----------------------------
(* The protocols above TcpConnection: a program uses one of RpcChannel, HttpServer, Inspector and *)
(* ProtobufCodecLite.                                                                             *)
EXTENDS RpcChannel, Inspector

CONSTANTS MaxLines, MaxFrames   \* bounds: of the other modules

VARIABLES uses,
          httpCallback_, waits, lines, crlf, read, unread, taken, httpState, context, answers, assertions,
          frames, ends, arrived, retrieved, turn, delivered, error, state_

httpVars == <<httpCallback_, waits, lines, crlf, read, unread, taken, httpState, context, answers, assertions>>
codecVars == <<frames, ends, arrived, retrieved, turn, delivered, error, state_>>
all == <<vars, uses, httpVars, codecVars, inspectorVars>>

RequestLine(m, v) == [kind |-> "request", method |-> m, target |-> TRUE, version |-> v]
Header(v) == [kind |-> "header", field |-> "Connection", value |-> v]

Http ==
  INSTANCE HttpServer WITH
    Lines <- {RequestLine("GET", "HTTP/1.1"), RequestLine("POST", "HTTP/1.0"),
              Header("close"), Header("Keep-Alive"), [kind |-> "text"]},
    Callbacks <- {"default", "user"}, sent <- lines, retrieved <- taken, state_ <- httpState

\* A header of one unit, a tag and a checksum of one, and messages of up to two units, of which
\* two are too many.
Codec ==
  INSTANCE ProtobufCodecLite WITH
    kHeaderLen <- 1, tagLen <- 1, kChecksumLen <- 1, kMaxMessageLen <- 3, Payloads <- {0, 1, 2}, sent <- frames

MCBuiltin == {<<"proc", "pid">>}

\* What the program does not use stays in one state.
MCInit ==
  /\ uses \in {"RpcChannel", "HttpServer", "ProtobufCodecLite", "Inspector"}
  /\ Init /\ (uses = "RpcChannel" \/ kind = [i \in Ids |-> "good"])
  /\ Http!Init /\ (uses = "HttpServer" \/ (httpCallback_ = "user" /\ waits))
  /\ Codec!Init /\ InspectorInit

InRpc(A) == uses = "RpcChannel" /\ A /\ UNCHANGED <<uses, httpVars, codecVars, inspectorVars>>
InHttp(A) == uses = "HttpServer" /\ A /\ UNCHANGED <<uses, vars, codecVars, inspectorVars>>
InCodec(A) == uses = "ProtobufCodecLite" /\ A /\ UNCHANGED <<uses, vars, httpVars, inspectorVars>>
InInspector(A) == uses = "Inspector" /\ A /\ UNCHANGED <<uses, vars, httpVars, codecVars>>

MCNext == InRpc(Next) \/ InHttp(Http!Next) \/ InCodec(Codec!Next) \/ InInspector(InspectorNext)

\* The fairness of the four specifications.
MCSpec ==
  /\ MCInit /\ [][MCNext]_all
  /\ WF_all(InRpc(Request)) /\ WF_all(InRpc(Response)) /\ WF_all(InRpc(Run))
  /\ \A c \in Callers : WF_all(InRpc(Store(c))) /\ WF_all(InRpc(SendRequest(c)))
  /\ \A i \in Ids, n \in 1 .. MaxConns : WF_all(InRpc(doneCallback([id |-> i, conn |-> n])))
  /\ WF_all(InHttp(Http!onMessage)) /\ WF_all(InCodec(Codec!onMessage)) /\ WF_all(InCodec(Codec!Turn))

------------------------------------------------------------------------------
(* The properties of the instances. *)

\* See HttpServer: answers once each, in order, and a shutdown when an answer's end is that of the
\* connection (HttpServer.cc:66-99).
AnswersInOrder == Http!AnswersInOrder

\* See HttpServer: a peer that waits is answered (HttpServer.cc:78-82).
WhoWaitsIsAnswered == Http!WhoWaitsIsAnswered

\* See ProtobufCodecLite: it delivers the messages of the stream, and stops at the first that is
\* refused (ProtobufCodecLite.cc:62-96).
ImplementsStream == Codec!ImplementsStream
=============================================================================
