----------------------------- MODULE HttpServer -----------------------------
(***************************************************************************)
(* muduo::net::HttpServer on one connection: what the peer sends arrives   *)
(* in pieces, HttpContext parses it into HttpRequests, and every request   *)
(* is answered by an HttpResponse.  A step is one call of onMessage().     *)
(* The connection is reduced to what HttpServer sees of it: connected() is *)
(* true until shutdown(), after which send() does nothing and input still  *)
(* arrives.                                                                *)
(***************************************************************************)
EXTENDS Integers, Sequences, SequencesExt, FiniteSetsExt, TLC

CONSTANTS Lines,          \* what the peer may send, line by line
          MaxLines,       \* bound: lines that the peer sends
          Callbacks       \* the httpCallback_s: "default", or "user" for one that answers 200

\* A line is a request line, a header, or text with neither a colon nor a blank, as the empty line.
RequestLines ==
  [kind : {"request"}, method : {"GET", "POST", "HEAD", "PUT", "DELETE", "other"},
   target : BOOLEAN,            \* is there a second blank, after the path?
   version : {"HTTP/1.0", "HTTP/1.1", "other"}]
Headers == [kind : {"header"}, field : {"Connection", "Host"}, value : {"close", "Keep-Alive", "muduo"}]
Text == [kind |-> "text"]

\* A choice of lines, among them request lines that the parser refuses.
Request(m, v) == [kind |-> "request", method |-> m, target |-> TRUE, version |-> v]
Connection(v) == [kind |-> "header", field |-> "Connection", value |-> v]
SomeLines ==
  {Request("GET", "HTTP/1.1"), Request("POST", "HTTP/1.0"), Request("PUT", "other"),
   Connection("close"), Connection("Keep-Alive"), Text}

VARIABLES httpCallback_,
          waits,          \* does the peer wait for the answer to a request before it sends more?
          sent,           \* the lines sent by the peer, the last perhaps
          crlf,           \*   without its CRLF
          read,           \* the lines read by the server with their CRLF, counted
          unread,         \* is something sent and not read?
          retrieved,      \* lines taken out of inputBuffer_, counted
          state_,         \* the connection's
          context,        \* HttpContext: [state_, request_]
          answers,        \* the responses sent, in order
          assertions      \* history: has every assertion held?

vars == <<httpCallback_, waits, sent, crlf, read, unread, retrieved, state_, context, answers, assertions>>

hasColon(line) == line.kind = "header"

------------------------------------------------------------------------------
(* HttpRequest and HttpContext. *)

NoRequest == [method_ |-> "kInvalid", version_ |-> "kUnknown", headers_ |-> <<>>]

\* HttpContext(), and what reset() makes of one.
Fresh == [state_ |-> "kExpectRequestLine", request_ |-> NoRequest]

\* Mutant: the headers of the last request stay.
reset_KeepsHeaders(c) == [c EXCEPT !.state_ = "kExpectRequestLine", !.request_.method_ = "kInvalid"]

reset(c) == Fresh

\* The method that setMethod() leaves; a line without a blank does not get so far.
setMethod(request, line) ==
  CASE line.kind = "text" -> request.method_
    [] line.kind = "request" /\ line.method # "other" -> line.method
    [] OTHER -> "kInvalid"

\* assert(method_ == kInvalid) in setMethod()
MethodUnset(c, line) == line.kind = "text" \/ c.request_.method_ = "kInvalid"

LineIsGood(line) ==
  line.kind = "request" /\ line.method # "other" /\ line.target /\ line.version # "other"

\* A request line that is refused leaves its method behind.
processRequestLine(c, line) ==
  LET request == [c.request_ EXCEPT !.method_ = setMethod(c.request_, line)]
  IN  IF LineIsGood(line)
      THEN [state_ |-> "kExpectHeaders", request_ |-> [request EXCEPT !.version_ = line.version]]
      ELSE [c EXCEPT !.request_ = request]

\* headers_[field] = value, line by line: the latest value of a field counts.
addHeaders(request, lines) == [request EXCEPT !.headers_ = @ \o SelectSeq(lines, hasColon)]

getHeader(request, field) ==
  LET is == {i \in DOMAIN request.headers_ : request.headers_[i].field = field}
  IN  IF is = {} THEN "" ELSE request.headers_[CHOOSE i \in is : \A j \in is : j <= i].value

\* Mutant: the last line in the buffer is not looked at.
Ends_ButLast(lines) == {i \in 1 .. Len(lines) - 1 : ~hasColon(lines[i])}

Ends(lines) == {i \in DOMAIN lines : ~hasColon(lines[i])}

\* The turns of parseRequest() in kExpectHeaders, up to the first line without a colon if it is there.
ParseHeaders(c, lines) ==
  LET ends == Ends(lines)
      n    == IF ends = {} THEN Len(lines) ELSE Min(ends) - 1
  IN  [context |-> [state_   |-> IF ends = {} THEN "kExpectHeaders" ELSE "kGotAll",
                    request_ |-> addHeaders(c.request_, SubSeq(lines, 1, n))],
       taken |-> IF ends = {} THEN n ELSE n + 1]

\* parseRequest() on a buffer with these complete lines: [context, taken: lines retrieved, ok, asserted].
parseRequest(c, lines) ==
  CASE lines = <<>> -> [context |-> c, taken |-> 0, ok |-> TRUE, asserted |-> TRUE]
    [] lines # <<>> /\ c.state_ = "kExpectHeaders" -> [ok |-> TRUE, asserted |-> TRUE] @@ ParseHeaders(c, lines)
    [] lines # <<>> /\ c.state_ = "kExpectRequestLine" ->
         LET h == IF LineIsGood(Head(lines)) THEN ParseHeaders(processRequestLine(c, Head(lines)), Tail(lines))
                  ELSE [context |-> processRequestLine(c, Head(lines)), taken |-> -1]
         IN  [context |-> h.context, taken |-> h.taken + 1,
              ok |-> LineIsGood(Head(lines)), asserted |-> MethodUnset(c, Head(lines))]

------------------------------------------------------------------------------
(* HttpServer and HttpResponse. *)

BadRequest == [status |-> 400, contentLength |-> FALSE]

\* appendToBuffer(): with "Connection: close" there is no Content-Length.
appendToBuffer(status, closeConnection) == [status |-> status, contentLength |-> ~closeConnection]

\* defaultHttpCallback(), or a callback that leaves closeConnection as it is.
httpCallback(cb, close) == IF cb = "default" THEN [status |-> 404, close |-> TRUE] ELSE [status |-> 200, close |-> close]

\* Mutant: HTTP/1.0 connections are kept open unless the peer asks for a close.
MustClose_Asked(request) == getHeader(request, "Connection") = "close"

MustClose(request) ==
  \/ getHeader(request, "Connection") = "close"
  \/ request.version_ = "HTTP/1.0" /\ getHeader(request, "Connection") # "Keep-Alive"

\* onRequest(): the answer, and whether shutdown() follows.
onRequest(cb, request) ==
  LET response == httpCallback(cb, MustClose(request))
  IN  [answer |-> appendToBuffer(response.status, response.close), shutdown |-> response.close]

------------------------------------------------------------------------------
(* What the peer is to get, from the lines it sends alone. *)

\* The answer to the request on lines i .. e - 1, which ends with line e.
AnswerTo(cb, lines, i, e) ==
  LET asked == {j \in i + 1 .. e - 1 : lines[j].field = "Connection"}
      wish  == IF asked = {} THEN "none" ELSE lines[CHOOSE j \in asked : \A k \in asked : k <= j].value
      stays == (lines[i].version = "HTTP/1.1" /\ wish # "close") \/ wish = "Keep-Alive"
  IN  IF cb = "default" THEN [status |-> 404, contentLength |-> FALSE] ELSE [status |-> 200, contentLength |-> stays]

\* A request ends with the first line after its request line that is not a header; nothing follows
\* an answer that closes.
Expected(cb, lines) ==
  LET from[i \in 1 .. Len(lines) + 1] ==
        LET ends == {j \in i + 1 .. Len(lines) : ~hasColon(lines[j])}
            e    == CHOOSE j \in ends : \A k \in ends : j <= k
            a    == AnswerTo(cb, lines, i, e)
        IN  CASE i > Len(lines) -> <<>>
              [] i <= Len(lines) /\ ~LineIsGood(lines[i]) -> <<BadRequest>>
              [] i <= Len(lines) /\ LineIsGood(lines[i]) /\ ends = {} -> <<>>
              [] OTHER -> IF a.contentLength THEN <<a>> \o from[e + 1] ELSE <<a>>
  IN  from[1]

Answered == Len(answers) = Len(Expected(httpCallback_, SubSeq(sent, 1, Len(sent) - (IF crlf THEN 0 ELSE 1))))

------------------------------------------------------------------------------

Init ==
  /\ httpCallback_ \in Callbacks /\ waits \in BOOLEAN
  /\ sent = <<>> /\ crlf = TRUE /\ unread = FALSE /\ read = 0 /\ retrieved = 0
  /\ state_ = "kConnected" /\ context = Fresh \* onConnection()
  /\ answers = <<>> /\ assertions = TRUE

Send(line) ==
  /\ assertions /\ crlf /\ Len(sent) < MaxLines
  /\ waits => Answered
  /\ sent' = Append(sent, line) /\ crlf' = FALSE /\ unread' = TRUE
  /\ UNCHANGED <<httpCallback_, waits, read, retrieved, state_, context, answers, assertions>>

SendCRLF ==
  /\ assertions /\ ~crlf /\ crlf' = TRUE /\ unread' = TRUE
  /\ UNCHANGED <<httpCallback_, waits, sent, read, retrieved, state_, context, answers, assertions>>

\* handleRead() reads what is there and calls onMessage(); a failed assertion is the end.
onMessage ==
  /\ assertions /\ unread /\ unread' = FALSE
  /\ read' = Len(sent) - (IF crlf THEN 0 ELSE 1)
  /\ \E p \in {parseRequest(context, SubSeq(sent, retrieved + 1, read'))} :
     LET got == p.context.state_ = "kGotAll"
         r   == onRequest(httpCallback_, p.context.request_)
         out == (IF p.ok THEN <<>> ELSE <<BadRequest>>) \o (IF got THEN <<r.answer>> ELSE <<>>)
     IN  /\ retrieved' = retrieved + p.taken
         /\ context' = IF got THEN reset(p.context) ELSE p.context
         /\ answers' = IF state_ = "kConnected" THEN answers \o out ELSE answers
         /\ state_' = IF ~p.ok \/ (got /\ r.shutdown) THEN "kDisconnecting" ELSE state_
         /\ assertions' = p.asserted
  /\ UNCHANGED <<httpCallback_, waits, sent, crlf>>

Next == (\E line \in Lines : Send(line)) \/ SendCRLF \/ onMessage

Spec == Init /\ [][Next]_vars

\* What has arrived is read.
FairSpec == Spec /\ WF_vars(onMessage)

------------------------------------------------------------------------------
(* Properties. *)

TypeOK ==
  /\ httpCallback_ \in Callbacks /\ waits \in BOOLEAN /\ crlf \in BOOLEAN /\ unread \in BOOLEAN
  /\ retrieved <= read /\ read <= Len(sent) /\ state_ \in {"kConnected", "kDisconnecting"}
  /\ context.state_ \in {"kExpectRequestLine", "kExpectHeaders"}

\* However the input is cut into pieces, requests are answered once each, in order and according to
\* their own lines only, and the connection is shut down after the first answer whose end the peer
\* cannot tell by a Content-Length, and only then (HttpContext.cc:60-118, HttpServer.cc:66-99).
\* The context is never left in kGotAll, where parseRequest() would not return.
AnswersInOrder ==
  /\ TypeOK /\ IsPrefix(answers, Expected(httpCallback_, SubSeq(sent, 1, read)))
  /\ state_ = "kConnected" <=> \A i \in DOMAIN answers : answers[i].contentLength

\* A peer that waits for each answer before it sends more gets it: of the requests in the buffer
\* only those sent ahead are left for the next call (HttpServer.cc:78-82).
WhoWaitsIsAnswered == waits /\ ~Answered ~> Answered

\* setMethod() is called for a request without a method only (HttpRequest.h:55).
HttpAssertionsHold == assertions
=============================================================================
