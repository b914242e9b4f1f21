----------------------------- MODULE RpcChannel -----------------------------
(***************************************************************************)
(* muduo::net::RpcChannel on both sides of a connection, and the RpcServer *)
(* that owns the server's one: threads call methods through the client's   *)
(* channel, the server's services answer them, at once or later.  The      *)
(* codec is the message stream that ProtobufCodecLite implements.  When    *)
(* the connection goes down the server's channel is destroyed; the client  *)
(* gives its channel the next connection with setConnection().             *)
(***************************************************************************)
EXTENDS Integers, Sequences, FiniteSets

CONSTANTS Callers,        \* threads that call CallMethod() of the client's channel
          Kinds,          \* the calls: "good", or the ErrorCode they meet
          MaxCalls,       \* bound: calls
          MaxConns        \* bound: connections

Ids == 1 .. MaxCalls

ASSUME RpcAssumption ==
  /\ Kinds \subseteq {"good", "NO_SERVICE", "NO_METHOD", "INVALID_REQUEST"} /\ MaxCalls \in Nat /\ MaxConns \in Nat \ {0}

VARIABLES id_,            \* the number of the last call
          call,           \* of each caller: the call it is making, [at, id], where at counts its steps
          outstandings_,  \* calls that wait for a response
          conn,           \* connections so far; the last one may be
          up,             \*   up
          toServer, toClient, \* the two message streams of it
          working,        \* calls that the services work on: [id, conn]
          running,        \* the response whose done closure the client's loop is about to run
          alive,          \* is the client's channel?
          crashed,        \* has the server met a channel that is gone?
          kind, sentOn,   \* history: of each call, what it asks for and its connection,
          got,            \*   what its closure found in the response object each time it was run,
          freed           \*   and how often its response was deleted

clientVars == <<id_, call, outstandings_, running, alive, got, freed>>
netVars == <<conn, up>>
vars == <<clientVars, netVars, toServer, toClient, working, crashed, kind, sentOn>>

NoCall == [at |-> 0, id |-> 0]
Unset == 0                \* what is in a response object that nothing was parsed into

Init ==
  /\ id_ = 0 /\ call = [c \in Callers |-> NoCall] /\ outstandings_ = {} /\ running = <<>> /\ alive = TRUE
  /\ got = [i \in Ids |-> <<>>] /\ freed = [i \in Ids |-> 0] /\ conn = 1 /\ up = TRUE
  /\ toServer = <<>> /\ toClient = <<>> /\ working = {} /\ crashed = FALSE
  /\ kind \in [Ids -> Kinds] /\ sentOn = [i \in Ids |-> 0]

------------------------------------------------------------------------------
(* CallMethod() *)

\* id_.incrementAndGet()
Number(c) ==
  /\ alive /\ call[c] = NoCall /\ id_ < MaxCalls /\ id_' = id_ + 1
  /\ call' = [call EXCEPT ![c] = [at |-> 1, id |-> id_']]
  /\ UNCHANGED <<outstandings_, running, alive, got, freed, netVars, toServer, toClient, working, crashed, kind, sentOn>>

\* Mutant: the message is sent before the call is put into outstandings_.
Order_SendFirst == <<"send", "store">>

Order == <<"store", "send">>

\* Caller c is at this step of its call, and does it.
Does(c, step) ==
  /\ call[c].at \in DOMAIN Order /\ Order[call[c].at] = step
  /\ call' = [call EXCEPT ![c] = IF @.at = Len(Order) THEN NoCall ELSE [at |-> @.at + 1, id |-> @.id]]

Store(c) ==
  /\ Does(c, "store") /\ outstandings_' = outstandings_ \union {call[c].id}
  /\ UNCHANGED <<id_, running, alive, got, freed, netVars, toServer, toClient, working, crashed, kind, sentOn>>

\* codec_.send(); nothing is sent on a connection that is down.
SendRequest(c) ==
  /\ Does(c, "send")
  /\ sentOn' = [sentOn EXCEPT ![call[c].id] = conn]
  /\ toServer' = IF up THEN Append(toServer, call[c].id) ELSE toServer
  /\ UNCHANGED <<id_, outstandings_, running, alive, got, freed, netVars, toClient, working, crashed, kind>>

------------------------------------------------------------------------------
(* The server's channel: onRpcMessage() for a REQUEST, and doneCallback(). *)

Reply(id, error, body) == toClient' = Append(toClient, [id |-> id, error |-> error, body |-> body])

Request ==
  /\ up /\ toServer # <<>> /\ toServer' = Tail(toServer)
  /\ LET id == Head(toServer) IN
     IF kind[id] = "good"
     THEN working' = working \union {[id |-> id, conn |-> conn]} /\ UNCHANGED toClient
     ELSE Reply(id, kind[id], Unset) /\ UNCHANGED working
  /\ UNCHANGED <<clientVars, netVars, crashed, kind, sentOn>>

\* A service runs its closure.  The closure holds the channel by a bare pointer: when that one is
\* gone with its connection, what happens is undefined, nothing or a crash of the server.
doneCallback(w) ==
  /\ w \in working /\ working' = working \ {w} /\ ~crashed
  /\ IF up /\ w.conn = conn
     THEN Reply(w.id, "NO_ERROR", w.id) /\ UNCHANGED <<crashed, up>>
     ELSE /\ crashed' \in BOOLEAN /\ up' = (up /\ ~crashed')
          /\ UNCHANGED toClient
  /\ UNCHANGED <<clientVars, conn, toServer, kind, sentOn>>

------------------------------------------------------------------------------
(* The client's loop. *)

\* Mutant: the call stays in outstandings_.
Erased_Not(id) == outstandings_

Erased(id) == outstandings_ \ {id}

\* onRpcMessage() for a RESPONSE: the call is taken out of outstandings_.
Response ==
  /\ up /\ toClient # <<>> /\ running = <<>> /\ alive
  /\ toClient' = Tail(toClient)
  /\ outstandings_' = Erased(Head(toClient).id)
  /\ running' = IF Head(toClient).id \in outstandings_ THEN <<Head(toClient)>> ELSE <<>>
  /\ UNCHANGED <<id_, call, alive, got, freed, netVars, toServer, working, crashed, kind, sentOn>>

\* What is in the response object: a message with an error leaves it as the caller made it, and the
\* closure is not told the error.
Parsed(message) == IF message.error = "NO_ERROR" THEN message.body ELSE Unset

\* The response is parsed if there is one, the closure run, and the response object deleted.
Run ==
  /\ running # <<>> /\ running' = <<>>
  /\ got' = [got EXCEPT ![running[1].id] = Append(@, Parsed(running[1]))]
  /\ freed' = [freed EXCEPT ![running[1].id] = @ + 1]
  /\ UNCHANGED <<id_, call, outstandings_, alive, netVars, toServer, toClient, working, crashed, kind, sentOn>>

\* ~RpcChannel(), when no thread is in CallMethod().
Destroy ==
  /\ alive /\ running = <<>> /\ alive' = FALSE /\ \A c \in Callers : call[c] = NoCall
  /\ freed' = [i \in Ids |-> IF i \in outstandings_ THEN freed[i] + 1 ELSE freed[i]]
  /\ UNCHANGED <<id_, call, outstandings_, running, got, netVars, toServer, toClient, working, crashed, kind, sentOn>>

\* The connection goes down: RpcServer::onConnection() destroys its channel.
Down ==
  /\ up /\ up' = FALSE
  /\ UNCHANGED <<clientVars, conn, toServer, toClient, working, crashed, kind, sentOn>>

\* RpcServer::onConnection(), and setConnection() on the client's side.
Up ==
  /\ ~up /\ ~crashed /\ conn < MaxConns /\ conn' = conn + 1 /\ up' = TRUE
  /\ toServer' = <<>> /\ toClient' = <<>>
  /\ UNCHANGED <<clientVars, working, crashed, kind, sentOn>>

------------------------------------------------------------------------------

CallMethod(c) == Number(c) \/ Store(c) \/ SendRequest(c)

Next ==
  \/ Request \/ Response \/ Run \/ Destroy \/ Down \/ Up
  \/ \E c \in Callers : CallMethod(c)
  \/ \E w \in working : doneCallback(w)

Spec == Init /\ [][Next]_vars

\* Threads and loops run on, and services answer in the end.
FairSpec ==
  /\ Spec /\ WF_vars(Request) /\ WF_vars(Response) /\ WF_vars(Run)
  /\ \A c \in Callers : WF_vars(Store(c)) /\ WF_vars(SendRequest(c))
  /\ \A i \in Ids, n \in 1 .. MaxConns : WF_vars(doneCallback([id |-> i, conn |-> n]))

------------------------------------------------------------------------------
(* Properties. *)

TypeOK ==
  /\ outstandings_ \subseteq 1 .. id_ /\ \A c \in Callers : call[c].id \in 0 .. id_
  /\ {toServer[i] : i \in DOMAIN toServer} \subseteq 1 .. id_

\* A closure is run at most once, and finds in its response object what the service answered to its own
\* call, or nothing if the server answered with an error; every message that arrives finds its call; a
\* response object is deleted once: when its closure has run, or by the destructor
\* (RpcChannel.cc:34-43, 58-69, 88-114).
CallsMatch ==
  /\ TypeOK
  /\ \A i \in Ids : Len(got[i]) <= 1 /\ freed[i] <= 1 /\ (got[i] # <<>> => got[i][1] = IF kind[i] = "good" THEN i ELSE Unset)
  /\ up /\ alive => \A i \in DOMAIN toClient : toClient[i].id \in outstandings_
  /\ ~alive => \A i \in 1 .. id_ : freed[i] = 1

\* A call is answered, unless its connection goes down or the channel is destroyed first.
CallsAreAnswered ==
  \A i \in Ids : sentOn[i] # 0 ~> got[i] # <<>> \/ ~alive \/ ~up \/ sentOn[i] # conn
=============================================================================
