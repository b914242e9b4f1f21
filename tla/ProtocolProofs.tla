--------------------------- MODULE ProtocolProofs ---------------------------
(***************************************************************************)
(* CallsMatch of RpcChannel, for any callers and any number of calls and   *)
(* connections, RemovedIsQuiet of Inspector, IsByteQueue of Buffer, and    *)
(* that ProtobufCodecLite implements MessageStream, but for its liveness.  *)
(* The inductive invariant of the channel says where a call can be: with   *)
(* its caller, in one of the two streams, with a service or with the       *)
(* client's loop, never in two of these places, and which of them imply    *)
(* that it is outstanding.  The operations of Buffer are shown one by one  *)
(* to do what ByteQueue says to the bytes between the two indices.         *)
(***************************************************************************)
EXTENDS RpcChannel, Inspector, Buffer, TLAPS

Answer(i) == IF kind[i] = "good" THEN i ELSE Unset
Bodies == Ids \union {Unset}
Replies == [id : Ids, error : Kinds \union {"NO_ERROR"}, body : Bodies]

\* Where a caller is, and the number of its call.
at == [c \in Callers |-> call[c].at]
num == [c \in Callers |-> call[c].id]

Elems(s) == {s[j] : j \in DOMAIN s}
Distinct(s) == \A j, k \in DOMAIN s : s[j] = s[k] => j = k

\* The calls that are on their way to the server, with its services, and on their way back.
Requested == Elems(toServer)
Worked == {w.id : w \in working}
Answered == {r.id : r \in Elems(toClient)}

Types ==
  /\ id_ \in 0 .. MaxCalls /\ call \in [Callers -> [at : 0 .. 2, id : 0 .. MaxCalls]]
  /\ at \in [Callers -> 0 .. 2] /\ num \in [Callers -> 0 .. MaxCalls]
  /\ outstandings_ \subseteq 1 .. id_ /\ running \in Seq(Replies) /\ alive \in BOOLEAN
  /\ got \in [Ids -> Seq(Bodies)] /\ freed \in [Ids -> 0 .. 1] /\ kind \in [Ids -> Kinds]

\* A request or a response is in its stream once, and a service works once on a call; a response is
\* that of its call.
Streams ==
  /\ toServer \in Seq(Ids) /\ Distinct(toServer)
  /\ toClient \in Seq(Replies) /\ Distinct(toClient)
  /\ \A r, m \in Elems(toClient) : Parsed(r) = Answer(r.id) /\ (r.id = m.id => r = m)
  /\ working \subseteq [id : Ids, conn : Nat] /\ conn \in Nat
  /\ \A v, w \in working : kind[v.id] = "good" /\ (v.id = w.id => v = w)

\* A call is outstanding wherever it is, and in one place only.
Places ==
  /\ Requested \union Worked \union Answered \subseteq outstandings_
  /\ Requested \cap Worked = {} /\ Requested \cap Answered = {} /\ Worked \cap Answered = {}

\* A caller is in no call, or has numbered one and not stored it, or has stored it and not sent it;
\* no two callers have the same number.
Numbers ==
  /\ \A c \in Callers : IF at[c] = 0 THEN num[c] = 0 ELSE num[c] \in 1 .. id_
  /\ \A c, d \in Callers : c # d /\ at[c] # 0 => num[c] # num[d]
Unstored == \A c \in Callers : at[c] = 1 => num[c] \notin outstandings_ /\ got[num[c]] = <<>> /\ freed[num[c]] = 0
Unsent == \A c \in Callers : at[c] = 2 => num[c] \in outstandings_ \ (Requested \union Worked \union Answered)

\* The client's loop is about to run the closure of a call that is no longer outstanding.
Closure ==
  /\ Len(running) <= 1
  /\ running # <<>> =>
       /\ alive /\ running[1].id \in (1 .. id_) \ outstandings_ /\ Parsed(running[1]) = Answer(running[1].id)
       /\ got[running[1].id] = <<>> /\ freed[running[1].id] = 0
       /\ \A c \in Callers : at[c] # 0 => num[c] # running[1].id

\* An outstanding call has its response object until the channel is destroyed, and a number that
\* was not given out has none.
Kept ==
  /\ \A i \in outstandings_ : got[i] = <<>> /\ freed[i] = (IF alive THEN 0 ELSE 1)
  /\ \A i \in Ids : i > id_ => got[i] = <<>> /\ freed[i] = 0
RunOnce == \A i \in Ids : Len(got[i]) <= 1 /\ (got[i] # <<>> => got[i][1] = Answer(i) /\ freed[i] = 1)

\* No response object is forgotten: it is outstanding, deleted, not stored yet, or about to be.
Accounted ==
  \A i \in 1 .. id_ :
    \/ i \in outstandings_ \/ freed[i] = 1
    \/ \E c \in Callers : at[c] = 1 /\ num[c] = i
    \/ running # <<>> /\ running[1].id = i
Gone == ~alive => running = <<>> /\ \A c \in Callers : at[c] = 0

RpcInv ==
  /\ Types /\ Streams /\ Places /\ Numbers /\ Unstored /\ Unsent
  /\ Closure /\ Kept /\ RunOnce /\ Accounted /\ Gone

------------------------------------------------------------------------------
\* Appending to a stream.
LEMMA AppendElems ==
  ASSUME NEW S, NEW s \in Seq(S), NEW e \in S
  PROVE  /\ Append(s, e) \in Seq(S)
         /\ Elems(Append(s, e)) = Elems(s) \union {e}
         /\ Distinct(s) /\ e \notin Elems(s) => Distinct(Append(s, e))
<1>1. /\ Append(s, e) \in Seq(S) /\ Len(Append(s, e)) = Len(s) + 1
      /\ DOMAIN Append(s, e) = 1 .. Len(s) + 1 /\ DOMAIN s = 1 .. Len(s) /\ Len(s) \in Nat
      /\ \A j \in 1 .. Len(s) : Append(s, e)[j] = s[j]
      /\ Append(s, e)[Len(s) + 1] = e
  OBVIOUS
<1>2. \A j \in 1 .. Len(s) + 1 : j \in 1 .. Len(s) \/ j = Len(s) + 1
  BY <1>1
<1> QED
  BY <1>1, <1>2 DEF Elems, Distinct

\* Taking the first message of a stream.
LEMMA TailElems ==
  ASSUME NEW S, NEW s \in Seq(S), s # <<>>, Distinct(s)
  PROVE  /\ Tail(s) \in Seq(S) /\ Head(s) \in S /\ Head(s) \in Elems(s)
         /\ Elems(Tail(s)) = Elems(s) \ {Head(s)}
         /\ Distinct(Tail(s))
<1>1. /\ Tail(s) \in Seq(S) /\ Head(s) = s[1] /\ Len(s) \in Nat \ {0}
      /\ DOMAIN s = 1 .. Len(s) /\ DOMAIN Tail(s) = 1 .. Len(s) - 1
      /\ \A j \in 1 .. Len(s) - 1 : Tail(s)[j] = s[j + 1]
  OBVIOUS
<1>2. \A j \in 1 .. Len(s) : j = 1 \/ (j - 1 \in 1 .. Len(s) - 1 /\ Tail(s)[j - 1] = s[j])
  BY <1>1
<1>3. Head(s) \in S /\ Head(s) \in Elems(s)
  BY <1>1 DEF Elems
<1>4. Distinct(Tail(s))
  BY <1>1 DEF Distinct
<1>5. Elems(Tail(s)) \subseteq Elems(s) \ {Head(s)}
  BY <1>1 DEF Elems, Distinct
<1>6. ASSUME NEW e \in Elems(s) \ {Head(s)}
      PROVE  e \in Elems(Tail(s))
  <2>1. PICK j \in 1 .. Len(s) : e = s[j]
    BY <1>1, Zenon DEF Elems
  <2>2. j - 1 \in 1 .. Len(s) - 1 /\ Tail(s)[j - 1] = e
    BY <1>1, <1>2, <2>1, Zenon
  <2> QED
    BY <1>1, <2>2, Zenon DEF Elems
<1> QED
  BY <1>1, <1>3, <1>4, <1>5, <1>6, Zenon

\* An empty stream.
LEMMA EmptyElems == Elems(<<>>) = {} /\ Distinct(<<>>)
BY DEF Elems, Distinct

\* The invariant implies CallsMatch.
LEMMA RpcInvImplies == RpcInv => CallsMatch
<1> SUFFICES ASSUME RpcInv
             PROVE  CallsMatch
  BY Zenon
<1>1. outstandings_ \subseteq 1 .. id_
  BY Zenon DEF RpcInv, Types
<1>2. \A c \in Callers : call[c].id \in 0 .. id_
  BY DEF RpcInv, Types, Numbers, num
<1>3. {toServer[i] : i \in DOMAIN toServer} \subseteq 1 .. id_
  BY <1>1, Zenon DEF RpcInv, Places, Requested, Elems
<1>4. \A i \in Ids : Len(got[i]) <= 1 /\ freed[i] <= 1 /\ (got[i] # <<>> => got[i][1] = IF kind[i] = "good" THEN i ELSE Unset)
  BY DEF RpcInv, Types, RunOnce, Answer
<1>5. up /\ alive => \A i \in DOMAIN toClient : toClient[i].id \in outstandings_
  BY Zenon DEF RpcInv, Places, Answered, Elems
<1>6. ~alive => \A i \in 1 .. id_ : freed[i] = 1
  BY DEF RpcInv, Types, Accounted, Kept, Gone
<1> QED
  BY <1>1, <1>2, <1>3, <1>4, <1>5, <1>6, Zenon DEF CallsMatch, TypeOK

\* Two new channels and a connection between them satisfy the invariant.
LEMMA RpcInvInit == Init => RpcInv
<1> SUFFICES ASSUME Init
             PROVE  RpcInv
  BY Zenon
<1> USE RpcAssumption DEF Init
<1>1. Types
  BY DEF Types, Ids, NoCall, at, num
<1>2. Requested = {} /\ Worked = {} /\ Answered = {}
  BY EmptyElems, Zenon DEF Requested, Worked, Answered
<1>3. Streams
  BY EmptyElems DEF Streams
<1>4. Places /\ Numbers /\ Unstored /\ Unsent
  BY <1>2 DEF Places, Numbers, Unstored, Unsent, NoCall, at, num
<1>5. Closure /\ Kept /\ RunOnce /\ Accounted /\ Gone
  BY DEF Closure, Kept, RunOnce, Accounted, Gone, Ids, NoCall, at
<1> QED
  BY <1>1, <1>3, <1>4, <1>5, Zenon DEF RpcInv

\* A step of one caller changes its place and number and nobody else's.
LEMMA CallChanges ==
  ASSUME Types, NEW c \in Callers, NEW a \in 0 .. 2, NEW n \in 0 .. MaxCalls,
         call' = [call EXCEPT ![c] = [at |-> a, id |-> n]]
  PROVE  /\ call' \in [Callers -> [at : 0 .. 2, id : 0 .. MaxCalls]]
         /\ at' = [at EXCEPT ![c] = a] /\ num' = [num EXCEPT ![c] = n]
<1>1. call \in [Callers -> [at : 0 .. 2, id : 0 .. MaxCalls]]
  BY Zenon DEF Types
<1>2. \A d \in Callers : call'[d] = IF d = c THEN [at |-> a, id |-> n] ELSE call[d]
  BY <1>1, Zenon
<1> QED
  BY <1>1, <1>2, Zenon DEF at, num

\* What the two steps of CallMethod() after the numbering do to the caller.
LEMMA DoesWhat ==
  ASSUME RpcInv, NEW c \in Callers
  PROVE  /\ Does(c, "store") => at[c] = 1 /\ call' = [call EXCEPT ![c] = [at |-> 2, id |-> num[c]]]
         /\ Does(c, "send") => at[c] = 2 /\ call' = [call EXCEPT ![c] = [at |-> 0, id |-> 0]]
<1>1. Len(Order) = 2 /\ DOMAIN Order = 1 .. 2 /\ Order[1] = "store" /\ Order[2] = "send"
  BY DEF Order
<1>2. call[c].at \in 0 .. 2
  BY Zenon DEF RpcInv, Types
<1>3. /\ Does(c, "store") => call[c].at = 1
      /\ Does(c, "send") => call[c].at = 2
  BY <1>1, <1>2 DEF Does
<1>4. ASSUME Does(c, "store")
      PROVE  call' = [call EXCEPT ![c] = [at |-> 2, id |-> call[c].id]]
  <2>1. call' = [call EXCEPT ![c] = IF call[c].at = Len(Order) THEN NoCall ELSE [at |-> call[c].at + 1, id |-> call[c].id]]
    BY <1>4, Zenon DEF Does
  <2>2. ~(call[c].at = Len(Order)) /\ call[c].at + 1 = 2
    BY <1>1, <1>3, <1>4
  <2> QED
    BY <2>1, <2>2, Zenon
<1>5. ASSUME Does(c, "send")
      PROVE  call' = [call EXCEPT ![c] = [at |-> 0, id |-> 0]]
  <2>1. call' = [call EXCEPT ![c] = IF call[c].at = Len(Order) THEN NoCall ELSE [at |-> call[c].at + 1, id |-> call[c].id]]
    BY <1>5, Zenon DEF Does
  <2>2. call[c].at = Len(Order)
    BY <1>1, <1>3, <1>5, Zenon
  <2> QED
    BY <2>1, <2>2, Zenon DEF NoCall
<1> QED
  BY <1>3, <1>4, <1>5, Zenon DEF at, num

\* Numbering a call.
LEMMA NumberKeeps ==
  ASSUME RpcInv, NEW c \in Callers, Number(c)
  PROVE  RpcInv'
<1>1. UNCHANGED <<outstandings_, running, alive, got, freed, toServer, toClient, working, kind, conn>>
  BY Zenon DEF Number, netVars
<1>2. Requested' = Requested /\ Worked' = Worked /\ Answered' = Answered
  BY Zenon DEF Number, Requested, Worked, Answered
<1>3. id_ \in 0 .. MaxCalls /\ id_ + 1 \in 1 .. MaxCalls /\ id_' = id_ + 1
  BY RpcAssumption DEF Number, RpcInv, Types
<1>4. /\ call' \in [Callers -> [at : 0 .. 2, id : 0 .. MaxCalls]]
      /\ at' = [at EXCEPT ![c] = 1] /\ num' = [num EXCEPT ![c] = id_ + 1]
  <2> SUFFICES ASSUME NEW n \in 0 .. MaxCalls, n = id_ + 1
               PROVE  /\ call' \in [Callers -> [at : 0 .. 2, id : 0 .. MaxCalls]]
                      /\ at' = [at EXCEPT ![c] = 1] /\ num' = [num EXCEPT ![c] = n]
    BY <1>3, RpcAssumption
  <2>1. call' = [call EXCEPT ![c] = [at |-> 1, id |-> n]]
    BY Zenon DEF Number
  <2>2. 1 \in 0 .. 2 /\ Types
    BY DEF RpcInv
  <2> QED
    BY <2>1, <2>2, CallChanges, Zenon
<1>5. at[c] = 0 /\ alive
  BY DEF Number, at, NoCall
<1>6. id_ + 1 \notin outstandings_ /\ got[id_ + 1] = <<>> /\ freed[id_ + 1] = 0
  BY <1>3 DEF RpcInv, Types, Kept, Ids
<1>7. Types'
  BY <1>1, <1>3, <1>4 DEF RpcInv, Types
<1>8. Streams'
  BY <1>1, Zenon DEF RpcInv, Streams, Answer
<1>9. Places'
  BY <1>1, <1>2, <1>3, <1>4, <1>5, <1>6, Zenon DEF RpcInv, Types, Places, Unsent
<1>10. Numbers'
  <2>1. \A d \in Callers : at'[d] = (IF d = c THEN 1 ELSE at[d]) /\ num'[d] = (IF d = c THEN id_ + 1 ELSE num[d])
    BY <1>4, Zenon DEF RpcInv, Types
  <2>2. \A d \in Callers : num[d] \in 0 .. id_
    BY <1>3 DEF RpcInv, Numbers
  <2>3. \A d \in Callers : num[d] # id_ + 1 /\ at[d] \in 0 .. 2
    BY <1>3, <2>2 DEF RpcInv, Types
  <2> QED
    BY <1>3, <2>1, <2>3 DEF RpcInv, Numbers
<1>11. Unstored'
  BY <1>1, <1>3, <1>4, <1>6, Zenon DEF RpcInv, Types, Numbers, Unstored
<1>12. Unsent'
  BY <1>1, <1>2, <1>3, <1>4, <1>5, <1>6 DEF RpcInv, Types, Places, Numbers, Unstored, Unsent
<1>13. Closure'
  BY <1>1, <1>2, <1>3, <1>4, <1>5, <1>6 DEF RpcInv, Types, Places, Numbers, Unstored, Unsent, Closure, Kept, Answer
<1>14. Kept'
  BY <1>1, <1>3 DEF RpcInv, Types, Kept, Ids
<1>15. RunOnce'
  BY <1>1, Zenon DEF RpcInv, RunOnce, Answer
<1>16. Accounted'
  <2>1. \A d \in Callers : at[d] = 1 => at'[d] = 1 /\ num'[d] = num[d]
    BY <1>4, <1>5 DEF RpcInv, Types
  <2>2. at'[c] = 1 /\ num'[c] = id_ + 1
    BY <1>4, Zenon DEF RpcInv, Types
  <2>3. \A i \in 1 .. id_' : i \in 1 .. id_ \/ i = id_ + 1
    BY <1>3
  <2> QED
    BY <1>1, <2>1, <2>2, <2>3 DEF RpcInv, Accounted
<1>17. Gone'
  BY <1>1, <1>5, Zenon DEF Gone
<1> QED
  BY <1>7, <1>8, <1>9, <1>10, <1>11, <1>12, <1>13, <1>14, <1>15, <1>16, <1>17, Zenon DEF RpcInv

\* Storing it in outstandings_.
LEMMA StoreKeeps ==
  ASSUME RpcInv, NEW c \in Callers, Store(c)
  PROVE  RpcInv'
<1>1. UNCHANGED <<id_, running, alive, got, freed, toServer, toClient, working, kind, conn>>
  BY Zenon DEF Store, netVars
<1>2. Requested' = Requested /\ Worked' = Worked /\ Answered' = Answered
  BY Zenon DEF Store, Requested, Worked, Answered
<1>3. at[c] = 1 /\ num[c] \in 1 .. id_ /\ num[c] \in Ids
  BY DoesWhat, RpcAssumption DEF Store, RpcInv, Types, Numbers, Ids
<1>4. /\ call' \in [Callers -> [at : 0 .. 2, id : 0 .. MaxCalls]]
      /\ at' = [at EXCEPT ![c] = 2] /\ num' = num
  <2>1. call' = [call EXCEPT ![c] = [at |-> 2, id |-> num[c]]]
    BY DoesWhat, Zenon DEF Store
  <2>2. 2 \in 0 .. 2 /\ num[c] \in 0 .. MaxCalls /\ num \in [Callers -> 0 .. MaxCalls] /\ Types
    BY DEF RpcInv, Types
  <2>3. num' = [num EXCEPT ![c] = num[c]]
    BY <2>1, <2>2, CallChanges, Zenon
  <2> QED
    BY <2>1, <2>2, <2>3, CallChanges, Zenon
<1>5. at' \in [Callers -> 0 .. 2] /\ outstandings_ \subseteq 1 .. id_
  BY <1>4 DEF RpcInv, Types
<1>6. outstandings_' = outstandings_ \union {num[c]}
  BY Zenon DEF Store, num
<1>7. got[num[c]] = <<>> /\ freed[num[c]] = 0 /\ alive
  BY <1>3 DEF RpcInv, Unstored, Gone
<1>8. Types'
  BY <1>1, <1>3, <1>4, <1>5, <1>6, Zenon DEF RpcInv, Types
<1>9. Streams'
  BY <1>1, Zenon DEF RpcInv, Streams, Answer
<1>10. Places'
  BY <1>1, <1>2, <1>3, <1>4, <1>5, <1>6, <1>7, Zenon DEF RpcInv, Types, Places, Unsent
<1>11. Numbers'
  BY <1>1, <1>2, <1>3, <1>4, <1>5, <1>6, <1>7 DEF RpcInv, Types, Numbers
<1>12. Unstored'
  BY <1>1, <1>3, <1>4, <1>5, <1>6 DEF RpcInv, Types, Numbers, Unstored
<1>13. Unsent'
  BY <1>1, <1>2, <1>3, <1>4, <1>5, <1>6, <1>7, Zenon DEF RpcInv, Types, Places, Numbers, Unstored, Unsent
<1>14. Closure'
  BY <1>1, <1>2, <1>3, <1>4, <1>5, <1>6, <1>7 DEF RpcInv, Types, Places, Numbers, Unstored, Unsent, Closure, Kept, Answer
<1>15. Kept'
  BY <1>1, <1>6, <1>7, Zenon DEF RpcInv, Types, Kept
<1>16. RunOnce'
  BY <1>1, Zenon DEF RpcInv, RunOnce, Answer
<1>17. Accounted'
  <2> SUFFICES ASSUME NEW i \in 1 .. id_
               PROVE  \/ i \in outstandings_' \/ freed[i] = 1
                      \/ \E d \in Callers : at'[d] = 1 /\ num'[d] = i
                      \/ running # <<>> /\ running[1].id = i
    BY <1>1, Zenon DEF Accounted
  <2>1. ASSUME NEW d \in Callers, at[d] = 1, num[d] = i
        PROVE  i \in outstandings_' \/ (at'[d] = 1 /\ num'[d] = i)
    BY <2>1, <1>4, <1>6 DEF RpcInv, Types
  <2> QED
    BY <1>6, <2>1, Zenon DEF RpcInv, Accounted
<1>18. Gone'
  BY <1>1, <1>2, <1>3, <1>4, <1>5, <1>6, <1>7, Zenon DEF RpcInv, Types, Gone, Closure
<1> QED
  BY <1>8, <1>9, <1>10, <1>11, <1>12, <1>13, <1>14, <1>15, <1>16, <1>17, <1>18, Zenon DEF RpcInv

\* Sending it.
LEMMA SendKeeps ==
  ASSUME RpcInv, NEW c \in Callers, SendRequest(c)
  PROVE  RpcInv'
<1>1. UNCHANGED <<id_, outstandings_, running, alive, got, freed, toClient, working, kind, conn>>
  BY Zenon DEF SendRequest, netVars
<1>2. at[c] = 2 /\ num[c] \in 1 .. id_ /\ num[c] \in Ids
  BY DoesWhat, RpcAssumption DEF SendRequest, RpcInv, Types, Numbers, Ids
<1>3. /\ call' \in [Callers -> [at : 0 .. 2, id : 0 .. MaxCalls]]
      /\ at' = [at EXCEPT ![c] = 0] /\ num' = [num EXCEPT ![c] = 0]
  <2>1. call' = [call EXCEPT ![c] = [at |-> 0, id |-> 0]]
    BY DoesWhat, Zenon DEF SendRequest
  <2>2. 0 \in 0 .. 2 /\ 0 \in 0 .. MaxCalls /\ Types
    BY RpcAssumption DEF RpcInv
  <2> QED
    BY <2>1, <2>2, CallChanges, Zenon
<1>4. /\ toServer' \in Seq(Ids) /\ Distinct(toServer') /\ Requested' \subseteq Requested \union {num[c]}
      /\ Worked' = Worked /\ Answered' = Answered
  <2>1. num[c] \notin Elems(toServer) /\ call[c].id = num[c]
    BY <1>2, Zenon DEF RpcInv, Unsent, Requested, num
  <2>2. toServer \in Seq(Ids) /\ Distinct(toServer)
    BY Zenon DEF RpcInv, Streams
  <2>3. CASE up
    BY <1>1, <1>2, <2>1, <2>2, <2>3, AppendElems DEF SendRequest, Requested, Worked, Answered
  <2>4. CASE ~up
    BY <1>1, <2>2, <2>4, Zenon DEF SendRequest, Requested, Worked, Answered
  <2> QED
    BY <2>3, <2>4, Zenon
<1>5. Types'
  BY <1>1, <1>3, RpcAssumption DEF RpcInv, Types
<1>6. Streams'
  BY <1>1, <1>4, Zenon DEF RpcInv, Streams, Answer
<1>7. Places'
  BY <1>1, <1>2, <1>3, <1>4 DEF RpcInv, Types, Places, Unsent
<1>8. Numbers'
  BY <1>1, <1>2, <1>3, <1>4 DEF RpcInv, Types, Numbers
<1>9. Unstored'
  BY <1>1, <1>3 DEF RpcInv, Types, Unstored
<1>10. Unsent'
  BY <1>1, <1>2, <1>3, <1>4 DEF RpcInv, Types, Places, Numbers, Unstored, Unsent
<1>11. Closure'
  BY <1>1, <1>2, <1>3, <1>4, Zenon DEF RpcInv, Types, Places, Numbers, Unstored, Unsent, Closure, Kept, Answer
<1>12. Kept'
  BY <1>1, Zenon DEF RpcInv, Kept
<1>13. RunOnce'
  BY <1>1, Zenon DEF RpcInv, RunOnce, Answer
<1>14. Accounted'
  <2>1. \A d \in Callers : at[d] = 1 => at'[d] = 1 /\ num'[d] = num[d]
    BY <1>2, <1>3 DEF RpcInv, Types
  <2> QED
    BY <1>1, <2>1 DEF RpcInv, Accounted
<1>15. Gone'
  BY <1>1, <1>2, <1>3, <1>4, Zenon DEF RpcInv, Types, Gone, Closure
<1> QED
  BY <1>5, <1>6, <1>7, <1>8, <1>9, <1>10, <1>11, <1>12, <1>13, <1>14, <1>15, Zenon DEF RpcInv

\* The server's channel hands a request to a service, or refuses it.
LEMMA RequestKeeps ==
  ASSUME RpcInv, Request
  PROVE  RpcInv'
<1>1. UNCHANGED <<id_, call, outstandings_, running, alive, got, freed, kind, at, num>> /\ UNCHANGED conn
  BY Zenon DEF Request, clientVars, netVars, at, num
<1>2. /\ Head(toServer) \in Ids /\ Head(toServer) \in Requested
      /\ toServer' \in Seq(Ids) /\ Distinct(toServer') /\ Requested' = Requested \ {Head(toServer)}
  BY TailElems, Zenon DEF Request, RpcInv, Streams, Requested
<1>3. Head(toServer) \notin Worked /\ Head(toServer) \notin Answered
  BY <1>2, Zenon DEF RpcInv, Places
<1>4. /\ Worked' \subseteq Worked \union {Head(toServer)} /\ Answered' \subseteq Answered \union {Head(toServer)}
      /\ Worked' \cap Answered' = {} /\ Streams'
  <2>1. CASE kind[Head(toServer)] = "good"
    <3> DEFINE new == [id |-> Head(toServer), conn |-> conn]
    <3>1. /\ working' = working \union {new} /\ new.id = Head(toServer) /\ toClient' = toClient
          /\ new \in [id : Ids, conn : Nat]
      BY <1>2, <2>1, Zenon DEF Request, RpcInv, Streams
    <3> HIDE DEF new
    <3>2. Worked' = Worked \union {Head(toServer)} /\ Answered' = Answered
      BY <3>1, Zenon DEF Worked, Answered
    <3>3. \A v \in working : v.id # Head(toServer)
      BY <1>3, Zenon DEF Worked
    <3>4. \A v, w \in working' : kind[v.id] = "good" /\ (v.id = w.id => v = w)
      BY <2>1, <3>1, <3>3, Zenon DEF RpcInv, Streams
    <3>5. working' \subseteq [id : Ids, conn : Nat]
      BY <1>2, <3>1, Zenon DEF RpcInv, Streams
    <3>6. Streams'
      BY <1>1, <1>2, <3>1, <3>4, <3>5, Zenon DEF RpcInv, Streams, Answer
    <3> QED
      BY <1>3, <3>2, <3>6, Zenon DEF RpcInv, Places
  <2>2. CASE kind[Head(toServer)] # "good"
    <3> DEFINE reply == [id |-> Head(toServer), error |-> kind[Head(toServer)], body |-> Unset]
    <3>1. working' = working /\ toClient' = Append(toClient, reply)
      BY <2>2, Zenon DEF Request, Reply
    <3>2. reply \in Replies /\ reply.id = Head(toServer) /\ Parsed(reply) = Answer(reply.id)
      BY <1>2, <2>2, Zenon DEF RpcInv, Types, Replies, Bodies, Answer, Parsed
    <3>3. \A r \in Elems(toClient) : r.id # reply.id /\ r # reply
      BY <1>3, <3>2, Zenon DEF Answered
    <3> HIDE DEF reply
    <3>4. toClient' \in Seq(Replies) /\ Distinct(toClient') /\ Elems(toClient') = Elems(toClient) \union {reply}
      <4>1. toClient \in Seq(Replies) /\ Distinct(toClient) /\ reply \in Replies /\ reply \notin Elems(toClient)
        BY <3>2, <3>3, Zenon DEF RpcInv, Streams
      <4> QED
        BY <3>1, <4>1, AppendElems, Zenon
    <3>5. Worked' = Worked /\ Answered' = Answered \union {Head(toServer)}
      <4>1. reply.id = Head(toServer)
        BY <3>2, Zenon
      <4>2. Answered' = Answered \union {Head(toServer)}
        <5>1. {r.id : r \in Elems(toClient) \union {reply}} = {r.id : r \in Elems(toClient)} \union {reply.id}
          OBVIOUS
        <5> QED
          BY <3>4, <4>1, <5>1, Zenon DEF Answered
      <4> QED
        BY <3>1, <4>2, Zenon DEF Worked
    <3>6. \A r, m \in Elems(toClient') : Parsed(r) = Answer(r.id) /\ (r.id = m.id => r = m)
      BY <3>2, <3>3, <3>4, Zenon DEF RpcInv, Streams
    <3>7. Streams'
      BY <1>1, <1>2, <3>1, <3>4, <3>6, Zenon DEF RpcInv, Streams, Answer
    <3> QED
      BY <1>3, <3>5, <3>7, Zenon DEF RpcInv, Places
  <2> QED
    BY <2>1, <2>2, Zenon
<1>5. Types'
  BY <1>1, Zenon DEF RpcInv, Types
<1>6. Streams'
  BY <1>4, Zenon
<1>7. Places'
  BY <1>1, <1>2, <1>3, <1>4, Zenon DEF RpcInv, Places
<1>8. Numbers'
  BY <1>1, Zenon DEF RpcInv, Numbers
<1>9. Unstored'
  BY <1>1, Zenon DEF RpcInv, Unstored
<1>10. Unsent'
  BY <1>1, <1>2, <1>4 DEF RpcInv, Unsent
<1>11. Closure'
  BY <1>1, Zenon DEF RpcInv, Closure, Answer
<1>12. Kept'
  BY <1>1, Zenon DEF RpcInv, Kept
<1>13. RunOnce'
  BY <1>1, Zenon DEF RpcInv, RunOnce, Answer
<1>14. Accounted'
  BY <1>1, Zenon DEF RpcInv, Accounted
<1>15. Gone'
  BY <1>1, Zenon DEF RpcInv, Gone
<1> QED
  BY <1>5, <1>6, <1>7, <1>8, <1>9, <1>10, <1>11, <1>12, <1>13, <1>14, <1>15, Zenon DEF RpcInv

\* A service answers.
LEMMA DoneKeeps ==
  ASSUME RpcInv, NEW w \in working, doneCallback(w)
  PROVE  RpcInv'
<1>1. UNCHANGED <<id_, call, outstandings_, running, alive, got, freed, kind, at, num>> /\ UNCHANGED <<conn, toServer>>
  BY Zenon DEF doneCallback, clientVars, at, num
<1>2. w \in [id : Ids, conn : Nat] /\ kind[w.id] = "good" /\ w.id \in Worked
  BY Zenon DEF RpcInv, Streams, Worked
<1>3. working' = working \ {w} /\ Worked' = Worked \ {w.id} /\ Requested' = Requested
  <2>1. working' = working \ {w}
    BY Zenon DEF doneCallback
  <2>2. \A v \in working : v.id = w.id <=> v = w
    BY Zenon DEF RpcInv, Streams
  <2> QED
    BY <1>1, <2>1, <2>2, Zenon DEF Worked, Requested
<1>4. w.id \notin Requested /\ w.id \notin Answered
  BY <1>2, Zenon DEF RpcInv, Places
<1>5. Answered' \subseteq Answered \union {w.id} /\ Streams'
  <2>1. CASE up /\ w.conn = conn
    <3> DEFINE reply == [id |-> w.id, error |-> "NO_ERROR", body |-> w.id]
    <3>1. toClient' = Append(toClient, reply)
      BY <2>1, Zenon DEF doneCallback, Reply
    <3>2. reply \in Replies /\ reply.id = w.id /\ Parsed(reply) = Answer(reply.id)
      BY <1>2, Zenon DEF Replies, Bodies, Answer, Parsed
    <3>3. \A r \in Elems(toClient) : r.id # reply.id /\ r # reply
      BY <1>4, <3>2, Zenon DEF Answered
    <3> HIDE DEF reply
    <3>4. toClient' \in Seq(Replies) /\ Distinct(toClient') /\ Elems(toClient') = Elems(toClient) \union {reply}
      <4>1. toClient \in Seq(Replies) /\ Distinct(toClient) /\ reply \in Replies /\ reply \notin Elems(toClient)
        BY <3>2, <3>3, Zenon DEF RpcInv, Streams
      <4> QED
        BY <3>1, <4>1, AppendElems, Zenon
    <3>5. Answered' = Answered \union {w.id}
      BY <3>2, <3>4, Zenon DEF Answered
    <3>6. \A r, m \in Elems(toClient') : Parsed(r) = Answer(r.id) /\ (r.id = m.id => r = m)
      BY <3>2, <3>3, <3>4, Zenon DEF RpcInv, Streams
    <3> QED
      BY <1>1, <1>3, <3>4, <3>5, <3>6, Zenon DEF RpcInv, Streams, Answer
  <2>2. CASE ~(up /\ w.conn = conn)
    <3>1. toClient' = toClient
      BY <2>2, Zenon DEF doneCallback
    <3> QED
      BY <1>1, <1>3, <3>1, Zenon DEF RpcInv, Streams, Answered, Answer
  <2> QED
    BY <2>1, <2>2, Zenon
<1>6. Types'
  BY <1>1, Zenon DEF RpcInv, Types
<1>7. Streams'
  BY <1>5, Zenon
<1>8. Places'
  BY <1>1, <1>2, <1>3, <1>4, <1>5, Zenon DEF RpcInv, Places
<1>9. Numbers'
  BY <1>1, Zenon DEF RpcInv, Numbers
<1>10. Unstored'
  BY <1>1, Zenon DEF RpcInv, Unstored
<1>11. Unsent'
  BY <1>1, <1>2, <1>3, <1>5, Zenon DEF RpcInv, Unsent
<1>12. Closure'
  BY <1>1, Zenon DEF RpcInv, Closure, Answer
<1>13. Kept'
  BY <1>1, Zenon DEF RpcInv, Kept
<1>14. RunOnce'
  BY <1>1, Zenon DEF RpcInv, RunOnce, Answer
<1>15. Accounted'
  BY <1>1, Zenon DEF RpcInv, Accounted
<1>16. Gone'
  BY <1>1, Zenon DEF RpcInv, Gone
<1> QED
  BY <1>6, <1>7, <1>8, <1>9, <1>10, <1>11, <1>12, <1>13, <1>14, <1>15, <1>16, Zenon DEF RpcInv

\* The client's channel gets a response.
LEMMA ResponseKeeps ==
  ASSUME RpcInv, Response
  PROVE  RpcInv'
<1> DEFINE i == Head(toClient).id
<1>1. UNCHANGED <<id_, call, alive, got, freed, kind, at, num>> /\ UNCHANGED <<conn, toServer, working>>
  BY Zenon DEF Response, netVars, at, num
<1>2. /\ Head(toClient) \in Replies /\ Head(toClient) \in Elems(toClient) /\ Parsed(Head(toClient)) = Answer(i)
      /\ toClient' \in Seq(Replies) /\ Distinct(toClient') /\ Elems(toClient') = Elems(toClient) \ {Head(toClient)}
  BY TailElems, Zenon DEF Response, RpcInv, Streams
<1>3. i \in Ids /\ i \in Answered /\ i \in outstandings_ /\ i \in 1 .. id_ /\ alive
  BY <1>2, Zenon DEF Response, RpcInv, Types, Places, Answered, Replies
<1>4. running' = <<Head(toClient)>> /\ outstandings_' = outstandings_ \ {i}
  BY <1>3, Zenon DEF Response, Erased
<1>5. Answered' = Answered \ {i} /\ Worked' = Worked /\ Requested' = Requested
  <2>1. \A r \in Elems(toClient) : r.id = i <=> r = Head(toClient)
    BY <1>2, Zenon DEF RpcInv, Streams
  <2> QED
    BY <1>1, <1>2, <2>1, Zenon DEF Answered, Worked, Requested
<1>6. got[i] = <<>> /\ freed[i] = 0
  BY <1>3, Zenon DEF RpcInv, Kept
<1>7. running' \in Seq(Replies) /\ Len(running') = 1 /\ running'[1] = Head(toClient) /\ running' # <<>>
  BY <1>2, <1>4
<1>8. \A c \in Callers : at[c] # 0 => num[c] # i
  BY <1>3 DEF RpcInv, Types, Unstored, Unsent
<1> HIDE DEF i
<1>9. Types'
  BY <1>1, <1>4, <1>7, Zenon DEF RpcInv, Types
<1>10. Streams'
  BY <1>1, <1>2, Zenon DEF RpcInv, Streams, Answer
<1>11. Places'
  BY <1>3, <1>4, <1>5, Zenon DEF RpcInv, Places
<1>12. Numbers'
  BY <1>1, Zenon DEF RpcInv, Numbers
<1>13. Unstored'
  BY <1>1, <1>4, Zenon DEF RpcInv, Unstored
<1>14. Unsent'
  BY <1>1, <1>4, <1>5, <1>8 DEF RpcInv, Types, Unsent
<1>15. Closure'
  <2>1. running'[1].id = i /\ Parsed(running'[1]) = Answer(i)
    BY <1>2, <1>7, Zenon DEF i
  <2> QED
    BY <1>1, <1>3, <1>4, <1>6, <1>7, <1>8, <2>1 DEF Closure, Answer
<1>16. Kept'
  BY <1>1, <1>4, Zenon DEF RpcInv, Kept
<1>17. RunOnce'
  BY <1>1, Zenon DEF RpcInv, RunOnce, Answer
<1>18. Accounted'
  <2>1. running'[1].id = i /\ running = <<>>
    BY <1>7, Zenon DEF i, Response
  <2> QED
    BY <1>1, <1>4, <1>7, <2>1, Zenon DEF RpcInv, Accounted
<1>19. Gone'
  BY <1>1, <1>3, Zenon DEF Gone
<1> QED
  BY <1>9, <1>10, <1>11, <1>12, <1>13, <1>14, <1>15, <1>16, <1>17, <1>18, <1>19, Zenon DEF RpcInv

\* The closure is run.
LEMMA RunKeeps ==
  ASSUME RpcInv, Run
  PROVE  RpcInv'
<1> DEFINE i == running[1].id
<1>1. UNCHANGED <<id_, call, outstandings_, alive, kind, at, num>> /\ UNCHANGED <<conn, toServer, toClient, working>>
  BY Zenon DEF Run, netVars, at, num
<1>2. Requested' = Requested /\ Worked' = Worked /\ Answered' = Answered
  BY <1>1, Zenon DEF Requested, Worked, Answered
<1>3. running # <<>> /\ running' = <<>> /\ running \in Seq(Replies) /\ Len(running) \in Nat /\ Len(running) # 0
  BY DEF Run, RpcInv, Types
<1>4. /\ i \in (1 .. id_) \ outstandings_ /\ i \in Ids /\ Parsed(running[1]) = Answer(i) /\ alive /\ freed[i] = 0
      /\ got[i] = <<>> /\ \A c \in Callers : at[c] # 0 => num[c] # i
  BY <1>3, RpcAssumption DEF RpcInv, Types, Closure, Ids
<1>5. Answer(i) \in Bodies
  BY <1>4, Zenon DEF RpcInv, Types, Answer, Bodies
<1>6. got' = [got EXCEPT ![i] = <<Answer(i)>>] /\ freed' = [freed EXCEPT ![i] = 1]
  BY <1>4 DEF Run
<1> HIDE DEF i
<1>7. <<Answer(i)>> \in Seq(Bodies) /\ Len(<<Answer(i)>>) = 1 /\ <<Answer(i)>>[1] = Answer(i)
  BY <1>5
<1>8. /\ freed' \in [Ids -> 0 .. 1] /\ freed'[i] = 1
      /\ \A j \in Ids \ {i} : freed'[j] = freed[j]
  BY <1>4, <1>6 DEF RpcInv, Types
<1>9. /\ got' \in [Ids -> Seq(Bodies)] /\ got'[i] = <<Answer(i)>>
      /\ \A j \in Ids \ {i} : got'[j] = got[j]
  <2> DEFINE answers == <<Answer(i)>>
  <2>1. got' = [got EXCEPT ![i] = answers] /\ answers \in Seq(Bodies)
    BY <1>6, <1>7, Zenon
  <2> HIDE DEF answers
  <2>2. got' \in [Ids -> Seq(Bodies)] /\ got'[i] = answers /\ \A j \in Ids \ {i} : got'[j] = got[j]
    BY <1>4, <2>1, Zenon DEF RpcInv, Types
  <2> QED
    BY <2>2, Zenon DEF answers
<1>10. /\ \A c \in Callers : at[c] = 1 => num[c] \in Ids \ {i}
       /\ \A j \in outstandings_ : j \in Ids \ {i}
       /\ \A j \in Ids : j > id_ => j \in Ids \ {i}
  <2>1. \A c \in Callers : at[c] = 1 => num[c] \in 1 .. id_ /\ num[c] # i
    BY <1>4 DEF RpcInv, Numbers
  <2>2. 1 .. id_ \subseteq Ids /\ outstandings_ \subseteq 1 .. id_ /\ id_ \in Nat
    BY RpcAssumption DEF RpcInv, Types, Ids
  <2>3. i \in 1 .. id_ /\ i \notin outstandings_
    BY <1>4, Zenon
  <2>4. \A j \in Ids : j > id_ => j # i
    BY <2>2, <2>3 DEF Ids
  <2> QED
    BY <2>1, <2>2, <2>3, <2>4, Zenon
<1>11. Types'
  BY <1>1, <1>3, <1>8, <1>9 DEF RpcInv, Types
<1>12. Streams'
  BY <1>1, Zenon DEF RpcInv, Streams, Answer
<1>13. Places'
  BY <1>1, <1>2, Zenon DEF RpcInv, Places
<1>14. Numbers'
  BY <1>1, Zenon DEF RpcInv, Numbers
<1>15. Unstored'
  BY <1>1, <1>8, <1>9, <1>10, Zenon DEF RpcInv, Unstored
<1>16. Unsent'
  BY <1>1, <1>2, Zenon DEF RpcInv, Unsent
<1>17. Closure'
  BY <1>3 DEF Closure
<1>18. Kept'
  BY <1>1, <1>8, <1>9, <1>10, Zenon DEF RpcInv, Kept
<1>19. RunOnce'
  <2>1. \A j \in Ids : Answer(j)' = Answer(j)
    BY <1>1, Zenon DEF Answer
  <2> QED
    <3>1. Len(got'[i]) <= 1 /\ got'[i][1] = Answer(i) /\ freed'[i] = 1
      BY <1>7, <1>8, <1>9
    <3> QED
      BY <1>4, <1>8, <1>9, <2>1, <3>1, Zenon DEF RpcInv, RunOnce
<1>20. Accounted'
  <2>1. \A j \in 1 .. id_ : j \in Ids
    BY RpcAssumption DEF RpcInv, Types, Ids
  <2> QED
    BY <1>1, <1>3, <1>8, <2>1, Zenon DEF RpcInv, Accounted, i
<1>21. Gone'
  BY <1>1, <1>4, Zenon DEF Gone
<1> QED
  BY <1>11, <1>12, <1>13, <1>14, <1>15, <1>16, <1>17, <1>18, <1>19, <1>20, <1>21, Zenon DEF RpcInv

\* The client's channel is destroyed.
LEMMA DestroyKeeps ==
  ASSUME RpcInv, Destroy
  PROVE  RpcInv'
<1>1. UNCHANGED <<id_, call, outstandings_, running, got, kind, at, num>> /\ UNCHANGED <<conn, toServer, toClient, working>>
  BY Zenon DEF Destroy, netVars, at, num
<1>2. Requested' = Requested /\ Worked' = Worked /\ Answered' = Answered
  BY <1>1, Zenon DEF Requested, Worked, Answered
<1>3. alive /\ alive' = FALSE /\ running = <<>> /\ \A c \in Callers : at[c] = 0
  BY DEF Destroy, at, NoCall
<1>4. \A i \in outstandings_ : i \in Ids /\ freed[i] = 0
  BY <1>3, RpcAssumption DEF RpcInv, Types, Kept, Ids
<1>5. /\ freed' = [i \in Ids |-> IF i \in outstandings_ THEN 1 ELSE freed[i]]
      /\ freed' \in [Ids -> 0 .. 1]
  <2>1. freed' = [i \in Ids |-> IF i \in outstandings_ THEN freed[i] + 1 ELSE freed[i]]
    BY Zenon DEF Destroy
  <2>2. freed \in [Ids -> 0 .. 1]
    BY Zenon DEF RpcInv, Types
  <2> QED
    BY <1>4, <2>1, <2>2
<1>6. Types'
  BY <1>1, <1>3, <1>5, Zenon DEF RpcInv, Types
<1>7. Streams'
  BY <1>1, Zenon DEF RpcInv, Streams, Answer
<1>8. Places'
  BY <1>1, <1>2, Zenon DEF RpcInv, Places
<1>9. Numbers'
  BY <1>1, Zenon DEF RpcInv, Numbers
<1>10. Unstored'
  BY <1>1, <1>3 DEF Unstored
<1>11. Unsent'
  BY <1>1, <1>2, Zenon DEF RpcInv, Unsent
<1>12. Closure'
  BY <1>1, <1>3, Zenon DEF RpcInv, Closure
<1>13. Kept'
  BY <1>1, <1>3, <1>4, <1>5 DEF RpcInv, Types, Kept, Ids
<1>14. RunOnce'
  BY <1>1, <1>5, Zenon DEF RpcInv, RunOnce, Answer
<1>15. Accounted'
  <2>1. \A j \in 1 .. id_ : j \in Ids
    BY RpcAssumption DEF RpcInv, Types, Ids
  <2> QED
    BY <1>1, <1>3, <1>5, <2>1, Zenon DEF RpcInv, Accounted
<1>16. Gone'
  BY <1>1, <1>3, Zenon DEF Gone
<1> QED
  BY <1>6, <1>7, <1>8, <1>9, <1>10, <1>11, <1>12, <1>13, <1>14, <1>15, <1>16, Zenon DEF RpcInv

\* A step that only takes the connection down, or nothing.
LEMMA StayKeeps ==
  ASSUME RpcInv, Down \/ UNCHANGED vars
  PROVE  RpcInv'
<1>1. UNCHANGED <<id_, call, outstandings_, running, alive, got, freed, kind, at, num>> /\ UNCHANGED <<conn, toServer, toClient, working>>
  BY Zenon DEF Down, vars, clientVars, netVars, at, num
<1>2. Requested' = Requested /\ Worked' = Worked /\ Answered' = Answered
  BY <1>1, Zenon DEF Requested, Worked, Answered
<1>3. Types'
  BY <1>1, Zenon DEF RpcInv, Types
<1>4. Streams'
  BY <1>1, Zenon DEF RpcInv, Streams, Answer
<1>5. Places'
  BY <1>1, <1>2, Zenon DEF RpcInv, Places
<1>6. Numbers'
  BY <1>1, Zenon DEF RpcInv, Numbers
<1>7. Unstored'
  BY <1>1, Zenon DEF RpcInv, Unstored
<1>8. Unsent'
  BY <1>1, <1>2, Zenon DEF RpcInv, Unsent
<1>9. Closure'
  BY <1>1, Zenon DEF RpcInv, Closure, Answer
<1>10. Kept'
  BY <1>1, Zenon DEF RpcInv, Kept
<1>11. RunOnce'
  BY <1>1, Zenon DEF RpcInv, RunOnce, Answer
<1>12. Accounted'
  BY <1>1, Zenon DEF RpcInv, Accounted
<1>13. Gone'
  BY <1>1, Zenon DEF RpcInv, Gone
<1> QED
  BY <1>3, <1>4, <1>5, <1>6, <1>7, <1>8, <1>9, <1>10, <1>11, <1>12, <1>13, Zenon DEF RpcInv

\* A new connection comes up.
LEMMA UpKeeps ==
  ASSUME RpcInv, Up
  PROVE  RpcInv'
<1>1. UNCHANGED <<id_, call, outstandings_, running, alive, got, freed, kind, at, num>> /\ UNCHANGED working
  BY Zenon DEF Up, clientVars, at, num
<1>2. Requested' = {} /\ Worked' = Worked /\ Answered' = {}
  BY <1>1, EmptyElems, Zenon DEF Up, Requested, Worked, Answered
<1>3. Types'
  BY <1>1, Zenon DEF RpcInv, Types
<1>4. Streams'
  <2>1. toServer' = <<>> /\ toClient' = <<>> /\ conn' \in Nat
    BY DEF Up, RpcInv, Streams
  <2> QED
    BY <1>1, <2>1, EmptyElems DEF RpcInv, Streams, Answer
<1>5. Places'
  BY <1>1, <1>2, Zenon DEF RpcInv, Places
<1>6. Numbers'
  BY <1>1, Zenon DEF RpcInv, Numbers
<1>7. Unstored'
  BY <1>1, Zenon DEF RpcInv, Unstored
<1>8. Unsent'
  BY <1>1, <1>2, Zenon DEF RpcInv, Unsent
<1>9. Closure'
  BY <1>1, Zenon DEF RpcInv, Closure, Answer
<1>10. Kept'
  BY <1>1, Zenon DEF RpcInv, Kept
<1>11. RunOnce'
  BY <1>1, Zenon DEF RpcInv, RunOnce, Answer
<1>12. Accounted'
  BY <1>1, Zenon DEF RpcInv, Accounted
<1>13. Gone'
  BY <1>1, Zenon DEF RpcInv, Gone
<1> QED
  BY <1>3, <1>4, <1>5, <1>6, <1>7, <1>8, <1>9, <1>10, <1>11, <1>12, <1>13, Zenon DEF RpcInv

\* Every step of either channel keeps the invariant.
LEMMA RpcInvStep == RpcInv /\ [Next]_vars => RpcInv'
<1> SUFFICES ASSUME RpcInv, [Next]_vars
             PROVE  RpcInv'
  BY Zenon
<1>1. CASE UNCHANGED vars
  BY <1>1, StayKeeps, Zenon
<1>2. CASE Next
  BY <1>2, NumberKeeps, StoreKeeps, SendKeeps, RequestKeeps, DoneKeeps, ResponseKeeps, RunKeeps, DestroyKeeps,
     StayKeeps, UpKeeps, Zenon DEF Next, CallMethod
<1> QED
  BY <1>1, <1>2, Zenon

\* For any callers, calls and connections: a closure is run at most once and with the answer to its
\* own call, and a response is deleted once (RpcChannel.cc:34-43, 58-69, 88-114).
THEOREM CallsAlwaysMatch == Spec => []CallsMatch
<1>1. Init => RpcInv
  BY RpcInvInit, Zenon
<1>2. RpcInv /\ [Next]_vars => RpcInv'
  BY RpcInvStep, Zenon
<1>3. RpcInv => CallsMatch
  BY RpcInvImplies, Zenon
<1> QED
  BY <1>1, <1>2, <1>3, PTL DEF Spec

------------------------------------------------------------------------------
(* Inspector, for any names and any number of calls. *)

\* RemovedIsQuiet is kept by remove() and add() because they wait while a command runs.
InspectorInv ==
  /\ RemovedIsQuiet
  /\ modules_ \in [Names -> Int] /\ calls \in Nat \ {0} /\ locked \in BOOLEAN
  /\ runs # NoRun => locked

\* RemovedIsQuiet holds for any modules and commands, whichever of them are there from the start
\* (Inspector.cc:66-107, 173-190).
THEOREM RemovedIsAlwaysQuiet == InspectorSpec => []RemovedIsQuiet
<1>1. InspectorInit => InspectorInv
  <2> SUFFICES ASSUME InspectorInit PROVE InspectorInv
    BY Zenon
  <2>1. modules_ \in [Names -> Int] /\ calls \in Nat \ {0}
    BY DEF InspectorInit
  <2>2. helps_ = {n \in Names : modules_[n] # 0}
    BY InspectorAssumption DEF InspectorInit
  <2> QED
    BY <2>1, <2>2, Zenon DEF InspectorInit, InspectorInv, RemovedIsQuiet
<1>2. InspectorInv /\ [InspectorNext]_inspectorVars => InspectorInv'
  <2> SUFFICES ASSUME InspectorInv, [InspectorNext]_inspectorVars PROVE InspectorInv'
    BY Zenon
  <2> USE DEF InspectorInv, RemovedIsQuiet
  <2>1. CASE start \/ \E p \in Paths : Arrive(p)
    BY <2>1, Zenon DEF start, Arrive
  <2>2. CASE \E n \in Names, empty \in BOOLEAN : add(n, empty)
    BY <2>2 DEF add
  <2>3. CASE \E n \in Names : remove(n)
    BY <2>3 DEF remove, Unhelped
  <2>4. CASE Help \/ Simple
    BY <2>4 DEF Help, Simple, Respond
  <2>5. CASE Lookup
    <3>1. CASE modules_[Named] > 0
      <4>1. runs' = [name |-> Named, cb |-> modules_[Named]] /\ locked' = TRUE /\ UNCHANGED <<modules_, helps_, calls>>
        BY <2>5, <3>1, Zenon DEF Lookup, HeldWhileRunning
      <4>2. runs'.name = Named /\ runs'.cb = modules_[Named]
        BY <4>1, Zenon
      <4> QED
        BY <4>1, <4>2, Zenon
    <3>2. CASE ~(modules_[Named] > 0)
      BY <2>5, <3>2, Zenon DEF Lookup, Respond
    <3> QED
      BY <3>1, <3>2, Zenon
  <2>6. CASE Return
    BY <2>6, Zenon DEF Return
  <2>7. CASE UNCHANGED inspectorVars
    BY <2>7, Zenon DEF inspectorVars
  <2> QED
    BY <2>1, <2>2, <2>3, <2>4, <2>5, <2>6, <2>7, Zenon DEF InspectorNext, onRequest
<1>3. InspectorInv => RemovedIsQuiet
  BY Zenon DEF InspectorInv
<1> QED
  BY <1>1, <1>2, <1>3, PTL DEF InspectorSpec

------------------------------------------------------------------------------
(* Buffer. *)

\* What a buffer holds: bytes, among them those of the integers that are written.
Cells == Byte \union {hostToNetwork(x, w)[i] : x \in Ints, w \in Widths, i \in Nat}

Content(b) == Peek(b, readableBytes(b))

\* The picture in Buffer.h:38-44; retrieveAll() finds the bytes that it makes prependable.
Good(b) ==
  /\ b \in [buffer_ : Seq(Cells), readerIndex_ : Nat, writerIndex_ : Nat]
  /\ b.readerIndex_ <= b.writerIndex_ /\ b.writerIndex_ <= Len(b.buffer_)
  /\ kCheapPrepend <= Len(b.buffer_)

\* See ByteQueue: what b leaves free in front of its content after a.
Roomy(a, b) == b.readerIndex_ >= IF a.readerIndex_ < kCheapPrepend THEN a.readerIndex_ ELSE kCheapPrepend

\* Positions in a vector of l bytes, after an index r and inside the next m bytes.
LEMMA Positions ==
  ASSUME NEW r \in Nat, NEW m \in Nat, NEW l \in Nat, r + m <= l, NEW i \in 1 .. m
  PROVE  i \in Nat /\ 1 <= i /\ i <= m /\ r + i \in 1 .. l
OBVIOUS

\* Two ways to the same position.
LEMMA Sums ==
  ASSUME NEW r \in Nat, NEW m \in Nat, NEW i \in Nat, NEW w \in Nat, r + m = w
  PROVE  r + (m + i) = w + i /\ m + i \in Nat
OBVIOUS

\* A function on 1 .. n is a sequence of length n, and the only one with its elements.
LEMMA FunctionIsSeq ==
  ASSUME NEW n \in Nat, NEW f \in [1 .. n -> Cells]
  PROVE  f \in Seq(Cells) /\ Len(f) = n
OBVIOUS

\* Sequences of the same length with the same elements are equal.
LEMMA SameSeq ==
  ASSUME NEW s \in Seq(Cells), NEW t \in Seq(Cells), Len(s) = Len(t), \A i \in 1 .. Len(s) : s[i] = t[i]
  PROVE  s = t
OBVIOUS

\* A part of a vector.
LEMMA PartIs ==
  ASSUME NEW v \in Seq(Cells), NEW r \in Nat, NEW n \in Nat, r + n <= Len(v)
  PROVE  /\ SubSeq(v, r + 1, r + n) \in Seq(Cells) /\ Len(SubSeq(v, r + 1, r + n)) = n
         /\ \A i \in 1 .. n : SubSeq(v, r + 1, r + n)[i] = v[r + i]
<1>1. SubSeq(v, r + 1, r + n) \in Seq(Cells)
  OBVIOUS
<1>2. Len(SubSeq(v, r + 1, r + n)) = n
  OBVIOUS
<1>3. \A i \in 1 .. n : SubSeq(v, r + 1, r + n)[i] = v[r + i]
  OBVIOUS
<1> QED
  BY <1>1, <1>2, <1>3, Zenon

\* The content lies between the indices.
LEMMA ContentIs ==
  ASSUME NEW b, Good(b), NEW n \in Nat, n <= readableBytes(b)
  PROVE  /\ Peek(b, n) \in Seq(Cells) /\ Len(Peek(b, n)) = n
         /\ \A i \in 1 .. n : Peek(b, n)[i] = b.buffer_[b.readerIndex_ + i]
<1>1. b.readerIndex_ + n <= Len(b.buffer_) /\ b.readerIndex_ \in Nat /\ b.buffer_ \in Seq(Cells)
  BY DEF Good, readableBytes
<1> QED
  BY <1>1, PartIs, Zenon DEF Peek

\* std::copy() changes the bytes that are copied to.
LEMMA CopyIs ==
  ASSUME NEW v \in Seq(Cells), NEW i \in Nat, NEW d \in Seq(Cells), i + Len(d) <= Len(v)
  PROVE  /\ Copy(v, i, d) \in Seq(Cells) /\ Len(Copy(v, i, d)) = Len(v)
         /\ \A k \in 1 .. Len(v) : Copy(v, i, d)[k] = IF i < k /\ k <= i + Len(d) THEN d[k - i] ELSE v[k]
<1> DEFINE f == [k \in 1 .. Len(v) |-> IF k \in i + 1 .. i + Len(d) THEN d[k - i] ELSE v[k]]
<1>1. f \in [1 .. Len(v) -> Cells]
  OBVIOUS
<1>2. \A k \in 1 .. Len(v) : f[k] = IF i < k /\ k <= i + Len(d) THEN d[k - i] ELSE v[k]
  OBVIOUS
<1> HIDE DEF f
<1>3. f \in Seq(Cells) /\ Len(f) = Len(v)
  <2>1. Len(v) \in Nat
    OBVIOUS
  <2> QED
    BY <1>1, <2>1, FunctionIsSeq, Zenon
<1> QED
  BY <1>2, <1>3, Zenon DEF Copy, f

\* A byte of a vector that grows is zero.
LEMMA ZeroIsCell == 0 \in Cells
BY BufferAssumption DEF Cells, Byte

\* vector::resize() keeps the bytes that are there.
LEMMA ResizeIs ==
  ASSUME NEW v \in Seq(Cells), NEW n \in Nat, Len(v) <= n
  PROVE  /\ Resize(v, n) \in Seq(Cells) /\ Len(Resize(v, n)) = n
         /\ \A k \in 1 .. Len(v) : Resize(v, n)[k] = v[k]
<1> DEFINE f == [k \in 1 .. n |-> IF k <= Len(v) THEN v[k] ELSE 0]
<1>1. f \in [1 .. n -> Cells]
  BY ZeroIsCell
<1>2. \A k \in 1 .. Len(v) : f[k] = v[k]
  OBVIOUS
<1> HIDE DEF f
<1>3. f \in Seq(Cells) /\ Len(f) = n
  BY <1>1, FunctionIsSeq, Zenon
<1> QED
  BY <1>2, <1>3, Zenon DEF Resize, f

\* Buffers of the same length of content, byte for byte.
LEMMA SameContent ==
  ASSUME NEW a, Good(a), NEW b, Good(b), readableBytes(a) = readableBytes(b),
         \A i \in 1 .. readableBytes(a) : a.buffer_[a.readerIndex_ + i] = b.buffer_[b.readerIndex_ + i]
  PROVE  Content(a) = Content(b)
<1>1. readableBytes(a) \in Nat /\ readableBytes(a) <= readableBytes(a)
  BY DEF Good, readableBytes
<1>2. /\ Peek(a, readableBytes(a)) \in Seq(Cells) /\ Len(Peek(a, readableBytes(a))) = readableBytes(a)
      /\ \A i \in 1 .. readableBytes(a) : Peek(a, readableBytes(a))[i] = a.buffer_[a.readerIndex_ + i]
  BY <1>1, ContentIs, Zenon
<1>3. /\ Peek(b, readableBytes(a)) \in Seq(Cells) /\ Len(Peek(b, readableBytes(a))) = readableBytes(a)
      /\ \A i \in 1 .. readableBytes(a) : Peek(b, readableBytes(a))[i] = b.buffer_[b.readerIndex_ + i]
  BY <1>1, ContentIs, Zenon
<1>4. Peek(a, readableBytes(a)) = Peek(b, readableBytes(a))
  BY <1>1, <1>2, <1>3, SameSeq
<1> QED
  BY <1>4, Zenon DEF Content

\* makeSpace() is only called when the writable bytes do not suffice, and moves the content only if what
\* it asserts holds: the content moves towards the front (Buffer.h:434).
LEMMA MakeSpaceAsserts ==
  ASSUME NEW b, Good(b), NEW len \in Nat, writableBytes(b) < len, ~Grows(b, len)
  PROVE  kCheapPrepend < b.readerIndex_
BY BufferAssumption DEF Good, Grows, writableBytes, prependableBytes

\* However it makes room, ensureWritableBytes() keeps the content (Buffer.h:219-228, 423-444).
LEMMA EnsureIs ==
  ASSUME NEW b, Good(b), NEW len \in Nat
  PROVE  LET e == ensureWritableBytes(b, len) IN
         /\ Good(e) /\ Content(e) = Content(b) /\ Roomy(b, e)
         /\ readableBytes(e) = readableBytes(b) /\ len <= writableBytes(e)
<1> DEFINE e == ensureWritableBytes(b, len)
           P == Good(e) /\ Content(e) = Content(b) /\ Roomy(b, e)
                  /\ readableBytes(e) = readableBytes(b) /\ len <= writableBytes(e)
<1> SUFFICES P
  BY Zenon
<1>0. /\ b.buffer_ \in Seq(Cells) /\ Len(b.buffer_) \in Nat
      /\ b.readerIndex_ \in Nat /\ b.writerIndex_ \in Nat /\ kCheapPrepend \in Nat
      /\ b.readerIndex_ <= b.writerIndex_ /\ b.writerIndex_ <= Len(b.buffer_)
      /\ kCheapPrepend <= Len(b.buffer_)
  BY BufferAssumption DEF Good
<1>1. CASE ~(writableBytes(b) < len)
  <2>1. e = b
    BY <1>1, Zenon DEF ensureWritableBytes
  <2> QED
    BY <1>0, <1>1, <2>1 DEF Roomy, writableBytes
<1>2. CASE writableBytes(b) < len /\ Grows(b, len)
  <2> DEFINE v == Resize(b.buffer_, b.writerIndex_ + len)
  <2>1. e = [b EXCEPT !.buffer_ = v]
    BY <1>2, Zenon DEF ensureWritableBytes, makeSpace
  <2>2. Len(b.buffer_) <= b.writerIndex_ + len /\ b.writerIndex_ + len \in Nat
    BY <1>0, <1>2 DEF writableBytes
  <2>3. v \in Seq(Cells) /\ Len(v) = b.writerIndex_ + len /\ \A k \in 1 .. Len(b.buffer_) : v[k] = b.buffer_[k]
    BY <1>0, <2>2, ResizeIs, Zenon
  <2> HIDE DEF v
  <2>4. e.buffer_ = v /\ e.readerIndex_ = b.readerIndex_ /\ e.writerIndex_ = b.writerIndex_
        /\ e \in [buffer_ : Seq(Cells), readerIndex_ : Nat, writerIndex_ : Nat]
    BY <2>1, <2>3, Zenon DEF Good
  <2> HIDE DEF e
  <2>5. Good(e) /\ readableBytes(e) = readableBytes(b) /\ len <= writableBytes(e) /\ Roomy(b, e)
    BY <1>0, <2>2, <2>3, <2>4 DEF Good, readableBytes, writableBytes, Roomy
  <2>6. \A i \in 1 .. readableBytes(e) : e.buffer_[e.readerIndex_ + i] = b.buffer_[b.readerIndex_ + i]
    <3> SUFFICES ASSUME NEW i \in 1 .. readableBytes(e) PROVE e.buffer_[e.readerIndex_ + i] = b.buffer_[b.readerIndex_ + i]
      BY Zenon
    <3>1. b.readerIndex_ + i \in 1 .. Len(b.buffer_)
      BY <1>0, <2>5 DEF readableBytes
    <3> QED
      BY <2>3, <2>4, <3>1
  <2>7. Content(e) = Content(b)
    BY <2>5, <2>6, SameContent, Zenon
  <2> QED
    BY <2>5, <2>7, Zenon
<1>3. CASE writableBytes(b) < len /\ ~Grows(b, len)
  <2> DEFINE n == readableBytes(b)
             d == Peek(b, n)
             v == Copy(b.buffer_, kCheapPrepend, d)
  <2>1. e = [buffer_ |-> v, readerIndex_ |-> kCheapPrepend, writerIndex_ |-> kCheapPrepend + n]
    BY <1>3, Zenon DEF ensureWritableBytes, makeSpace
  <2>2. n \in Nat /\ n <= readableBytes(b) /\ kCheapPrepend + n + len <= Len(b.buffer_)
    BY <1>0, <1>3, SMTT(20) DEF Grows, readableBytes, writableBytes, prependableBytes
  <2>3. d \in Seq(Cells) /\ Len(d) = n /\ \A i \in 1 .. n : d[i] = b.buffer_[b.readerIndex_ + i]
    BY <2>2, ContentIs, Zenon
  <2> HIDE DEF n, d
  <2>4. kCheapPrepend + Len(d) <= Len(b.buffer_)
    BY <1>0, <2>2, <2>3
  <2>5. /\ v \in Seq(Cells) /\ Len(v) = Len(b.buffer_)
        /\ \A k \in 1 .. Len(b.buffer_) :
             v[k] = IF kCheapPrepend < k /\ k <= kCheapPrepend + Len(d) THEN d[k - kCheapPrepend] ELSE b.buffer_[k]
    <3>1. b.buffer_ \in Seq(Cells) /\ kCheapPrepend \in Nat
      BY <1>0, Zenon
    <3> QED
      BY <2>3, <2>4, <3>1, CopyIs, Zenon
  <2> HIDE DEF v
  <2>6. \A i \in 1 .. n : v[kCheapPrepend + i] = d[i]
    <3> SUFFICES ASSUME NEW i \in 1 .. n PROVE v[kCheapPrepend + i] = d[i]
      BY Zenon
    <3>1. kCheapPrepend + i \in 1 .. Len(b.buffer_) /\ kCheapPrepend < kCheapPrepend + i
          /\ kCheapPrepend + i <= kCheapPrepend + Len(d) /\ (kCheapPrepend + i) - kCheapPrepend = i
      BY <1>0, <2>2, <2>3, <2>4
    <3> QED
      BY <2>5, <3>1, Zenon
  <2>7. /\ e.buffer_ = v /\ e.readerIndex_ = kCheapPrepend /\ e.writerIndex_ = kCheapPrepend + n
        /\ e \in [buffer_ : Seq(Cells), readerIndex_ : Nat, writerIndex_ : Nat]
    BY <1>0, <2>1, <2>2, <2>5
  <2> HIDE DEF e
  <2>8. Good(e) /\ readableBytes(e) = n /\ len <= writableBytes(e) /\ Roomy(b, e)
    BY <1>0, <2>2, <2>5, <2>7, SMTT(20) DEF Good, readableBytes, writableBytes, Roomy
  <2>9. \A i \in 1 .. readableBytes(e) : e.buffer_[e.readerIndex_ + i] = b.buffer_[b.readerIndex_ + i]
    BY <2>3, <2>6, <2>7, <2>8, Zenon
  <2>10. readableBytes(e) = readableBytes(b)
    BY <2>8, Zenon DEF n
  <2>11. Content(e) = Content(b)
    BY <2>8, <2>9, <2>10, SameContent, Zenon
  <2> QED
    BY <2>8, <2>10, <2>11, Zenon
<1> QED
  BY <1>1, <1>2, <1>3, Zenon

\* What is written after the content follows it (Buffer.h:205-210, 230-235; Buffer.cc:46-61).
LEMMA WriteIs ==
  ASSUME NEW b, Good(b), NEW d \in Seq(Cells), Len(d) <= writableBytes(b)
  PROVE  LET a == [b EXCEPT !.buffer_ = Copy(@, b.writerIndex_, d), !.writerIndex_ = @ + Len(d)] IN
         /\ Good(a) /\ Content(a) = Content(b) \o d /\ a.readerIndex_ = b.readerIndex_
         /\ Len(a.buffer_) = Len(b.buffer_)
<1> DEFINE v == Copy(b.buffer_, b.writerIndex_, d)
           a == [b EXCEPT !.buffer_ = v, !.writerIndex_ = @ + Len(d)]
           n == readableBytes(b)
<1>0. /\ b.buffer_ \in Seq(Cells) /\ Len(b.buffer_) \in Nat /\ Len(d) \in Nat
      /\ b.readerIndex_ \in Nat /\ b.writerIndex_ \in Nat
      /\ b.readerIndex_ <= b.writerIndex_ /\ b.writerIndex_ + Len(d) <= Len(b.buffer_)
      /\ kCheapPrepend <= Len(b.buffer_)
  BY DEF Good, writableBytes
<1>1. /\ v \in Seq(Cells) /\ Len(v) = Len(b.buffer_)
      /\ \A k \in 1 .. Len(b.buffer_) :
           v[k] = IF b.writerIndex_ < k /\ k <= b.writerIndex_ + Len(d) THEN d[k - b.writerIndex_] ELSE b.buffer_[k]
  BY <1>0, CopyIs, Zenon
<1> HIDE DEF v
<1>2. /\ a.buffer_ = v /\ a.readerIndex_ = b.readerIndex_ /\ a.writerIndex_ = b.writerIndex_ + Len(d)
      /\ a \in [buffer_ : Seq(Cells), readerIndex_ : Nat, writerIndex_ : Nat]
  <2>1. PICK m \in Nat : m = b.writerIndex_ + Len(d)
    BY <1>0
  <2>2. a = [b EXCEPT !.buffer_ = v, !.writerIndex_ = m]
    BY <2>1, Zenon
  <2> QED
    BY <1>1, <2>1, <2>2, Zenon DEF Good
<1> HIDE DEF a
<1>3. Good(a) /\ readableBytes(a) = n + Len(d) /\ n \in Nat /\ n = b.writerIndex_ - b.readerIndex_
  BY <1>0, <1>1, <1>2 DEF Good, readableBytes
<1>4. n <= readableBytes(b) /\ readableBytes(a) <= readableBytes(a) /\ readableBytes(a) \in Nat
  BY <1>0, <1>3
<1>5. /\ Content(b) \in Seq(Cells) /\ Len(Content(b)) = n
      /\ \A i \in 1 .. n : Content(b)[i] = b.buffer_[b.readerIndex_ + i]
  BY <1>3, <1>4, ContentIs, Zenon DEF Content
<1>6. /\ Content(a) \in Seq(Cells) /\ Len(Content(a)) = readableBytes(a)
      /\ \A i \in 1 .. readableBytes(a) : Content(a)[i] = a.buffer_[a.readerIndex_ + i]
  BY <1>3, <1>4, ContentIs, Zenon DEF Content
<1> HIDE DEF n
<1>7. \A i \in 1 .. n + Len(d) : Content(a)[i] = (Content(b) \o d)[i]
  <2> SUFFICES ASSUME NEW i \in 1 .. n + Len(d) PROVE Content(a)[i] = (Content(b) \o d)[i]
    BY Zenon
  <2>1. Content(a)[i] = v[b.readerIndex_ + i] /\ b.readerIndex_ + i \in 1 .. Len(b.buffer_)
    <3>1. b.readerIndex_ + i \in 1 .. Len(b.buffer_)
      <4>1. i \in Nat /\ 1 <= i /\ i <= (b.writerIndex_ - b.readerIndex_) + Len(d)
        BY <1>0, <1>3
      <4> QED
        BY <1>0, <4>1, SMTT(20)
    <3>2. Content(a)[i] = a.buffer_[a.readerIndex_ + i]
      BY <1>3, <1>6, Zenon
    <3> QED
      BY <1>2, <3>1, <3>2, Zenon
  <2>2. CASE i <= n
    <3>3. ~(b.writerIndex_ < b.readerIndex_ + i)
      BY <1>0, <1>3, <2>2
    <3>1. v[b.readerIndex_ + i] = b.buffer_[b.readerIndex_ + i]
      BY <1>1, <2>1, <3>3, Zenon
    <3>2. (Content(b) \o d)[i] = Content(b)[i]
      BY <1>3, <1>5, <2>2
    <3> QED
      BY <1>3, <1>5, <2>1, <2>2, <3>1, <3>2
  <2>3. CASE i > n
    <3>1. (b.readerIndex_ + i) - b.writerIndex_ = i - n /\ b.writerIndex_ < b.readerIndex_ + i
          /\ b.readerIndex_ + i <= b.writerIndex_ + Len(d)
      BY <1>0, <1>3, <2>3, SMTT(20)
    <3>2. v[b.readerIndex_ + i] = d[i - n]
      BY <1>1, <2>1, <3>1, Zenon
    <3>3. (Content(b) \o d)[i] = d[i - n]
      BY <1>3, <1>5, <2>3
    <3> QED
      BY <2>1, <3>2, <3>3, Zenon
  <2>4. i <= n \/ i > n
    BY <1>0, <1>3
  <2> QED
    BY <2>2, <2>3, <2>4, Zenon
<1>8. Content(b) \o d \in Seq(Cells) /\ Len(Content(b) \o d) = n + Len(d)
  BY <1>5
<1>9. Content(a) = Content(b) \o d
  BY <1>3, <1>6, <1>7, <1>8, SameSeq, Zenon
<1> QED
  BY <1>1, <1>2, <1>3, <1>9, Zenon DEF a, v

\* append() and hasWritten() (Buffer.h:200-240).
LEMMA AppendIs ==
  ASSUME NEW b, Good(b), NEW d \in Seq(Cells)
  PROVE  Good(append(b, d)) /\ Content(append(b, d)) = Content(b) \o d /\ Roomy(b, append(b, d))
<1> DEFINE e == ensureWritableBytes(b, Len(d))
           a == [e EXCEPT !.buffer_ = Copy(@, e.writerIndex_, d), !.writerIndex_ = @ + Len(d)]
<1>1. Len(d) \in Nat
  OBVIOUS
<1>2. Good(e) /\ Content(e) = Content(b) /\ Roomy(b, e) /\ Len(d) <= writableBytes(e)
  BY <1>1, EnsureIs, Zenon
<1> HIDE DEF e
<1>3. Good(a) /\ Content(a) = Content(e) \o d /\ a.readerIndex_ = e.readerIndex_
  BY <1>2, WriteIs, Zenon
<1>4. append(b, d) = a
  BY Zenon DEF append, e
<1> HIDE DEF a
<1>5. Roomy(b, a)
  BY <1>2, <1>3, Zenon DEF Roomy
<1> QED
  BY <1>2, <1>3, <1>4, <1>5, Zenon

\* retrieve() takes bytes from the front, and the last of them makes the buffer as good as new
\* (Buffer.h:126-178).
LEMMA RetrieveIs ==
  ASSUME NEW b, Good(b), NEW len \in Nat, len <= readableBytes(b)
  PROVE  LET a == retrieve(b, len) IN
         /\ Good(a) /\ Content(a) = SubSeq(Content(b), len + 1, Len(Content(b))) /\ Roomy(b, a)
<1> DEFINE a == retrieve(b, len)
           n == readableBytes(b)
<1>0. /\ b.buffer_ \in Seq(Cells) /\ Len(b.buffer_) \in Nat /\ kCheapPrepend \in Nat
      /\ b.readerIndex_ \in Nat /\ b.writerIndex_ \in Nat /\ n = b.writerIndex_ - b.readerIndex_ /\ n \in Nat
      /\ b.readerIndex_ <= b.writerIndex_ /\ b.writerIndex_ <= Len(b.buffer_) /\ n <= readableBytes(b)
      /\ kCheapPrepend <= Len(b.buffer_)
  BY BufferAssumption DEF Good, readableBytes
<1>1. /\ Content(b) \in Seq(Cells) /\ Len(Content(b)) = n
      /\ \A i \in 1 .. n : Content(b)[i] = b.buffer_[b.readerIndex_ + i]
  BY <1>0, ContentIs, Zenon DEF Content
<1> HIDE DEF n
<1>2. len + (n - len) <= Len(Content(b)) /\ len + (n - len) = n /\ n - len \in Nat
  BY <1>0, <1>1 DEF n
<1>3. /\ SubSeq(Content(b), len + 1, n) \in Seq(Cells) /\ Len(SubSeq(Content(b), len + 1, n)) = n - len
      /\ \A i \in 1 .. n - len : SubSeq(Content(b), len + 1, n)[i] = Content(b)[len + i]
  <2>1. /\ SubSeq(Content(b), len + 1, len + (n - len)) \in Seq(Cells)
        /\ Len(SubSeq(Content(b), len + 1, len + (n - len))) = n - len
        /\ \A i \in 1 .. n - len : SubSeq(Content(b), len + 1, len + (n - len))[i] = Content(b)[len + i]
    BY <1>1, <1>2, PartIs, Zenon
  <2> QED
    BY <1>2, <2>1, Zenon
<1>4. Good(a) /\ readableBytes(a) = n - len /\ Roomy(b, a)
      /\ \A i \in 1 .. n - len : a.buffer_[a.readerIndex_ + i] = Content(b)[len + i]
  <2>1. CASE len < readableBytes(b)
    <3>1. PICK m \in Nat : m = b.readerIndex_ + len
      BY <1>0
    <3>2. a = [b EXCEPT !.readerIndex_ = m]
      BY <2>1, <3>1, Zenon DEF retrieve
    <3>3. /\ a.buffer_ = b.buffer_ /\ a.readerIndex_ = m /\ a.writerIndex_ = b.writerIndex_
          /\ a \in [buffer_ : Seq(Cells), readerIndex_ : Nat, writerIndex_ : Nat]
      BY <3>2, Zenon DEF Good
    <3> HIDE DEF a
    <3>4. Good(a) /\ readableBytes(a) = n - len /\ Roomy(b, a)
      BY <1>0, <2>1, <3>1, <3>3 DEF Good, readableBytes, Roomy
    <3>5. \A i \in 1 .. n - len : a.buffer_[a.readerIndex_ + i] = Content(b)[len + i]
      <4> SUFFICES ASSUME NEW i \in 1 .. n - len PROVE a.buffer_[a.readerIndex_ + i] = Content(b)[len + i]
        BY Zenon
      <4>1. i \in Nat /\ 1 <= i /\ i <= n - len
        BY <1>2
      <4>2. len + i \in 1 .. n
        BY <1>0, <4>1
      <4>3. b.readerIndex_ + (len + i) = m + i
        BY <1>0, <3>1, <4>1
      <4> QED
        BY <1>1, <3>3, <4>2, <4>3, Zenon
    <3> QED
      BY <3>4, <3>5, Zenon
  <2>2. CASE ~(len < readableBytes(b))
    <3>1. n - len = 0
      BY <1>0, <2>2 DEF n
    <3>2. a = [b EXCEPT !.readerIndex_ = kCheapPrepend, !.writerIndex_ = kCheapPrepend]
      BY <2>2, Zenon DEF retrieve
    <3>3. /\ a.buffer_ = b.buffer_ /\ a.readerIndex_ = kCheapPrepend /\ a.writerIndex_ = kCheapPrepend
          /\ a \in [buffer_ : Seq(Cells), readerIndex_ : Nat, writerIndex_ : Nat]
      BY <1>0, <3>2, Zenon DEF Good
    <3> HIDE DEF a
    <3>4. Good(a) /\ readableBytes(a) = 0 /\ Roomy(b, a)
      BY <1>0, <3>3 DEF Good, readableBytes, Roomy
    <3> QED
      BY <3>1, <3>4
  <2> QED
    BY <2>1, <2>2, Zenon
<1> HIDE DEF a
<1>5. /\ Content(a) \in Seq(Cells) /\ Len(Content(a)) = n - len
      /\ \A i \in 1 .. n - len : Content(a)[i] = a.buffer_[a.readerIndex_ + i]
  <2>1. n - len <= readableBytes(a)
    BY <1>2, <1>4
  <2>2. /\ Peek(a, n - len) \in Seq(Cells) /\ Len(Peek(a, n - len)) = n - len
        /\ \A i \in 1 .. n - len : Peek(a, n - len)[i] = a.buffer_[a.readerIndex_ + i]
    BY <1>2, <1>4, <2>1, ContentIs, Zenon
  <2> QED
    BY <1>4, <2>2, Zenon DEF Content
<1>6. Content(a) = SubSeq(Content(b), len + 1, n)
  BY <1>3, <1>4, <1>5, SameSeq, Zenon
<1> QED
  BY <1>1, <1>4, <1>6, Zenon DEF a

\* unwrite() cuts the content (Buffer.h:242-247).
LEMMA UnwriteIs ==
  ASSUME NEW b, Good(b), NEW len \in Nat, len <= readableBytes(b)
  PROVE  LET a == unwrite(b, len)
             n == Len(Content(b))
         IN  /\ Good(a) /\ a.readerIndex_ = b.readerIndex_ /\ len <= n
             /\ Content(a) = SubSeq(Content(b), 1, n - len)
             /\ SubSeq(b.buffer_, b.writerIndex_ - len + 1, b.writerIndex_) = SubSeq(Content(b), n - len + 1, n)
<1> DEFINE a == unwrite(b, len)
           n == readableBytes(b)
<1>0. /\ b.buffer_ \in Seq(Cells) /\ Len(b.buffer_) \in Nat
      /\ b.readerIndex_ \in Nat /\ b.writerIndex_ \in Nat /\ n = b.writerIndex_ - b.readerIndex_ /\ n \in Nat
      /\ b.readerIndex_ <= b.writerIndex_ /\ b.writerIndex_ <= Len(b.buffer_) /\ n <= readableBytes(b)
      /\ kCheapPrepend <= Len(b.buffer_)
  BY BufferAssumption DEF Good, readableBytes
<1>1. /\ Content(b) \in Seq(Cells) /\ Len(Content(b)) = n
      /\ \A i \in 1 .. n : Content(b)[i] = b.buffer_[b.readerIndex_ + i]
  BY <1>0, ContentIs, Zenon DEF Content
<1> HIDE DEF n
<1> DEFINE m == n - len
           w == b.writerIndex_ - len
<1>2. m \in Nat /\ m + len = n /\ m <= n /\ m + len <= n
  BY <1>0 DEF n
<1>3. /\ w \in Nat /\ b.readerIndex_ + m = w /\ b.readerIndex_ <= w /\ w <= b.writerIndex_
      /\ w + len = b.writerIndex_ /\ w + len <= Len(b.buffer_)
  BY <1>0 DEF n
<1> HIDE DEF m, w
<1>4. a = [b EXCEPT !.writerIndex_ = w]
  BY Zenon DEF unwrite, w
<1>5. /\ a.buffer_ = b.buffer_ /\ a.readerIndex_ = b.readerIndex_ /\ a.writerIndex_ = w
      /\ a \in [buffer_ : Seq(Cells), readerIndex_ : Nat, writerIndex_ : Nat]
  BY <1>3, <1>4, Zenon DEF Good
<1> HIDE DEF a
<1>6. Good(a) /\ readableBytes(a) = m
  <2>1. w - b.readerIndex_ = m /\ w <= Len(b.buffer_)
    BY <1>0, <1>2, <1>3, SMTT(20)
  <2> QED
    BY <1>0, <1>3, <1>5, <2>1, Zenon DEF Good, readableBytes
<1>7. Content(a) = SubSeq(Content(b), 1, m)
  <2>1. m <= readableBytes(a)
    BY <1>2, <1>6
  <2>2. /\ Peek(a, m) \in Seq(Cells) /\ Len(Peek(a, m)) = m
        /\ \A i \in 1 .. m : Peek(a, m)[i] = a.buffer_[a.readerIndex_ + i]
    BY <1>2, <1>6, <2>1, ContentIs, Zenon
  <2>3. /\ SubSeq(Content(b), 1, m) \in Seq(Cells) /\ Len(SubSeq(Content(b), 1, m)) = m
        /\ \A i \in 1 .. m : SubSeq(Content(b), 1, m)[i] = Content(b)[i]
    BY <1>1, <1>2
  <2>4. \A i \in 1 .. m : Peek(a, m)[i] = SubSeq(Content(b), 1, m)[i]
    <3> SUFFICES ASSUME NEW i \in 1 .. m PROVE Peek(a, m)[i] = SubSeq(Content(b), 1, m)[i]
      BY Zenon
    <3>1. i \in 1 .. n
      BY <1>0, <1>2
    <3> QED
      BY <1>1, <1>5, <2>2, <2>3, <3>1, Zenon
  <2>5. Peek(a, m) = SubSeq(Content(b), 1, m)
    BY <2>2, <2>3, <2>4, SameSeq, Zenon
  <2> QED
    BY <1>6, <2>5, Zenon DEF Content
<1>8. SubSeq(b.buffer_, w + 1, w + len) = SubSeq(Content(b), m + 1, m + len)
  <2> DEFINE s == SubSeq(b.buffer_, w + 1, w + len)
             t == SubSeq(Content(b), m + 1, m + len)
  <2>1. s \in Seq(Cells) /\ Len(s) = len /\ \A i \in 1 .. len : s[i] = b.buffer_[w + i]
    BY <1>0, <1>3, PartIs
  <2>2. t \in Seq(Cells) /\ Len(t) = len /\ \A i \in 1 .. len : t[i] = Content(b)[m + i]
    <3>1. m + len <= Len(Content(b))
      BY <1>1, <1>2, Zenon
    <3> QED
      BY <1>1, <1>2, <3>1, PartIs, Zenon
  <2> HIDE DEF s, t
  <2>3. ASSUME NEW i \in 1 .. len PROVE s[i] = t[i]
    <3>1. m + i \in 1 .. n
      BY <1>0, <1>2
    <3>2. b.readerIndex_ + (m + i) = w + i
      <4>1. i \in Nat /\ m \in Nat /\ w \in Nat /\ b.readerIndex_ \in Nat /\ b.readerIndex_ + m = w
        BY <1>0, <1>2, <1>3
      <4> QED
        BY <4>1, Sums
    <3> QED
      BY <1>1, <2>1, <2>2, <3>1, <3>2, Zenon
  <2>4. s = t
    BY <2>1, <2>2, <2>3, SameSeq, Zenon
  <2> QED
    BY <2>4, Zenon DEF s, t
<1> QED
  <2>1. Len(Content(b)) = n /\ n - len = m /\ len <= n
    BY <1>1, Zenon DEF m, n
  <2>2. SubSeq(b.buffer_, w + 1, b.writerIndex_) = SubSeq(Content(b), m + 1, n)
    BY <1>2, <1>3, <1>8, Zenon
  <2>3. /\ Good(a) /\ a.readerIndex_ = b.readerIndex_ /\ len <= n /\ Content(a) = SubSeq(Content(b), 1, n - len)
        /\ SubSeq(b.buffer_, b.writerIndex_ - len + 1, b.writerIndex_) = SubSeq(Content(b), n - len + 1, n)
    BY <1>5, <1>6, <1>7, <2>1, <2>2, Zenon DEF w
  <2> QED
    BY <2>1, <2>3, Zenon DEF a

\* prepend() puts bytes before the content, in the room that is there (Buffer.h:383-390).
LEMMA PrependIs ==
  ASSUME NEW b, Good(b), NEW d \in Seq(Cells), Len(d) <= prependableBytes(b)
  PROVE  LET a == prepend(b, d) IN
         Good(a) /\ Content(a) = d \o Content(b) /\ a.readerIndex_ = b.readerIndex_ - Len(d)
<1> DEFINE r == b.readerIndex_ - Len(d)
           v == Copy(b.buffer_, r, d)
           a == prepend(b, d)
           n == readableBytes(b)
<1>0. /\ b.buffer_ \in Seq(Cells) /\ Len(b.buffer_) \in Nat /\ Len(d) \in Nat
      /\ b.readerIndex_ \in Nat /\ b.writerIndex_ \in Nat /\ n = b.writerIndex_ - b.readerIndex_ /\ n \in Nat
      /\ b.readerIndex_ <= b.writerIndex_ /\ b.writerIndex_ <= Len(b.buffer_) /\ n <= readableBytes(b)
      /\ kCheapPrepend <= Len(b.buffer_)
  BY BufferAssumption DEF Good, readableBytes
<1>1. r \in Nat /\ r + Len(d) = b.readerIndex_ /\ r <= b.readerIndex_ /\ r + Len(d) <= Len(b.buffer_)
  BY <1>0 DEF prependableBytes
<1> HIDE DEF r
<1>2. /\ v \in Seq(Cells) /\ Len(v) = Len(b.buffer_)
      /\ \A k \in 1 .. Len(b.buffer_) : v[k] = IF r < k /\ k <= r + Len(d) THEN d[k - r] ELSE b.buffer_[k]
  BY <1>0, <1>1, CopyIs
<1>3. a = [b EXCEPT !.readerIndex_ = r, !.buffer_ = v]
  BY Zenon DEF prepend, r
<1> HIDE DEF v
<1>4. /\ a.buffer_ = v /\ a.readerIndex_ = r /\ a.writerIndex_ = b.writerIndex_
      /\ a \in [buffer_ : Seq(Cells), readerIndex_ : Nat, writerIndex_ : Nat]
  BY <1>1, <1>2, <1>3, Zenon DEF Good
<1> HIDE DEF a
<1> DEFINE m == Len(d) + n
<1>5. m \in Nat /\ b.writerIndex_ - r = m /\ r + m <= Len(b.buffer_)
  <2>1. m \in Nat /\ r + m = b.readerIndex_ + n
    <3>1. r \in Nat /\ Len(d) \in Nat /\ n \in Nat /\ b.readerIndex_ \in Nat /\ r + Len(d) = b.readerIndex_
      BY <1>0, <1>1, Zenon
    <3> HIDE DEF n
    <3> QED
      BY <3>1, Sums
  <2> HIDE DEF n, m
  <2>2. r + m = b.writerIndex_
    BY <1>0, <2>1, SMTT(20)
  <2> QED
    BY <1>0, <1>1, <2>1, <2>2
<1>6. Good(a) /\ readableBytes(a) = m
  BY <1>0, <1>1, <1>2, <1>4, <1>5 DEF Good, readableBytes
<1>7. /\ Content(b) \in Seq(Cells) /\ Len(Content(b)) = n
      /\ \A i \in 1 .. n : Content(b)[i] = b.buffer_[b.readerIndex_ + i]
  BY <1>0, ContentIs, Zenon DEF Content
<1> HIDE DEF n, m
<1>8. /\ Content(a) \in Seq(Cells) /\ Len(Content(a)) = m
      /\ \A i \in 1 .. m : Content(a)[i] = v[r + i]
  <2>1. m <= readableBytes(a)
    BY <1>5, <1>6
  <2>2. /\ Peek(a, m) \in Seq(Cells) /\ Len(Peek(a, m)) = m
        /\ \A i \in 1 .. m : Peek(a, m)[i] = a.buffer_[a.readerIndex_ + i]
    BY <1>5, <1>6, <2>1, ContentIs, Zenon
  <2> QED
    BY <1>4, <1>6, <2>2, Zenon DEF Content
<1>9. d \o Content(b) \in Seq(Cells) /\ Len(d \o Content(b)) = m
  BY <1>7 DEF m
<1>10. ASSUME NEW i \in 1 .. m PROVE Content(a)[i] = (d \o Content(b))[i]
  <2>1. i \in Nat /\ 1 <= i /\ i <= m /\ i <= Len(d) + n
    BY <1>5 DEF m
  <2>2. r + i \in 1 .. Len(b.buffer_) /\ Content(a)[i] = v[r + i]
    <3>1. r + i \in 1 .. Len(b.buffer_)
      BY <1>0, <1>1, <1>5, Positions, Zenon
    <3> QED
      BY <1>8, <3>1, Zenon
  <2>3. CASE i <= Len(d)
    <3>1. r < r + i /\ r + i <= r + Len(d) /\ (r + i) - r = i
      BY <1>0, <1>1, <2>1, <2>3
    <3>2. v[r + i] = d[i]
      BY <1>2, <2>2, <3>1, Zenon
    <3>3. (d \o Content(b))[i] = d[i]
      BY <1>7, <2>1, <2>3
    <3> QED
      BY <2>2, <3>2, <3>3, Zenon
  <2>4. CASE i > Len(d)
    <3>1. PICK j \in 1 .. n : i = Len(d) + j
      <4>1. i - Len(d) \in 1 .. n /\ i = Len(d) + (i - Len(d))
        BY <1>0, <2>1, <2>4
      <4> QED
        BY <4>1, Zenon
    <3>2. ~(r + i <= r + Len(d))
      BY <1>0, <1>1, <2>1, <2>4
    <3>3. r + i = b.readerIndex_ + j
      BY <1>0, <1>1, <3>1
    <3>4. v[r + i] = b.buffer_[b.readerIndex_ + j]
      BY <1>2, <2>2, <3>2, <3>3, Zenon
    <3>5. (d \o Content(b))[i] = Content(b)[j]
      BY <1>0, <1>7, <3>1
    <3> QED
      BY <1>7, <2>2, <3>4, <3>5, Zenon
  <2>5. i <= Len(d) \/ i > Len(d)
    BY <1>0, <2>1
  <2> QED
    BY <2>3, <2>4, <2>5, Zenon
<1>11. Content(a) = d \o Content(b)
  BY <1>8, <1>9, <1>10, SameSeq, Zenon
<1> QED
  BY <1>4, <1>6, <1>11, Zenon DEF a, r

\* A buffer that is constructed is empty (Buffer.h:54-65).
LEMMA NewIs ==
  LET b == New(kInitialSize) IN Good(b) /\ Content(b) = <<>> /\ b.readerIndex_ = kCheapPrepend
<1> DEFINE v == [i \in 1 .. kCheapPrepend + kInitialSize |-> 0]
           b == New(kInitialSize)
<1>1. kCheapPrepend \in Nat /\ kInitialSize \in Nat /\ kCheapPrepend + kInitialSize \in Nat
  BY BufferAssumption
<1>2. v \in [1 .. kCheapPrepend + kInitialSize -> Cells]
  BY ZeroIsCell, Zenon
<1>3. b = [buffer_ |-> v, readerIndex_ |-> kCheapPrepend, writerIndex_ |-> kCheapPrepend]
  BY Zenon DEF New
<1> HIDE DEF v, b
<1>4. v \in Seq(Cells) /\ Len(v) = kCheapPrepend + kInitialSize
  BY <1>1, <1>2, FunctionIsSeq, Zenon
<1>5. Good(b) /\ readableBytes(b) = 0 /\ b.readerIndex_ = kCheapPrepend
  BY <1>1, <1>3, <1>4 DEF Good, readableBytes
<1>6. Peek(b, 0) \in Seq(Cells) /\ Len(Peek(b, 0)) = 0
  <2>1. 0 \in Nat /\ 0 <= readableBytes(b)
    BY <1>5
  <2> QED
    BY <1>5, <2>1, ContentIs, Zenon
<1> QED
  BY <1>5, <1>6 DEF Content, b

\* The content of a buffer is a sequence as long as readableBytes().
LEMMA ContentType == ASSUME NEW b, Good(b) PROVE Content(b) \in Seq(Cells) /\ Len(Content(b)) = readableBytes(b)
<1>1. readableBytes(b) \in Nat /\ readableBytes(b) <= readableBytes(b)
  BY DEF Good, readableBytes
<1> QED
  BY <1>1, ContentIs, Zenon DEF Content

\* shrink() copies the content to another buffer (Buffer.h:392-401).
LEMMA ShrinkIs ==
  ASSUME NEW b, Good(b), NEW reserve \in Nat
  PROVE  Good(shrink(b, reserve)) /\ Content(shrink(b, reserve)) = Content(b) /\ Roomy(b, shrink(b, reserve))
<1> DEFINE n == readableBytes(b) + reserve
           e == ensureWritableBytes(New(kInitialSize), n)
<1>1. n \in Nat
  BY DEF Good, readableBytes
<1> HIDE DEF n
<1>2. Good(e) /\ Content(e) = <<>> /\ Roomy(New(kInitialSize), e)
  BY <1>1, NewIs, EnsureIs, Zenon
<1> DEFINE a == append(e, Content(b))
<1>3. Good(a) /\ Content(a) = Content(e) \o Content(b) /\ Roomy(e, a)
  BY <1>2, ContentType, AppendIs, Zenon
<1>4. shrink(b, reserve) = a
  BY Zenon DEF shrink, Content, n
<1>5. e.readerIndex_ >= kCheapPrepend /\ e.readerIndex_ \in Nat /\ kCheapPrepend \in Nat
  BY <1>2, NewIs, BufferAssumption, Zenon DEF Roomy, Good
<1> HIDE DEF a, e
<1>6. a.readerIndex_ >= kCheapPrepend /\ a.readerIndex_ \in Nat
  BY <1>3, <1>5 DEF Roomy, Good
<1>7. Roomy(b, a)
  BY <1>5, <1>6 DEF Roomy, Good
<1>8. Content(e) \o Content(b) = Content(b)
  BY <1>2, ContentType
<1> QED
  BY <1>3, <1>4, <1>7, <1>8, Zenon DEF a

\* A string is its first k bytes followed by the others.
LEMMA TwoParts ==
  ASSUME NEW d \in Seq(Cells), NEW k \in Nat, k <= Len(d)
  PROVE  SubSeq(d, 1, k) \o SubSeq(d, k + 1, Len(d)) = d
<1> DEFINE s == SubSeq(d, 1, k)
           t == SubSeq(d, k + 1, Len(d))
<1>1. s \in Seq(Cells) /\ Len(s) = k /\ \A i \in 1 .. k : s[i] = d[i]
  OBVIOUS
<1>2. t \in Seq(Cells) /\ Len(t) = Len(d) - k
  OBVIOUS
<1>3. \A i \in 1 .. Len(d) - k : t[i] = d[k + i]
  OBVIOUS
<1> HIDE DEF s, t
<1>4. s \o t \in Seq(Cells) /\ Len(s \o t) = Len(d)
  BY <1>1, <1>2
<1>5. ASSUME NEW i \in 1 .. Len(d) PROVE (s \o t)[i] = d[i]
  <2>1. CASE i <= k
    <3>1. i \in 1 .. k /\ i \in 1 .. Len(s)
      BY <1>1, <2>1
    <3>2. (s \o t)[i] = s[i]
      BY <1>1, <1>2, <3>1
    <3> QED
      BY <1>1, <3>1, <3>2, Zenon
  <2>2. CASE i > k
    <3>1. (s \o t)[i] = t[i - k]
      BY <1>1, <1>2, <2>2
    <3>2. i - k \in 1 .. Len(d) - k /\ k + (i - k) = i
      BY <2>2
    <3> QED
      BY <1>3, <3>1, <3>2, Zenon
  <2>3. i <= k \/ i > k
    OBVIOUS
  <2> QED
    BY <2>1, <2>2, <2>3, Zenon
<1>6. s \o t = d
  BY <1>4, <1>5, SameSeq, Zenon
<1> QED
  BY <1>6, Zenon DEF s, t

\* readFd() puts what does not fit after the content into extrabuf, and appends it from there, whether that
\* moves what was read before or not (Buffer.cc:27-66).
LEMMA ReadFdIs ==
  ASSUME NEW b, Good(b), NEW d \in Seq(Cells)
  PROVE  Good(readFd(b, d)) /\ Content(readFd(b, d)) = Content(b) \o d /\ Roomy(b, readFd(b, d))
<1>0. writableBytes(b) \in Nat /\ Len(d) \in Nat
  BY DEF Good, writableBytes
<1>1. CASE Len(d) <= writableBytes(b)
  <2> DEFINE a == [b EXCEPT !.buffer_ = Copy(@, b.writerIndex_, d), !.writerIndex_ = @ + Len(d)]
  <2>1. Good(a) /\ Content(a) = Content(b) \o d /\ a.readerIndex_ = b.readerIndex_
    BY <1>1, WriteIs, Zenon
  <2>2. readFd(b, d) = a
    BY <1>1, Zenon DEF readFd
  <2> HIDE DEF a
  <2>3. Roomy(b, a)
    BY <2>1, BufferAssumption DEF Roomy, Good
  <2> QED
    BY <2>1, <2>2, <2>3, Zenon
<1>2. CASE ~(Len(d) <= writableBytes(b))
  <2> DEFINE k == writableBytes(b)
             d1 == SubSeq(d, 1, k)
             d2 == SubSeq(d, k + 1, Len(d))
             a == [b EXCEPT !.buffer_ = Copy(@, b.writerIndex_, d1), !.writerIndex_ = @ + Len(d1)]
  <2>1. k \in Nat /\ k <= Len(d) /\ k <= writableBytes(b)
    BY <1>0, <1>2
  <2> HIDE DEF k
  <2>2. d1 \in Seq(Cells) /\ Len(d1) = k
    BY <2>1
  <2>3. d2 \in Seq(Cells)
    BY <2>1
  <2>4. d1 \o d2 = d
    BY <2>1, TwoParts, Zenon
  <2> HIDE DEF d1, d2
  <2>5. Good(a) /\ Content(a) = Content(b) \o d1 /\ a.readerIndex_ = b.readerIndex_
    BY <2>1, <2>2, WriteIs, Zenon
  <2>6. a = [b EXCEPT !.buffer_ = Copy(@, b.writerIndex_, d1), !.writerIndex_ = Len(b.buffer_)]
    <3>1. b.writerIndex_ + Len(d1) = Len(b.buffer_)
      BY <2>2 DEF k, Good, writableBytes
    <3> QED
      BY <3>1, Zenon
  <2>7. readFd(b, d) = append(a, d2)
    BY <1>2, <2>6, Zenon DEF readFd, Overflow, d1, d2, k
  <2> HIDE DEF a
  <2>8. Good(append(a, d2)) /\ Content(append(a, d2)) = Content(a) \o d2 /\ Roomy(a, append(a, d2))
    BY <2>3, <2>5, AppendIs, Zenon
  <2>9. (Content(b) \o d1) \o d2 = Content(b) \o d
    <3>1. Content(b) \in Seq(Cells)
      BY ContentType, Zenon
    <3>2. (Content(b) \o d1) \o d2 = Content(b) \o (d1 \o d2)
      BY <2>2, <2>3, <3>1
    <3> QED
      BY <2>4, <3>2, Zenon
  <2>10. Roomy(b, append(a, d2))
    BY <2>5, <2>8, Zenon DEF Roomy
  <2> QED
    BY <2>5, <2>7, <2>8, <2>9, <2>10, Zenon
<1> QED
  BY <1>1, <1>2, Zenon

\* The bytes of an integer (Endian.h, Buffer.h:249-277).
LEMMA IntBytes ==
  ASSUME NEW x \in Ints, NEW w \in Widths
  PROVE  hostToNetwork(x, w) \in Seq(Cells) /\ Len(hostToNetwork(x, w)) = w
<1>1. w \in Nat
  BY BufferAssumption, Zenon
<1> DEFINE f == hostToNetwork(x, w)
<1>2. DOMAIN f = 1 .. w /\ f = [i \in 1 .. w |-> f[i]]
  BY Zenon DEF hostToNetwork
<1>3. \A i \in 1 .. w : f[i] \in Cells
  BY <1>1 DEF Cells
<1> HIDE DEF f
<1>4. f \in [1 .. w -> Cells]
  BY <1>2, <1>3, Zenon
<1>5. f \in Seq(Cells) /\ Len(f) = w
  BY <1>1, <1>4, FunctionIsSeq, Zenon
<1> QED
  BY <1>5, Zenon DEF f

\* The strings that are appended, prepended or read.
LEMMA DataBytes == ASSUME NEW d \in Data PROVE d \in Seq(Cells)
<1>1. d \in Seq(Byte) /\ Byte \subseteq Cells
  BY BufferAssumption DEF Cells
<1> QED
  BY <1>1

\* The promise of ByteQueue, in terms of the contents c before and e after an operation with the bytes d.
LEMMA QueueSteps ==
  ASSUME NEW d, done'.data = d, NEW c, c = Content(buf), NEW e, e = Content(buf')
  PROVE  /\ done'.op \in {"append", "readFd"} /\ e = c \o d /\ Roomy(buf, buf') => Queue!Next
         /\ done'.op \in {"ensureWritableBytes", "shrink"} /\ e = c /\ Roomy(buf, buf') => Queue!Next
         /\ done'.op = "retrieve" /\ Roomy(buf, buf') /\ Len(d) <= Len(c) /\ d = SubSeq(c, 1, Len(d))
              /\ e = SubSeq(c, Len(d) + 1, Len(c)) => Queue!Next
         /\ done'.op = "prepend" /\ Len(d) <= buf.readerIndex_ /\ e = d \o c
              /\ buf'.readerIndex_ = buf.readerIndex_ - Len(d) => Queue!Next
         /\ done'.op = "unwrite" /\ Len(d) <= Len(c) /\ buf'.readerIndex_ = buf.readerIndex_
              /\ d = SubSeq(c, Len(c) - Len(d) + 1, Len(c)) /\ e = SubSeq(c, 1, Len(c) - Len(d)) => Queue!Next
<1>1. Queue!KeepsRoom <=> Roomy(buf, buf')
  BY Zenon DEF Queue!KeepsRoom, Roomy, prependableBytes
<1>2. done'.op \in {"append", "readFd"} /\ e = c \o d /\ Roomy(buf, buf') => Queue!Append_
  BY <1>1, Zenon DEF Queue!Append_, Content
<1>3. done'.op \in {"ensureWritableBytes", "shrink"} /\ e = c /\ Roomy(buf, buf') => Queue!Rearrange
  BY <1>1, Zenon DEF Queue!Rearrange, Content
<1>4. done'.op = "retrieve" /\ Roomy(buf, buf') /\ Len(d) <= Len(c) /\ d = SubSeq(c, 1, Len(d))
        /\ e = SubSeq(c, Len(d) + 1, Len(c)) => Queue!Retrieve
  BY <1>1, Zenon DEF Queue!Retrieve, Content
<1>5. done'.op = "prepend" /\ Len(d) <= buf.readerIndex_ /\ e = d \o c
        /\ buf'.readerIndex_ = buf.readerIndex_ - Len(d) => Queue!Prepend
  BY Zenon DEF Queue!Prepend, Content, prependableBytes
<1>6. done'.op = "unwrite" /\ Len(d) <= Len(c) /\ buf'.readerIndex_ = buf.readerIndex_
        /\ d = SubSeq(c, Len(c) - Len(d) + 1, Len(c)) /\ e = SubSeq(c, 1, Len(c) - Len(d)) => Queue!Unwrite
  BY Zenon DEF Queue!Unwrite, Content, prependableBytes
<1> QED
  BY <1>2, <1>3, <1>4, <1>5, <1>6, Zenon DEF Queue!Next

\* Every operation keeps the picture and does to the content what ByteQueue says, whatever it moves.
LEMMA BufferSteps ==
  ASSUME Good(buf), BufferNext
  PROVE  Good(buf') /\ Queue!Next
<1>1. CASE Append_ \/ AppendInt
  <2>1. PICK d \in Seq(Cells) : buf' = append(buf, d) /\ done'.op = "append" /\ done'.data = d
    <3>1. CASE Append_
      BY <3>1, DataBytes DEF Append_, Becomes
    <3>2. CASE AppendInt
      BY <3>2, IntBytes DEF AppendInt, Becomes
    <3> QED
      BY <1>1, <3>1, <3>2, Zenon
  <2> QED
    <3>1. Good(buf') /\ Content(buf') = Content(buf) \o d /\ Roomy(buf, buf')
      BY <2>1, AppendIs, Zenon
    <3>2. done'.op \in {"append", "readFd"}
      BY <2>1, Zenon
    <3> QED
      BY <2>1, <3>1, <3>2, QueueSteps, Zenon
<1>2. CASE Prepend \/ PrependInt
  <2>1. PICK d \in Seq(Cells) : /\ buf' = prepend(buf, d) /\ Len(d) <= prependableBytes(buf)
                                /\ done'.op = "prepend" /\ done'.data = d
    <3>1. CASE Prepend
      BY <3>1, DataBytes DEF Prepend, Becomes
    <3>2. CASE PrependInt
      BY <3>2, IntBytes DEF PrependInt, Becomes
    <3> QED
      BY <1>2, <3>1, <3>2, Zenon
  <2> QED
    BY <2>1, PrependIs, QueueSteps, Zenon DEF prependableBytes
<1>3. CASE Retrieve
  <2>1. readableBytes(buf) \in Nat
    BY DEF Good, readableBytes
  <2>2. PICK len \in Nat : /\ len <= readableBytes(buf) /\ buf' = retrieve(buf, len)
                           /\ done'.op = "retrieve" /\ done'.data = Peek(buf, len)
    BY <1>3, <2>1, BufferAssumption DEF Retrieve, Becomes
  <2>3. Good(buf') /\ Content(buf') = SubSeq(Content(buf), len + 1, Len(Content(buf))) /\ Roomy(buf, buf')
    BY <2>2, RetrieveIs, Zenon
  <2>4. Len(Peek(buf, len)) = len /\ Peek(buf, len) = SubSeq(Content(buf), 1, len) /\ len <= Len(Content(buf))
    <3>1. Content(buf) \in Seq(Cells) /\ Len(Content(buf)) = readableBytes(buf) /\ len <= Len(Content(buf))
      BY <2>2, ContentType, Zenon
    <3>2. /\ Peek(buf, len) \in Seq(Cells) /\ Len(Peek(buf, len)) = len
          /\ \A i \in 1 .. len : Peek(buf, len)[i] = buf.buffer_[buf.readerIndex_ + i]
      BY <2>2, ContentIs, Zenon
    <3>3. /\ SubSeq(Content(buf), 1, len) \in Seq(Cells) /\ Len(SubSeq(Content(buf), 1, len)) = len
          /\ \A i \in 1 .. len : SubSeq(Content(buf), 1, len)[i] = Content(buf)[i]
      BY <3>1
    <3>4. readableBytes(buf) <= readableBytes(buf)
      BY <2>1
    <3>5. \A i \in 1 .. readableBytes(buf) : Content(buf)[i] = buf.buffer_[buf.readerIndex_ + i]
      BY <2>1, <3>4, ContentIs, Zenon DEF Content
    <3>6. \A i \in 1 .. len : i \in 1 .. readableBytes(buf)
      BY <2>1, <2>2
    <3>7. Peek(buf, len) = SubSeq(Content(buf), 1, len)
      BY <3>2, <3>3, <3>5, <3>6, SameSeq, Zenon
    <3> QED
      BY <3>1, <3>2, <3>7, Zenon
  <2> QED
    BY <2>2, <2>3, <2>4, QueueSteps, Zenon
<1>4. CASE Unwrite
  <2>1. PICK len \in Nat :
          /\ len <= readableBytes(buf) /\ buf' = unwrite(buf, len) /\ done'.op = "unwrite"
          /\ done'.data = SubSeq(buf.buffer_, buf.writerIndex_ - len + 1, buf.writerIndex_)
    <3>1. PICK len \in Lens :
            /\ len <= readableBytes(buf) /\ buf' = unwrite(buf, len)
            /\ done' = [op |-> "unwrite",
                        data |-> SubSeq(buf.buffer_, buf.writerIndex_ - len + 1, buf.writerIndex_)]
      BY <1>4, Zenon DEF Unwrite, Becomes
    <3>2. len \in Nat
      BY BufferAssumption, Zenon
    <3> QED
      BY <3>1, <3>2, Zenon
  <2> DEFINE n == Len(Content(buf))
  <2>2. /\ Good(buf') /\ buf'.readerIndex_ = buf.readerIndex_ /\ len <= n
        /\ Content(buf') = SubSeq(Content(buf), 1, n - len) /\ done'.data = SubSeq(Content(buf), n - len + 1, n)
    BY <2>1, UnwriteIs, Zenon
  <2>3. Len(SubSeq(Content(buf), n - len + 1, n)) = len
    BY <2>2, ContentType
  <2> QED
    BY <2>1, <2>2, <2>3, QueueSteps, Zenon
<1>5. CASE EnsureWritableBytes
  <2>1. PICK len \in Nat : buf' = ensureWritableBytes(buf, len) /\ done'.op = "ensureWritableBytes"
    BY <1>5, BufferAssumption DEF EnsureWritableBytes, Becomes
  <2> QED
    BY <2>1, EnsureIs, QueueSteps, Zenon
<1>6. CASE Shrink
  <2>1. PICK len \in Nat : buf' = shrink(buf, len) /\ done'.op = "shrink"
    BY <1>6, BufferAssumption DEF Shrink, Becomes
  <2> QED
    BY <2>1, ShrinkIs, QueueSteps, Zenon
<1>7. CASE ReadFd
  <2>1. PICK d \in Seq(Cells) : buf' = readFd(buf, d) /\ done'.op = "readFd" /\ done'.data = d
    BY <1>7, DataBytes DEF ReadFd, Becomes
  <2> QED
    <3>1. Good(buf') /\ Content(buf') = Content(buf) \o d /\ Roomy(buf, buf')
      BY <2>1, ReadFdIs, Zenon
    <3>2. done'.op \in {"append", "readFd"}
      BY <2>1, Zenon
    <3> QED
      BY <2>1, <3>1, <3>2, QueueSteps, Zenon
<1> QED
  BY <1>1, <1>2, <1>3, <1>4, <1>5, <1>6, <1>7, Zenon DEF BufferNext

\* For every size and every string and integer: a buffer is the queue of bytes that its users take it for,
\* across growth, moves to the front, reads into two places and shrinking (Buffer.h:126-444, Buffer.cc:27-66).
THEOREM BufferIsByteQueue == BufferSpec => IsByteQueue
<1>1. BufferInit => Good(buf) /\ Queue!Init
  BY NewIs, Zenon DEF BufferInit, Queue!Init, Content, prependableBytes
<1>2. Good(buf) /\ [BufferNext]_bufferVars =>
        /\ Good(buf)'
        /\ [Queue!Next]_<<Content(buf), prependableBytes(buf), [op |-> done.op, data |-> done.data]>>
  <2>1. CASE UNCHANGED bufferVars
    BY <2>1, Zenon DEF bufferVars, Content, Peek, readableBytes, prependableBytes, Good
  <2> QED
    BY <2>1, BufferSteps, Zenon
<1> QED
  BY <1>1, <1>2, PTL DEF BufferSpec, IsByteQueue, Queue!Spec, Content

------------------------------------------------------------------------------
(* ProtobufCodecLite. *)

CONSTANTS kHeaderLen, tagLen, kChecksumLen, kMaxMessageLen, Payloads, MaxFrames

VARIABLES sent, ends, arrived, retrieved, turn, delivered, error, state_

Codec == INSTANCE ProtobufCodecLite

\* The lengths of a frame's parts; the length field itself is never empty.
CodecLengths == kHeaderLen \in Nat \ {0} /\ tagLen \in Nat /\ kChecksumLen \in Nat /\ Payloads \subseteq Nat

\* No more has arrived than was sent, and no more frames were retrieved than sent.
CodecInv ==
  /\ sent \in Seq(Codec!Frames) /\ ends \in Seq(Nat) /\ Len(ends) = Len(sent)
  /\ arrived \in Nat /\ arrived <= Codec!Units(Len(sent)) /\ retrieved \in 0 .. Len(sent)
  /\ Codec!RefusedShutsDown /\ (state_ = "kDisconnecting" <=> error # "kNoError")

\* A frame on the stream has a length.
LEMMA FrameSize ==
  ASSUME CodecLengths, NEW f \in Codec!Frames
  PROVE  f.size \in Nat
BY DEF CodecLengths, Codec!Frames, Codec!Frame, Codec!fillEmptyBuffer, Codec!kMinMessageLen

\* When a header can be read, there is a frame that it is the header of.
LEMMA FrontIsSent ==
  ASSUME CodecLengths, CodecInv, Codec!HeaderReadable
  PROVE  retrieved < Len(sent)
<1>1. Codec!readableBytes > 0 /\ Codec!readableBytes = arrived - Codec!Units(retrieved)
  BY DEF CodecLengths, CodecInv, Codec!HeaderReadable, Codec!kMinMessageLen, Codec!readableBytes, Codec!Units
<1>2. CASE retrieved = Len(sent)
  BY <1>1, <1>2 DEF CodecInv, Codec!Units
<1> QED
  BY <1>2 DEF CodecInv

\* send() lengthens the stream by a frame, and changes nothing that was sent before.
LEMMA SendKeepsCodec ==
  ASSUME CodecLengths, CodecInv, NEW f \in Codec!Frames, Codec!send(f)
  PROVE  CodecInv'
<1>1. PICK total \in Nat : total = Codec!Units(Len(sent))
  BY DEF CodecInv, Codec!Units
<1>2. PICK e \in Nat : e = total + f.size /\ total <= e
  BY FrameSize
<1>3. /\ sent' = Append(sent, f) /\ sent' \in Seq(Codec!Frames) /\ Len(sent') = Len(sent) + 1
      /\ \A i \in 1 .. Len(sent) : sent'[i] = sent[i]
      /\ Len(sent) \in Nat
  BY DEF CodecInv, Codec!send
<1>4. Codec!Units(Len(sent))' = e /\ ends' \in Seq(Nat) /\ Len(ends') = Len(sent')
  <2>1. ends' = Append(ends, e)
    BY <1>1, <1>2, Zenon DEF Codec!send
  <2>2. ends' \in Seq(Nat) /\ Len(ends') = Len(sent) + 1 /\ ends'[Len(sent) + 1] = e
    BY <2>1 DEF CodecInv
  <2>3. Codec!Units(Len(sent))' = IF Len(sent') = 0 THEN 0 ELSE ends'[Len(sent')]
    BY Zenon DEF Codec!Units
  <2>4. Len(sent') # 0
    BY <1>3
  <2> QED
    BY <1>3, <2>2, <2>3, <2>4, Zenon
<1>5. arrived' = arrived /\ retrieved' = retrieved /\ error' = error /\ state_' = state_
  BY Zenon DEF Codec!send
<1>6. Codec!RefusedShutsDown'
  <2>1. retrieved < Len(sent) => Codec!RefusedFrame(Codec!Front)' = Codec!RefusedFrame(Codec!Front)
    BY <1>3, <1>5 DEF CodecInv, Codec!Front, Codec!RefusedFrame
  <2> QED
    BY <2>1, <1>3, <1>5, SMTT(20) DEF CodecInv, Codec!RefusedShutsDown
<1> QED
  BY <1>1, <1>2, <1>3, <1>4, <1>5, <1>6 DEF CodecInv

\* A read delivers some of the bytes that are on their way.
LEMMA ReadKeepsCodec ==
  ASSUME CodecInv, Codec!onMessage
  PROVE  CodecInv'
<1>1. arrived' \in Nat /\ arrived' <= Codec!Units(Len(sent))
  BY DEF CodecInv, Codec!onMessage, Codec!Units
<1>2. UNCHANGED <<sent, ends, retrieved, error, state_>>
  BY Zenon DEF Codec!onMessage
<1> QED
  BY <1>1, <1>2, Zenon DEF CodecInv, Codec!Units, Codec!RefusedShutsDown, Codec!RefusedFrame, Codec!Front

\* One turn of the loop: it ends, or a frame that is not refused is handled, or one that is refused stays
\* where it is.
TurnEnds == UNCHANGED <<retrieved, delivered, error, state_>>
TurnHandles ==
  /\ retrieved < Len(sent) /\ ~Codec!RefusedFrame(Codec!Front) /\ retrieved' = retrieved + 1
  /\ delivered' = IF ~Codec!Front.raw THEN delivered ELSE Append(delivered, retrieved')
  /\ UNCHANGED <<error, state_>>
TurnRefuses ==
  /\ retrieved < Len(sent) /\ Codec!RefusedFrame(Codec!Front) /\ error' # "kNoError"
  /\ state_' = "kDisconnecting" /\ UNCHANGED <<retrieved, delivered>>

\* Those are all: what parse() or the length makes an error is what RefusedFrame describes.
LEMMA TurnIsOneOf ==
  ASSUME CodecLengths, CodecInv, Codec!Turn
  PROVE  UNCHANGED <<sent, ends, arrived>> /\ (TurnEnds \/ TurnHandles \/ TurnRefuses)
<1>1. UNCHANGED <<sent, ends, arrived>>
  BY Zenon DEF Codec!Turn
<1>2. CASE ~Codec!HeaderReadable
  BY <1>1, <1>2, Zenon DEF Codec!Turn, TurnEnds
<1>3. CASE Codec!HeaderReadable
  <2>1. retrieved < Len(sent)
    BY <1>3, FrontIsSent, Zenon
  <2> DEFINE f == Codec!Front
  <2>2. CASE Codec!InvalidLength
    BY <1>1, <1>3, <2>1, <2>2, Zenon DEF Codec!Turn, Codec!Error, Codec!InvalidLength, TurnRefuses, Codec!RefusedFrame
  <2>3. CASE ~Codec!InvalidLength /\ Codec!readableBytes < kHeaderLen + f.len
    BY <1>1, <1>3, <2>3, Zenon DEF Codec!Turn, TurnEnds
  <2>4. CASE ~Codec!InvalidLength /\ ~(Codec!readableBytes < kHeaderLen + f.len)
    <3>1. IF ~f.raw THEN Codec!Retrieve(delivered)
          ELSE IF Codec!parse(f) = "kNoError" THEN Codec!Retrieve(Append(delivered, retrieved + 1))
          ELSE Codec!Error(Codec!parse(f))
      BY <1>3, <2>4, Zenon DEF Codec!Turn
    <3>2. Codec!parse(f) = "kNoError" <=> f.sum /\ f.tag /\ f.payload
      BY Zenon DEF Codec!parse
    <3>3. Codec!RefusedFrame(f) <=> f.raw /\ Codec!parse(f) # "kNoError"
      BY <2>4, <3>2, Zenon DEF Codec!RefusedFrame, Codec!InvalidLength
    <3>4. CASE ~f.raw
      BY <1>1, <2>1, <3>1, <3>3, <3>4, Zenon DEF Codec!Retrieve, TurnHandles
    <3>5. CASE f.raw /\ Codec!parse(f) = "kNoError"
      BY <1>1, <2>1, <3>1, <3>3, <3>5, Zenon DEF Codec!Retrieve, TurnHandles
    <3>6. CASE f.raw /\ Codec!parse(f) # "kNoError"
      BY <1>1, <2>1, <3>1, <3>3, <3>6, Zenon DEF Codec!Error, TurnRefuses
    <3> QED
      BY <1>1, <3>4, <3>5, <3>6, Zenon
  <2> QED
    BY <2>2, <2>3, <2>4, Zenon
<1> QED
  BY <1>2, <1>3, Zenon

\* After a frame that was refused, the loop refuses it again and handles none.
LEMMA TurnKeepsCodec ==
  ASSUME CodecLengths, CodecInv, Codec!Turn
  PROVE  CodecInv'
<1>1. UNCHANGED <<sent, ends, arrived>> /\ (TurnEnds \/ TurnHandles \/ TurnRefuses)
  BY TurnIsOneOf, Zenon
<1>2. Codec!Units(Len(sent))' = Codec!Units(Len(sent))
  BY <1>1, Zenon DEF Codec!Units
<1>3. CASE TurnEnds
  BY <1>1, <1>2, <1>3, Zenon DEF TurnEnds, CodecInv, Codec!RefusedShutsDown, Codec!RefusedFrame, Codec!Front
<1>4. CASE TurnHandles
  BY <1>1, <1>2, <1>4 DEF TurnHandles, CodecInv, Codec!RefusedShutsDown
<1>5. CASE TurnRefuses
  BY <1>1, <1>2, <1>5, Zenon DEF TurnRefuses, CodecInv, Codec!RefusedShutsDown, Codec!RefusedFrame, Codec!Front
<1> QED
  BY <1>1, <1>3, <1>4, <1>5, Zenon

\* For any lengths of a frame's parts, any payloads and any limit on the length: however the stream is cut
\* into pieces, the codec hands over the messages that were sent once each and in order, up to the first
\* frame that it refuses, and that frame and no other makes it shut the connection down
\* (ProtobufCodecLite.cc:58-97, 159-169).
THEOREM CodecStreamsMessages ==
  ASSUME CodecLengths
  PROVE  Codec!Spec => /\ Codec!Stream!Init /\ [][Codec!Stream!Next]_Codec!Stream!vars
                       /\ []Codec!RefusedShutsDown
<1>1. Codec!Init => CodecInv /\ Codec!Stream!Init
  BY DEF Codec!Init, CodecInv, Codec!Units, Codec!RefusedShutsDown, Codec!Stream!Init
<1>2. CodecInv /\ [Codec!Next]_Codec!vars => CodecInv'
  <2>1. CASE UNCHANGED Codec!vars
    BY <2>1, Zenon DEF Codec!vars, CodecInv, Codec!Units, Codec!RefusedShutsDown, Codec!RefusedFrame, Codec!Front
  <2> QED
    BY <2>1, SendKeepsCodec, ReadKeepsCodec, TurnKeepsCodec, Zenon DEF Codec!Next
<1>3. CodecInv /\ [Codec!Next]_Codec!vars => [Codec!Stream!Next]_Codec!Stream!vars
  <2> SUFFICES ASSUME CodecInv, [Codec!Next]_Codec!vars PROVE [Codec!Stream!Next]_Codec!Stream!vars
    BY Zenon
  <2>1. ASSUME NEW f \in Codec!Frames, Codec!send(f) PROVE Codec!Stream!Next
    BY <2>1, Zenon DEF Codec!send, Codec!Stream!Next, Codec!Stream!Send
  <2>2. CASE Codec!onMessage \/ UNCHANGED Codec!vars
    BY <2>2, Zenon DEF Codec!onMessage, Codec!vars, Codec!Stream!vars
  <2>3. CASE Codec!Turn
    <3>1. UNCHANGED <<sent, ends, arrived>> /\ (TurnEnds \/ TurnHandles \/ TurnRefuses)
      BY <2>3, TurnIsOneOf, Zenon
    <3>2. CASE TurnHandles
      BY <3>1, <3>2, Zenon DEF TurnHandles, Codec!Stream!Next, Codec!Stream!Handle, Codec!Stream!Front, Codec!Front
    <3> QED
      BY <3>1, <3>2, Zenon DEF TurnEnds, TurnRefuses, Codec!Stream!vars
  <2> QED
    BY <2>1, <2>2, <2>3, Zenon DEF Codec!Next
<1> QED
  BY <1>1, <1>2, <1>3, PTL DEF Codec!Spec, CodecInv
=============================================================================
