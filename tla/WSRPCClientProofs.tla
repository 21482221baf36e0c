-------------------------- MODULE WSRPCClientProofs --------------------------
(* Proofs about WSRPCClient for any requests, listeners, sockets and calls.   *)
EXTENDS WSRPCClient, SequenceTheorems, TLAPS

CallRecord == [want : BOOLEAN, at : {"sent", "served", "refused"}, live : BOOLEAN]

\* Every call that is put on a socket is a call record.
LEMMA CallType == Call(TRUE) \in CallRecord /\ Call(FALSE) \in CallRecord
BY DEF Call, CallRecord

-----------------------------------------------------------------------------
(* The handler and the listeners *)

\* The strengthening: sockets that are still to come have no handler, so a
\* reconnection never finds one on the socket it makes.
HandlerInv == /\ handlers \in [1 .. MaxSockets -> Nat]
              /\ socket \in 1 .. MaxSockets
              /\ listeners \in 0 .. MaxListeners
              /\ OneHandler
              /\ \A s \in 1 .. MaxSockets : s > socket => handlers[s] = 0

LEMMA HandlerInit == Init => HandlerInv
BY WSAssumption DEF Init, HandlerInv, OneHandler

LEMMA HandlerStep == HandlerInv /\ [Next]_vars => HandlerInv'
<1> SUFFICES ASSUME HandlerInv, [Next]_vars PROVE HandlerInv'
  OBVIOUS
<1> USE WSAssumption DEF HandlerInv, OneHandler
<1>1. CASE AddListener
  <2>1. /\ socket' = socket
        /\ listeners < MaxListeners /\ listeners' = listeners + 1
        /\ \/ listeners > 0 /\ handlers' = handlers
           \/ listeners = 0 /\ handlers' = [handlers EXCEPT ![socket] = @ + 1]
    <3>1. CASE listeners > 0
      BY <1>1, <3>1 DEF AddListener
    <3>2. CASE ~ (listeners > 0)
      <4>1. listeners = 0
        BY <3>2
      <4> QED BY <1>1, <3>2, <4>1 DEF AddListener
    <3> QED BY <3>1, <3>2
  <2> QED BY <2>1
<1>2. CASE RemoveListener
  <2>1. /\ socket' = socket
        /\ listeners > 0 /\ listeners' = listeners - 1
        /\ \/ listeners > 1 /\ handlers' = handlers
           \/ /\ listeners = 1
              /\ handlers' = [handlers EXCEPT ![socket] = IF @ > 0 THEN @ - 1 ELSE 0]
    <3>1. CASE listeners > 1
      BY <1>2, <3>1 DEF RemoveListener
    <3>2. CASE ~ (listeners > 1)
      <4>1. listeners > 0
        BY <1>2 DEF RemoveListener
      <4>2. listeners = 1
        BY <3>2, <4>1
      <4> QED BY <1>2, <3>2, <4>2 DEF RemoveListener
    <3> QED BY <3>1, <3>2
  <2> QED BY <2>1
<1>3. CASE Reconnect
  BY <1>3 DEF Reconnect, subVars
<1>4. CASE Open
  <2> DEFINE n == handlers[socket]
  <2>1. /\ listeners' \in 0 .. MaxListeners /\ socket' = socket
        /\ listeners' <= listeners + 1 /\ listeners <= listeners' + 1
        /\ handlers' = [handlers EXCEPT ![socket] =
                           CASE listeners = 0 /\ listeners' = 1 -> n + 1
                             [] (listeners = 1 /\ listeners' = 0) /\ n > 0 -> n - 1
                             [] OTHER -> n]
    BY <1>4 DEF Open
  <2>2. n \in Nat /\ n <= 1 /\ (n > 0 => listeners > 0)
    OBVIOUS
  <2> HIDE DEF n
  <2>3. CASE listeners = 0 /\ listeners' = 1
    <3>1. handlers' = [handlers EXCEPT ![socket] = n + 1] /\ n + 1 = 1
      BY <2>1, <2>2, <2>3
    <3> QED BY <2>1, <2>3, <3>1
  <2>4. CASE (listeners = 1 /\ listeners' = 0) /\ n > 0
    <3>1. handlers' = [handlers EXCEPT ![socket] = n - 1] /\ n - 1 = 0
      BY <2>1, <2>2, <2>4
    <3> QED BY <2>1, <2>4, <3>1
  <2>5. CASE ~ (listeners = 0 /\ listeners' = 1) /\ ~ ((listeners = 1 /\ listeners' = 0) /\ n > 0)
    <3>1. handlers' = [handlers EXCEPT ![socket] = n]
      BY <2>1, <2>5
    <3>2. handlers' = handlers
      BY <3>1 DEF n
    <3>3. n > 0 => listeners' > 0
      BY <2>1, <2>2, <2>5
    <3> QED BY <2>1, <3>2, <3>3 DEF n
  <2> QED BY <2>3, <2>4, <2>5
<1>5. CASE \/ Drop \/ Disconnect \/ Serve \/ CallReply \/ CallTimeout
           \/ \E r \in Requests : Send(r) \/ Answer(r) \/ RequestTimeout(r)
           \/ UNCHANGED vars
  <2>1. UNCHANGED <<handlers, socket, listeners>>
    BY <1>5 DEF Drop, Disconnect, Serve, CallReply, CallTimeout, Send, Answer,
                RequestTimeout, subVars, vars
  <2> QED BY <2>1
<1> QED BY <1>1, <1>2, <1>3, <1>4, <1>5 DEF Next

\* The handler is attached at most once to any socket, and only with somebody
\* listening to the current one, through any number of reconnections.
THEOREM HandlerComesAndGoes == Spec => []OneHandler
<1>1. HandlerInv => OneHandler
  BY DEF HandlerInv
<1> QED BY HandlerInit, HandlerStep, <1>1, PTL DEF Spec

-----------------------------------------------------------------------------
(* Queues of calls: the calls not served yet are the newest ones *)

UnservedLast(q) == \A i, j \in 1 .. Len(q) :
                      i < j /\ q[i].at = "sent" => q[j].at = "sent"

\* What the server will have done with the calls of q when it sends or not now.
Will(q, now) == IF q # <<>> /\ q[Len(q)].at = "sent" THEN q[Len(q)].want ELSE now

\* A new call decides.
LEMMA AppendCall ==
  ASSUME NEW q \in Seq(CallRecord), UnservedLast(q), NEW want \in BOOLEAN, NEW now
  PROVE  /\ Append(q, Call(want)) \in Seq(CallRecord)
         /\ UnservedLast(Append(q, Call(want)))
         /\ Will(Append(q, Call(want)), now) = want
<1> DEFINE p == Append(q, Call(want))
<1>1. Call(want) \in CallRecord /\ Call(want).at = "sent" /\ Call(want).want = want
  BY DEF Call, CallRecord
<1>2. /\ p \in Seq(CallRecord) /\ Len(p) = Len(q) + 1 /\ Len(q) \in Nat /\ p # <<>>
      /\ p[Len(p)] = Call(want) /\ \A i \in 1 .. Len(q) : p[i] = q[i]
  BY <1>1
<1>3. UnservedLast(p)
  BY <1>1, <1>2 DEF UnservedLast
<1>4. Will(p, now) = want
  BY <1>1, <1>2 DEF Will
<1> QED BY <1>2, <1>3, <1>4

\* The answer to the oldest call, once served, changes nothing of that.
LEMMA TailCall ==
  ASSUME NEW q \in Seq(CallRecord), UnservedLast(q), q # <<>>, Head(q).at # "sent", NEW now
  PROVE  /\ Tail(q) \in Seq(CallRecord)
         /\ UnservedLast(Tail(q))
         /\ Will(Tail(q), now) = Will(q, now)
<1>1. /\ Tail(q) \in Seq(CallRecord) /\ Len(q) \in Nat \ {0} /\ Len(Tail(q)) = Len(q) - 1
      /\ Head(q) = q[1] /\ \A i \in 1 .. Len(Tail(q)) : Tail(q)[i] = q[i + 1]
  OBVIOUS
<1>2. UnservedLast(Tail(q))
  BY <1>1 DEF UnservedLast
<1>3. CASE Len(q) = 1
  <2>1. Len(Tail(q)) = 0 /\ Head(q) = q[Len(q)]
    BY <1>1, <1>3
  <2>2. Tail(q) = <<>>
    BY <1>1, <2>1, EmptySeq
  <2>3. q[Len(q)].at # "sent"
    BY <2>1
  <2> QED BY <1>1, <1>2, <2>2, <2>3 DEF Will
<1>4. CASE Len(q) > 1
  <2>1. Tail(q) # <<>> /\ Tail(q)[Len(Tail(q))] = q[Len(q)]
    BY <1>1, <1>4
  <2> QED BY <1>1, <1>2, <2>1 DEF Will
<1> QED BY <1>1, <1>3, <1>4

\* Taking the oldest unserved call out, by serving or refusing it, leaves the
\* others the newest; serving it makes the server do what it says.
LEMMA ServeCall ==
  ASSUME NEW q \in Seq(CallRecord), UnservedLast(q), NEW i \in 1 .. Len(q), q[i].at = "sent",
         \A j \in 1 .. (i - 1) : q[j].at # "sent", NEW at \in {"served", "refused"}, NEW now
  PROVE  /\ [q EXCEPT ![i].at = at] \in Seq(CallRecord)
         /\ UnservedLast([q EXCEPT ![i].at = at])
         /\ Will([q EXCEPT ![i].at = at], q[i].want) = Will(q, now)
<1> DEFINE p == [q EXCEPT ![i].at = at]
<1>1. q[i] \in CallRecord
  OBVIOUS
<1>2. /\ p \in Seq(CallRecord) /\ Len(p) = Len(q) /\ Len(q) \in Nat /\ p # <<>> /\ q # <<>>
      /\ p[i].at = at /\ p[i].want = q[i].want
      /\ \A j \in 1 .. Len(q) : j # i => p[j] = q[j]
  <2>1. [q[i] EXCEPT !.at = at] \in CallRecord
    BY <1>1 DEF CallRecord
  <2>2. /\ [q[i] EXCEPT !.at = at].at = at
        /\ [q[i] EXCEPT !.at = at].want = q[i].want
    BY <1>1 DEF CallRecord
  <2> QED BY <2>1, <2>2
<1>3. UnservedLast(p)
  <2> SUFFICES ASSUME NEW j \in 1 .. Len(p), NEW k \in 1 .. Len(p), j < k, p[j].at = "sent"
               PROVE  p[k].at = "sent"
    BY DEF UnservedLast
  <2>1. j # i /\ q[j].at = "sent"
    BY <1>2
  <2>2. j > i
    BY <1>2, <2>1
  <2> QED BY <1>2, <2>1, <2>2 DEF UnservedLast
<1>4. Will(p, q[i].want) = Will(q, now)
  <2>1. CASE i = Len(q)
    BY <1>2, <2>1 DEF Will
  <2>2. CASE i < Len(q)
    <3>1. q[Len(q)].at = "sent" /\ p[Len(p)] = q[Len(q)]
      BY <1>2, <2>2 DEF UnservedLast
    <3> QED BY <1>2, <3>1 DEF Will
  <2> QED BY <1>2, <2>1, <2>2
<1> QED BY <1>2, <1>3, <1>4
\* A call whose answer will not count any more is still as served as it was.
LEMMA GiveUpCall ==
  ASSUME NEW q \in Seq(CallRecord), UnservedLast(q), NEW i \in 1 .. Len(q)
  PROVE  /\ [q EXCEPT ![i].live = FALSE] \in Seq(CallRecord)
         /\ UnservedLast([q EXCEPT ![i].live = FALSE])
<1> DEFINE p == [q EXCEPT ![i].live = FALSE]
<1>1. q[i] \in CallRecord
  OBVIOUS
<1>2. /\ [q[i] EXCEPT !.live = FALSE] \in CallRecord
      /\ [q[i] EXCEPT !.live = FALSE].at = q[i].at
  BY <1>1 DEF CallRecord
<1>3. p \in Seq(CallRecord) /\ Len(p) = Len(q) /\ \A j \in 1 .. Len(q) : p[j].at = q[j].at
  BY <1>2
<1> QED BY <1>3 DEF UnservedLast

-----------------------------------------------------------------------------
(* The server and the listeners *)

\* The strengthening: a connection that is not open has no calls in flight, has
\* no subscription at the server and starts without failures.
QueueInv == /\ conn \in {"connecting", "open", "down", "closed"}
            /\ listeners \in 0 .. MaxListeners
            /\ calls \in Seq(CallRecord)
            /\ serverSub \in BOOLEAN /\ failed \in BOOLEAN
            /\ UnservedLast(calls)
            /\ conn # "open" => calls = <<>> /\ serverSub = FALSE /\ failed = FALSE
            /\ conn = "open" /\ failed = FALSE => Will(calls, serverSub) = (listeners > 0)

LEMMA EmptyQueue ==
  /\ <<>> \in Seq(CallRecord) /\ UnservedLast(<<>>)
  /\ \A now : Will(<<>>, now) = now
BY EmptySeq DEF UnservedLast, Will

LEMMA QueueInit == Init => QueueInv
<1> SUFFICES ASSUME Init PROVE QueueInv
  OBVIOUS
<1>1. /\ conn = "connecting" /\ listeners = 0 /\ calls = <<>>
      /\ serverSub = FALSE /\ failed = FALSE
  BY DEF Init
<1>2. listeners \in 0 .. MaxListeners
  BY <1>1, WSAssumption
<1> QED BY <1>1, <1>2, EmptyQueue DEF QueueInv

\* Listeners come and go: the call that goes with the first and the last decides.
LEMMA QueueListeners ==
  ASSUME QueueInv, AddListener \/ RemoveListener
  PROVE  QueueInv'
<1> USE WSAssumption DEF QueueInv
<1>1. UNCHANGED <<conn, serverSub, failed>>
  BY DEF AddListener, RemoveListener
<1>2. listeners' \in 0 .. MaxListeners
  <2>1. CASE AddListener
    BY <2>1 DEF AddListener
  <2>2. CASE RemoveListener
    BY <2>2 DEF RemoveListener
  <2> QED BY <2>1, <2>2
<1>3. CASE calls' = calls /\ (conn = "open" => (listeners' > 0) = (listeners > 0))
  BY <1>1, <1>2, <1>3
<1>4. ASSUME NEW want \in BOOLEAN, conn = "open", calls' = Append(calls, Call(want)),
             want = (listeners' > 0)
      PROVE  QueueInv'
  BY <1>1, <1>2, <1>4, AppendCall
<1>5. CASE AddListener
  <2>1. listeners' > 0
    BY <1>5 DEF AddListener
  <2>2. CASE listeners > 0
    <3>1. calls' = calls
      BY <1>5, <2>2 DEF AddListener
    <3>2. (listeners' > 0) = (listeners > 0)
      BY <2>1, <2>2
    <3> QED BY <1>3, <3>1, <3>2
  <2>3. CASE ~ (listeners > 0)
    <3>1. calls' = IF conn = "open" THEN Append(calls, Call(TRUE)) ELSE calls
      BY <1>5, <2>3 DEF AddListener
    <3>2. CASE conn = "open"
      BY <1>4, <2>1, <3>1, <3>2
    <3>3. CASE conn # "open"
      BY <1>3, <3>1, <3>3
    <3> QED BY <3>2, <3>3
  <2> QED BY <2>2, <2>3
<1>6. CASE RemoveListener
  <2>1. listeners > 0 /\ listeners' = listeners - 1
    BY <1>6 DEF RemoveListener
  <2>2. CASE listeners > 1
    <3>1. calls' = calls
      BY <1>6, <2>2 DEF RemoveListener
    <3>2. listeners' > 0
      BY <2>1, <2>2
    <3> QED BY <1>3, <2>1, <3>1, <3>2
  <2>3. CASE ~ (listeners > 1)
    <3>1. calls' = IF conn = "open" THEN Append(calls, Call(FALSE)) ELSE calls
      BY <1>6, <2>3 DEF RemoveListener
    <3>2. FALSE = (listeners' > 0)
      BY <2>1, <2>3
    <3>3. CASE conn = "open"
      BY <1>4, <3>1, <3>2, <3>3
    <3>4. CASE conn # "open"
      BY <1>3, <3>1, <3>4
    <3> QED BY <3>3, <3>4
  <2> QED BY <2>2, <2>3
<1> QED BY <1>5, <1>6

\* A new connection asks again for the listeners there are.
LEMMA QueueOpen ==
  ASSUME QueueInv, Open
  PROVE  QueueInv'
<1>1. /\ conn' = "open" /\ serverSub' = FALSE /\ failed' = FALSE
  BY DEF QueueInv, Open
<1>2. /\ listeners' \in 0 .. MaxListeners
      /\ listeners' <= listeners + 1 /\ listeners <= listeners' + 1
      /\ calls' = CASE listeners = 0 /\ listeners' = 1 -> <<Call(TRUE), Call(TRUE)>>
                    [] listeners = 1 /\ listeners' = 0 -> <<Call(FALSE)>>
                    [] OTHER -> IF listeners > 0 THEN <<Call(TRUE)>> ELSE <<>>
  BY DEF Open
<1>3. listeners \in Nat /\ listeners' \in Nat
  BY <1>2, WSAssumption DEF QueueInv
<1>4. ASSUME NEW e \in CallRecord
      PROVE  /\ <<e>> \in Seq(CallRecord) /\ <<e>> = Append(<<>>, e)
             /\ <<e, e>> = Append(<<e>>, e)
  OBVIOUS
<1>5. ASSUME NEW want \in BOOLEAN
      PROVE  /\ <<Call(want)>> \in Seq(CallRecord) /\ UnservedLast(<<Call(want)>>)
             /\ Will(<<Call(want)>>, FALSE) = want
  <2>1. Call(want) \in CallRecord
    BY DEF Call, CallRecord
  <2>2. <<Call(want)>> = Append(<<>>, Call(want))
    BY <1>4, <2>1
  <2>3. PICK e : e = <<>>
    OBVIOUS
  <2>4. e \in Seq(CallRecord) /\ UnservedLast(e)
    BY <2>3, EmptyQueue
  <2>5. /\ Append(e, Call(want)) \in Seq(CallRecord) /\ UnservedLast(Append(e, Call(want)))
        /\ Will(Append(e, Call(want)), FALSE) = want
    BY <2>4, AppendCall
  <2> QED BY <2>2, <2>3, <2>5, Zenon
<1>6. /\ <<Call(TRUE), Call(TRUE)>> \in Seq(CallRecord)
      /\ UnservedLast(<<Call(TRUE), Call(TRUE)>>)
      /\ Will(<<Call(TRUE), Call(TRUE)>>, FALSE) = TRUE
  BY <1>4, <1>5, CallType, AppendCall
<1>7. CASE listeners = 0 /\ listeners' = 1
  <2>0. ~ (listeners = 1 /\ listeners' = 0)
    BY <1>7
  <2>1. calls' = <<Call(TRUE), Call(TRUE)>>
    BY <1>2, <1>7, <2>0, Zenon
  <2>2. (listeners' > 0) = TRUE
    BY <1>7
  <2> QED BY <1>1, <1>2, <1>6, <2>1, <2>2 DEF QueueInv
<1>8. CASE listeners = 1 /\ listeners' = 0
  <2>1. ~ (listeners = 0 /\ listeners' = 1)
    BY <1>8
  <2>2. calls' = <<Call(FALSE)>>
    BY <1>2, <1>8, <2>1, Zenon
  <2>3. (listeners' > 0) = FALSE
    BY <1>8
  <2> QED BY <1>1, <1>2, <1>5, <2>2, <2>3 DEF QueueInv
<1>9. CASE ~ (listeners = 0 /\ listeners' = 1) /\ ~ (listeners = 1 /\ listeners' = 0)
  <2>1. calls' = IF listeners > 0 THEN <<Call(TRUE)>> ELSE <<>>
    BY <1>2, <1>9
  <2>2. listeners > 0 <=> listeners' > 0
    BY <1>2, <1>3, <1>9
  <2>3. CASE listeners > 0
    <3>1. calls' = <<Call(TRUE)>> /\ (listeners' > 0) = TRUE
      BY <2>1, <2>2, <2>3
    <3> QED BY <1>1, <1>2, <1>5, <3>1 DEF QueueInv
  <2>4. CASE ~ (listeners > 0)
    <3>1. calls' = <<>> /\ (listeners' > 0) = FALSE
      BY <2>1, <2>2, <2>4
    <3>2. Will(calls', FALSE) = FALSE /\ calls' \in Seq(CallRecord) /\ UnservedLast(calls')
      BY <3>1, EmptyQueue
    <3> QED BY <1>1, <1>2, <3>1, <3>2 DEF QueueInv
  <2> QED BY <2>3, <2>4
<1> QED BY <1>7, <1>8, <1>9

\* Calls are served, refused, answered or given up.
LEMMA QueueCalls ==
  ASSUME QueueInv, Serve \/ CallReply \/ CallTimeout
  PROVE  QueueInv'
<1>1. UNCHANGED <<conn, listeners>>
  BY DEF Serve, CallReply, CallTimeout
<1>2. calls # <<>>
  BY DEF Serve, CallReply, CallTimeout
<1>3. conn = "open"
  BY <1>2 DEF QueueInv
<1>4. CASE Serve
  <2>1. PICK i \in 1 .. Len(calls) :
          /\ calls[i].at = "sent"
          /\ \A j \in 1 .. (i - 1) : calls[j].at # "sent"
          /\ \/ /\ calls' = [calls EXCEPT ![i].at = "served"]
                /\ serverSub' = calls[i].want /\ failed' = failed
             \/ /\ calls' = [calls EXCEPT ![i].at = "refused"]
                /\ serverSub' = serverSub /\ failed' = TRUE
    BY <1>4 DEF Serve
  <2>2. calls[i].want \in BOOLEAN
    <3>1. calls[i] \in CallRecord
      BY DEF QueueInv
    <3> QED BY <3>1 DEF CallRecord
  <2>3. CASE calls' = [calls EXCEPT ![i].at = "served"] /\ serverSub' = calls[i].want /\ failed' = failed
    BY <1>1, <1>3, <2>1, <2>2, <2>3, ServeCall DEF QueueInv
  <2>4. CASE calls' = [calls EXCEPT ![i].at = "refused"] /\ serverSub' = serverSub /\ failed' = TRUE
    BY <1>1, <1>3, <2>1, <2>4, ServeCall DEF QueueInv
  <2> QED BY <2>1, <2>3, <2>4
<1>5. CASE CallReply
  BY <1>1, <1>3, <1>5, TailCall DEF CallReply, QueueInv
<1>6. CASE CallTimeout
  <2>1. PICK i \in 1 .. Len(calls) : calls' = [calls EXCEPT ![i].live = FALSE]
    BY <1>6 DEF CallTimeout
  <2>2. failed' = TRUE /\ serverSub' = serverSub
    BY <1>6 DEF CallTimeout
  <2>3. calls' \in Seq(CallRecord) /\ UnservedLast(calls')
    BY <2>1, GiveUpCall DEF QueueInv
  <2> QED BY <1>1, <1>3, <2>2, <2>3 DEF QueueInv
<1> QED BY <1>4, <1>5, <1>6

LEMMA QueueStep == QueueInv /\ [Next]_vars => QueueInv'
<1> SUFFICES ASSUME QueueInv, [Next]_vars PROVE QueueInv'
  OBVIOUS
<1>1. CASE Drop
  BY <1>1, EmptyQueue DEF Drop, QueueInv
<1>2. CASE Reconnect
  BY <1>2 DEF Reconnect, subVars, QueueInv
<1>3. CASE \/ Disconnect \/ UNCHANGED vars
           \/ \E r \in Requests : Send(r) \/ Answer(r) \/ RequestTimeout(r)
  <2>1. UNCHANGED <<conn, listeners, calls, serverSub, failed>>
    BY <1>3 DEF Disconnect, Send, Answer, RequestTimeout, subVars, vars
  <2> QED BY <2>1 DEF QueueInv
<1> QED BY <1>1, <1>2, <1>3, QueueListeners, QueueOpen, QueueCalls DEF Next

\* While no call of an open connection failed, the calls in flight leave the
\* server sending events exactly when somebody listens.
THEOREM ServerFollows == Spec => []ServerFollowsListeners
<1>1. QueueInv => ServerFollowsListeners
  BY DEF QueueInv, ServerFollowsListeners, ServerWill, Will
<1> QED BY QueueInit, QueueStep, <1>1, PTL DEF Spec
-----------------------------------------------------------------------------
(* Type correctness: what the two invariants leave out *)

RequestStates == {"idle", "waiting", "sent", "unanswered", "resolved", "rejected"}

RestInv == /\ reconnect \in BOOLEAN /\ isSubscribed \in BOOLEAN
           /\ request \in [Requests -> RequestStates]

LEMMA RestStep == QueueInv /\ RestInv /\ [Next]_vars => RestInv'
<1> SUFFICES ASSUME QueueInv, RestInv, [Next]_vars PROVE RestInv'
  OBVIOUS
<1>1. CASE AddListener \/ RemoveListener \/ Serve \/ CallTimeout \/ Reconnect \/ UNCHANGED vars
  <2>1. UNCHANGED <<reconnect, isSubscribed, request>>
    BY <1>1 DEF AddListener, RemoveListener, Serve, CallTimeout, Reconnect, subVars, vars
  <2> QED BY <2>1 DEF RestInv
<1>2. CASE Open \/ Disconnect \/ \E r \in Requests : Send(r) \/ Answer(r) \/ RequestTimeout(r)
  <2>1. isSubscribed' = isSubscribed /\ reconnect' \in BOOLEAN
    BY <1>2 DEF Open, Disconnect, Send, Answer, RequestTimeout, subVars, RestInv
  <2>2. request' \in [Requests -> RequestStates]
    BY <1>2 DEF Open, Disconnect, Send, Answer, RequestTimeout, RestInv, RequestStates
  <2> QED BY <2>1, <2>2 DEF RestInv
<1>3. CASE Drop
  <2>1. reconnect' = reconnect /\ isSubscribed' \in BOOLEAN
    BY <1>3, Zenon DEF Drop, RestInv
  <2>2. request' \in [Requests -> RequestStates]
    BY <1>3 DEF Drop, RestInv, RequestStates
  <2> QED BY <2>1, <2>2 DEF RestInv
<1>4. CASE CallReply
  <2>1. reconnect' = reconnect /\ request' = request
    BY <1>4 DEF CallReply
  <2>2. Head(calls) \in CallRecord
    BY <1>4 DEF CallReply, QueueInv
  <2>3. Head(calls).want \in BOOLEAN
    BY <2>2 DEF CallRecord
  <2>4. isSubscribed' \in {Head(calls).want, isSubscribed}
    BY <1>4 DEF CallReply
  <2> QED BY <2>1, <2>3, <2>4 DEF RestInv
<1> QED BY <1>1, <1>2, <1>3, <1>4 DEF Next

\* The state of the client is always well formed.
THEOREM TypeCorrect == Spec => []TypeOK
<1>1. Init => RestInv
  BY DEF Init, RestInv, RequestStates
<1>2. HandlerInv /\ QueueInv /\ RestInv => TypeOK
  BY DEF HandlerInv, QueueInv, RestInv, TypeOK, CallRecord, RequestStates
<1> QED BY HandlerInit, HandlerStep, QueueInit, QueueStep, RestStep, <1>1, <1>2, PTL DEF Spec
=============================================================================
