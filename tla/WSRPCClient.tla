----------------------------- MODULE WSRPCClient -----------------------------
(* The web socket RPC client: its connection, the event subscription it keeps *)
(* for its 'message' listeners, and the requests that wait for a connection.  *)
(* The subscription is asked for and given up with calls answered later, in   *)
(* order, on a connection that may drop in between; WSClient (rpc-websockets),*)
(* which reconnects with a new socket, and the server are external.           *)
EXTENDS Naturals, Sequences

CONSTANTS Requests,      \* concurrent sendAsync calls
          MaxListeners,  \* bound: 'message' listeners at a time
          MaxSockets,    \* bound: connections opened in all
          MaxCalls,      \* bound: subscription calls in flight
          CallsMayFail   \* whether the server refuses calls or answers late

ASSUME WSAssumption == /\ MaxListeners \in Nat \ {0} /\ MaxSockets \in Nat \ {0}
                       /\ MaxCalls \in Nat /\ CallsMayFail \in BOOLEAN

VARIABLES conn,          \* WSClient: "open" is ready, "down" waits to reconnect
          reconnect,     \* WSClient.reconnect
          socket,        \* number of the current socket
          handlers,      \* how often _onEventMessage is attached to each socket
          listeners,     \* listenerCount(RPCClientEvent.Message)
          isSubscribed,
          calls,         \* subevents / unsubevents of this socket, oldest first
          serverSub,     \* the server sends events on this socket
          failed,        \* a call on this socket failed: for the properties
          request        \* what became of each sendAsync

subVars == <<handlers, listeners, isSubscribed, calls, serverSub, failed>>
vars == <<conn, reconnect, socket, subVars, request>>

Init == /\ conn = "connecting"
        /\ reconnect = TRUE
        /\ socket = 1
        /\ handlers = [s \in 1 .. MaxSockets |-> 0]
        /\ listeners = 0
        /\ isSubscribed = FALSE
        /\ calls = <<>>
        /\ serverSub = FALSE
        /\ failed = FALSE
        /\ request = [r \in Requests |-> "idle"]

\* A subscription call: wanted state, where it is, whether a reply still counts.
Call(want) == [want |-> want, at |-> "sent", live |-> TRUE]

-----------------------------------------------------------------------------
(* Listeners *)

\* newListener: the first one attaches the handler and subscribes if connected.
AddListener ==
  /\ listeners < MaxListeners
  /\ listeners' = listeners + 1
  /\ IF listeners > 0 THEN UNCHANGED <<handlers, calls>>
     ELSE /\ handlers' = [handlers EXCEPT ![socket] = @ + 1]
          /\ calls' = IF conn = "open" THEN Append(calls, Call(TRUE)) ELSE calls
  /\ Len(calls') <= MaxCalls
  /\ UNCHANGED <<conn, reconnect, socket, isSubscribed, serverSub, failed, request>>

\* mutant: the handler is left on the socket
RemoveListenerOnly ==
  /\ listeners > 0
  /\ listeners' = listeners - 1
  /\ calls' = IF listeners = 1 /\ conn = "open" THEN Append(calls, Call(FALSE)) ELSE calls
  /\ Len(calls') <= MaxCalls
  /\ UNCHANGED <<conn, reconnect, socket, handlers, isSubscribed, serverSub,
                 failed, request>>

\* mutant: the handler is taken off a socket it may not be on
RemoveListenerBlindly ==
  /\ listeners > 0
  /\ listeners' = listeners - 1
  /\ IF listeners > 1 THEN UNCHANGED <<handlers, calls>>
     ELSE /\ handlers' = [handlers EXCEPT ![socket] = @ - 1]
          /\ calls' = IF conn = "open" THEN Append(calls, Call(FALSE)) ELSE calls
  /\ Len(calls') <= MaxCalls
  /\ UNCHANGED <<conn, reconnect, socket, isSubscribed, serverSub, failed, request>>

\* removeListener: the last one undoes both, on the socket there is now.
RemoveListener ==
  /\ listeners > 0
  /\ listeners' = listeners - 1
  /\ IF listeners > 1 THEN UNCHANGED <<handlers, calls>>
     ELSE /\ handlers' = [handlers EXCEPT ![socket] = IF @ > 0 THEN @ - 1 ELSE 0]
          /\ calls' = IF conn = "open" THEN Append(calls, Call(FALSE)) ELSE calls
  /\ Len(calls') <= MaxCalls
  /\ UNCHANGED <<conn, reconnect, socket, isSubscribed, serverSub, failed, request>>

-----------------------------------------------------------------------------
(* The connection *)

\* WSClient makes a new socket when its reconnect timer fires.
Reconnect == /\ conn = "down"
             /\ socket < MaxSockets
             /\ conn' = "connecting"
             /\ socket' = socket + 1
             /\ UNCHANGED <<reconnect, subVars, request>>

\* mutant: no subscription is renewed
OpenOnly ==
  /\ conn = "connecting"
  /\ conn' = "open"
  /\ request' = [r \in Requests |->
                   IF request[r] = "waiting" THEN "sent" ELSE request[r]]
  /\ UNCHANGED <<reconnect, socket, subVars>>

\* 'open': tell the user, whose Connected handler may add or remove a listener (one
\* at a time); then subscribe for the listeners there are, and let the waiting
\* requests go out.
Open ==
  /\ conn = "connecting"
  /\ conn' = "open"
  /\ listeners' \in 0 .. MaxListeners
  /\ listeners' <= listeners + 1 /\ listeners <= listeners' + 1
  /\ LET first == listeners = 0 /\ listeners' = 1
         last  == listeners = 1 /\ listeners' = 0
     IN  /\ handlers' = [handlers EXCEPT ![socket] = CASE first -> @ + 1
                                                     [] last /\ @ > 0 -> @ - 1
                                                     [] OTHER -> @]
         /\ calls' = CASE first -> <<Call(TRUE), Call(TRUE)>>
                       [] last -> <<Call(FALSE)>>
                       [] OTHER -> IF listeners > 0 THEN <<Call(TRUE)>> ELSE <<>>
  /\ request' = [r \in Requests |->
                   IF request[r] = "waiting" THEN "sent" ELSE request[r]]
  /\ UNCHANGED <<reconnect, socket, isSubscribed, serverSub, failed>>

\* The connection drops, or fails to come up. WSClient says 'close' only of an
\* open one; calls and requests in flight will never be answered.
Drop ==
  /\ conn \in {"connecting", "open"}
  /\ conn' = IF reconnect THEN "down" ELSE "closed"
  /\ isSubscribed' = (isSubscribed /\ ~ (conn = "open" /\ listeners > 0))
  /\ calls' = <<>>
  /\ serverSub' = FALSE
  /\ failed' = FALSE
  /\ request' = [r \in Requests |->
                   IF request[r] = "sent" THEN "unanswered" ELSE request[r]]
  /\ UNCHANGED <<reconnect, socket, handlers, listeners>>

\* disconnect: the 'close' it asks for comes later, as a Drop.
Disconnect == /\ reconnect
              /\ reconnect' = FALSE
              /\ UNCHANGED <<conn, socket, subVars, request>>

-----------------------------------------------------------------------------
(* Subscription calls *)

\* The server serves the calls of a socket in order.
Serve ==
  /\ \E i \in 1 .. Len(calls) :
        /\ calls[i].at = "sent"
        /\ \A j \in 1 .. (i - 1) : calls[j].at # "sent"
        /\ \/ /\ calls' = [calls EXCEPT ![i].at = "served"]
              /\ serverSub' = calls[i].want
              /\ UNCHANGED failed
           \/ /\ CallsMayFail
              /\ calls' = [calls EXCEPT ![i].at = "refused"]
              /\ failed' = TRUE
              /\ UNCHANGED serverSub
  /\ UNCHANGED <<conn, reconnect, socket, handlers, listeners, isSubscribed, request>>

\* A reply in time settles isSubscribed; a refusal or a late one is an error.
CallReply ==
  /\ calls # <<>>
  /\ Head(calls).at # "sent"
  /\ calls' = Tail(calls)
  /\ isSubscribed' = IF Head(calls).at = "served" /\ Head(calls).live
                     THEN Head(calls).want ELSE isSubscribed
  /\ UNCHANGED <<conn, reconnect, socket, handlers, listeners, serverSub, failed, request>>

CallTimeout ==
  /\ CallsMayFail
  /\ \E i \in 1 .. Len(calls) : calls[i].live /\ calls' = [calls EXCEPT ![i].live = FALSE]
  /\ failed' = TRUE
  /\ UNCHANGED <<conn, reconnect, socket, handlers, listeners, isSubscribed,
                 serverSub, request>>

-----------------------------------------------------------------------------
(* Requests *)

\* sendAsync: at once on an open connection, else ensureConnectionAsync waits.
Send(r) == /\ request[r] = "idle"
           /\ request' = [request EXCEPT ![r] = IF conn = "open" THEN "sent" ELSE "waiting"]
           /\ UNCHANGED <<conn, reconnect, socket, subVars>>

Answer(r) == /\ request[r] = "sent"
             /\ request' = [request EXCEPT ![r] = "resolved"]
             /\ UNCHANGED <<conn, reconnect, socket, subVars>>

\* mutant: a request waits for its connection for ever
ReplyTimeout(r) == /\ request[r] \in {"sent", "unanswered"}
                   /\ request' = [request EXCEPT ![r] = "rejected"]
                   /\ UNCHANGED <<conn, reconnect, socket, subVars>>

\* requestTimeout, once for the connection and once for the reply.
RequestTimeout(r) == /\ request[r] \in {"waiting", "sent", "unanswered"}
                     /\ request' = [request EXCEPT ![r] = "rejected"]
                     /\ UNCHANGED <<conn, reconnect, socket, subVars>>

Next == \/ AddListener \/ RemoveListener
        \/ Reconnect \/ Open \/ Drop \/ Disconnect
        \/ Serve \/ CallReply \/ CallTimeout
        \/ \E r \in Requests : Send(r) \/ Answer(r) \/ RequestTimeout(r)

Spec == Init /\ [][Next]_vars

\* The server answers, replies reach a connection that stays up, timers fire.
FairSpec == /\ Spec
            /\ WF_vars(Serve) /\ WF_vars(CallReply)
            /\ \A r \in Requests : WF_vars(RequestTimeout(r))

-----------------------------------------------------------------------------
(* Properties *)

\* The state is well formed.
TypeOK ==
  /\ conn \in {"connecting", "open", "down", "closed"}
  /\ socket \in 1 .. MaxSockets
  /\ handlers \in [1 .. MaxSockets -> Nat]
  /\ listeners \in 0 .. MaxListeners
  /\ {reconnect, isSubscribed, serverSub, failed} \subseteq BOOLEAN
  /\ calls \in Seq([want : BOOLEAN, at : {"sent", "served", "refused"}, live : BOOLEAN])
  /\ request \in [Requests -> {"idle", "waiting", "sent", "unanswered",
                            "resolved", "rejected"}]

\* An event of the server is never handed to the listeners twice, and never
\* handled when there are none: the handler comes and goes with the first and
\* last listener even when the socket changed in between.
OneHandler == /\ \A s \in 1 .. MaxSockets : handlers[s] <= 1
              /\ handlers[socket] > 0 => listeners > 0

\* What the server will have done once it has served the calls in flight: the
\* last of them decides.
ServerWill == IF calls # <<>> /\ calls[Len(calls)].at = "sent"
              THEN calls[Len(calls)].want ELSE serverSub

\* While no call of an open connection failed, the calls in flight leave the
\* server sending events exactly when somebody listens, however listeners and
\* connections came and went.
ServerFollowsListeners == conn = "open" /\ ~ failed => ServerWill = (listeners > 0)

\* isSubscribed catches up: if the connection stays up, its calls do not fail and
\* somebody stays listening, the subscription is there, and reported, for good.
SubscriptionSettles ==
  <>[](conn = "open" /\ ~ failed /\ listeners > 0) => <>[](isSubscribed /\ serverSub)

\* Every request settles, connection or not.
RequestsSettle == \A r \in Requests :
                     request[r] # "idle" ~> request[r] \in {"resolved", "rejected"}

\* What the doc of RPCClientEvent.Subscribed says of `true`, for a connection
\* that is up: the subscription is active, so events reach the listeners.
SubscribedIsActive == isSubscribed /\ conn = "open" /\ listeners > 0 => handlers[socket] > 0
=============================================================================
