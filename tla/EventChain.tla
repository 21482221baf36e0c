----------------------------- MODULE EventChain -----------------------------
(* How an event of a contract reaches its listeners: Contract (and            *)
(* EvmContract) 'event' -> Client 'contractEvent' -> WSRPCClient 'message' -> *)
(* the socket. Each stage listens to the next only while it is listened to,   *)
(* with hooks on its own newListener and removeListener events.               *)
EXTENDS Naturals, Sequences, FiniteSets

CONSTANTS Contracts,     \* Contract and EvmContract objects sharing a client
          Addresses,     \* addresses of contracts
          AddressOf,     \* the address of each object
          MaxListeners,  \* bound: listeners of each object
          MaxSockets,    \* bound: connections
          MaxCalls,      \* bound: subscription calls in flight
          MaxEvents      \* bound: events the chain emits

ASSUME ChainAssumption ==
  /\ IsFiniteSet(Contracts) /\ AddressOf \in [Contracts -> Addresses]
  /\ MaxListeners \in [Contracts -> Nat] /\ MaxSockets \in Nat \ {0} /\ MaxCalls \in Nat
  /\ MaxEvents \in Nat

VARIABLES conn, reconnect, socket, handlers, listeners, isSubscribed, calls,
          serverSub, failed, request,
          on,      \* listenerCount(Contract.EVENT) of each object
          hooks,   \* does the object still have its own two listeners
          hooked,  \* is its emitContractEvent a listener of the client
          emitted, \* number of events the chain emitted
          wire,    \* events on their way on this socket
          heard    \* events each object passed to its listeners

WS == INSTANCE WSRPCClient WITH MaxListeners <- 1, Requests <- {}, CallsMayFail <- TRUE

wsVars == <<conn, reconnect, socket, handlers, listeners, isSubscribed, calls,
            serverSub, failed, request>>
objVars == <<on, hooks, hooked>>
eventVars == <<emitted, wire, heard>>
vars == <<wsVars, objVars, eventVars>>

Init == /\ WS!Init
        /\ on = [k \in Contracts |-> 0]
        /\ hooks = [k \in Contracts |-> TRUE]
        /\ hooked = [k \in Contracts |-> FALSE]
        /\ emitted = 0
        /\ wire = <<>>
        /\ heard = [k \in Contracts |-> <<>>]

\* listenerCount(ClientEvent.Contract)
ClientListeners == Cardinality({k \in Contracts : hooked[k]})

-----------------------------------------------------------------------------
(* The user adds and removes listeners of an object *)

\* newListener of the object: the first listener hooks it to the client.
ObjectOn(k) == /\ on[k] < MaxListeners[k]
               /\ on' = [on EXCEPT ![k] = @ + 1]
               /\ hooked' = [hooked EXCEPT ![k] = @ \/ (hooks[k] /\ on[k] = 0)]
               /\ UNCHANGED hooks

\* mutant: the object stays hooked
ObjectOffOnly(k) == /\ on[k] > 0
                    /\ on' = [on EXCEPT ![k] = @ - 1]
                    /\ UNCHANGED <<hooks, hooked>>

\* removeListener of the object: the last one unhooks it.
ObjectOff(k) == /\ on[k] > 0
                /\ on' = [on EXCEPT ![k] = @ - 1]
                /\ hooked' = [hooked EXCEPT ![k] = @ /\ ~ (hooks[k] /\ on[k] = 1)]
                /\ UNCHANGED hooks

\* removeAllListeners(): Node takes the object's own two listeners away too,
\* newListener's first and removeListener's last.
ObjectOffAll(k) == /\ on' = [on EXCEPT ![k] = 0]
                   /\ hooked' = [hooked EXCEPT ![k] = @ /\ ~ (hooks[k] /\ on[k] > 0)]
                   /\ hooks' = [hooks EXCEPT ![k] = FALSE]
                   /\ hooks[k]

\* mutant: the client stops listening when one object is left
ClientLeavesEarly == \/ ClientListeners = 0 /\ ClientListeners' > 0 /\ WS!AddListener
                     \/ ClientListeners > ClientListeners' /\ ClientListeners' <= 1 /\ WS!RemoveListener
                     \/ (ClientListeners = 0) = (ClientListeners' = 0) /\ UNCHANGED wsVars

\* The client's own hooks: it listens for 'message' while an object is hooked.
ClientFollows == \/ ClientListeners = 0 /\ ClientListeners' > 0 /\ WS!AddListener
                 \/ ClientListeners > 0 /\ ClientListeners' = 0 /\ WS!RemoveListener
                 \/ (ClientListeners = 0) = (ClientListeners' = 0) /\ UNCHANGED wsVars

Listen(k) == ObjectOn(k) /\ ClientFollows /\ UNCHANGED eventVars
Leave(k) == ObjectOff(k) /\ ClientFollows /\ UNCHANGED eventVars
LeaveAll(k) == ObjectOffAll(k) /\ ClientFollows /\ UNCHANGED eventVars

-----------------------------------------------------------------------------
(* The connection underneath *)

\* A handler of the Connected event may add or remove a listener of an object.
Open == /\ WS!Open
        /\ UNCHANGED objVars \/ \E k \in Contracts : ObjectOn(k) \/ ObjectOff(k) \/ ObjectOffAll(k)
        /\ listeners' = IF ClientListeners' > 0 THEN 1 ELSE 0
        /\ UNCHANGED eventVars

Drop == WS!Drop /\ wire' = <<>> /\ UNCHANGED <<objVars, emitted, heard>>

Reconnect == (WS!Reconnect \/ WS!Disconnect) /\ UNCHANGED <<objVars, eventVars>>

\* The server serves or refuses a call, or its reply arrives.
Subscription == (WS!Serve \/ WS!CallReply) /\ UNCHANGED <<objVars, eventVars>>

CallTimeout == WS!CallTimeout /\ UNCHANGED <<objVars, eventVars>>

-----------------------------------------------------------------------------
(* Events *)

\* The server sends an event of the contract at address a, if subscribed.
Publish(a) == /\ serverSub
              /\ emitted < MaxEvents
              /\ emitted' = emitted + 1
              /\ wire' = Append(wire, [id |-> emitted + 1, contractAddress |-> a])
              /\ UNCHANGED <<wsVars, objVars, heard>>

\* _emitContractEvent of a hooked object compares the address.
Hears(k, event) == hooked[k] /\ on[k] > 0 /\ AddressOf[k] = event.contractAddress

\* _onEventMessage runs once per time it is attached to this socket; the client
\* passes the event to every hooked object.
Arrive ==
  /\ wire # <<>>
  /\ wire' = Tail(wire)
  /\ heard' = [k \in Contracts |->
                 IF Hears(k, Head(wire))
                 THEN heard[k] \o [i \in 1 .. handlers[socket] |-> Head(wire).id]
                 ELSE heard[k]]
  /\ UNCHANGED <<wsVars, objVars, emitted>>

Next == \/ \E k \in Contracts : Listen(k) \/ Leave(k) \/ LeaveAll(k)
        \/ Open \/ Drop \/ Reconnect \/ Subscription \/ CallTimeout
        \/ \E a \in Addresses : Publish(a)
        \/ Arrive

Spec == Init /\ [][Next]_vars

\* The server serves calls and the client reads what the connection brings.
FairSpec == Spec /\ WF_vars(Subscription) /\ WF_vars(Arrive)

-----------------------------------------------------------------------------
(* Properties *)

\* The state is well formed.
TypeOK == /\ WS!TypeOK
          /\ on \in [Contracts -> Nat] /\ \A k \in Contracts : on[k] <= MaxListeners[k]
          /\ hooks \in [Contracts -> BOOLEAN] /\ hooked \in [Contracts -> BOOLEAN]
          /\ emitted \in 0 .. MaxEvents
          /\ wire \in Seq([id : 1 .. MaxEvents, contractAddress : Addresses])
          /\ heard \in [Contracts -> Seq(1 .. MaxEvents)]

\* The counts of the three stages agree: an object with its hooks is hooked to
\* the client exactly while listened to, and the client listens for messages
\* exactly while an object is hooked.
StagesAgree == /\ \A k \in Contracts : hooks[k] => hooked[k] = (on[k] > 0)
               /\ listeners = IF ClientListeners > 0 THEN 1 ELSE 0

\* An object passes each event on at most once, in the order of the chain, even
\* across reconnections and subscriptions renewed in between.
HeardOnce == \A k \in Contracts : \A i, j \in 1 .. Len(heard[k]) :
                i < j => heard[k][i] < heard[k][j]

\* On the first connection every event that comes in reaches every object at
\* its address that is listened to and kept its hooks.
NoneMissed == [][ Arrive /\ socket = 1 =>
                  \A k \in Contracts :
                     hooks[k] /\ on[k] > 0 /\ AddressOf[k] = Head(wire).contractAddress
                       => heard'[k] = Append(heard[k], Head(wire).id) ]_vars

\* When nobody listens any more, on a connection that stays up and whose calls did
\* not fail, the server stops sending events. (After an unsubevents that is refused
\* it goes on as long as the connection lasts: the client asks only once.)
IdleUnsubscribes ==
  <>[](conn = "open" /\ ~ failed /\ \A k \in Contracts : on[k] = 0) => <>[] ~ serverSub
=============================================================================
