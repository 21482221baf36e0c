--------------------------- MODULE EventChainProofs ---------------------------
(* Proofs about EventChain for any objects, addresses, listeners and events.  *)
EXTENDS EventChain, FiniteSetTheorems, SequenceTheorems, TLAPS

-----------------------------------------------------------------------------
(* The connection underneath, with what is proved of it *)

WSP == INSTANCE WSRPCClientProofs
         WITH MaxListeners <- 1, Requests <- {}, CallsMayFail <- TRUE

LEMMA WSAssumptionHolds == WSP!WSAssumption
BY ChainAssumption DEF WSP!WSAssumption

\* Every step is one of the client's connection, or none of its.
LEMMA StepOfClient == [Next]_vars => [WSP!Next]_(WSP!vars)
<1> SUFFICES ASSUME [Next]_vars PROVE WSP!Next \/ UNCHANGED wsVars
  BY DEF wsVars, WSP!vars, WSP!subVars
<1> USE DEF WS!Call, WSP!Call, WS!subVars, WSP!subVars
<1>1. WS!AddListener => WSP!AddListener
  BY DEF WS!AddListener, WSP!AddListener
<1>2. WS!RemoveListener => WSP!RemoveListener
  BY DEF WS!RemoveListener, WSP!RemoveListener
<1>3. ASSUME NEW k \in Contracts, Listen(k) \/ Leave(k) \/ LeaveAll(k)
      PROVE  WSP!Next \/ UNCHANGED wsVars
  BY <1>1, <1>2, <1>3 DEF Listen, Leave, LeaveAll, ClientFollows, WSP!Next
<1>4. Open => WSP!Next
  BY DEF Open, WS!Open, WSP!Open, WSP!Next
<1>5. Drop => WSP!Next
  BY DEF Drop, WS!Drop, WSP!Drop, WSP!Next
<1>6. Reconnect => WSP!Next
  BY DEF Reconnect, WS!Reconnect, WSP!Reconnect, WS!Disconnect, WSP!Disconnect, WSP!Next
<1>7. Subscription => WSP!Next
  BY DEF Subscription, WS!Serve, WSP!Serve, WS!CallReply, WSP!CallReply, WSP!Next
<1>9. CallTimeout => WSP!Next
  BY DEF CallTimeout, WS!CallTimeout, WSP!CallTimeout, WSP!Next
<1>8. ASSUME \/ \E a \in Addresses : Publish(a)
             \/ Arrive \/ UNCHANGED vars
      PROVE  UNCHANGED wsVars
  BY <1>8 DEF Publish, Arrive, vars
<1> QED BY <1>3, <1>4, <1>5, <1>6, <1>7, <1>8, <1>9 DEF Next

\* The strengthening, for the connection: on the first socket the handler is there
\* as long as somebody listens.
ConnInv == /\ WSP!HandlerInv /\ WSP!QueueInv /\ WSP!RestInv
           /\ socket = 1 => handlers[1] = IF listeners > 0 THEN 1 ELSE 0

LEMMA ConnInit == Init => ConnInv
<1> SUFFICES ASSUME Init PROVE ConnInv
  OBVIOUS
<1> USE WSAssumptionHolds
<1>1. WSP!Init
  BY DEF Init, WS!Init, WSP!Init
<1>2. WSP!HandlerInv /\ WSP!QueueInv
  BY <1>1, WSP!HandlerInit, WSP!QueueInit
<1>3. WSP!RestInv
  BY <1>1 DEF WSP!Init, WSP!RestInv, WSP!RequestStates
<1>4. listeners = 0 /\ handlers[1] = 0
  BY <1>1, ChainAssumption DEF WSP!Init
<1> QED BY <1>2, <1>3, <1>4 DEF ConnInv

LEMMA ConnStep == ConnInv /\ [Next]_vars => ConnInv'
<1> SUFFICES ASSUME ConnInv, [Next]_vars PROVE ConnInv'
  OBVIOUS
<1> USE WSAssumptionHolds
<1>1. [WSP!Next]_(WSP!vars)
  BY StepOfClient
<1>2. WSP!HandlerInv' /\ WSP!QueueInv' /\ WSP!RestInv'
  BY <1>1, WSP!HandlerStep, WSP!QueueStep, WSP!RestStep DEF ConnInv
<1>3. /\ handlers \in [1 .. MaxSockets -> Nat] /\ socket \in 1 .. MaxSockets
      /\ listeners \in 0 .. 1 /\ 1 \in 1 .. MaxSockets
      /\ socket = 1 => handlers[1] = IF listeners > 0 THEN 1 ELSE 0
  BY ChainAssumption DEF ConnInv, WSP!HandlerInv
<1>4. (socket = 1 => handlers[1] = IF listeners > 0 THEN 1 ELSE 0)'
  <2>1. CASE WSP!AddListener
    <3>1. /\ listeners = 0 /\ listeners' = 1 /\ socket' = socket
          /\ handlers' = [handlers EXCEPT ![socket] = @ + 1]
      <4>1. listeners < 1
        BY <2>1 DEF WSP!AddListener
      <4>2. listeners = 0 /\ ~ (listeners > 0)
        BY <1>3, <4>1
      <4> QED BY <2>1, <4>2 DEF WSP!AddListener
    <3> QED BY <1>3, <3>1
  <2>2. CASE WSP!RemoveListener
    <3>1. CASE listeners > 1
      BY <1>3, <3>1
    <3>2. CASE ~ (listeners > 1)
      <4>1. /\ listeners = 1 /\ listeners' = 0 /\ socket' = socket
            /\ handlers' = [handlers EXCEPT ![socket] = IF @ > 0 THEN @ - 1 ELSE 0]
        BY <1>3, <2>2, <3>2 DEF WSP!RemoveListener
      <4> QED BY <1>3, <4>1
    <3> QED BY <3>1, <3>2
  <2>3. CASE WSP!Reconnect
    BY <1>3, <2>3 DEF WSP!Reconnect
  <2>4. CASE WSP!Open
    <3> DEFINE n == handlers[socket]
    <3>1. /\ listeners' \in 0 .. 1 /\ socket' = socket
          /\ handlers' = [handlers EXCEPT ![socket] =
                             CASE listeners = 0 /\ listeners' = 1 -> n + 1
                               [] (listeners = 1 /\ listeners' = 0) /\ n > 0 -> n - 1
                               [] OTHER -> n]
      BY <2>4 DEF WSP!Open
    <3>2. SUFFICES ASSUME socket = 1
                   PROVE  handlers'[1] = IF listeners' > 0 THEN 1 ELSE 0
      BY <3>1
    <3>3. handlers'[1] = CASE listeners = 0 /\ listeners' = 1 -> n + 1
                           [] (listeners = 1 /\ listeners' = 0) /\ n > 0 -> n - 1
                           [] OTHER -> n
      BY <1>3, <3>1, <3>2
    <3>4. n \in Nat /\ n = (IF listeners > 0 THEN 1 ELSE 0)
      BY <1>3, <3>2
    <3> HIDE DEF n
    <3> QED BY <1>3, <3>1, <3>3, <3>4
  <2>5. CASE ~ (WSP!AddListener \/ WSP!RemoveListener \/ WSP!Reconnect \/ WSP!Open)
    <3>1. UNCHANGED <<socket, handlers, listeners>>
      BY <1>1, <2>5 DEF WSP!Next, WSP!Drop, WSP!Disconnect, WSP!Serve, WSP!CallReply,
                        WSP!CallTimeout, WSP!vars, WSP!subVars
    <3> QED BY <1>3, <3>1
  <2> QED BY <2>1, <2>2, <2>3, <2>4, <2>5
<1> QED BY <1>2, <1>4 DEF ConnInv

-----------------------------------------------------------------------------
(* The three stages *)

Someone(h) == \E k \in Contracts : h[k]

\* There are listeners to count exactly when somebody is hooked.
LEMMA CountListeners ==
  ASSUME NEW h
  PROVE  LET n == Cardinality({k \in Contracts : h[k]})
         IN  n \in Nat /\ (n > 0 <=> Someone(h)) /\ (n = 0 <=> ~ Someone(h))
<1> DEFINE S == {k \in Contracts : h[k]}
<1>1. IsFiniteSet(S)
  BY ChainAssumption, FS_Subset
<1>2. Cardinality(S) \in Nat /\ (Cardinality(S) = 0 <=> S = {})
  BY <1>1, FS_CardinalityType, FS_EmptySet
<1>3. S = {} <=> ~ Someone(h)
  BY DEF Someone
<1> QED BY <1>2, <1>3

\* The strengthening: the agreement of the stages, with types.
StageInv == /\ on \in [Contracts -> Nat]
            /\ hooks \in [Contracts -> BOOLEAN] /\ hooked \in [Contracts -> BOOLEAN]
            /\ \A k \in Contracts : hooks[k] => (hooked[k] <=> on[k] > 0)
            /\ listeners = IF Someone(hooked) THEN 1 ELSE 0

LEMMA StageStep == ConnInv /\ StageInv /\ [Next]_vars => StageInv'
<1> SUFFICES ASSUME ConnInv, StageInv, [Next]_vars PROVE StageInv'
  OBVIOUS
<1>1. /\ ClientListeners > 0 <=> Someone(hooked)
      /\ ClientListeners = 0 <=> ~ Someone(hooked)
      /\ ClientListeners' > 0 <=> Someone(hooked')
      /\ ClientListeners' = 0 <=> ~ Someone(hooked')
  BY CountListeners DEF ClientListeners
<1>2. ASSUME ClientFollows PROVE listeners' = IF Someone(hooked') THEN 1 ELSE 0
  <2>1. CASE ClientListeners = 0 /\ ClientListeners' > 0 /\ WS!AddListener
    BY <1>1, <2>1 DEF WS!AddListener, StageInv
  <2>2. CASE ClientListeners > 0 /\ ClientListeners' = 0 /\ WS!RemoveListener
    BY <1>1, <2>2 DEF WS!RemoveListener, StageInv
  <2>3. CASE (ClientListeners = 0) = (ClientListeners' = 0) /\ UNCHANGED wsVars
    BY <1>1, <2>3 DEF wsVars, StageInv
  <2> QED BY <1>2, <2>1, <2>2, <2>3 DEF ClientFollows
<1> DEFINE Objects == /\ on \in [Contracts -> Nat]
                      /\ hooks \in [Contracts -> BOOLEAN] /\ hooked \in [Contracts -> BOOLEAN]
                      /\ \A k \in Contracts : hooks[k] => (hooked[k] <=> on[k] > 0)
<1>3. ASSUME NEW k \in Contracts, ObjectOn(k) PROVE Objects'
  BY <1>3, ChainAssumption DEF ObjectOn, StageInv
<1>4. ASSUME NEW k \in Contracts, ObjectOff(k) PROVE Objects'
  <2>1. /\ on[k] \in Nat /\ on[k] > 0 /\ hooks' = hooks
        /\ on' = [on EXCEPT ![k] = on[k] - 1]
        /\ hooked' = [hooked EXCEPT ![k] = hooked[k] /\ ~ (hooks[k] /\ on[k] = 1)]
    BY <1>4 DEF ObjectOff, StageInv
  <2>2. on[k] - 1 \in Nat /\ (on[k] - 1 > 0 <=> ~ (on[k] = 1))
    BY <2>1, ChainAssumption
  <2>3. on' \in [Contracts -> Nat] /\ hooked' \in [Contracts -> BOOLEAN]
    BY <2>1, <2>2 DEF StageInv
  <2>4. ASSUME NEW j \in Contracts, hooks'[j] PROVE hooked'[j] <=> on'[j] > 0
    <3>1. CASE j = k
      <4>1. on'[k] = on[k] - 1 /\ (hooked'[k] <=> hooked[k] /\ ~ (on[k] = 1))
        BY <2>1, <2>4, <3>1 DEF StageInv
      <4>2. hooked[k]
        BY <2>1, <2>4, <3>1 DEF StageInv
      <4> QED BY <2>2, <3>1, <4>1, <4>2
    <3>2. CASE j # k
      BY <2>1, <2>4, <3>2 DEF StageInv
    <3> QED BY <3>1, <3>2
  <2> QED BY <2>1, <2>3, <2>4 DEF StageInv
<1>5. ASSUME NEW k \in Contracts, ObjectOffAll(k) PROVE Objects'
  BY <1>5, ChainAssumption DEF ObjectOffAll, StageInv
<1>6. ASSUME NEW k \in Contracts, Listen(k) \/ Leave(k) \/ LeaveAll(k) PROVE StageInv'
  BY <1>2, <1>3, <1>4, <1>5, <1>6 DEF Listen, Leave, LeaveAll, StageInv
<1>7. CASE Open
  <2>1. listeners' = IF Someone(hooked') THEN 1 ELSE 0
    BY <1>1, <1>7 DEF Open
  <2>2. CASE UNCHANGED objVars
    BY <2>1, <2>2 DEF StageInv, objVars
  <2>3. ASSUME NEW k \in Contracts, ObjectOn(k) \/ ObjectOff(k) \/ ObjectOffAll(k) PROVE StageInv'
    <3>1. Objects'
      BY <1>3, <1>4, <1>5, <2>3
    <3> QED BY <2>1, <3>1 DEF StageInv
  <2> QED BY <1>7, <2>2, <2>3 DEF Open
<1>8. CASE \/ Drop \/ Reconnect \/ Subscription \/ CallTimeout \/ \E a \in Addresses : Publish(a)
           \/ Arrive \/ UNCHANGED vars
  <2>1. UNCHANGED objVars /\ listeners' = listeners
    BY <1>8 DEF Drop, WS!Drop, Reconnect, WS!Reconnect, WS!Disconnect, WS!subVars,
                Subscription, WS!Serve, WS!CallReply, CallTimeout, WS!CallTimeout, Publish, Arrive, wsVars, vars
  <2> QED BY <2>1 DEF objVars, StageInv
<1> QED BY <1>6, <1>7, <1>8 DEF Next

LEMMA StageInit == Init => StageInv
<1> SUFFICES ASSUME Init PROVE StageInv
  OBVIOUS
<1>1. listeners = 0 /\ ~ Someone(hooked)
  BY DEF Init, WS!Init, Someone
<1>2. \A k \in Contracts : on[k] = 0 /\ hooked[k] = FALSE
  BY DEF Init
<1>3. \A k \in Contracts : ~ hooked[k] /\ ~ (on[k] > 0)
  BY <1>2
<1> QED BY <1>1, <1>3, ChainAssumption DEF Init, StageInv

WithinBound == \A k \in Contracts : on[k] <= MaxListeners[k]

LEMMA BoundStep == StageInv /\ WithinBound /\ [Next]_vars => WithinBound'
<1> SUFFICES ASSUME StageInv, WithinBound, [Next]_vars PROVE WithinBound'
  OBVIOUS
<1>1. ASSUME NEW k \in Contracts, ObjectOn(k) \/ ObjectOff(k) \/ ObjectOffAll(k),
             NEW j \in Contracts
      PROVE  on'[j] <= MaxListeners[j]
  <2>1. /\ {on[j], on[k], MaxListeners[j], MaxListeners[k]} \subseteq Nat
        /\ on[j] <= MaxListeners[j] /\ on \in [Contracts -> Nat]
    BY ChainAssumption DEF StageInv, WithinBound
  <2>2. CASE ObjectOn(k)
    <3>1. on[k] < MaxListeners[k] /\ on' = [on EXCEPT ![k] = on[k] + 1]
      BY <2>2 DEF ObjectOn
    <3>2. on'[j] = IF j = k THEN on[k] + 1 ELSE on[j]
      BY <2>1, <3>1
    <3> QED BY <2>1, <3>1, <3>2
  <2>3. CASE ObjectOff(k)
    <3>1. on' = [on EXCEPT ![k] = on[k] - 1]
      BY <2>3 DEF ObjectOff
    <3>2. on'[j] = IF j = k THEN on[k] - 1 ELSE on[j]
      BY <2>1, <3>1
    <3> QED BY <2>1, <3>2
  <2>4. CASE ObjectOffAll(k)
    <3>1. on' = [on EXCEPT ![k] = 0]
      BY <2>4 DEF ObjectOffAll
    <3>2. on'[j] = IF j = k THEN 0 ELSE on[j]
      BY <2>1, <3>1
    <3> QED BY <2>1, <3>2
  <2> QED BY <1>1, <2>2, <2>3, <2>4
<1>2. ASSUME NEW k \in Contracts, Listen(k) \/ Leave(k) \/ LeaveAll(k) PROVE WithinBound'
  BY <1>1, <1>2 DEF Listen, Leave, LeaveAll, WithinBound
<1>3. CASE Open
  <2>1. CASE UNCHANGED objVars
    BY <2>1 DEF objVars, WithinBound
  <2>2. ASSUME NEW k \in Contracts, ObjectOn(k) \/ ObjectOff(k) \/ ObjectOffAll(k) PROVE WithinBound'
    BY <1>1, <2>2 DEF WithinBound
  <2> QED BY <1>3, <2>1, <2>2 DEF Open
<1>4. CASE \/ Drop \/ Reconnect \/ Subscription \/ CallTimeout \/ \E a \in Addresses : Publish(a)
           \/ Arrive \/ UNCHANGED vars
  <2>1. UNCHANGED on
    BY <1>4 DEF Drop, Reconnect, Subscription, CallTimeout, Publish, Arrive, objVars, vars
  <2> QED BY <2>1 DEF WithinBound
<1> QED BY <1>2, <1>3, <1>4 DEF Next

LEMMA BoundInit == Init => WithinBound
BY ChainAssumption DEF Init, WithinBound

\* The counts of the object, the client and the connection's client agree,
\* whatever the user and the connection do.
THEOREM StagesAlwaysAgree == Spec => []StagesAgree
<1>1. StageInv => StagesAgree
  <2>1. ClientListeners > 0 <=> Someone(hooked)
    BY CountListeners DEF ClientListeners
  <2> QED BY <2>1 DEF StageInv, StagesAgree
<1> QED BY <1>1, ConnInit, ConnStep, StageInit, StageStep, PTL DEF Spec

-----------------------------------------------------------------------------
(* Events *)

Event == [id : 1 .. MaxEvents, contractAddress : Addresses]

\* The strengthening: the events on the wire are in the order of the chain, and
\* later than all that any object has heard.
EventInv == /\ emitted \in 0 .. MaxEvents
            /\ wire \in Seq(Event)
            /\ heard \in [Contracts -> Seq(1 .. MaxEvents)]
            /\ \A i, j \in 1 .. Len(wire) : i < j => wire[i].id < wire[j].id
            /\ \A i \in 1 .. Len(wire) : wire[i].id <= emitted
            /\ HeardOnce
            /\ \A k \in Contracts : \A i \in 1 .. Len(heard[k]) :
                  /\ heard[k][i] <= emitted
                  /\ \A j \in 1 .. Len(wire) : heard[k][i] < wire[j].id

LEMMA EventInit == Init => EventInv
<1> SUFFICES ASSUME Init PROVE EventInv
  OBVIOUS
<1>1. /\ wire = <<>> /\ wire \in Seq(Event) /\ Len(wire) = 0
      /\ emitted = 0 /\ 0 \in 0 .. MaxEvents
  BY ChainAssumption DEF Init
<1>2. heard \in [Contracts -> Seq(1 .. MaxEvents)] /\ \A k \in Contracts : Len(heard[k]) = 0
  BY DEF Init
<1> QED BY <1>1, <1>2 DEF EventInv, HeardOnce

LEMMA Elements ==
  ASSUME NEW S, NEW s \in Seq(S)
  PROVE  Len(s) \in Nat /\ \A i \in 1 .. Len(s) : s[i] \in S
OBVIOUS

LEMMA HeardNumbers ==
  ASSUME EventInv, NEW k \in Contracts
  PROVE  /\ heard[k] \in Seq(1 .. MaxEvents) /\ Len(heard[k]) \in Nat
         /\ \A i \in 1 .. Len(heard[k]) : heard[k][i] \in Nat
<1>1. heard[k] \in Seq(1 .. MaxEvents)
  BY DEF EventInv
<1>2. Len(heard[k]) \in Nat /\ \A i \in 1 .. Len(heard[k]) : heard[k][i] \in 1 .. MaxEvents
  BY <1>1, Elements
<1>3. 1 .. MaxEvents \subseteq Nat
  BY ChainAssumption
<1> QED BY <1>1, <1>2, <1>3

\* The server sends one event more.
LEMMA PublishKeeps ==
  ASSUME EventInv, NEW a \in Addresses, Publish(a)
  PROVE  EventInv'
<1> DEFINE event == [id |-> emitted + 1, contractAddress |-> a]
<1>1. /\ emitted \in Nat /\ emitted < MaxEvents /\ emitted' = emitted + 1
      /\ wire' = Append(wire, event) /\ heard' = heard
  BY ChainAssumption DEF Publish, EventInv
<1>2. emitted' \in 0 .. MaxEvents /\ event \in Event /\ event.id = emitted + 1
  BY <1>1, ChainAssumption DEF Event
<1> HIDE DEF event
<1>3. wire \in Seq(Event) /\ Len(wire) \in Nat /\ \A i \in 1 .. Len(wire) : wire[i].id \in Nat
  <2>1. wire \in Seq(Event)
    BY DEF EventInv
  <2>2. \A i \in 1 .. Len(wire) : wire[i] \in Event
    BY <2>1
  <2> QED BY <2>1, <2>2 DEF Event
<1>4. /\ wire' \in Seq(Event) /\ Len(wire') = Len(wire) + 1
      /\ wire'[Len(wire) + 1] = event /\ \A i \in 1 .. Len(wire) : wire'[i] = wire[i]
  BY <1>1, <1>2, <1>3
<1>5. \A i, j \in 1 .. Len(wire') : i < j => wire'[i].id < wire'[j].id
  <2> SUFFICES ASSUME NEW i \in 1 .. Len(wire'), NEW j \in 1 .. Len(wire'), i < j
               PROVE  wire'[i].id < wire'[j].id
    OBVIOUS
  <2>1. i \in 1 .. Len(wire) /\ wire'[i] = wire[i] /\ wire[i].id <= emitted /\ wire[i].id \in Nat
    BY <1>3, <1>4 DEF EventInv
  <2>2. CASE j \in 1 .. Len(wire)
    BY <1>4, <2>1, <2>2 DEF EventInv
  <2>3. CASE j = Len(wire) + 1
    BY <1>1, <1>2, <1>4, <2>1, <2>3
  <2> QED BY <1>3, <1>4, <2>2, <2>3
<1>6. \A i \in 1 .. Len(wire') : wire'[i].id <= emitted'
  <2> TAKE i \in 1 .. Len(wire')
  <2>1. CASE i \in 1 .. Len(wire)
    BY <1>1, <1>3, <1>4, <2>1 DEF EventInv
  <2>2. CASE i = Len(wire) + 1
    BY <1>1, <1>2, <1>4, <2>2
  <2> QED BY <1>3, <1>4, <2>1, <2>2
<1>7. ASSUME NEW k \in Contracts, NEW i \in 1 .. Len(heard[k])
      PROVE  /\ heard[k][i] <= emitted'
             /\ \A j \in 1 .. Len(wire') : heard[k][i] < wire'[j].id
  <2>1. heard[k][i] \in Nat /\ heard[k][i] <= emitted
    <3>1. heard[k][i] \in Nat
      BY HeardNumbers
    <3>2. heard[k][i] <= emitted
      BY DEF EventInv
    <3> QED BY <3>1, <3>2
  <2>2. ASSUME NEW j \in 1 .. Len(wire') PROVE heard[k][i] < wire'[j].id
    <3>1. CASE j \in 1 .. Len(wire)
      BY <1>4, <3>1 DEF EventInv
    <3>2. CASE j = Len(wire) + 1
      BY <1>1, <1>2, <1>4, <2>1, <3>2
    <3> QED BY <1>3, <1>4, <3>1, <3>2
  <2> QED BY <1>1, <2>1, <2>2
<1> QED BY <1>1, <1>2, <1>4, <1>5, <1>6, <1>7 DEF EventInv, HeardOnce

\* An object that hears adds the event, once or, with no handler, not at all.
LEMMA ArriveHeard ==
  ASSUME ConnInv, EventInv, Arrive, NEW k \in Contracts
  PROVE  /\ Head(wire) = wire[1] /\ wire[1] \in Event /\ Len(wire) \in Nat /\ 1 <= Len(wire)
         /\ heard'[k] \in {heard[k], Append(heard[k], wire[1].id)}
         /\ Hears(k, wire[1]) /\ handlers[socket] = 1 => heard'[k] = Append(heard[k], wire[1].id)
<1>1. /\ wire # <<>> /\ wire \in Seq(Event)
      /\ heard' = [c \in Contracts |->
                     IF Hears(c, Head(wire))
                     THEN heard[c] \o [i \in 1 .. handlers[socket] |-> Head(wire).id]
                     ELSE heard[c]]
  BY DEF Arrive, EventInv
<1>2. Head(wire) = wire[1] /\ wire[1] \in Event /\ Len(wire) \in Nat /\ 1 <= Len(wire)
  BY <1>1
<1>3. handlers[socket] \in {0, 1}
  <2>1. handlers[socket] \in Nat /\ handlers[socket] <= 1
    BY DEF ConnInv, WSP!HandlerInv, WSP!OneHandler
  <2> QED BY <2>1
<1> DEFINE id == wire[1].id
           once == [i \in 1 .. handlers[socket] |-> id]
<1>4. id \in 1 .. MaxEvents /\ heard[k] \in Seq(1 .. MaxEvents)
  BY <1>2 DEF Event, EventInv
<1>5. handlers[socket] = 0 => once = <<>>
  OBVIOUS
<1>6. handlers[socket] = 1 => once = <<id>>
  OBVIOUS
<1>7. heard'[k] = IF Hears(k, wire[1]) THEN heard[k] \o once ELSE heard[k]
  BY <1>1, <1>2
<1> HIDE DEF id, once
<1>8. heard[k] \o <<>> = heard[k] /\ heard[k] \o <<id>> = Append(heard[k], id)
  BY <1>4
<1>9. /\ heard'[k] \in {heard[k], Append(heard[k], id)}
      /\ Hears(k, wire[1]) /\ handlers[socket] = 1 => heard'[k] = Append(heard[k], id)
  BY <1>3, <1>5, <1>6, <1>7, <1>8
<1> QED BY <1>2, <1>9 DEF id

LEMMA ArriveKeeps ==
  ASSUME ConnInv, EventInv, Arrive
  PROVE  EventInv'
<1>1. /\ wire \in Seq(Event) /\ wire # <<>> /\ wire' = Tail(wire)
      /\ emitted' = emitted /\ emitted \in Nat
      /\ DOMAIN heard' = Contracts /\ heard' = [k \in Contracts |-> heard'[k]]
  BY DEF Arrive, EventInv
<1>2. /\ Len(wire) \in Nat /\ 1 \in 1 .. Len(wire)
      /\ wire' \in Seq(Event) /\ Len(wire') = Len(wire) - 1
      /\ \A i \in 1 .. Len(wire') : wire'[i] = wire[i + 1] /\ i + 1 \in 1 .. Len(wire)
  BY <1>1
<1>3. \A i \in 1 .. Len(wire) : wire[i].id \in 1 .. MaxEvents /\ wire[i].id \in Nat
  <2>1. \A i \in 1 .. Len(wire) : wire[i] \in Event
    BY <1>1
  <2> QED BY <2>1 DEF Event
<1>4. \A i, j \in 1 .. Len(wire') : i < j => wire'[i].id < wire'[j].id
  BY <1>2 DEF EventInv
<1>5. \A i \in 1 .. Len(wire') : wire'[i].id <= emitted'
  BY <1>1, <1>2 DEF EventInv
<1>6. ASSUME NEW k \in Contracts
      PROVE  /\ heard'[k] \in Seq(1 .. MaxEvents)
             /\ \A i, j \in 1 .. Len(heard'[k]) : i < j => heard'[k][i] < heard'[k][j]
             /\ \A i \in 1 .. Len(heard'[k]) :
                   /\ heard'[k][i] <= emitted'
                   /\ \A j \in 1 .. Len(wire') : heard'[k][i] < wire'[j].id
  <2> DEFINE h == heard[k]
             id == wire[1].id
  <2>1. /\ h \in Seq(1 .. MaxEvents) /\ Len(h) \in Nat
        /\ \A i \in 1 .. Len(h) : h[i] \in Nat
        /\ \A i, j \in 1 .. Len(h) : i < j => h[i] < h[j]
        /\ \A i \in 1 .. Len(h) : /\ h[i] <= emitted
                                  /\ \A j \in 1 .. Len(wire) : h[i] < wire[j].id
    <3>1. h \in Seq(1 .. MaxEvents) /\ Len(h) \in Nat /\ \A i \in 1 .. Len(h) : h[i] \in Nat
      BY HeardNumbers
    <3>2. \A i, j \in 1 .. Len(h) : i < j => h[i] < h[j]
      BY DEF EventInv, HeardOnce
    <3>3. \A i \in 1 .. Len(h) : h[i] <= emitted /\ \A j \in 1 .. Len(wire) : h[i] < wire[j].id
      BY DEF EventInv
    <3> QED BY <3>1, <3>2, <3>3
  <2>2. id \in 1 .. MaxEvents /\ id <= emitted /\ \A j \in 1 .. Len(wire') : id < wire'[j].id
    <3>1. id \in 1 .. MaxEvents /\ id <= emitted
      BY <1>2, <1>3 DEF EventInv
    <3>2. ASSUME NEW j \in 1 .. Len(wire') PROVE id < wire'[j].id
      <4>1. 1 < j + 1 /\ j + 1 \in 1 .. Len(wire) /\ wire'[j] = wire[j + 1]
        BY <1>2
      <4> QED BY <1>2, <4>1 DEF EventInv
    <3> QED BY <3>1, <3>2
  <2>3. CASE heard'[k] = h
    <3>1. ASSUME NEW i \in 1 .. Len(h), NEW j \in 1 .. Len(wire') PROVE h[i] < wire'[j].id
      BY <1>2, <2>1
    <3> QED BY <1>1, <2>1, <2>3, <3>1
  <2>4. CASE heard'[k] = Append(h, id)
    <3> DEFINE g == heard'[k]
    <3>1. /\ g \in Seq(1 .. MaxEvents) /\ Len(g) = Len(h) + 1 /\ g[Len(h) + 1] = id
          /\ \A i \in 1 .. Len(h) : g[i] = h[i] /\ h[i] < id
      <4>1. \A i \in 1 .. Len(h) : h[i] < id
        BY <1>2, <2>1
      <4> HIDE DEF h, id
      <4> QED BY <2>1, <2>2, <2>4, <4>1
    <3> HIDE DEF g, h, id
    <3>2. ASSUME NEW i \in 1 .. Len(g), NEW j \in 1 .. Len(g), i < j PROVE g[i] < g[j]
      <4>1. i \in 1 .. Len(h) /\ (j \in 1 .. Len(h) \/ j = Len(h) + 1)
        BY <2>1, <3>1, <3>2
      <4> QED BY <2>1, <3>1, <3>2, <4>1
    <3>3. ASSUME NEW i \in 1 .. Len(g)
          PROVE  g[i] <= emitted' /\ \A j \in 1 .. Len(wire') : g[i] < wire'[j].id
      <4>1. CASE i \in 1 .. Len(h)
        BY <1>1, <1>2, <2>1, <3>1, <4>1
      <4>2. CASE i = Len(h) + 1
        BY <1>1, <2>2, <3>1, <4>2
      <4> QED BY <2>1, <3>1, <4>1, <4>2
    <3> QED BY <3>1, <3>2, <3>3 DEF g
  <2> QED BY <2>3, <2>4, ArriveHeard
<1>7. heard' \in [Contracts -> Seq(1 .. MaxEvents)]
  BY <1>1, <1>6
<1>8. emitted' \in 0 .. MaxEvents
  BY <1>1 DEF EventInv
<1> QED BY <1>2, <1>4, <1>5, <1>6, <1>7, <1>8 DEF EventInv, HeardOnce

LEMMA EventStep == ConnInv /\ EventInv /\ [Next]_vars => EventInv'
<1> SUFFICES ASSUME ConnInv, EventInv, [Next]_vars PROVE EventInv'
  OBVIOUS
<1>1. CASE Drop
  <2>1. wire' = <<>> /\ UNCHANGED <<emitted, heard>>
    BY <1>1 DEF Drop
  <2>2. wire' \in Seq(Event) /\ Len(wire') = 0
    BY <2>1
  <2> QED BY <2>1, <2>2 DEF EventInv, HeardOnce
<1>2. CASE UNCHANGED eventVars
  BY <1>2 DEF EventInv, HeardOnce, eventVars
<1>3. CASE \/ \E k \in Contracts : Listen(k) \/ Leave(k) \/ LeaveAll(k)
           \/ Open \/ Reconnect \/ Subscription \/ CallTimeout \/ UNCHANGED vars
  BY <1>2, <1>3 DEF Listen, Leave, LeaveAll, Open, Reconnect, Subscription, CallTimeout, vars
<1> QED BY <1>1, <1>3, PublishKeeps, ArriveKeeps DEF Next

\* Each object hands every event on once at most, in the order of the chain.
THEOREM HeardAtMostOnce == Spec => []HeardOnce
<1>1. EventInv => HeardOnce
  BY DEF EventInv
<1> QED BY <1>1, ConnInit, ConnStep, EventInit, EventStep, PTL DEF Spec

\* Nothing that comes in on the first connection is missed by who listens.
THEOREM NoEventMissed == Spec => NoneMissed
<1> DEFINE Reached == \A k \in Contracts :
              hooks[k] /\ on[k] > 0 /\ AddressOf[k] = Head(wire).contractAddress
                => heard'[k] = Append(heard[k], Head(wire).id)
<1>1. ConnInv /\ StageInv /\ EventInv /\ [Next]_vars => [Arrive /\ socket = 1 => Reached]_vars
  <2> SUFFICES ASSUME ConnInv, StageInv, EventInv, Arrive, socket = 1, NEW k \in Contracts,
                      hooks[k], on[k] > 0, AddressOf[k] = Head(wire).contractAddress
               PROVE  heard'[k] = Append(heard[k], Head(wire).id)
    BY DEF vars
  <2>1. hooked[k] /\ listeners = 1
    BY DEF StageInv, Someone
  <2>2. handlers[socket] = 1
    BY <2>1 DEF ConnInv
  <2>3. Hears(k, Head(wire))
    BY <2>1 DEF Hears
  <2> QED BY <2>2, <2>3, ArriveHeard
<1> QED BY <1>1, ConnInit, ConnStep, StageInit, StageStep, EventInit, EventStep, PTL
        DEF Spec, NoneMissed

\* The state of the chain of emitters is always well formed.
THEOREM TypeCorrect == Spec => []TypeOK
<1>1. ConnInv => WS!TypeOK
  BY DEF ConnInv, WSP!HandlerInv, WSP!QueueInv, WSP!RestInv, WSP!CallRecord,
         WSP!RequestStates, WS!TypeOK
<1>2. ConnInv /\ StageInv /\ WithinBound /\ EventInv => TypeOK
  BY <1>1 DEF StageInv, WithinBound, EventInv, Event, TypeOK
<1> QED BY <1>2, ConnInit, ConnStep, StageInit, StageStep, BoundInit, BoundStep, EventInit,
           EventStep, PTL DEF Spec
=============================================================================
