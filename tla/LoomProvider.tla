----------------------------- MODULE LoomProvider -----------------------------
(* The web3 provider over a Client: the requests web3 sends it, each turned   *)
(* into a query or a transaction of the client and answered to a callback,    *)
(* and the list of 'data' callbacks that every event of an EVM subscription   *)
(* is handed to. JavaScript runs one task at a time: while an event is handed *)
(* out only the callbacks run, and they may use the provider. The node and    *)
(* the network are external.                                                  *)
EXTENDS Naturals, Sequences, SequencesExt

CONSTANTS Requests,      \* send calls
          Retries,       \* retryStrategy.retries
          Callbacks,     \* functions of the user, for 'data'
          Accounts,      \* addresses whose keys addAccounts may be given
          Uses           \* bounds: the methods of the requests, the length of
                         \* notificationCallbacks, may accounts be added

LocalMethods == {"eth_accounts", "eth_estimateGas", "eth_gasPrice", "net_version", "eth_sign"}
\* Methods for which nothing is a failure: there is nothing to convert, or no id
\* to return.
EmptyFails == {"eth_getCode", "eth_getTransactionByHash", "eth_newBlockFilter", "eth_newFilter",
               "eth_newPendingTransactionFilter", "eth_subscribe", "eth_sendTransaction"}
\* Methods that have a reply for nothing: null, [], '0x0', or what the node said.
EmptyReplies == {"eth_getBlockByHash", "eth_getBlockByNumber", "eth_getLogs", "eth_call",
                 "eth_getFilterChanges", "eth_uninstallFilter", "eth_unsubscribe"}
\* Methods that hand on what the client hands on from the node, nothing included.
PassedOn == {"eth_subscribe", "eth_unsubscribe", "eth_uninstallFilter", "eth_blockNumber"}
Receipt == "eth_getTransactionReceipt"
Methods == LocalMethods \cup EmptyFails \cup EmptyReplies
             \cup {Receipt, "eth_blockNumber", "unsupported"}

ASSUME ProviderAssumption ==
  /\ Retries \in Nat /\ Accounts # {}
  /\ Uses \subseteq [methods : [Requests -> SUBSET Methods], length : Nat, adds : BOOLEAN]

VARIABLES use,        \* the one of Uses this run of the program makes
          split,      \* has the client a read connection of its own
          accounts,   \* addresses whose keys the provider holds
          callbacks,  \* notificationCallbacks
          endHandler, \* callback the user's 'end' handler, if any, registers again
          subs,       \* EVM subscriptions of the read connection, at the node
          dispatch,   \* the event being handed out
          request,    \* what became of each send
          hears,      \* for the properties: who registered and was not removed
          swept       \* of those, whom the removal of another took off the list

dataVars == <<callbacks, dispatch, hears, swept>>
vars == <<use, split, accounts, dataVars, endHandler, subs, request>>

None == "none"

\* No event is being handed out. When there is one: the list as it was, who has
\* heard, the index forEach is at, whether a callback is running, the list it
\* goes on over once the provider has taken a new one, and whether
\* removeAllListeners was called meanwhile.
Quiet == [on |-> FALSE, start |-> <<>>, heard |-> <<>>, i |-> 1, running |-> FALSE,
          live |-> TRUE, old |-> <<>>, spliced |-> FALSE]

Idle == [stage |-> "idle", method |-> None, signer |-> None, tries |-> 0,
         unlucky |-> 0, outcome |-> None, told |-> <<>>, threw |-> FALSE]

Init == /\ use \in Uses
        /\ split \in BOOLEAN
        /\ accounts = {CHOOSE a \in Accounts : TRUE}
        /\ callbacks = <<>>
        /\ endHandler \in {None} \cup (IF use.length > 0 THEN Callbacks ELSE {})
        /\ subs = 0
        /\ dispatch = Quiet
        /\ request = [r \in Requests |-> Idle]
        /\ hears = {} /\ swept = {}

UserRuns == dispatch.on => dispatch.running  \* user code may run
LoopFree == ~ dispatch.on                    \* the event loop takes a new task

-----------------------------------------------------------------------------
(* Callbacks for 'data' *)

\* What forEach goes over.
Handed == IF dispatch.live THEN callbacks ELSE dispatch.old

On(c) == /\ UserRuns
         /\ Len(callbacks) < use.length
         /\ callbacks' = Append(callbacks, c)
         /\ hears' = hears \cup {c}
         /\ swept' = swept \ {c}
         /\ UNCHANGED <<use, split, accounts, endHandler, subs, dispatch, request>>

\* mutant: the list is emptied where it is
ResetInPlace == /\ UserRuns
                /\ callbacks' = <<>>
                /\ hears' = {} /\ swept' = {}
                /\ UNCHANGED <<use, split, accounts, endHandler, subs, dispatch, request>>

\* A new, empty list; an event under way goes on over the old one.
NewList == /\ callbacks' = <<>>
           /\ dispatch' = IF dispatch.on THEN [dispatch EXCEPT !.live = FALSE, !.old = Handed]
                          ELSE dispatch

Reset == /\ UserRuns /\ NewList
         /\ hears' = {} /\ swept' = {}
         /\ UNCHANGED <<use, split, accounts, endHandler, subs, request>>

\* removeListener('data', c): whoever c is, the whole list goes.
RemoveListener(c) ==
  /\ UserRuns /\ NewList
  /\ hears' = hears \ {c}
  /\ swept' = (swept \cup ToSet(callbacks)) \ {c}
  /\ UNCHANGED <<use, split, accounts, endHandler, subs, request>>

\* removeAllListeners' forEach: taking out an element moves the next one to the
\* index just visited, so of two neighbours the second stays.
Spliced(list, c) ==
  LET visited[k \in 0 .. Len(list)] ==
        IF k = 0 THEN list
        ELSE LET s == visited[k - 1] IN IF k <= Len(s) /\ s[k] = c THEN RemoveAt(s, k) ELSE s
  IN  visited[Len(list)]

RemoveAllListeners(c) ==
  /\ UserRuns
  /\ callbacks' = Spliced(callbacks, c)
  /\ hears' = hears \ {c}
  /\ dispatch' = [dispatch EXCEPT !.spliced = @ \/ (dispatch.on /\ dispatch.live)]
  /\ UNCHANGED <<use, split, accounts, swept, endHandler, subs, request>>

-----------------------------------------------------------------------------
(* Events *)

\* An event of an EVM subscription; those of the DAppChain's own contracts have
\* the id '0' and are left to others.
OnWebSocketMessage ==
  /\ LoopFree /\ subs > 0 /\ callbacks # <<>>
  /\ dispatch' = [Quiet EXCEPT !.on = TRUE, !.start = callbacks]
  /\ UNCHANGED <<use, split, accounts, callbacks, hears, swept, endHandler, subs, request>>

Finished == dispatch.i > Len(dispatch.start) \/ dispatch.i > Len(Handed)

\* forEach visits the elements there were at first, where they are by now.
CallNext ==
  /\ dispatch.on /\ ~ dispatch.running
  /\ dispatch' = IF Finished THEN Quiet
                 ELSE [dispatch EXCEPT !.running = TRUE,
                                       !.heard = Append(@, Handed[dispatch.i])]
  /\ UNCHANGED <<use, split, accounts, callbacks, hears, swept, endHandler, subs, request>>

Return == /\ dispatch.running
          /\ dispatch' = [dispatch EXCEPT !.running = FALSE, !.i = @ + 1]
          /\ UNCHANGED <<use, split, accounts, callbacks, hears, swept, endHandler, subs, request>>

\* A callback that throws ends the loop for all.
Throw == /\ dispatch.running
         /\ dispatch' = Quiet
         /\ UNCHANGED <<use, split, accounts, callbacks, hears, swept, endHandler, subs, request>>

-----------------------------------------------------------------------------
(* Requests *)

Settled(req, outcome) == [req EXCEPT !.stage = "settled", !.outcome = outcome]

\* send calls the callback; called with the reply it is still inside the try, so
\* when it throws it is called with what it threw. The callbacks of sendAsync's
\* promise form do not throw.
Told(req, throws) ==
  LET again == throws /\ req.outcome = "result"
      heard == [req EXCEPT !.told = Append(@, req.outcome), !.threw = @ \/ again]
  IN  IF again THEN Settled(heard, "error")
      ELSE [heard EXCEPT !.stage = "done", !.method = None, !.signer = None]

\* eth_sign needs the key of the account, spelled the provider's way.
Local(req, held) == Settled(req, IF req.method = "eth_sign" /\ ~ held THEN "error" ELSE "result")

\* _commitTransaction: the middleware of the sender, else the client's own.
Signer(from, held) == IF held THEN from ELSE "client"

\* A call or a deployment is committed for its sender.
SendTransaction(req, from, held) == [req EXCEPT !.stage = "asked", !.signer = Signer(from, held)]

\* send runs up to the first query: of a batch, only the first request. Of a method
\* it does not know the callback is told at once.
Send(r, m) ==
  /\ UserRuns /\ request[r] = Idle /\ m \in use.methods[r]
  /\ \E from \in Accounts, lowerCase \in BOOLEAN :
        LET held == lowerCase /\ from \in accounts
            req  == [Idle EXCEPT !.method = m]
        IN  request' = [request EXCEPT ![r] =
              CASE m = "unsupported" -> Told(Settled(req, "error"), FALSE)
                [] m \in LocalMethods -> Local(req, held)
                [] m = "eth_sendTransaction" -> SendTransaction(req, from, held)
                [] OTHER -> [req EXCEPT !.stage = "asked", !.tries = 1]]
  /\ UNCHANGED <<use, split, accounts, dataVars, endHandler, subs>>

\* What the node has done to the subscriptions when it answers m.
Served(m) == CASE m = "eth_subscribe" -> subs + 1
               [] m = "eth_unsubscribe" /\ subs > 0 -> subs - 1
               [] OTHER -> subs

\* What the client's query makes of the node's answer: null of nothing, and of
\* filter changes that hold no list.
Queried(m, answer) == IF m \in PassedOn \/ answer = "value" THEN answer ELSE "null"

\* What the provider makes of that.
Reply(m, got) == IF got # "value" /\ m \in EmptyFails THEN "error" ELSE "result"

\* The node answers, with something or nothing.
Answer(r) ==
  LET m == request[r].method IN
  /\ LoopFree /\ request[r].stage = "asked"
  /\ \E answer \in {"value", "empty", "no list"} :
        /\ answer = "empty" => m \notin {Receipt, "eth_blockNumber"}
        /\ answer = "no list" => m = "eth_getFilterChanges"
        /\ subs' = IF answer = "value" THEN Served(m) ELSE subs
        /\ request' = [request EXCEPT ![r] = Settled(@, Reply(m, Queried(m, answer)))]
  /\ UNCHANGED <<use, split, accounts, dataVars, endHandler>>

\* mutant: one attempt too many
UnluckyOnceMore(req) == [req EXCEPT !.unlucky = @ + 1, !.outcome = "error",
                                    !.stage = IF req.tries <= Retries + 1 THEN "pause" ELSE "settled"]

\* An attempt at a receipt brought none: op.retry, or reject.
Unlucky(req) == IF req.tries <= Retries THEN [req EXCEPT !.unlucky = @ + 1, !.stage = "pause"]
                ELSE Settled([req EXCEPT !.unlucky = @ + 1], "error")

\* mutant: a receipt is asked for again only when the answer was empty
RefuseReceipt(r) ==
  LET m == request[r].method IN
  /\ LoopFree /\ request[r].stage \in {"asked", "lost"}
  /\ subs' \in {subs} \cup (IF request[r].stage = "asked" THEN {Served(m)} ELSE {})
  /\ request' = [request EXCEPT ![r] = Settled(@, "error")]
  /\ UNCHANGED <<use, split, accounts, dataVars, endHandler>>

\* The client rejects: the node refuses, or answers too late, or never.
Refuse(r) ==
  LET m == request[r].method IN
  /\ LoopFree /\ request[r].stage \in {"asked", "lost"} /\ m # Receipt
  /\ subs' \in {subs} \cup (IF request[r].stage = "asked" THEN {Served(m)} ELSE {})
  /\ request' = [request EXCEPT ![r] = Settled(@, "error")]
  /\ UNCHANGED <<use, split, accounts, dataVars, endHandler>>

\* mutant: an attempt whose connection dropped is waited for
NoReceiptOfLost(r) ==
  /\ LoopFree /\ request[r].stage = "asked" /\ request[r].method = Receipt
  /\ request' = [request EXCEPT ![r] = Unlucky(@)]
  /\ UNCHANGED <<use, split, accounts, dataVars, endHandler, subs>>

\* The same, or an empty answer, to an attempt at a receipt.
NoReceipt(r) ==
  /\ LoopFree /\ request[r].stage \in {"asked", "lost"} /\ request[r].method = Receipt
  /\ request' = [request EXCEPT ![r] = Unlucky(@)]
  /\ UNCHANGED <<use, split, accounts, dataVars, endHandler, subs>>

\* The timer of the retry operation.
AskAgain(r) == /\ LoopFree /\ request[r].stage = "pause"
               /\ request' = [request EXCEPT ![r].stage = "asked", ![r].tries = @ + 1]
               /\ UNCHANGED <<use, split, accounts, dataVars, endHandler, subs>>

\* mutant: the callback is called again after an error
TellAgain(r) ==
  /\ LoopFree /\ request[r].stage = "settled"
  /\ request' = [request EXCEPT
       ![r].told = Append(@, request[r].outcome), ![r].outcome = "result",
       ![r].stage = IF request[r].outcome = "error" /\ request[r].told = <<>> THEN "settled" ELSE "done"]
  /\ UNCHANGED <<use, split, accounts, dataVars, endHandler, subs>>

Tell(r) ==
  /\ LoopFree /\ request[r].stage = "settled"
  /\ \E throws \in BOOLEAN : request' = [request EXCEPT ![r] = Told(@, throws)]
  /\ UNCHANGED <<use, split, accounts, dataVars, endHandler, subs>>

AddAccount(a) == /\ UserRuns /\ use.adds
                 /\ accounts' = accounts \cup {a}
                 /\ UNCHANGED <<use, split, dataVars, endHandler, subs, request>>

-----------------------------------------------------------------------------
(* Connections *)

\* Is the answer under way lost? A transaction is a nonce query on one connection
\* and a commit on the other, with retries: its result may still come.
Over(req, which) == req.stage = "asked" /\ which # "write" /\ req.method # "eth_sendTransaction"

\* mutant: the provider's listener comes after the user's
DropResetsLast ==
  /\ LoopFree
  /\ \E which \in IF split THEN {"read", "write"} ELSE {"both"} :
       /\ callbacks' = <<>>
       /\ hears' = (IF which = "write" THEN hears ELSE {})
                     \cup (IF endHandler = None THEN {} ELSE {endHandler})
       /\ swept' = (IF which = "write" THEN swept ELSE {}) \ {endHandler}
       /\ subs' = IF which = "write" THEN subs ELSE 0
       /\ request' = [r \in Requests |->
            IF Over(request[r], which)
            THEN [request[r] EXCEPT !.stage = "lost"] ELSE request[r]]
  /\ UNCHANGED <<use, split, accounts, endHandler, dispatch>>

\* A connection drops, whichever: the client says so to the provider first, which
\* resets, then to the 'end' handler. The subscriptions of a read connection and
\* the answers under way on it are gone.
Drop ==
  /\ LoopFree
  /\ \E which \in IF split THEN {"read", "write"} ELSE {"both"} :
       /\ callbacks' = IF endHandler = None THEN <<>> ELSE <<endHandler>>
       /\ hears' = (IF which = "write" THEN hears ELSE {})
                     \cup (IF endHandler = None THEN {} ELSE {endHandler})
       /\ swept' = (IF which = "write" THEN swept ELSE {}) \ {endHandler}
       /\ subs' = IF which = "write" THEN subs ELSE 0
       /\ request' = [r \in Requests |->
            IF Over(request[r], which)
            THEN [request[r] EXCEPT !.stage = "lost"] ELSE request[r]]
  /\ UNCHANGED <<use, split, accounts, endHandler, dispatch>>

\* What happens to a request if nothing better does.
Progress(r) == Refuse(r) \/ NoReceipt(r) \/ AskAgain(r) \/ Tell(r)

Next == \/ \E c \in Callbacks : On(c) \/ RemoveListener(c) \/ RemoveAllListeners(c)
        \/ Reset
        \/ OnWebSocketMessage \/ CallNext \/ Return \/ Throw
        \/ \E r \in Requests : \/ \E m \in Methods : Send(r, m)
                               \/ Answer(r) \/ Progress(r)
        \/ \E a \in Accounts : AddAccount(a)
        \/ Drop

Spec == Init /\ [][Next]_vars

\* The event loop gets round to every task between the events it hands out; a
\* callback returns; every request of the client is answered or rejected.
FairSpec == /\ Spec
            /\ WF_vars(CallNext) /\ WF_vars(Return)
            /\ \A r \in Requests : SF_vars(Progress(r))

-----------------------------------------------------------------------------
(* Properties *)

Dispatches == [on : BOOLEAN, start : Seq(Callbacks), heard : Seq(Callbacks), i : Nat,
               running : BOOLEAN, live : BOOLEAN, old : Seq(Callbacks), spliced : BOOLEAN]

\* The state is well formed; a receipt is asked for Retries + 1 times at most.
TypeOK ==
  /\ use \in Uses /\ split \in BOOLEAN /\ accounts \subseteq Accounts
  /\ callbacks \in Seq(Callbacks) /\ Len(callbacks) <= use.length
  /\ endHandler \in {None} \cup Callbacks /\ subs \in Nat 
  /\ hears \subseteq Callbacks /\ swept \subseteq Callbacks
  /\ dispatch \in Dispatches /\ (dispatch.running => dispatch.on)
  /\ request \in [Requests -> [stage : {"idle", "asked", "lost", "pause", "settled", "done"},
                               method : Methods \cup {None},
                               signer : Accounts \cup {None, "client"},
                               tries : 0 .. Retries + 1, unlucky : 0 .. Retries + 1,
                               outcome : {None, "result", "error"},
                               told : Seq({"result", "error"}), threw : BOOLEAN]]

\* Whatever the callbacks register, remove or reset while they run, an event is
\* handed, in order and once for each time, to those that were registered when it
\* came: forEach goes on over the list it began with. Not so when one of them
\* throws or calls removeAllListeners, which moves the elements under the loop.
EventHeard == dispatch.on /\ ~ dispatch.running /\ Finished /\ ~ dispatch.spliced
                => dispatch.heard = dispatch.start

\* With one connection for reads and writes, a callback that was registered since
\* the connection came up, or by the handler that was told it was down, and that
\* neither reset nor a removal of its own took away, is on the list the next event
\* is handed to, unless removeListener was called for another one: that takes all
\* of them away. removeAllListeners takes away no other. (With two connections, a
\* drop of the write connection takes them from subscriptions that live on.)
RegisteredHear == ~ split => hears \subseteq ToSet(callbacks) \cup swept

\* A receipt is given up only after Retries + 1 attempts brought none, dropped
\* connections, failures and empty answers counted alike; one that came is told.
ReceiptPatient == \A r \in Requests :
  LET req == request[r] IN
  req.method = Receipt /\ req.stage = "settled" /\ ~ req.threw =>
    (req.outcome = "error" <=> req.unlucky = Retries + 1)

\* The callback of a request hears of one outcome; of a second one, an error, only
\* if it threw when it heard the first.
ToldOnce == \A r \in Requests :
  request[r].told \in {<<>>, <<"result">>, <<"error">>}
    \cup (IF request[r].threw THEN {<<"result", "error">>} ELSE {})

\* Every request is answered to its callback, whatever the connections do.
SendSettles == \A r \in Requests : request[r].stage # "idle" ~> request[r].stage = "done"
=============================================================================
