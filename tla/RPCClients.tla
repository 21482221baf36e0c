------------------------------ MODULE RPCClients ------------------------------
(* The clients createJSONRPCClient makes: the web socket client of            *)
(* WSRPCClient, the HTTP client, which posts every request on its own, and    *)
(* the dual client, a web socket client that sends its requests another way.  *)
EXTENDS WSRPCClient

CONSTANT Configs  \* protocols of the URLs the factory is given: sequences

ASSUME ConfigsAssumption == Configs \subseteq Seq({"http", "ws"})

VARIABLES client,  \* the client made, with the primary protocol of a dual one
          post     \* what became of each sendAsync that is not the socket's

rpcVars == <<vars, client, post>>

\* One protocol, or one of each; the first of two is the primary one.
CreateJSONRPCClient(urls) == CASE urls = <<"http">> -> "HTTP"
                               [] urls = <<"ws">> -> "WS"
                               [] urls = <<"http", "ws">> -> "dual HTTP"
                               [] urls = <<"ws", "http">> -> "dual WS"
                               [] OTHER -> "error"

RPCInit == /\ Init
           /\ \E urls \in Configs : client = CreateJSONRPCClient(urls)
           /\ client # "error"
           /\ post = [r \in Requests |-> "idle"]

\* What a web socket client does, but for the requests of a dual one, which
\* overrides sendAsync; the calls of the subscription stay on the socket.
SocketStep == /\ client # "HTTP"
              /\ Next
              /\ client = "WS" \/ UNCHANGED request
              /\ UNCHANGED <<client, post>>

\* HTTPRPCClient.sendAsync, of its own or of a dual client: no connection to
\* wait for.
Post(r) == /\ client \in {"HTTP", "dual HTTP"} /\ post[r] = "idle"
           /\ post' = [post EXCEPT ![r] = "posted"]
           /\ UNCHANGED <<vars, client>>

\* With the web socket as primary protocol the dual client calls itself: the stack
\* overflows, sendAsync throws, and there is no promise.
SendToSelf(r) == /\ client = "dual WS" /\ post[r] = "idle"
                 /\ post' = [post EXCEPT ![r] = "thrown"]
                 /\ UNCHANGED <<vars, client>>

\* The server answers the post, with a result or an error.
PostAnswer(r) == /\ post[r] = "posted"
                 /\ post' \in {[post EXCEPT ![r] = s] : s \in {"resolved", "rejected"}}
                 /\ UNCHANGED <<vars, client>>

\* mutant: the timeout is only logged
PostTimeoutLogged(r) == post[r] = "posted" /\ UNCHANGED rpcVars

\* The timeout of the post, whatever became of it.
PostTimeout(r) == /\ post[r] = "posted"
                  /\ post' = [post EXCEPT ![r] = "rejected"]
                  /\ UNCHANGED <<vars, client>>

RPCNext == \/ SocketStep
           \/ \E r \in Requests : Post(r) \/ SendToSelf(r) \/ PostAnswer(r) \/ PostTimeout(r)

\* Timers fire, and the web socket client is as fair as it is by itself.
RPCSpec == /\ RPCInit /\ [][RPCNext]_rpcVars
           /\ WF_vars(Serve) /\ WF_vars(CallReply)
           /\ \A r \in Requests : WF_vars(RequestTimeout(r)) /\ WF_rpcVars(PostTimeout(r))

-----------------------------------------------------------------------------
(* Properties *)

\* Every request that a promise stands for settles, over the socket, connected or
\* not, or over HTTP. (Those of a dual client that prefers the web socket throw.)
SendsSettle == /\ RequestsSettle
               /\ \A r \in Requests : post[r] = "posted" ~> post[r] \in {"resolved", "rejected"}
=============================================================================
