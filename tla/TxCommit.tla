------------------------------ MODULE TxCommit ------------------------------
(* Client.commitTxAsync: send a transaction, and send it again, with a fresh  *)
(* nonce, whenever the chain rejects it because of its nonce. Calls run       *)
(* concurrently on one account, through one client, beside other clients of   *)
(* the same account; a request may be lost, or answered after its timeout.    *)
EXTENDS Naturals

CONSTANTS Calls,     \* concurrent commitTxAsync calls of one account
          Retries,   \* nonceRetryStrategy.retries
          ReadLag,   \* how many txs the read node may be behind the write node
          MaxNonce   \* bound: other clients stop writing at this nonce

ASSUME BoundsAssumption == Retries \in Nat /\ ReadLag \in Nat /\ MaxNonce \in Nat

Attempts == 1 .. (Retries + 1)

Settled == {"resolved", "nonceError", "failed"}
Steps   == {"idle", "readNonce", "signed", "sending", "backoff"} \cup Settled
Stages  == {"none", "sent", "lost", "mempool", "committed",
            "deliverFailed", "nonceRejected", "checkRejected"}

VARIABLES pc,         \* where each call is
          attempt,    \* op.attempt's currentAttempt, 0 before the first
          seq,        \* the sequence each attempt was signed with
          tx,         \* how far the transaction of each attempt got
          chainNonce, \* nonce of the last tx of the account the chain counted
          stale       \* calls the read node gave an old nonce: for the properties

vars == <<pc, attempt, seq, tx, chainNonce, stale>>

Init == /\ pc = [c \in Calls |-> "idle"]
        /\ attempt = [c \in Calls |-> 0]
        /\ seq = [c \in Calls |-> [k \in Attempts |-> 0]]
        /\ tx = [c \in Calls |-> [k \in Attempts |-> "none"]]
        /\ chainNonce = 0
        /\ stale = {}

Goto(c, s) == pc' = [pc EXCEPT ![c] = s]
Mark(c, k, s) == tx' = [tx EXCEPT ![c][k] = s]

-----------------------------------------------------------------------------
(* The client *)

\* op.attempt: the middleware starts by asking the read node for the nonce.
Attempt(c) == /\ pc[c] = "idle" \/ pc[c] = "backoff"
              /\ attempt' = [attempt EXCEPT ![c] = @ + 1]
              /\ Goto(c, "readNonce")
              /\ UNCHANGED <<seq, tx, chainNonce, stale>>

\* mutant: the nonce of the last tx, not that of the next
NonceOfLastTx(c) == /\ pc[c] = "readNonce"
                    /\ \E n \in 0 .. chainNonce :
                          /\ chainNonce <= n + ReadLag
                          /\ seq' = [seq EXCEPT ![c][attempt[c]] = n]
                          /\ stale' = stale \cup {d \in {c} : n < chainNonce}
                    /\ Goto(c, "signed")
                    /\ UNCHANGED <<attempt, tx, chainNonce>>

\* NonceTxMiddleware: the answer may be older than what the chain has by now.
NonceAnswered(c) == /\ pc[c] = "readNonce"
                    /\ \E n \in 0 .. chainNonce :
                          /\ chainNonce <= n + ReadLag
                          /\ seq' = [seq EXCEPT ![c][attempt[c]] = n + 1]
                          /\ stale' = stale \cup {d \in {c} : n < chainNonce}
                    /\ Goto(c, "signed")
                    /\ UNCHANGED <<attempt, tx, chainNonce>>

\* The signed bytes leave on the write connection.
Submit(c) == /\ pc[c] = "signed"
             /\ Mark(c, attempt[c], "sent")
             /\ Goto(c, "sending")
             /\ UNCHANGED <<attempt, seq, chainNonce, stale>>

\* mutant: a timeout is retried like a bad nonce
TimeoutRetries(c) == /\ pc[c] \in {"readNonce", "signed", "sending"}
                     /\ Goto(c, IF attempt[c] <= Retries THEN "backoff" ELSE "failed")
                     /\ UNCHANGED <<attempt, seq, tx, chainNonce, stale>>

\* mutant: the reply is waited for without a timeout
TimeoutBeforeSend(c) == /\ pc[c] \in {"readNonce", "signed"}
                        /\ Goto(c, "failed")
                        /\ UNCHANGED <<attempt, seq, tx, chainNonce, stale>>

\* No nonce, no connection, or no reply in requestTimeout: the call fails
\* without a retry; a transaction already sent goes its own way.
Timeout(c) == /\ pc[c] \in {"readNonce", "signed", "sending"}
              /\ Goto(c, "failed")
              /\ UNCHANGED <<attempt, seq, tx, chainNonce, stale>>

\* mutant: one retry too many
RetryOnceMore(c) == Goto(c, IF attempt[c] <= Retries + 1 THEN "backoff" ELSE "nonceError")

\* op.retry: another attempt after a back-off, while any is left.
RetryOrReject(c) == Goto(c, IF attempt[c] <= Retries THEN "backoff" ELSE "nonceError")

\* mutant: the result of DeliverTx is not looked at
ReplyOfCheckTx(c) == LET stage == tx[c][attempt[c]] IN
                     /\ pc[c] = "sending"
                     /\ \/ stage \in {"committed", "deliverFailed"} /\ Goto(c, "resolved")
                        \/ stage = "nonceRejected" /\ RetryOrReject(c)
                        \/ stage = "checkRejected" /\ Goto(c, "failed")
                     /\ UNCHANGED <<attempt, seq, tx, chainNonce, stale>>

\* The result of broadcast_tx_commit: only a nonce refused by CheckTx is
\* retried; a transaction DeliverTx refused, for its nonce too, is a failure.
Reply(c) == LET stage == tx[c][attempt[c]] IN
            /\ pc[c] = "sending"
            /\ \/ stage = "committed" /\ Goto(c, "resolved")
               \/ stage = "nonceRejected" /\ RetryOrReject(c)
               \/ stage \in {"checkRejected", "deliverFailed"} /\ Goto(c, "failed")
            /\ UNCHANGED <<attempt, seq, tx, chainNonce, stale>>

ClientStep(c) == \/ Attempt(c) \/ NonceAnswered(c) \/ Submit(c)
                 \/ Timeout(c) \/ Reply(c)

-----------------------------------------------------------------------------
(* The chain and the network, which are external *)

Lose(c, k) == /\ tx[c][k] = "sent"
              /\ Mark(c, k, "lost")
              /\ UNCHANGED <<pc, attempt, seq, chainNonce, stale>>

\* CheckTx compares the sequence with the committed nonce, and may refuse the
\* transaction for another reason (signature, full mempool).
CheckTx(c, k) == /\ tx[c][k] = "sent"
                 /\ \/ seq[c][k] = chainNonce + 1 /\ Mark(c, k, "mempool")
                    \/ seq[c][k] # chainNonce + 1 /\ Mark(c, k, "nonceRejected")
                    \/ Mark(c, k, "checkRejected")
                 /\ UNCHANGED <<pc, attempt, seq, chainNonce, stale>>

\* DeliverTx compares again, since another transaction may have come first; a
\* transaction whose execution fails may or may not use up its nonce.
DeliverTx(c, k) == /\ tx[c][k] = "mempool"
                   /\ \/ /\ seq[c][k] = chainNonce + 1
                         /\ Mark(c, k, "committed")
                         /\ chainNonce' = chainNonce + 1
                      \/ /\ seq[c][k] = chainNonce + 1
                         /\ Mark(c, k, "deliverFailed")
                         /\ chainNonce' \in {chainNonce, chainNonce + 1}
                      \/ /\ seq[c][k] # chainNonce + 1
                         /\ Mark(c, k, "deliverFailed")
                         /\ UNCHANGED chainNonce
                   /\ UNCHANGED <<pc, attempt, seq, stale>>

\* Another client of the same account commits a transaction.
ForeignCommit == /\ chainNonce < MaxNonce
                 /\ chainNonce' = chainNonce + 1
                 /\ UNCHANGED <<pc, attempt, seq, tx, stale>>

ChainStep(c, k) == Lose(c, k) \/ CheckTx(c, k) \/ DeliverTx(c, k)

Next == \/ \E c \in Calls : ClientStep(c)
        \/ \E c \in Calls, k \in Attempts : ChainStep(c, k)
        \/ ForeignCommit

Spec == Init /\ [][Next]_vars

\* Timers fire and promise callbacks run, whatever the chain does.
FairSpec == Spec /\ \A c \in Calls : WF_vars(ClientStep(c))

-----------------------------------------------------------------------------
(* Properties *)

\* The state is well formed: a call never makes more than Retries + 1 attempts
\* (attempt indexes seq and tx, so a further one would have nowhere to go).
TypeOK == /\ pc \in [Calls -> Steps]
          /\ attempt \in [Calls -> 0 .. (Retries + 1)]
          /\ seq \in [Calls -> [Attempts -> Nat]]
          /\ tx \in [Calls -> [Attempts -> Stages]]
          /\ chainNonce \in Nat
          /\ stale \subseteq Calls

\* A call makes a new attempt only after CheckTx refused all earlier ones, so
\* no earlier one can still be delivered, and only the last is undecided: the
\* inductive core of what commitTxAsync promises.
OneLiveAttempt ==
  \A c \in Calls :
     /\ \A k \in Attempts : /\ k < attempt[c] => tx[c][k] = "nonceRejected"
                            /\ k > attempt[c] => tx[c][k] = "none"
     /\ pc[c] = "idle" <=> attempt[c] = 0
     /\ pc[c] \in {"readNonce", "signed"} => tx[c][attempt[c]] = "none"
     /\ pc[c] = "sending" => tx[c][attempt[c]] # "none"
     /\ pc[c] = "resolved" => tx[c][attempt[c]] = "committed"
     /\ pc[c] = "backoff" => /\ attempt[c] <= Retries
                             /\ tx[c][attempt[c]] = "nonceRejected"
     /\ pc[c] = "nonceError" => /\ attempt[c] = Retries + 1
                                /\ tx[c][attempt[c]] = "nonceRejected"

\* However often commitTxAsync resends, the chain executes the transaction of a
\* call at most once.
AtMostOnce == \A c \in Calls : \A j, k \in Attempts :
                 tx[c][j] = "committed" /\ tx[c][k] = "committed" => j = k

\* Why that takes contention: of a call given up-to-date nonces the k-th attempt
\* is signed with at least k, never ahead of the chain, and a nonce is refused
\* only once the chain has passed it.
NonceInv ==
    \A c \in Calls \ stale :
      /\ pc[c] = "readNonce" => attempt[c] <= chainNonce + 1
      /\ pc[c] = "signed" => /\ attempt[c] <= seq[c][attempt[c]]
                             /\ seq[c][attempt[c]] <= chainNonce + 1
      /\ \A k \in Attempts :
           /\ tx[c][k] # "none" => k <= seq[c][k] /\ seq[c][k] <= chainNonce + 1
           /\ tx[c][k] = "nonceRejected" => seq[c][k] <= chainNonce

\* A call that was given up-to-date nonces runs out of retries only if the
\* account's nonce really moved under it once per attempt: by Retries + 1.
NonceErrorNeedsContention ==
  \A c \in Calls \ stale : pc[c] = "nonceError" => chainNonce > Retries

\* The promise the caller sees, with the retries hidden.
Promise == INSTANCE CallPromise WITH
  outcome <- [c \in Calls |-> IF pc[c] \in Settled THEN pc[c] ELSE "pending"],
  applied <- [c \in Calls |-> {k \in Attempts : tx[c][k] = "committed"}]

\* commitTxAsync implements CallPromise: a resolved call was executed, one
\* rejected with 'Invalid tx nonce' never was and never will be.
ImplementsPromise == Promise!Spec

\* Every started call settles: the nonce query, the connection and the reply
\* all have timeouts, and the retries are finite.
CallsSettle == \A c \in Calls : pc[c] # "idle" ~> pc[c] \in Settled
=============================================================================
