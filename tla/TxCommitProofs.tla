--------------------------- MODULE TxCommitProofs ---------------------------
(* Proofs about TxCommit for any calls, retries, read lag and other writers.  *)
EXTENDS TxCommit, TLAPS

\* Every step keeps the state well formed; the bound on attempts needs the
\* guard that sends a call to the back-off only while a retry is left.
Inv == TypeOK /\ OneLiveAttempt

LEMMA InitInv == Init => Inv
BY BoundsAssumption DEF Init, Inv, TypeOK, OneLiveAttempt, Attempts, Steps, Stages

\* The client's steps keep Inv.
LEMMA ClientKeepsInv ==
  ASSUME Inv, NEW c \in Calls, ClientStep(c)
  PROVE  Inv'
<1> USE BoundsAssumption DEF Inv, TypeOK, OneLiveAttempt, Attempts, Goto, Mark
<1>1. CASE Attempt(c)
  <2>1. TypeOK'
    BY <1>1 DEF Attempt, Steps
  <2>2. OneLiveAttempt'
    BY <1>1, <2>1 DEF Attempt
  <2> QED BY <2>1, <2>2
<1>2. CASE NonceAnswered(c)
  BY <1>2 DEF NonceAnswered, Steps
<1>3. CASE Submit(c)
  <2>1. TypeOK'
    BY <1>3 DEF Submit, Steps, Stages
  <2>2. OneLiveAttempt'
    BY <1>3, <2>1 DEF Submit
  <2> QED BY <2>1, <2>2
<1>4. CASE Timeout(c)
  BY <1>4 DEF Timeout, Steps, Settled
<1>5. CASE Reply(c)
  <2>1. \E s \in Steps : pc' = [pc EXCEPT ![c] = s]
    BY <1>5 DEF Reply, RetryOrReject, Steps, Settled
  <2>2. UNCHANGED <<attempt, seq, tx, chainNonce, stale>>
    BY <1>5 DEF Reply
  <2>3. TypeOK'
    BY <2>1, <2>2
  <2>4. OneLiveAttempt'
    BY <1>5, <2>3 DEF Reply, RetryOrReject
  <2> QED BY <2>3, <2>4
<1> QED BY <1>1, <1>2, <1>3, <1>4, <1>5 DEF ClientStep

\* The chain's steps keep Inv: they move only a tx that is sent or pooled, which
\* is the last of its call.
LEMMA ChainKeepsInv ==
  ASSUME Inv, NEW c \in Calls, NEW k \in Attempts, ChainStep(c, k)
  PROVE  Inv'
<1> USE BoundsAssumption DEF Inv, TypeOK, OneLiveAttempt, Attempts, Mark
<1>1. /\ tx[c][k] \in {"sent", "mempool"}
      /\ UNCHANGED <<pc, attempt, seq, stale>>
      /\ \E s \in Stages \ {"none", "sent"} : tx' = [tx EXCEPT ![c][k] = s]
      /\ chainNonce' \in {chainNonce, chainNonce + 1}
  BY DEF ChainStep, Lose, CheckTx, DeliverTx, Stages
<1>2. TypeOK'
  BY <1>1
<1>3. k \in Nat /\ attempt[c] \in Nat
  OBVIOUS
<1>4. k = attempt[c]
  <2>1. ~ (k < attempt[c]) /\ ~ (k > attempt[c])
    BY <1>1
  <2> QED BY <1>3, <2>1
<1>5. pc[c] \notin {"idle", "readNonce", "signed", "resolved", "backoff", "nonceError"}
  BY <1>1, <1>4
<1>6. OneLiveAttempt'
  BY <1>1, <1>2, <1>4, <1>5
<1> QED BY <1>2, <1>6

\* The state is always well formed and only the last attempt of a call is live.
THEOREM SafeTxCommit == Spec => []Inv
<1>1. Inv /\ [Next]_vars => Inv'
  <2> SUFFICES ASSUME Inv, [Next]_vars PROVE Inv'
    OBVIOUS
  <2>1. ASSUME NEW c \in Calls, ClientStep(c) PROVE Inv'
    BY <2>1, ClientKeepsInv
  <2>2. ASSUME NEW c \in Calls, NEW k \in Attempts, ChainStep(c, k) PROVE Inv'
    BY <2>2, ChainKeepsInv
  <2>3. CASE ForeignCommit
    BY <2>3 DEF ForeignCommit, Inv, TypeOK, OneLiveAttempt
  <2>4. CASE UNCHANGED vars
    BY <2>4 DEF vars, Inv, TypeOK, OneLiveAttempt
  <2> QED BY <2>1, <2>2, <2>3, <2>4 DEF Next
<1> QED BY InitInv, <1>1, PTL DEF Spec

\* The state is always well formed: in particular, never more than Retries + 1
\* attempts of a call.
THEOREM TypeCorrect == Spec => []TypeOK
<1>1. Inv => TypeOK
  BY DEF Inv
<1> QED BY <1>1, SafeTxCommit, PTL

\* Only the last attempt of a call is undecided: all earlier ones were refused.
THEOREM OnlyLastAttemptLive == Spec => []OneLiveAttempt
<1>1. Inv => OneLiveAttempt
  BY DEF Inv
<1> QED BY <1>1, SafeTxCommit, PTL

\* The chain executes the transaction of a call at most once.
THEOREM ExecutedAtMostOnce == Spec => []AtMostOnce
<1>1. Inv => AtMostOnce
  <2> SUFFICES ASSUME Inv, NEW c \in Calls, NEW j \in Attempts, NEW k \in Attempts,
                      tx[c][j] = "committed", tx[c][k] = "committed"
               PROVE  j = k
    BY DEF AtMostOnce
  <2>1. j \in Nat /\ k \in Nat /\ attempt[c] \in Nat
    BY BoundsAssumption DEF Inv, TypeOK, Attempts
  <2>2. ~ (j < attempt[c]) /\ ~ (j > attempt[c]) /\ ~ (k < attempt[c]) /\ ~ (k > attempt[c])
    BY DEF Inv, OneLiveAttempt
  <2> QED BY <2>1, <2>2
<1> QED BY <1>1, SafeTxCommit, PTL

-----------------------------------------------------------------------------
(* Running out of retries takes contention *)

\* Ranges that hold in every reachable state.
LEMMA Ranges ==
  ASSUME Inv, NEW c \in Calls
  PROVE  /\ attempt[c] \in Nat /\ chainNonce \in Nat /\ Retries \in Nat
         /\ pc[c] # "idle" => attempt[c] \in Attempts
         /\ \A k \in Attempts : k \in Nat /\ seq[c][k] \in Nat
BY BoundsAssumption DEF Inv, TypeOK, OneLiveAttempt, Attempts

\* What NonceInv says of one call.
CallNonceInv(c) ==
  /\ pc[c] = "readNonce" => attempt[c] <= chainNonce + 1
  /\ pc[c] = "signed" => /\ attempt[c] <= seq[c][attempt[c]]
                         /\ seq[c][attempt[c]] <= chainNonce + 1
  /\ \A k \in Attempts :
       /\ tx[c][k] # "none" => k <= seq[c][k] /\ seq[c][k] <= chainNonce + 1
       /\ tx[c][k] = "nonceRejected" => seq[c][k] <= chainNonce

\* Every step keeps NonceInv, given Inv: the nonce of the chain only grows, so
\* only the call that moves needs a proof.
LEMMA KeepsNonceInv == Inv /\ NonceInv /\ [Next]_vars => NonceInv'
<1> SUFFICES ASSUME Inv, [Next]_vars, NonceInv, NEW d \in Calls, d \notin stale'
             PROVE  CallNonceInv(d)'
  BY DEF NonceInv, CallNonceInv
<1>a. d \notin stale
  BY DEF Next, vars, ClientStep, Attempt, NonceAnswered, Submit, Timeout, Reply,
         ChainStep, Lose, CheckTx, DeliverTx, ForeignCommit
<1>b. CallNonceInv(d)
  BY <1>a DEF NonceInv, CallNonceInv
<1>0. \A c \in Calls : /\ attempt[c] \in Nat /\ chainNonce \in Nat
                       /\ \A k \in Attempts : k \in Nat /\ seq[c][k] \in Nat
  BY Ranges
<1>1. ASSUME NEW c \in Calls, ClientStep(c) PROVE CallNonceInv(d)'
  <2>0. chainNonce' = chainNonce
    BY <1>1 DEF ClientStep, Attempt, NonceAnswered, Submit, Timeout, Reply
  <2>1. CASE d # c
    <3>1. /\ pc'[d] = pc[d] /\ attempt'[d] = attempt[d]
          /\ seq'[d] = seq[d] /\ tx'[d] = tx[d]
      BY <1>1, <2>1 DEF ClientStep, Attempt, NonceAnswered, Submit, Timeout, Reply,
                        RetryOrReject, Goto, Mark, Inv, TypeOK
    <3> QED BY <1>b, <2>0, <3>1 DEF CallNonceInv
  <2>2. CASE d = c /\ Attempt(c)
    <3>1. attempt[c] <= chainNonce
      <4>1. CASE pc[c] = "idle"
        BY <4>1, <1>0 DEF Inv, OneLiveAttempt
      <4>2. CASE pc[c] = "backoff"
        <5>1. attempt[c] \in Attempts /\ tx[c][attempt[c]] = "nonceRejected"
          BY <4>2, Ranges DEF Inv, OneLiveAttempt
        <5>2. attempt[c] <= seq[c][attempt[c]] /\ seq[c][attempt[c]] <= chainNonce
          BY <5>1, <1>b, <2>2 DEF CallNonceInv
        <5> QED BY <5>1, <5>2, <1>0
      <4> QED BY <2>2, <4>1, <4>2 DEF Attempt
    <3>2. /\ attempt'[c] = attempt[c] + 1 /\ pc'[c] = "readNonce"
          /\ UNCHANGED <<seq, tx, chainNonce>>
      BY <2>2 DEF Attempt, Goto, Inv, TypeOK
    <3>3. attempt[c] + 1 <= chainNonce + 1
      BY <3>1, <1>0
    <3> QED BY <1>b, <2>2, <3>2, <3>3 DEF CallNonceInv
  <2>3. CASE d = c /\ NonceAnswered(c)
    <3>1. /\ attempt[c] \in Attempts /\ attempt[c] <= chainNonce + 1
          /\ tx[c][attempt[c]] = "none"
      BY <1>b, <2>3, Ranges DEF NonceAnswered, CallNonceInv, Inv, OneLiveAttempt
    <3>2. PICK n \in 0 .. chainNonce : /\ stale' = stale \cup {e \in {c} : n < chainNonce}
                                      /\ seq' = [seq EXCEPT ![c][attempt[c]] = n + 1]
      BY <2>3 DEF NonceAnswered
    <3>3. n + 1 = chainNonce + 1
      <4>1. ~ (n < chainNonce)
        BY <2>3, <3>2
      <4> QED BY <4>1, <1>0
    <3>4. /\ seq'[c][attempt[c]] = chainNonce + 1
          /\ \A k \in Attempts \ {attempt[c]} : seq'[c][k] = seq[c][k]
      BY <3>1, <3>2, <3>3 DEF Inv, TypeOK
    <3>5. pc'[c] = "signed" /\ UNCHANGED <<attempt, tx, chainNonce>>
      BY <2>3 DEF NonceAnswered, Goto, Inv, TypeOK
    <3> QED BY <1>b, <2>3, <1>0, <3>1, <3>4, <3>5 DEF CallNonceInv
  <2>4. CASE d = c /\ Submit(c)
    <3>1. attempt[c] \in Attempts /\ pc[c] = "signed"
      BY <2>4, Ranges DEF Submit
    <3>2. /\ pc'[c] = "sending" /\ UNCHANGED <<attempt, seq, chainNonce>>
          /\ tx'[c] = [tx[c] EXCEPT ![attempt[c]] = "sent"]
      BY <2>4 DEF Submit, Goto, Mark, Inv, TypeOK
    <3>3. \A k \in Attempts : tx'[c][k] = IF k = attempt[c] THEN "sent" ELSE tx[c][k]
      BY <3>2 DEF Inv, TypeOK
    <3> QED BY <1>b, <2>4, <1>0, <3>1, <3>2, <3>3 DEF CallNonceInv
  <2>5. CASE d = c /\ (Timeout(c) \/ Reply(c))
    <3>1. /\ UNCHANGED <<attempt, seq, tx, chainNonce>>
          /\ pc'[c] \notin {"readNonce", "signed"}
      BY <2>5 DEF Timeout, Reply, RetryOrReject, Goto, Inv, TypeOK
    <3> QED BY <1>b, <2>5, <3>1 DEF CallNonceInv
  <2> QED BY <1>1, <2>1, <2>2, <2>3, <2>4, <2>5 DEF ClientStep
<1>2. ASSUME NEW c \in Calls, NEW k \in Attempts, ChainStep(c, k)
      PROVE  CallNonceInv(d)'
  <2>1. /\ UNCHANGED <<pc, attempt, seq>> /\ chainNonce' \in {chainNonce, chainNonce + 1}
        /\ tx[c][k] \in {"sent", "mempool"}
        /\ \E s \in Stages : /\ tx' = [tx EXCEPT ![c][k] = s]
                             /\ s = "nonceRejected" => seq[c][k] # chainNonce + 1
    BY <1>2 DEF ChainStep, Lose, CheckTx, DeliverTx, Stages, Mark
  <2>2. PICK s \in Stages : /\ tx' = [tx EXCEPT ![c][k] = s]
                            /\ s = "nonceRejected" => seq[c][k] # chainNonce + 1
    BY <2>1
  <2>3. \A j \in Attempts : tx'[d][j] = IF d = c /\ j = k THEN s ELSE tx[d][j]
    BY <2>2 DEF Inv, TypeOK
  <2>4. chainNonce <= chainNonce' /\ chainNonce' \in Nat
    BY <2>1, <1>0
  <2>5. pc'[d] = pc[d] /\ attempt'[d] = attempt[d] /\ seq'[d] = seq[d]
    BY <2>1
  <2>6. pc[d] = "signed" => attempt[d] \in Attempts
    BY Ranges
  <2>7. ASSUME NEW j \in Attempts
        PROVE  /\ tx'[d][j] # "none" => j <= seq[d][j] /\ seq[d][j] <= chainNonce' + 1
               /\ tx'[d][j] = "nonceRejected" => seq[d][j] <= chainNonce'
    <3>1. CASE d = c /\ j = k
      <4>1. k <= seq[c][k] /\ seq[c][k] <= chainNonce + 1
        BY <1>b, <2>1, <3>1 DEF CallNonceInv
      <4>2. s = "nonceRejected" => seq[c][k] <= chainNonce
        BY <4>1, <2>2, <1>0
      <4> QED BY <3>1, <4>1, <4>2, <2>3, <2>4, <1>0
    <3>2. CASE ~ (d = c /\ j = k)
      <4>1. tx'[d][j] = tx[d][j]
        BY <3>2, <2>3
      <4> QED BY <1>b, <4>1, <2>4, <1>0 DEF CallNonceInv
    <3> QED BY <3>1, <3>2
  <2> QED BY <1>b, <2>4, <2>5, <2>6, <2>7, <1>0 DEF CallNonceInv
<1>3. CASE ForeignCommit
  <2>1. chainNonce' = chainNonce + 1 /\ UNCHANGED <<pc, attempt, seq, tx>>
    BY <1>3 DEF ForeignCommit
  <2>2. \A c \in Calls : pc[c] = "signed" => attempt[c] \in Attempts
    BY Ranges
  <2> QED BY <1>b, <2>1, <2>2, <1>0 DEF CallNonceInv
<1>4. CASE UNCHANGED vars
  BY <1>b, <1>4 DEF vars, CallNonceInv
<1> QED BY <1>1, <1>2, <1>3, <1>4 DEF Next

\* The nonces a call was given, signed with and refused for keep step with its
\* attempts, as long as the read node was never behind.
THEOREM NoncesKeepStep == Spec => []NonceInv
<1>1. Init => NonceInv
  <2> SUFFICES ASSUME Init, NEW c \in Calls PROVE CallNonceInv(c)
    BY DEF NonceInv, CallNonceInv
  <2>1. pc[c] = "idle"
    BY DEF Init
  <2>2. tx[c] = [k \in Attempts |-> "none"]
    BY DEF Init
  <2>3. \A k \in Attempts : tx[c][k] = "none"
    BY <2>2
  <2> QED BY <2>1, <2>3 DEF CallNonceInv
<1> QED BY <1>1, KeepsNonceInv, SafeTxCommit, PTL DEF Spec

\* A call given up-to-date nonces is rejected for its nonce only after that of the
\* account has moved at least Retries + 1 times.
THEOREM NonceErrorTakesContention == Spec => []NonceErrorNeedsContention
<1>1. Inv /\ NonceInv => NonceErrorNeedsContention
  <2> SUFFICES ASSUME Inv, NonceInv, NEW c \in Calls \ stale,
                      pc[c] = "nonceError"
               PROVE  chainNonce > Retries
    BY DEF NonceErrorNeedsContention
  <2>1. Retries + 1 \in Attempts /\ tx[c][Retries + 1] = "nonceRejected"
    BY BoundsAssumption DEF Inv, OneLiveAttempt, Attempts
  <2>2. Retries + 1 <= seq[c][Retries + 1] /\ seq[c][Retries + 1] <= chainNonce
    BY <2>1 DEF NonceInv
  <2> QED BY <2>1, <2>2, BoundsAssumption DEF Inv, TypeOK
<1> QED BY <1>1, NoncesKeepStep, SafeTxCommit, PTL

-----------------------------------------------------------------------------
(* The refinement of CallPromise *)

Outcome == [c \in Calls |-> IF pc[c] \in Settled THEN pc[c] ELSE "pending"]
Applied == [c \in Calls |-> {k \in Attempts : tx[c][k] = "committed"}]

\* A step of the client settles the caller's promise or is invisible.
LEMMA ClientStepRefines ==
  ASSUME Inv, NEW c \in Calls, ClientStep(c)
  PROVE  Promise!Next \/ UNCHANGED Promise!vars
<1> USE DEF Goto
<1>1. Applied' = Applied
  <2>1. CASE Submit(c)
    <3>1. tx[c][attempt[c]] = "none" /\ attempt[c] \in Attempts
      BY <2>1, BoundsAssumption DEF Submit, Inv, TypeOK, OneLiveAttempt, Attempts
    <3>2. tx' = [tx EXCEPT ![c][attempt[c]] = "sent"]
      BY <2>1 DEF Submit, Mark
    <3>3. \A d \in Calls, k \in Attempts : tx'[d][k] = "committed" <=> tx[d][k] = "committed"
      BY <3>1, <3>2 DEF Inv, TypeOK
    <3> QED BY <3>3 DEF Applied
  <2>2. CASE UNCHANGED tx
    BY <2>2 DEF Applied
  <2> QED BY <2>1, <2>2 DEF ClientStep, Attempt, NonceAnswered, Timeout, Reply
<1>2. CASE pc'[c] \notin Settled
  <2>1. pc[c] \notin Settled
    BY DEF ClientStep, Attempt, NonceAnswered, Submit, Timeout, Reply, Settled
  <2>2. \A d \in Calls \ {c} : pc'[d] = pc[d]
    BY DEF ClientStep, Attempt, NonceAnswered, Submit, Timeout, Reply, RetryOrReject, Inv, TypeOK
  <2>3. Outcome' = Outcome
    BY <1>2, <2>1, <2>2 DEF Outcome
  <2> QED BY <1>1, <2>3 DEF Promise!vars, Outcome, Applied
<1>3. CASE pc'[c] \in Settled
  <2>1. \/ Timeout(c) /\ pc' = [pc EXCEPT ![c] = "failed"]
        \/ Reply(c) /\ pc' = [pc EXCEPT ![c] = pc'[c]]
    BY <1>3 DEF ClientStep, Attempt, NonceAnswered, Submit, Timeout, Reply,
                RetryOrReject, Settled, Inv, TypeOK
  <2>2. pc[c] \notin Settled
    BY <2>1 DEF Timeout, Reply, Settled
  <2>3. Outcome[c] = "pending" /\ Outcome' = [Outcome EXCEPT ![c] = pc'[c]]
    BY <1>3, <2>1, <2>2 DEF Outcome, Inv, TypeOK
  <2>4. pc'[c] = "resolved" => Applied[c] # {}
    <3> SUFFICES ASSUME pc'[c] = "resolved" PROVE Applied[c] # {}
      OBVIOUS
    <3>1. pc[c] = "sending" /\ tx[c][attempt[c]] = "committed"
      BY <2>1 DEF Timeout, Reply, RetryOrReject, Inv, TypeOK
    <3>2. attempt[c] \in Attempts
      BY <3>1, BoundsAssumption DEF Inv, TypeOK, OneLiveAttempt, Attempts
    <3> QED BY <3>1, <3>2 DEF Applied
  <2>5. pc'[c] = "nonceError" => Applied[c] = {}
    <3> SUFFICES ASSUME pc'[c] = "nonceError" PROVE Applied[c] = {}
      OBVIOUS
    <3>1. tx[c][attempt[c]] = "nonceRejected"
      BY <2>1 DEF Timeout, Reply, RetryOrReject, Inv, TypeOK
    <3>2. ASSUME NEW k \in Attempts PROVE tx[c][k] # "committed"
      <4>1. k < attempt[c] \/ k = attempt[c] \/ k > attempt[c]
        BY Ranges
      <4> QED BY <3>1, <4>1 DEF Inv, OneLiveAttempt
    <3> QED BY <3>2 DEF Applied
  <2>6. PICK o \in {"resolved", "nonceError", "failed"} : o = pc'[c]
    BY <1>3 DEF Settled
  <2>7. Promise!Settle(c, o)
    BY <1>1, <2>3, <2>4, <2>5, <2>6 DEF Promise!Settle, Outcome, Applied
  <2> QED BY <2>7 DEF Promise!Next
<1> QED BY <1>2, <1>3

\* A step of the chain applies a call that may still take effect, or is invisible.
LEMMA ChainStepRefines ==
  ASSUME Inv, NEW c \in Calls, NEW k \in Attempts, ChainStep(c, k)
  PROVE  Promise!Next \/ UNCHANGED Promise!vars
<1>1. /\ tx[c][k] \in {"sent", "mempool"}
      /\ UNCHANGED pc
      /\ \E s \in Stages \ {"none", "sent"} : tx' = [tx EXCEPT ![c][k] = s]
  BY DEF ChainStep, Lose, CheckTx, DeliverTx, Stages, Mark
<1>2. Outcome' = Outcome
  BY <1>1 DEF Outcome
<1>3. k = attempt[c] /\ \A j \in Attempts : tx[c][j] # "committed"
  <2>1. k \in Nat /\ attempt[c] \in Nat
    BY BoundsAssumption DEF Inv, TypeOK, Attempts
  <2>2. ~ (k < attempt[c]) /\ ~ (k > attempt[c])
    BY <1>1 DEF Inv, OneLiveAttempt
  <2> QED BY <1>1, <2>1, <2>2, BoundsAssumption DEF Inv, OneLiveAttempt, Attempts
<1>4. CASE tx'[c][k] = "committed"
  <2>1. Applied[c] = {} /\ Applied' = [Applied EXCEPT ![c] = {k}]
    <3>1. \A d \in Calls, j \in Attempts :
             tx'[d][j] = IF d = c /\ j = k THEN "committed" ELSE tx[d][j]
      BY <1>1, <1>4 DEF Inv, TypeOK
    <3>2. Applied'[c] = {k} /\ Applied[c] = {}
      BY <1>3, <3>1 DEF Applied
    <3>3. \A d \in Calls \ {c} : Applied'[d] = Applied[d]
      BY <3>1 DEF Applied
    <3> QED BY <3>2, <3>3 DEF Applied
  <2>2. Outcome[c] \in {"pending", "failed"}
    BY <1>1, <1>3 DEF Inv, OneLiveAttempt, Outcome, Settled
  <2>3. Promise!Apply(c, k)
    BY <1>2, <2>1, <2>2 DEF Promise!Apply, Outcome, Applied
  <2> QED BY <2>3 DEF Promise!Next
<1>5. CASE tx'[c][k] # "committed"
  <2>1. \A d \in Calls, j \in Attempts : tx'[d][j] = "committed" <=> tx[d][j] = "committed"
    BY <1>1, <1>5 DEF Inv, TypeOK
  <2>2. Applied' = Applied
    BY <2>1 DEF Applied
  <2> QED BY <1>2, <2>2 DEF Promise!vars, Outcome, Applied
<1> QED BY <1>4, <1>5

\* commitTxAsync keeps the promise its callers see: at most one execution,
\* resolved only once executed, 'Invalid tx nonce' only if never executed.
THEOREM KeepsPromise == Spec => ImplementsPromise
<1>1. Init => Promise!Init
  BY DEF Init, Promise!Init, Settled
<1>2. Inv /\ [Next]_vars => [Promise!Next]_(Promise!vars)
  <2> SUFFICES ASSUME Inv, [Next]_vars PROVE Promise!Next \/ UNCHANGED Promise!vars
    OBVIOUS
  <2>1. ASSUME NEW c \in Calls, ClientStep(c) PROVE Promise!Next \/ UNCHANGED Promise!vars
    BY <2>1, ClientStepRefines
  <2>2. ASSUME NEW c \in Calls, NEW k \in Attempts, ChainStep(c, k)
        PROVE  Promise!Next \/ UNCHANGED Promise!vars
    BY <2>2, ChainStepRefines
  <2>3. CASE ForeignCommit
    BY <2>3 DEF ForeignCommit, Promise!vars
  <2>4. CASE UNCHANGED vars
    BY <2>4 DEF vars, Promise!vars
  <2> QED BY <2>1, <2>2, <2>3, <2>4 DEF Next
<1> QED BY <1>1, <1>2, SafeTxCommit, PTL DEF Spec, ImplementsPromise, Promise!Spec
=============================================================================
