----------------------------- MODULE CallPromise -----------------------------
(* What Client.commitTxAsync promises the caller of a contract method,        *)
(* whatever the retries, the nonces and the connection do underneath: the     *)
(* transaction takes effect at most once, a resolved promise means it took    *)
(* effect, and an 'Invalid tx nonce' rejection means it did not and never     *)
(* will. Any other rejection says nothing: the effect may still come.         *)
CONSTANTS Calls, Attempts

VARIABLES outcome,  \* what the caller's promise says
          applied   \* the attempts whose transaction changed the chain

vars == <<outcome, applied>>

Init == /\ outcome = [c \in Calls |-> "pending"]
        /\ applied = [c \in Calls |-> {}]

\* The chain executes one attempt of a call that may still take effect.
Apply(c, k) == /\ outcome[c] \in {"pending", "failed"}
               /\ applied[c] = {}
               /\ applied' = [applied EXCEPT ![c] = {k}]
               /\ UNCHANGED outcome

\* The promise settles, in a way the effect so far allows.
Settle(c, o) == /\ outcome[c] = "pending"
                /\ o = "resolved" => applied[c] # {}
                /\ o = "nonceError" => applied[c] = {}
                /\ outcome' = [outcome EXCEPT ![c] = o]
                /\ UNCHANGED applied

Next == \E c \in Calls :
           \/ \E k \in Attempts : Apply(c, k)
           \/ \E o \in {"resolved", "nonceError", "failed"} : Settle(c, o)

Spec == Init /\ [][Next]_vars
=============================================================================
