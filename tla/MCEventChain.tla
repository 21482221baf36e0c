---------------------------- MODULE MCEventChain ----------------------------
(* TLC instance of EventChain: two objects of one contract, beside another    *)
(* contract nobody has an object of.                                          *)
EXTENDS EventChain

CONSTANTS token, tokenAgain, A, B

MCContracts == {token, tokenAgain}
MCAddressOf == [k \in MCContracts |-> A]

\* The listener of one of the two objects is its first and its last.
MCMaxListeners == [k \in MCContracts |-> IF k = token THEN 2 ELSE 1]
=============================================================================
