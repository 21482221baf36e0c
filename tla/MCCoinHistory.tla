---------------------------- MODULE MCCoinHistory ----------------------------
(* Instances of CoinHistory: a calm chain to its sixth block, one of four     *)
(* blocks on which anything may happen, or the coin may come back, and a      *)
(* client that only restarts.                                                 *)
EXTENDS CoinHistory

Calm == [lag |-> FALSE, returns |-> FALSE, restarts |-> FALSE, last |-> 6]
All == [lag |-> TRUE, returns |-> TRUE, restarts |-> TRUE, last |-> 4]
Returning == [Calm EXCEPT !.returns = TRUE, !.last = 4]
Restarting == [Calm EXCEPT !.restarts = TRUE]

MCProfiles == {Calm, All, Returning}
MCRestarting == {Restarting}
=============================================================================
