---------------------------- MODULE MCLoomProvider ----------------------------
(* Instance of LoomProvider: two calls, one of them of any method, with no    *)
(* callbacks for 'data'; and one subscription, with up to two callbacks at a   *)
(* time, which may be the same one twice.                                      *)
EXTENDS LoomProvider

CONSTANTS r1, r2

MCRequests == {r1, r2}
MCUses ==
  {[methods |-> (r1 :> Methods @@ r2 :> {Receipt, "eth_subscribe"}), length |-> 0, adds |-> TRUE],
   [methods |-> (r1 :> {"eth_subscribe"} @@ r2 :> {}), length |-> 2, adds |-> FALSE]}
=============================================================================
