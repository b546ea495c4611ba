------------------------------- MODULE MCPeer -------------------------------
(***************************************************************************)
(* The messages of one peer, p1: two copies of its ping (its own, and a    *)
(* forwarded one), its bye and a query that came as far as it can.  Pongs  *)
(* and gossip name p2 and this peer as well.                               *)
(***************************************************************************)
EXTENDS PeerHistory

CONSTANTS p1, p2

MCMessage ==
  { [id |-> "ping 1",  kind |-> "ping",  peer |-> p1, age |-> 0],
    [id |-> "ping 1",  kind |-> "ping",  peer |-> p1, age |-> 1],
    [id |-> "bye 1",   kind |-> "bye",   peer |-> p1, age |-> MaxAge],
    [id |-> "query 1", kind |-> "query", peer |-> p1, age |-> RaggioQuery] }

(* No property tells the helpers apart.                                    *)
HelperSymmetry == Permutations(HelperMsg)
=============================================================================
