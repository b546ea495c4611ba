---------------------------- MODULE BootService ----------------------------
(***************************************************************************)
(* What the bootstrap server does for the peers that ask it, seen from     *)
(* outside: a peer is registered before it is answered, if there is room,  *)
(* and is told all the others, or nobody once they are too many for an     *)
(* answer.  BootServer implements this; Bootstrap builds on it.            *)
(***************************************************************************)
EXTENDS BootNodes, FiniteSets

VARIABLES
  known,    \* the registered peers
  request   \* request[p]: <<"none">>, <<"asked">> or <<"told", peers>>

serviceVars == <<known, request>>

ServiceInit ==
  /\ known = {}
  /\ request = [p \in Peer |-> <<"none">>]

Become(p, from, to) == request[p] = from /\ request' = [request EXCEPT ![p] = to]

AskServer(p) ==
  /\ Become(p, <<"none">>, <<"asked">>)
  /\ UNCHANGED known

Register(p) ==
  /\ request[p] = <<"asked">>
  /\ p \notin known
  /\ Cardinality(known) < NNodi
  /\ known' = known \cup {p}
  /\ UNCHANGED request

(* The asker deducts itself from those an answer has to hold.              *)
Fit == Cardinality(known) - 1 < ServerNodi

Tell(p) ==
  /\ p \in known \/ Cardinality(known) = NNodi
  /\ Become(p, <<"asked">>, <<"told", IF Fit THEN known \ {p} ELSE {}>>)
  /\ UNCHANGED known

Receive(p, peers) ==
  /\ Become(p, <<"told", peers>>, <<"none">>)
  /\ UNCHANGED known

ServiceNext ==
  \E p \in Peer :
    \/ AskServer(p) \/ Register(p) \/ Tell(p)
    \/ \E peers \in SUBSET known : Receive(p, peers)

ServiceSpec == ServiceInit /\ [][ServiceNext]_serviceVars
=============================================================================
