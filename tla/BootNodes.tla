----------------------------- MODULE BootNodes -----------------------------
(* What the bootstrap server and its service are both parameterised by.    *)
EXTENDS Integers

CONSTANTS
  Peer,        \* the peers that can ask
  NNodi,       \* _N_NODI: how many peers can be registered
  ServerNodi   \* SERVER_NODI: how many an answer can tell

ASSUME NodesAssumption == NNodi \in Nat /\ ServerNodi \in Nat
=============================================================================
