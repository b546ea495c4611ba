----------------------------- MODULE Simulator ------------------------------
(***************************************************************************)
(* The stand-alone simulator: a network of nodes that gossip in rounds, in *)
(* one process and in a fixed order, and the statistics asked of the       *)
(* network that results.  There are no messages: gossip writes into the    *)
(* node that receives it.  Only the draws are left open.                   *)
(*                                                                         *)
(* A list of nodes, which the code fills up with -1, is the bag of what is *)
(* in it: the draws take any of it, and what does not fit overwrites any.  *)
(***************************************************************************)
EXTENDS RandomAge, FiniteSetsExt, Bags

CONSTANTS
  NumNodi,       \* _NUM_NODI, and _BOOTSTRAP
  Fanout,        \* _FANOUT
  VistaAge,      \* _VISTA_AGE
  GossipNodi,    \* _GOSSIP_NODI
  RoundG,        \* _ROUND_G
  RaggioQuery,   \* _RAGGIO_QUERY
  HopsCopertura  \* _HOPS_COPERTURA

ASSUME SimulatorAssumption ==
  /\ NumNodi \in Nat /\ Fanout \in Nat \ {0} /\ Fanout < NumNodi
  /\ Fanout <= VistaAge /\ VistaAge \in Nat /\ GossipNodi \in Nat
  /\ RoundG \in Nat \ {0} /\ RoundG <= MaxAge
  /\ RaggioQuery \in Nat /\ HopsCopertura \in Nat \ {0}

Node == 0 .. NumNodi - 1
Slots == 1 .. Fanout
NoNode == NumNodi   \* -1 in the code

VARIABLES
  neighbour,      \* neighbour[p][i]: the nodes of age i that p knows
  buffer_fanout,  \* buffer_fanout[p]: whom p gossips with
  buffer_arrivi,  \* buffer_arrivi[p]: who gossiped with p in this round
  at,             \* what main is doing
  turn,           \* for which node: the j of its loops
  sent,           \* how much of its gossip that node has sent
  round,          \* how many rounds have begun
  result          \* what the last statistic found

nodes == <<neighbour, buffer_fanout, buffer_arrivi>>
vars == <<nodes, at, turn, sent, round, result>>

NoResult == [of |-> "none", nodo |-> NoNode, nodi |-> {}]

Init ==
  /\ neighbour = [p \in Node |-> [i \in Ages |-> EmptyBag]]
  /\ buffer_fanout = [p \in Node |-> [i \in Slots |-> NoNode]]
  /\ buffer_arrivi = [p \in Node |-> EmptyBag]
  /\ at = "bootstrap" /\ turn = 0 /\ sent = 0 /\ round = 0
  /\ result = NoResult

(* The next node's turn, or, after the last, the next thing main does.     *)
Turn(then) ==
  IF turn + 1 < NumNodi
  THEN turn' = turn + 1 /\ UNCHANGED at
  ELSE turn' = 0 /\ at' = then

(* A node starts with Fanout different others.                             *)
Bootstrap ==
  /\ at = "bootstrap"
  /\ \E arrivals \in SUBSET (Node \ {turn}) :
       /\ Cardinality(arrivals) = Fanout
       /\ buffer_arrivi' = [buffer_arrivi EXCEPT ![turn] = SetToBag(arrivals)]
  /\ Turn("age")
  /\ UNCHANGED <<neighbour, buffer_fanout, sent, round, result>>

-----------------------------------------------------------------------------
(* A round: all nodes age, all draw a fanout, all gossip.                  *)

(* Mutant: the shift stops one list too early.                             *)
AgePlusOneShort ==
  /\ neighbour' = [p \in Node |-> [i \in Ages |->
       CASE i = 0 -> buffer_arrivi[p]
         [] i = 1 -> neighbour[p][i]
         [] OTHER -> neighbour[p][i - 1]]]
  /\ buffer_arrivi' = [p \in Node |-> EmptyBag]
  /\ UNCHANGED buffer_fanout

AgePlusOne ==
  /\ neighbour' = [p \in Node |-> [i \in Ages |->
       IF i = 0 THEN buffer_arrivi[p] ELSE neighbour[p][i - 1]]]
  /\ buffer_arrivi' = [p \in Node |-> EmptyBag]
  /\ UNCHANGED buffer_fanout

StartRound ==
  /\ at = "age" /\ round < RoundG
  /\ AgePlusOne
  /\ round' = round + 1 /\ at' = "fanout"
  /\ UNCHANGED <<turn, sent, result>>

(* random_neighbour of a random age, drawn with the simulator's own initX, *)
(* for ages at which p knows somebody; at the others it returns -1 and is  *)
(* called again.                                                           *)
Drawable == Possible(RandomAge(0))
RandomNeighbour(p, age) == BagToSet(neighbour[p][age])
Neighbours(p) == UNION {RandomNeighbour(p, age) : age \in Drawable}

(* After fifteen attempts at the same age a node that is in the fanout is  *)
(* taken again, so that every choice of neighbours may come out.           *)
CreateFanout ==
  /\ at = "fanout"
  /\ \E fanout \in [Slots -> Neighbours(turn)] :
       buffer_fanout' = [buffer_fanout EXCEPT ![turn] = fanout]
  /\ Turn("gossip")
  /\ UNCHANGED <<neighbour, buffer_arrivi, sent, round, result>>

(* list with p in a free place or, when it has none, in any place.         *)
Put(list, p, size) ==
  IF BagCardinality(list) < size
  THEN {list (+) SetToBag({p})}
  ELSE {(list (-) SetToBag({q})) (+) SetToBag({p}) : q \in BagToSet(list)}

(* gossip_informations, one insertion at a time: to each node of the       *)
(* fanout itself, then GossipNodi of its neighbours, each at its age.      *)
Ric == buffer_fanout[turn][1 + sent \div (GossipNodi + 1)]

Sent ==
  /\ IF sent + 1 < Fanout * (GossipNodi + 1)
     THEN sent' = sent + 1 /\ UNCHANGED <<at, turn>>
     ELSE sent' = 0 /\ Turn("age")
  /\ UNCHANGED <<buffer_fanout, round, result>>

InsBufferArrivi ==
  /\ at = "gossip" /\ sent % (GossipNodi + 1) = 0
  /\ \E list \in Put(buffer_arrivi[Ric], turn, Fanout) :
       buffer_arrivi' = [buffer_arrivi EXCEPT ![Ric] = list]
  /\ UNCHANGED neighbour
  /\ Sent

RandomViciniGossip ==
  /\ at = "gossip" /\ sent % (GossipNodi + 1) # 0
  /\ \E age \in Drawable : \E p \in RandomNeighbour(turn, age) :
       \E list \in Put(neighbour[Ric][age], p, VistaAge) :
         neighbour' = [neighbour EXCEPT ![Ric][age] = list]
  /\ UNCHANGED buffer_arrivi
  /\ Sent

GossipInformations == InsBufferArrivi \/ RandomViciniGossip

-----------------------------------------------------------------------------
(* The statistics: from here on the draws are over.                        *)

Report(of, n, S) == result' = [of |-> of, nodo |-> n, nodi |-> S]

(* ricorsive_query, from a node and a number of hops already made.         *)
RicorsiveQuery[hop \in 0 .. RaggioQuery] ==
  [n \in Node |->
    IF hop < RaggioQuery
    THEN UNION {{buffer_fanout[n][i]} \cup
                RicorsiveQuery[hop + 1][buffer_fanout[n][i]] : i \in Slots}
    ELSE {}]

DisseminationQuery(n) ==
  /\ Report("query", n, RicorsiveQuery[0][n])
  /\ UNCHANGED nodes

(* ricorsive_membership                                                    *)
RicorsiveMembership[hop \in 0 .. HopsCopertura] ==
  [n \in Node |->
    IF hop < HopsCopertura
    THEN (UNION {RandomNeighbour(n, age) : age \in Ages}) \cup
         UNION {RicorsiveMembership[hop + 1][buffer_fanout[n][i]] : i \in Slots}
    ELSE {}]

(* Mutant: the coverage of the nodes as they were.                         *)
TestCoperturaReteOld(n) ==
  /\ AgePlusOne
  /\ Report("membership", n, RicorsiveMembership[0][n])

(* copertura_rete of one node drawn; the nodes age each time it is asked.  *)
TestCoperturaRete(n) ==
  /\ AgePlusOne
  /\ Report("membership", n, RicorsiveMembership[0][n]')

(* How often n is in the lists of each age, of all nodes.                  *)
Copies(n, list) == IF n \in BagToSet(list) THEN list[n] ELSE 0

DisseminationNodo(n) ==
  /\ Report("nodo", n,
       {<<age, MapThenSumSet(LAMBDA p : Copies(n, neighbour[p][age]), Node)>> :
          age \in Ages})
  /\ UNCHANGED nodes

Statistiche ==
  /\ at = "age" /\ round = RoundG
  /\ \E n \in Node :
       DisseminationNodo(n) \/ DisseminationQuery(n) \/ TestCoperturaRete(n)
  /\ UNCHANGED <<at, turn, sent, round>>

Next ==
  \/ Bootstrap
  \/ StartRound \/ CreateFanout \/ GossipInformations
  \/ Statistiche

Spec == Init /\ [][Next]_vars

-----------------------------------------------------------------------------
(* Whenever a fanout or a gossip information is drawn there is somebody to *)
(* draw, so that the loops that draw again end: what a node starts with    *)
(* ages with it and does not grow too old before the last round, whatever  *)
(* is overwritten (createFanout, random_vicini_gossip).                    *)
DrawsPossible ==
  at \in {"fanout", "gossip"} => \A p \in Node : Neighbours(p) # {}
=============================================================================
