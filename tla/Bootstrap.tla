----------------------------- MODULE Bootstrap -----------------------------
(***************************************************************************)
(* How peers join: bootstrap and bootstrap2_ciclic of every peer, with the *)
(* server as BootService promises it.  A peer asks until it is told enough *)
(* peers, pings all of them, and starts over until it has a fanout of      *)
(* neighbours.  Its own dispatchers answer the others from the start: a    *)
(* connection to a peer that does not listen ends the process (exit(4)).   *)
(* Peers that joined do not leave here.                                    *)
(***************************************************************************)
EXTENDS BootService

CONSTANTS
  MinNodi,  \* SERVBOOT_MIN_NODI: the shortest answer that is used
  Fanout    \* _FANOUT: the neighbours a peer needs to go on

ASSUME JoinAssumption == MinNodi \in Nat \ {0} /\ Fanout \in Nat /\ MinNodi <= Fanout

VARIABLES
  boot,       \* where the bootstrap of each peer is
  listening,  \* the peers whose dispatchers listen
  toPing,     \* the peers its boot2_helper threads have still to ping
  seen,       \* seen[p]: the peers that have the id of its last ping
  neighbour,  \* the peers in its neighbour buffer
  pongs       \* the pongs under way: <<from, to>>

joinVars == <<boot, listening, toPing, seen, neighbour, pongs>>

bootVars == <<serviceVars, joinVars>>

BootInit ==
  /\ ServiceInit
  /\ boot = [p \in Peer |-> "off"]
  /\ listening = {}
  /\ toPing = [p \in Peer |-> {}]
  /\ seen = [p \in Peer |-> {}]
  /\ neighbour = [p \in Peer |-> {}]
  /\ pongs = {}

Phase(p, from, to) == boot[p] = from /\ boot' = [boot EXCEPT ![p] = to]

-----------------------------------------------------------------------------
(* bootstrap: the dispatchers' threads are created ...                     *)
Start(p) ==
  /\ Phase(p, "off", "init")
  /\ UNCHANGED <<serviceVars, listening, toPing, seen, neighbour, pongs>>

(* ... they listen and post sem_init_msg and sem_init_inf ...              *)
Listen(p) ==
  /\ boot[p] # "off"
  /\ p \notin listening
  /\ listening' = listening \cup {p}
  /\ UNCHANGED <<serviceVars, boot, toPing, seen, neighbour, pongs>>

(* Mutant: bootstrap does not wait for them.                               *)
InitialisedEarly(p) ==
  /\ Phase(p, "init", "ask")
  /\ UNCHANGED <<serviceVars, listening, toPing, seen, neighbour, pongs>>

(* ... which bootstrap waits for.                                          *)
Initialised(p) ==
  /\ Phase(p, "init", "ask")
  /\ p \in listening
  /\ UNCHANGED <<serviceVars, listening, toPing, seen, neighbour, pongs>>

(* bootstrap2_ciclic: connect to the server, send the ping.                *)
Ask(p) ==
  /\ Phase(p, "ask", "asked")
  /\ AskServer(p)
  /\ UNCHANGED <<listening, toPing, seen, neighbour, pongs>>

Serve(p) ==
  /\ Register(p) \/ Tell(p)
  /\ UNCHANGED joinVars

(* Mutant: one ping, made before the loop, is sent every time.             *)
ToldOldPing(p) ==
  \E peers \in SUBSET known :
    /\ Receive(p, peers)
    /\ \/ /\ Cardinality(peers) < MinNodi
          /\ Phase(p, "asked", "ask")
          /\ UNCHANGED toPing
       \/ /\ Cardinality(peers) >= MinNodi
          /\ Phase(p, "asked", "ping")
          /\ toPing' = [toPing EXCEPT ![p] = peers]
    /\ UNCHANGED <<listening, seen, neighbour, pongs>>

(* The answer is used if it tells enough peers; if not the peer sleeps and *)
(* asks again, whatever neighbours it has by then.                         *)
Told(p) ==
  \E peers \in SUBSET known :
    /\ Receive(p, peers)
    /\ \/ /\ Cardinality(peers) < MinNodi
          /\ Phase(p, "asked", "ask")
          /\ UNCHANGED <<toPing, seen>>
       \/ /\ Cardinality(peers) >= MinNodi
          /\ Phase(p, "asked", "ping")
          /\ toPing' = [toPing EXCEPT ![p] = peers]
          /\ seen' = [seen EXCEPT ![p] = {}]
    /\ UNCHANGED <<listening, neighbour, pongs>>

Learn(q, p) == neighbour' = [neighbour EXCEPT ![q] = @ \cup ({p} \ {q})]

(* boot2_helper, one for each peer told, all with the id of my_ping; and   *)
(* helper_ping of q, which answers it unless a forwarded one came first    *)
(* (p does not see when q reads what it sent, only when q answers).        *)
Ping(p, q) ==
  /\ boot[p] = "ping"
  /\ q \in toPing[p]
  /\ toPing' = [toPing EXCEPT ![p] = @ \ {q}]
  /\ IF q \in seen[p]
     THEN UNCHANGED <<seen, neighbour, pongs>>
     ELSE /\ seen' = [seen EXCEPT ![p] = @ \cup {q}]
          /\ pongs' = pongs \cup {<<q, p>>}
          /\ Learn(q, p)
  /\ UNCHANGED <<serviceVars, boot, listening>>

(* The helpers are joined; after a sleep, get_number_neighbour: enough, or *)
(* once more.                                                              *)
Check(p) ==
  /\ toPing[p] = {}
  /\ Phase(p, "ping", IF Cardinality(neighbour[p]) >= Fanout THEN "done" ELSE "ask")
  /\ UNCHANGED <<serviceVars, listening, toPing, seen, neighbour, pongs>>

DeliverPong(p, q) ==
  /\ q \in listening
  /\ <<p, q>> \in pongs
  /\ pongs' = pongs \ {<<p, q>>}
  /\ Learn(q, p)
  /\ UNCHANGED <<serviceVars, boot, listening, toPing, seen>>

(* A peer that joined forwards the ping of p (RoundSpeed), and q answers   *)
(* it if random_age draws the age that it comes with.                      *)
Forwarded(p, q) ==
  /\ \E r \in seen[p] : boot[r] = "done" /\ q \in neighbour[r]
  /\ q \notin seen[p] \cup {p}
  /\ seen' = [seen EXCEPT ![p] = @ \cup {q}]
  /\ UNCHANGED <<serviceVars, boot, listening, toPing>>

Answered(p, q) ==
  /\ Forwarded(p, q)
  /\ pongs' = pongs \cup {<<q, p>>}
  /\ Learn(q, p)

Forward(p, q) ==
  \/ Answered(p, q)
  \/ Forwarded(p, q) /\ UNCHANGED <<pongs, neighbour>>

(* It also runs round gossip (RoundGossip): it tells its neighbours of     *)
(* itself and of others.  What it forgets is left out.                     *)
Hear(p, q) ==
  /\ boot[p] = "done"
  /\ q \in neighbour[p]
  /\ \E r \in {p} \cup neighbour[p] : Learn(q, r)
  /\ UNCHANGED <<serviceVars, boot, listening, toPing, seen, pongs>>

Join(p) ==
  \/ Listen(p) \/ Initialised(p) \/ Ask(p) \/ Told(p) \/ Check(p)
  \/ \E q \in Peer : Ping(p, q)

BootNext ==
  \/ \E p \in Peer : Start(p) \/ Serve(p) \/ Join(p)
  \/ \E p, q \in Peer :
       DeliverPong(p, q) \/ Forward(p, q) \/ Hear(p, q)

BootSpec == BootInit /\ [][BootNext]_bootVars

(* A peer that was started runs on, the server answers and every pong      *)
(* arrives.  random_age draws any age but 0 and _MAX_AGE with some         *)
(* probability: of the forwarded pings of a peer some are answered.        *)
BootFairSpec ==
  /\ BootSpec
  /\ \A p \in Peer : WF_bootVars(Join(p) \/ Serve(p))
  /\ \A p \in Peer : \A q \in Peer \ {p} : WF_bootVars(DeliverPong(p, q))
  /\ \A p \in Peer : SF_bootVars(\E q \in Peer : Answered(p, q))

-----------------------------------------------------------------------------
(* Whoever is about to be pinged or ponged listens already: a peer becomes *)
(* known to the server, and through it to others, only when its            *)
(* dispatchers are up, so that joining ends nobody's process.              *)
PingedListens ==
  /\ \A p \in Peer : toPing[p] \subseteq listening \ {p}
  /\ \A m \in pongs : m[2] \in listening

Started == {p \in Peer : boot[p] # "off"}

(* Once more than a fanout of peers are started they all join, if an       *)
(* answer of the server can tell all of them: in whatever order they ask,  *)
(* although the first ones are told too few and pings are overtaken by     *)
(* forwarded copies that nobody answers, they meet in the end.             *)
AllJoin ==
  Cardinality(Started) > Fanout ~> \A p \in Started : boot[p] = "done"
=============================================================================
