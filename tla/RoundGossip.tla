---------------------------- MODULE RoundGossip ----------------------------
(***************************************************************************)
(* process_RG: the round-gossip thread of a peer, running against every    *)
(* other thread that uses the neighbour buffer.  Each round it draws the   *)
(* peers it will talk to (new_fanout), writes one gossip information for   *)
(* each of them (new_buffer_rg), makes every known peer a round older and  *)
(* has the messages sent.                                                  *)
(*                                                                         *)
(* new_fanout and new_gossip_inf2 hold the reader side of sem_neighbour    *)
(* while they draw, so that nobody writes the buffer then; between two     *)
(* messages, and between the last one and age_plus_one, anybody may.       *)
(***************************************************************************)
EXTENDS Neighbour, FiniteSets

CONSTANTS
  Blank,        \* the address of a slot that was never filled, or was reset
  Fanout,       \* _FANOUT
  GossipNodes   \* _GOSSIP_NODI: the entries of a gossip information

ASSUME BlankAssumption == Blank \notin Peer
ASSUME FanoutAssumption == Fanout \in 1 .. MaxAge
ASSUME GossipAssumption == GossipNodes \in Nat /\ Fanout <= GossipNodes

VARIABLES
  rg,        \* where the RG thread is
  fanout,    \* buffer_fanout
  written,   \* how many messages of buffer_rg are written
  inf        \* the last one of them: a sequence of entries

(* The messages of a round are written one after the other, each from the  *)
(* buffer as it is then, so that following one at a time loses nothing.    *)

rgVars == <<nodi, rg, fanout, written, inf>>

message == <<written, inf>>

RGInit ==
  /\ Init
  /\ rg = "round"
  /\ fanout = <<>>
  /\ written = 0
  /\ inf = <<>>

(* The entries of the i youngest lists with their ages, youngest first.    *)
Entries[i \in 0 .. MaxAge] ==
  IF i = 0 THEN <<>>
  ELSE Entries[i - 1] \o [k \in 1 .. Len(nodi[i - 1]) |->
                            [peer |-> nodi[i - 1][k], age |-> i - 1]]

Peers(entries) == [k \in DOMAIN entries |-> entries[k].peer]

InSequence == Peers(Entries[MaxAge])

(* The slots a draw at this age can hit: an empty list gives its blank one.*)
Slots(age) == IF nodi[age] = <<>> THEN {Blank} ELSE Range(nodi[age])

-----------------------------------------------------------------------------
(* Mutant: the fanout of the last round is not reset.                      *)
ResetFanoutKept ==
  /\ rg = "round"
  /\ rg' = "fanout"
  /\ written' = 0
  /\ inf' = <<>>
  /\ UNCHANGED <<nodi, fanout>>

(* The senders of the last round are joined; reset_buffer_fanout, and the  *)
(* lock of new_fanout.  The old messages are dead from here on, and reset  *)
(* by new_buffer_rg.                                                       *)
ResetFanout ==
  /\ rg = "round"
  /\ rg' = "fanout"
  /\ fanout' = <<>>
  /\ written' = 0
  /\ inf' = <<>>
  /\ UNCHANGED nodi

(* new_fanout, when few peers are known: all of them, youngest first.      *)
CopyFanout ==
  /\ rg = "fanout"
  /\ Len(InSequence) <= Fanout
  /\ fanout' = InSequence
  /\ rg' = "inf"
  /\ UNCHANGED <<nodi, message>>

(* Mutant: a peer is drawn twice.                                          *)
DrawFanoutAgain ==
  /\ rg = "fanout"
  /\ Len(InSequence) > Fanout
  /\ \E age \in Ages : \E p \in Slots(age) : fanout' = Append(fanout, p)
  /\ rg' = IF Len(fanout') = Fanout THEN "inf" ELSE "fanout"
  /\ UNCHANGED <<nodi, message>>

(* new_fanout, otherwise: a random age, a random slot of that list; a peer *)
(* that is already in is drawn again.                                      *)
DrawFanout ==
  /\ rg = "fanout"
  /\ Len(InSequence) > Fanout
  /\ \E age \in Ages : \E p \in Slots(age) :
       fanout' = IF p \in Range(fanout) THEN fanout ELSE Append(fanout, p)
  /\ rg' = IF Len(fanout') = Fanout THEN "inf" ELSE "fanout"
  /\ UNCHANGED <<nodi, message>>

(* Mutant: every entry is told as fresh.                                   *)
CopyInfFresh ==
  /\ rg = "inf"
  /\ written < Len(fanout)
  /\ Len(InSequence) <= GossipNodes
  /\ written' = written + 1
  /\ inf' = [k \in DOMAIN Entries[MaxAge] |-> [Entries[MaxAge][k] EXCEPT !.age = 0]]
  /\ UNCHANGED <<nodi, rg, fanout>>

(* new_gossip_inf2, when few peers are known: all of them with their age.  *)
CopyInf ==
  /\ rg = "inf"
  /\ written < Len(fanout)
  /\ Len(InSequence) <= GossipNodes
  /\ written' = written + 1
  /\ inf' = Entries[MaxAge]
  /\ UNCHANGED <<nodi, rg, fanout>>

(* new_gossip_inf2, otherwise: lock, and start drawing.                    *)
StartInf ==
  /\ rg = "inf"
  /\ written < Len(fanout)
  /\ Len(InSequence) > GossipNodes
  /\ rg' = "draw"
  /\ inf' = <<>>
  /\ UNCHANGED <<nodi, fanout, written>>

(* new_gossip_inf2, drawing: from the younger ages only, until Fanout      *)
(* entries are in.                                                         *)
DrawInf ==
  /\ rg = "draw"
  /\ \E age \in 0 .. MaxAge - 2 : \E p \in Slots(age) :
       inf' = IF \E k \in DOMAIN inf : inf[k].peer = p THEN inf
              ELSE Append(inf, [peer |-> p, age |-> age])
  /\ IF Len(inf') = Fanout THEN rg' = "inf" /\ written' = written + 1
                           ELSE UNCHANGED <<rg, written>>
  /\ UNCHANGED <<nodi, fanout>>

(* age_plus_one, once every message is written; then the senders send them *)
(* until the next round begins.                                            *)
Age ==
  /\ rg = "inf"
  /\ written = Len(fanout)
  /\ AgePlusOne
  /\ rg' = "round"
  /\ UNCHANGED <<fanout, message>>

RG == ResetFanout \/ CopyFanout \/ DrawFanout \/ CopyInf \/ StartInf \/ DrawInf
      \/ Age

(* Mutant: new_fanout and new_gossip_inf2 draw without the lock.           *)
HelperAnytime ==
  /\ \/ \E p \in Peer : InsertPeer(p) \/ InsertSource(p) \/ DeletePeer(p)
     \/ \E p \in Peer, age \in 1 .. MaxAge : InsertListed(p, age)
  /\ UNCHANGED <<rg, fanout, message>>

(* The dispatchers' helpers: any writer of the neighbour buffer.           *)
Helper ==
  /\ rg \notin {"fanout", "draw"}
  /\ \/ \E p \in Peer : InsertPeer(p) \/ InsertSource(p) \/ DeletePeer(p)
     \/ \E p \in Peer, age \in 1 .. MaxAge : InsertListed(p, age)
  /\ UNCHANGED <<rg, fanout, message>>

RGNext == RG \/ Helper

RGSpec == RGInit /\ [][RGNext]_rgVars

-----------------------------------------------------------------------------
(* Each round talks to different peers, never to itself, and names each    *)
(* peer at most once in a message, however the buffer changed meanwhile;   *)
(* both fit in their arrays.                                               *)
DistinctDraws ==
  /\ IsInjective(fanout) /\ Self \notin Range(fanout)
  /\ IsInjective(Peers(inf)) /\ Self \notin Range(Peers(inf))
  /\ Len(fanout) <= Fanout /\ Len(inf) <= GossipNodes

(* The addresses a draw of DrawInf can bring.                              *)
Candidates == UNION {Slots(age) : age \in 0 .. MaxAge - 2}

(* A draw never runs out of addresses that it has not drawn yet, so that   *)
(* none repeats itself for ever with the lock held, except one from too    *)
(* few addresses (new_fanout, new_gossip_inf2).                            *)
NeverDrawnOut ==
  /\ rg = "fanout" /\ Len(InSequence) > Fanout =>
       \E age \in Ages : \E p \in Slots(age) : p \notin Range(fanout)
  /\ rg = "draw" /\ Cardinality(Candidates) >= Fanout =>
       \E p \in Candidates : p \notin Range(Peers(inf))

(* What is drawn are neighbours of the moment, all of them or as many as   *)
(* are asked for, of which the blank slot of empty lists takes one at      *)
(* most.                                                                   *)
Reaches(drawn) ==
  LET real == drawn \ {Blank}
  IN  /\ real \subseteq Known
      /\ real = Known \/ Cardinality(real) >= Fanout - 1

(* So a round talks to all neighbours or to Fanout - 1 at least, and its   *)
(* messages name as many, although draws from empty lists give blank       *)
(* addresses and others write the buffer between two draws.                *)
RoundReaches ==
  [][/\ rg = "fanout" /\ rg' = "inf" => Reaches(Range(fanout'))
     /\ written' > written => Reaches(Range(Peers(inf')))]_rgVars
=============================================================================
