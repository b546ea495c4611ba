----------------------------- MODULE Neighbour -----------------------------
(***************************************************************************)
(* buffer_neighbour: the peers this peer knows, in _MAX_AGE lists by the   *)
(* age of the last news of each.  Every operation runs under the writer    *)
(* side of sem_neighbour (WritersReader), so each is one action here, and  *)
(* the threads of the peer call them in any order.                         *)
(*                                                                         *)
(* A peer stands for its address together with the file hashes its slot    *)
(* carries, which every operation moves along with it.                     *)
(***************************************************************************)
EXTENDS Integers, SequencesExt

CONSTANTS Peer,     \* the addresses that can occur in a message
          Self,     \* the address of this peer
          MaxAge,   \* _MAX_AGE: the number of lists, and what fills one
          VistaAge  \* _VISTA_AGE: the slots of a list

ASSUME SelfAssumption == Self \in Peer
ASSUME AgeAssumption == MaxAge \in Nat \ {0} /\ VistaAge \in Nat /\ MaxAge <= VistaAge

VARIABLE nodi       \* nodi[i]: the list of age i (nodiAge[i], limit[i])

Ages == 0 .. MaxAge - 1

Init == nodi = [i \in Ages |-> <<>>]

Known == UNION {Range(nodi[i]) : i \in Ages}

(* Where the double loop of every search finds p.                          *)
FirstAt(p, i, k) ==
  /\ p = nodi[i][k]
  /\ \A m \in 1 .. k - 1 : nodi[i][m] # p
  /\ \A j \in 0 .. i - 1 : p \notin Range(nodi[j])

Without(i, k) == [nodi EXCEPT ![i] = RemoveAt(@, k)]

(* Append p to the youngest list from age on that is not full, if any is.  *)
Insert(b, p, age) ==
  LET room == {i \in age .. MaxAge - 1 : Len(b[i]) < MaxAge}
  IN  IF room = {} THEN b ELSE [b EXCEPT ![Min(room)] = Append(@, p)]

-----------------------------------------------------------------------------
(* Mutant: the peer is not searched first.                                 *)
InsertPeerUnsearched(p) == nodi' = IF p = Self THEN nodi ELSE Insert(nodi, p, 0)

(* insert_peer_BNeighbour: from a ping or a pong.                          *)
InsertPeer(p) ==
  nodi' = IF p = Self \/ p \in Known THEN nodi ELSE Insert(nodi, p, 0)

(* Mutant: older news moves the peer as well.                              *)
RefreshOlder(p, age) ==
  \/ /\ p # Self
     /\ p \notin Known
     /\ nodi' = Insert(nodi, p, age)
  \/ /\ p # Self
     /\ \E i \in Ages : \E k \in 1 .. Len(nodi[i]) :
          FirstAt(p, i, k) /\ nodi' = Insert(Without(i, k), p, age)

(* News of p that is age rounds old: kept unless the buffer has fresher.   *)
Refresh(p, age) ==
  \/ /\ p = Self
     /\ UNCHANGED nodi
  \/ /\ p # Self
     /\ p \notin Known
     /\ nodi' = Insert(nodi, p, age)
  \/ /\ p # Self
     /\ \E i \in Ages : \E k \in 1 .. Len(nodi[i]) :
          /\ FirstAt(p, i, k)
          /\ nodi' = IF i <= age THEN nodi ELSE Insert(Without(i, k), p, age)

(* insert_sorgente_gossipInf: the sender of a gossip information.          *)
InsertSource(p) == Refresh(p, 0)

(* insert_peer_gossipInf: a peer listed in one.                            *)
InsertListed(p, age) == Refresh(p, age)

(* delete_peer_buffer_neighbour: p said bye.                               *)
DeletePeer(p) ==
  \/ /\ p \notin Known
     /\ UNCHANGED nodi
  \/ \E i \in Ages : \E k \in 1 .. Len(nodi[i]) :
       /\ FirstAt(p, i, k)
       /\ nodi' = Without(i, k)

(* age_plus_one: a round went by; the oldest list is forgotten.            *)
AgePlusOne == nodi' = [i \in Ages |-> IF i = 0 THEN <<>> ELSE nodi[i - 1]]

(* A list of a received message holds ages up to MaxAge - 1, and           *)
(* func_helper_inf adds one.                                               *)
Next ==
  \/ \E p \in Peer : InsertPeer(p) \/ InsertSource(p) \/ DeletePeer(p)
  \/ \E p \in Peer, age \in 1 .. MaxAge : InsertListed(p, age)
  \/ AgePlusOne

Spec == Init /\ [][Next]_nodi

-----------------------------------------------------------------------------
(* Each list is a sequence of peers that fits in its slots.                *)
TypeOK ==
  /\ nodi \in [Ages -> Seq(Peer)]
  /\ \A i \in Ages : Len(nodi[i]) <= VistaAge

(* A peer is in the buffer at most once, whatever mix of pings, pongs,     *)
(* gossip and byes named it: its age is well defined, and deleting it once *)
(* removes it.                                                             *)
NoDuplicates ==
  \A i, j \in Ages : \A k \in 1 .. Len(nodi[i]), l \in 1 .. Len(nodi[j]) :
    nodi[i][k] = nodi[j][l] => i = j /\ k = l

(* The peer never gossips with itself.                                     *)
NotSelf == Self \notin Known

HasAge(p, i) == p \in Range(nodi[i])

(* Only a round makes a peer older and only a bye, or its last round,      *)
(* removes it: news of a peer, its own or of others, old or fresh, neither *)
(* ages it nor pushes it out, even when every list is full.                *)
Fresher(p) == \A i \in Ages : HasAge(p, i) => \E j \in 0 .. i : HasAge(p, j)'

NewsKeepsFresh ==
  [][\/ AgePlusOne
     \/ \A p \in Peer : Fresher(p)
     \/ \E q \in Peer : /\ DeletePeer(q)
                        /\ q \notin Known'
                        /\ \A p \in Peer \ {q} : Fresher(p)]_nodi
=============================================================================
