-------------------------------- MODULE Peer --------------------------------
(***************************************************************************)
(* The message handlers of dispatcher_msg.c.  Helper threads take messages *)
(* from one socket and handle them side by side; a handler is a sequence   *)
(* of steps, each under its own hold of the lock of one buffer: the ids    *)
(* seen (sem_message), the peers that left (sem_bye_peer), the neighbours  *)
(* (sem_neighbour), the list of messages to forward (sem_rs).  The gossip  *)
(* dispatcher and the RG thread change the same buffers meanwhile.         *)
(*                                                                         *)
(* The network is external: any message of Message arrives at any time, in *)
(* any order, any number of times.                                         *)
(***************************************************************************)
EXTENDS Neighbour, FiniteSets

CONSTANTS
  Message,      \* copies of messages: [id, kind, peer, age]
  NoMessage,    \* what a helper has that waits for one
  HelperMsg,    \* the helpers, 1 .. THREADS_MSG
  MaxMsm,       \* _MAX_MSM: the ids that can be remembered
  MaxByePeer,   \* _MAX_BYE_PEER: the departed peers that can be
  RaggioQuery,  \* _RAGGIO_QUERY: how far a query is forwarded
  Reachable     \* does connect succeed with every peer a message names?

ASSUME PeerAssumption ==
  /\ \A m \in Message :
       /\ m.kind \in {"ping", "bye", "query"}
       /\ m.peer \in Peer
       /\ m.age \in Nat
  /\ NoMessage \notin Message
  /\ MaxMsm \in Nat /\ MaxByePeer \in Nat /\ RaggioQuery \in Nat
  /\ Reachable \in BOOLEAN

VARIABLES
  buffer_message,   \* the ids seen
  bye_peer,         \* buffer_bye_peer
  helper,           \* where each helper is, and its message
  forwarded,        \* the copies handed to the round-speed buffer
  up                \* is the process running?

vars == <<nodi, buffer_message, bye_peer, helper, forwarded, up>>

Idle == [at |-> "accept", msg |-> NoMessage]

(* bootstrap *)
PeerInit ==
  /\ Init
  /\ buffer_message = {}
  /\ bye_peer = {}
  /\ helper = [h \in HelperMsg |-> Idle]
  /\ forwarded = {}
  /\ up = TRUE

Msg(h) == helper[h].msg

Goto(h, from, to) ==
  /\ up
  /\ helper[h].at = from
  /\ helper' = [helper EXCEPT ![h] = IF to = "accept" THEN Idle
                                            ELSE [at |-> to, msg |-> Msg(h)]]

-----------------------------------------------------------------------------
(* accept, recv; sem_accept_msg admits one helper at a time.               *)
Accept(h) ==
  /\ up
  /\ helper[h].at = "accept"
  /\ \E m \in Message : helper' = [helper EXCEPT ![h] = [at |-> "seen", msg |-> m]]
  /\ UNCHANGED <<nodi, buffer_message, bye_peer, forwarded, up>>

(* Mutants: the buffer has no limit; the id is only searched.              *)
SearchInsertIdOver(h) ==
  /\ helper[h].at = "seen"
  /\ IF Msg(h).id \in buffer_message
     THEN Goto(h, "seen", "accept") /\ UNCHANGED buffer_message
     ELSE /\ Goto(h, "seen", IF Msg(h).kind = "bye" THEN "insert_bye" ELSE "search_bye")
          /\ buffer_message' = buffer_message \cup {Msg(h).id}
  /\ UNCHANGED <<nodi, bye_peer, forwarded, up>>

SearchId(h) ==
  /\ helper[h].at = "seen"
  /\ Goto(h, "seen", CASE Msg(h).id \in buffer_message -> "accept"
                       [] Msg(h).kind = "bye" -> "insert_bye"
                       [] OTHER -> "search_bye")
  /\ UNCHANGED <<nodi, buffer_message, bye_peer, forwarded, up>>

(* searchInsert_id_buffer_message: a message seen before is thrown away; a *)
(* new one is handled, and remembered if there is room.                    *)
SearchInsertId(h) ==
  /\ helper[h].at = "seen"
  /\ IF Msg(h).id \in buffer_message
     THEN Goto(h, "seen", "accept") /\ UNCHANGED buffer_message
     ELSE /\ Goto(h, "seen", IF Msg(h).kind = "bye" THEN "insert_bye" ELSE "search_bye")
          /\ buffer_message' = IF Cardinality(buffer_message) < MaxMsm
                               THEN buffer_message \cup {Msg(h).id} ELSE buffer_message
  /\ UNCHANGED <<nodi, bye_peer, forwarded, up>>

(* helper_ping and helper_query: search_buffer_bye_peer.                   *)
SearchBye(h) ==
  /\ helper[h].at = "search_bye"
  /\ \/ /\ Msg(h).kind = "ping"
        /\ Goto(h, "search_bye", IF Msg(h).peer \in bye_peer THEN "delete_bye" ELSE "insert")
     \/ /\ Msg(h).kind = "query"
        /\ Goto(h, "search_bye", IF Msg(h).peer \in bye_peer THEN "accept" ELSE "answer")
  /\ UNCHANGED <<nodi, buffer_message, bye_peer, forwarded, up>>

(* helper_ping: delete_bye_peer.                                           *)
DeleteBye(h) ==
  /\ Goto(h, "delete_bye", "insert")
  /\ bye_peer' = bye_peer \ {Msg(h).peer}
  /\ UNCHANGED <<nodi, buffer_message, forwarded, up>>

(* helper_ping: the sender becomes a neighbour and gets a pong, always if  *)
(* it pinged this peer itself; else if random_age (1 .. _MAX_AGE - 1) hits *)
(* the age of the ping.                                                    *)
InsertPing(h) ==
  /\ Goto(h, "insert", "pong")
  /\ Msg(h).age \in 0 .. MaxAge - 1
  /\ InsertPeer(Msg(h).peer)
  /\ UNCHANGED <<buffer_message, bye_peer, forwarded, up>>

NoPong(h) ==
  /\ Goto(h, "insert", "forward")
  /\ Msg(h).age > 0
  /\ UNCHANGED <<nodi, buffer_message, bye_peer, forwarded, up>>

(* connect; when the peer is gone: exit(4).                                *)
Exit ==
  /\ up' = FALSE
  /\ UNCHANGED <<nodi, buffer_message, bye_peer, helper, forwarded>>

Pong(h) ==
  /\ Goto(h, "pong", "forward")
  /\ UNCHANGED <<nodi, buffer_message, bye_peer, forwarded, up>>

PongFails(h) ==
  /\ up
  /\ helper[h].at = "pong"
  /\ ~ Reachable
  /\ Exit

(* helper_bye: searchInsert_buffer_bye_peer.                               *)
InsertBye(h) ==
  /\ Goto(h, "insert_bye", "search")
  /\ bye_peer' = IF Cardinality(bye_peer) < MaxByePeer
                 THEN bye_peer \cup {Msg(h).peer} ELSE bye_peer
  /\ UNCHANGED <<nodi, buffer_message, forwarded, up>>

(* Mutant: only the youngest list is searched.                             *)
SearchPeerYoung(h) ==
  /\ Goto(h, "search", IF Msg(h).peer \in Range(nodi[0]) THEN "delete" ELSE "forward")
  /\ UNCHANGED <<nodi, buffer_message, bye_peer, forwarded, up>>

(* helper_bye: search_peer_buffer_neighbour, delete_peer_buffer_neighbour. *)
SearchPeer(h) ==
  /\ Goto(h, "search", IF Msg(h).peer \in Known THEN "delete" ELSE "forward")
  /\ UNCHANGED <<nodi, buffer_message, bye_peer, forwarded, up>>

Delete(h) ==
  /\ Goto(h, "delete", "forward")
  /\ DeletePeer(Msg(h).peer)
  /\ UNCHANGED <<buffer_message, bye_peer, forwarded, up>>

(* helper_query: a query hit if this peer has the file (else, nothing);    *)
(* search_hash_buffer_neighbour, and a thread for each neighbour that has  *)
(* it.  Nobody has it, or somebody does.                                   *)
AnswerNobody(h) ==
  /\ Goto(h, "answer", "forward")
  /\ UNCHANGED <<nodi, buffer_message, bye_peer, forwarded, up>>

AnswerThreads(h) ==
  /\ Known # {}
  /\ Goto(h, "answer", "forward_join")
  /\ UNCHANGED <<nodi, buffer_message, bye_peer, forwarded, up>>

HitFails(h) ==
  /\ up
  /\ helper[h].at = "answer"
  /\ ~ Reachable
  /\ Exit

(* The thread it starts is func_helper_msg, with a pointer where the       *)
(* listening socket should be: once sem_accept_msg lets it, accept fails   *)
(* and it calls exit(1).                                                   *)
AcceptFails(h) ==
  /\ up
  /\ helper[h].at \in {"forward_join", "join"}
  /\ Exit

Radius(m) == IF m.kind = "query" THEN RaggioQuery ELSE MaxAge

(* insert_messageRS with the age incremented, unless it has come far       *)
(* enough; a query with threads then joins them, for ever.                 *)
Forward(h) ==
  /\ \/ Goto(h, "forward", "accept")
     \/ Goto(h, "forward_join", "join")
  /\ forwarded' = IF Msg(h).age < Radius(Msg(h)) THEN forwarded \cup {Msg(h)} ELSE forwarded
  /\ UNCHANGED <<nodi, buffer_message, bye_peer, up>>

HelperStep(h) ==
  \/ SearchInsertId(h) \/ SearchBye(h) \/ DeleteBye(h)
  \/ InsertPing(h) \/ NoPong(h) \/ Pong(h) \/ PongFails(h)
  \/ InsertBye(h) \/ SearchPeer(h) \/ Delete(h)
  \/ AnswerNobody(h) \/ AnswerThreads(h) \/ HitFails(h) \/ AcceptFails(h)
  \/ Forward(h)

-----------------------------------------------------------------------------
(* What needs one step only: a pong (helper_pong), one peer of a gossip    *)
(* information (func_helper_inf), the round's age_plus_one, and the        *)
(* deletion of what is dated; which ids and peers are is left open.        *)
Others == UNCHANGED <<helper, forwarded, up>>

HelperPong(p) ==
  /\ up
  /\ InsertPeer(p)
  /\ UNCHANGED <<buffer_message, bye_peer>>
  /\ Others

HelperInf(p, age) ==
  /\ up
  /\ Refresh(p, age)
  /\ UNCHANGED <<buffer_message, bye_peer>>
  /\ Others

Round ==
  /\ up
  /\ AgePlusOne
  /\ UNCHANGED <<buffer_message, bye_peer>>
  /\ Others

DeleteDatedMsg ==
  /\ up
  /\ \E dated \in SUBSET buffer_message : buffer_message' = buffer_message \ dated
  /\ UNCHANGED <<nodi, bye_peer>>
  /\ Others

DeleteDatedBye ==
  /\ up
  /\ \E dated \in SUBSET bye_peer : bye_peer' = bye_peer \ dated
  /\ UNCHANGED <<nodi, buffer_message>>
  /\ Others

PeerNext ==
  \/ \E h \in HelperMsg : Accept(h) \/ HelperStep(h)
  \/ \E p \in Peer : HelperPong(p)
  \/ \E p \in Peer, age \in 0 .. MaxAge : HelperInf(p, age)
  \/ Round \/ DeleteDatedMsg \/ DeleteDatedBye

PeerSpec == PeerInit /\ [][PeerNext]_vars

-----------------------------------------------------------------------------
Places == {"accept", "seen", "search_bye", "delete_bye", "insert", "pong", "insert_bye",
           "search", "delete", "answer", "forward", "forward_join", "join"}

(* Every variable has its type, and fits in its buffer.                    *)
PeerTypeOK ==
  /\ TypeOK
  /\ buffer_message \subseteq {m.id : m \in Message}
  /\ Cardinality(buffer_message) <= MaxMsm
  /\ bye_peer \subseteq Peer
  /\ Cardinality(bye_peer) <= MaxByePeer
  /\ helper \in [HelperMsg -> [at : Places, msg : Message \cup {NoMessage}]]
  /\ forwarded \subseteq Message
  /\ up \in BOOLEAN

(* No message of another peer ends this one's process.                     *)
StaysUp == up
=============================================================================
