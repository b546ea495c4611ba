----------------------------- MODULE BootServer -----------------------------
(***************************************************************************)
(* The bootstrap server: helper threads answer each ping of a peer that    *)
(* wants to join with the addresses of peers that joined before.  A helper *)
(* searches the asker, registers it if it is new, and composes the answer, *)
(* each under its own hold of sem_buf_nodi (WritersReader).                *)
(*                                                                         *)
(* The peers are external: each asks again and again (bootstrap2_ciclic),  *)
(* and waits for an answer before it asks again.                           *)
(***************************************************************************)
EXTENDS BootNodes, SequencesExt

CONSTANT
  Thread       \* the helper threads, 1 .. THREADS_BOOT

ASSUME ServerAssumption == 0 < ServerNodi /\ ServerNodi < NNodi

VARIABLES
  nodi,    \* buffer_nodi
  at,      \* where each helper is
  asker,   \* the peer it is serving
  answer,  \* answer[t]: the message it composes (limit, boot_neighbour)
  index    \* index[t]: the places in nodi it drew so far

vars == <<nodi, at, asker, answer, index>>

NoAnswer == [limit |-> 0, nodes |-> <<>>]

(* init_buffer_nodi *)
Init ==
  /\ nodi = <<>>
  /\ at = [t \in Thread |-> "accept"]
  /\ asker \in [Thread -> Peer]
  /\ answer = [t \in Thread |-> NoAnswer]
  /\ index = [t \in Thread |-> <<>>]

Goto(t, from, to) == at[t] = from /\ at' = [at EXCEPT ![t] = to]

Served == {asker[t] : t \in {u \in Thread : at[u] # "accept"}}

(* A helper that draws holds the reader side: nobody registers meanwhile.  *)
Writable == \A t \in Thread : at[t] # "draw"

-----------------------------------------------------------------------------
(* A ping of p arrives (external: p has no other one under way).           *)
Accept(t, p) ==
  /\ Goto(t, "accept", "search")
  /\ p \notin Served
  /\ asker' = [asker EXCEPT ![t] = p]
  /\ UNCHANGED <<nodi, answer, index>>

(* Mutant: nobody is ever found.                                           *)
SearchNobody(t) ==
  /\ Goto(t, "search", "register")
  /\ UNCHANGED <<nodi, asker, answer, index>>

(* Mutant: everybody is found, and answered without being registered.      *)
SearchEverybody(t) ==
  /\ Goto(t, "search", "compose")
  /\ UNCHANGED <<nodi, asker, answer, index>>

(* search_nodo *)
Search(t) ==
  /\ Goto(t, "search", IF asker[t] \in Range(nodi) THEN "compose" ELSE "register")
  /\ UNCHANGED <<nodi, asker, answer, index>>

(* iscrizione *)
Iscrizione(t) ==
  /\ Goto(t, "register", "compose")
  /\ Writable
  /\ nodi' = IF Len(nodi) < NNodi THEN Append(nodi, asker[t]) ELSE nodi
  /\ UNCHANGED <<asker, answer, index>>

(* The registered peers but p, in the order they came.                     *)
Others(p) ==
  LET first[n \in 0 .. Len(nodi)] ==
        IF n = 0 THEN <<>>
        ELSE IF nodi[n] = p THEN first[n - 1] ELSE Append(first[n - 1], nodi[n])
  IN  first[Len(nodi)]

(* Mutant: the asker is not deducted from the peers to choose from.        *)
ComposeCountsAsker(t) ==
  /\ IF Len(nodi) < ServerNodi
     THEN LET others == Others(asker[t])
          IN  /\ answer' = [answer EXCEPT ![t] = [limit |-> Len(others), nodes |-> others]]
              /\ Goto(t, "compose", "send")
     ELSE /\ answer' = [answer EXCEPT ![t] = NoAnswer]
          /\ Goto(t, "compose", "draw")
  /\ UNCHANGED <<nodi, asker, index>>

(* set_Gserver_nodi: everybody but the asker when they fit.                *)
Compose(t) ==
  /\ IF Len(nodi) - 1 < ServerNodi
     THEN LET others == Others(asker[t])
          IN  /\ answer' = [answer EXCEPT ![t] = [limit |-> Len(others), nodes |-> others]]
              /\ Goto(t, "compose", "send")
     ELSE /\ answer' = [answer EXCEPT ![t] = NoAnswer]
          /\ Goto(t, "compose", "draw")
  /\ UNCHANGED <<nodi, asker, index>>

(* Add the peer in place k of nodi to the answer.                         *)
Add(t, k) ==
  /\ index' = [index EXCEPT ![t] = Append(@, k)]
  /\ answer' = [answer EXCEPT ![t].nodes = Append(@, nodi[k])]
  /\ Goto(t, "draw", IF Len(index'[t]) = ServerNodi THEN "send" ELSE "draw")
  /\ UNCHANGED <<nodi, asker>>

(* set_Gserver_nodi, when they do not fit: a random place; one already     *)
(* drawn is drawn again, and so is the asker's, except that the loop that  *)
(* compares does not run for the first one.  limit is left at zero.        *)
Draw(t) ==
  \E k \in DOMAIN nodi :
    /\ k \notin Range(index[t])
    /\ index[t] # <<>> => nodi[k] # asker[t]
    /\ Add(t, k)

(* send, and back to accept *)
Send(t) ==
  /\ Goto(t, "send", "accept")
  /\ answer' = [answer EXCEPT ![t] = NoAnswer]
  /\ index' = [index EXCEPT ![t] = <<>>]
  /\ UNCHANGED <<nodi, asker>>

Answer(t) ==
  Search(t) \/ Iscrizione(t) \/ Compose(t) \/ Draw(t) \/ Send(t)

Next == \E t \in Thread : Answer(t) \/ \E p \in Peer : Accept(t, p)

Spec == Init /\ [][Next]_vars

-----------------------------------------------------------------------------
(* A peer is registered once, although helpers search and register under   *)
(* two separate holds of the lock, and the peers fit in the buffer.        *)
RegisteredOnce == IsInjective(nodi) /\ Len(nodi) <= NNodi

(* A helper that draws, while others search, register and answer, always   *)
(* has a place left to draw that is not its asker's: the registered peers, *)
(* the asker among them or not, are more than an answer takes.             *)
PlaceLeft ==
  \A t \in Thread : at[t] = "draw" =>
    \E k \in DOMAIN nodi : k \notin Range(index[t]) /\ nodi[k] # asker[t]

(* What the peers see of the server: who is registered, and what the       *)
(* answer to each announces (the asker reads limit entries).               *)
Announced(t) == {answer[t].nodes[k] : k \in 1 .. answer[t].limit}

RequestOf(p) ==
  LET serving == {t \in Thread : at[t] # "accept" /\ asker[t] = p}
      t == CHOOSE u \in serving : TRUE
  IN  IF serving = {} THEN <<"none">>
      ELSE IF at[t] = "send" THEN <<"told", Announced(t)>> ELSE <<"asked">>

Requests == [p \in Peer |-> RequestOf(p)]

Service == INSTANCE BootService WITH known <- Range(nodi), request <- Requests

(* Helpers that search, register, compose and draw under separate holds of *)
(* the lock serve the peers as BootService says: whoever is answered is    *)
(* registered, if there is room, and is told all the others or nobody.     *)
ImplementsService == Service!ServiceSpec
=============================================================================
