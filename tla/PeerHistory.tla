---------------------------- MODULE PeerHistory ----------------------------
(***************************************************************************)
(* Peer with two histories: the ids handled and not forgotten since, and   *)
(* the peers that did not come back into the neighbour buffer since their  *)
(* bye was stored.                                                         *)
(***************************************************************************)
EXTENDS Peer

VARIABLES handled, gone

hVars == <<vars, handled, gone>>

(* h finds that its message is new.                                        *)
Handles(h) == helper[h].at = "seen" /\ helper'[h].at \in {"search_bye", "insert_bye"}

Room == Cardinality(buffer_message) < MaxMsm

StoresBye(h) == helper[h].at = "insert_bye" /\ helper'[h].at = "search"

HInit == PeerInit /\ handled = {} /\ gone = {}

HNext ==
  /\ PeerNext
  /\ handled' = (handled \cup {Msg(h).id : h \in {g \in HelperMsg : Handles(g) /\ Room}})
                \ (buffer_message \ buffer_message')
  /\ gone' = (gone \cup {Msg(h).peer : h \in {g \in HelperMsg : StoresBye(g)}})
             \ (Known' \ Known)

HSpec == HInit /\ [][HNext]_hVars

(* Of the copies of a message that arrive together at several helpers one  *)
(* is handled, and no other as long as its id is remembered.               *)
HandledOnce == [][\A h \in HelperMsg : Handles(h) => Msg(h).id \notin handled]_hVars

(* A peer that said bye stays out of the neighbour buffer until something  *)
(* puts it there again, although other helpers may do so between the steps *)
(* of helper_bye: a peer that is still in is about to be deleted.          *)
ByeTakesEffect ==
  \A p \in gone \cap Known :
    \E h \in HelperMsg : helper[h].at \in {"search", "delete"} /\ Msg(h).peer = p
=============================================================================
