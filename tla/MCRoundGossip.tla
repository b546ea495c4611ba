--------------------------- MODULE MCRoundGossip ---------------------------
(***************************************************************************)
(* RoundGossip with a history of the peers that said bye since the last    *)
(* fanout was drawn.                                                       *)
(***************************************************************************)
EXTENDS RoundGossip, TLC

VARIABLE byes

mcVars == <<rgVars, byes>>

MCInit == RGInit /\ byes = {}

MCNext ==
  /\ RGNext
  /\ byes' = IF rg = "fanout" THEN {}
             ELSE IF Helper THEN byes \cup (Known \ Known') ELSE byes

MCSpec == MCInit /\ [][MCNext]_mcVars

(* No property tells the other peers apart.                                *)
PeerSymmetry == Permutations(Peer \ {Self})

(* The age of the last news of p; MaxAge once it is forgotten.             *)
AgeOf(p) == IF \E i \in Ages : HasAge(p, i)
            THEN CHOOSE i \in Ages : HasAge(p, i) ELSE MaxAge

(* A peer never tells others fresher news than it has: when the messages   *)
(* leave, the receiver's age of a listed peer (the age told, plus one) is  *)
(* no less than the sender's own, unless the peer left in between.         *)
ToldNotFresher ==
  rg = "round" =>
    \A k \in DOMAIN inf :
      inf[k].peer \in byes \cup {Blank} \/ AgeOf(inf[k].peer) <= inf[k].age + 1
=============================================================================
