----------------------------- MODULE MCTwoRooms -----------------------------
(***************************************************************************)
(* TwoRooms with a history of overtaking: bypass[p][q] is how often q took *)
(* the lock since p counted itself into room1.                             *)
(***************************************************************************)
EXTENDS TwoRooms

VARIABLE bypass

mcVars == <<vars, bypass>>

Counted(p) == pc[p] \notin {"out", "enter_mutex", "enter_room1", "critical", "unlock"}

Takes(q) == pc[q] # "critical" /\ pc'[q] = "critical"

MCInit == Init /\ bypass = [p \in Thread |-> [q \in Thread |-> 0]]

MCNext ==
  /\ Next
  /\ bypass' = [p \in Thread |-> [q \in Thread |->
       IF ~ Counted(p) THEN 0
       ELSE IF Takes(q) /\ p # q THEN bypass[p][q] + 1 ELSE bypass[p][q]]]

MCSpec == MCInit /\ [][MCNext]_mcVars

MCFairSpec ==
  /\ MCSpec
  /\ \A p \in Thread : WF_vars(Lock(p) \/ Critical(p) \/ Unlock(p))

(* Bounded waiting: once counted in room1, a thread is overtaken at most   *)
(* twice by any other: once from the room2 batch in progress, once from    *)
(* the next batch, which it belongs to.                                    *)
BoundedBypass == \A p, q \in Thread : bypass[p][q] <= 2
=============================================================================
