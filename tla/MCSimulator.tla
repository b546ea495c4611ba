---------------------------- MODULE MCSimulator -----------------------------
(***************************************************************************)
(* What the simulator measures, against the graphs that its nodes form.    *)
(***************************************************************************)
EXTENDS Simulator

(* AgesDrawn wherever an age is drawn (random_age, random_age_buffer_rg).  *)
AgesDrawnWhenAsked == at \in {"fanout", "gossip"} => AgesDrawn

(* The nodes one step along the fanouts from S, and those r steps from it. *)
Successors(S) == UNION {{buffer_fanout[p][i] : i \in Slots} : p \in S}

Hops == RaggioQuery + HopsCopertura

After[r \in 0 .. Hops] ==
  [S \in SUBSET Node |-> IF r = 0 THEN S ELSE After[r - 1][Successors(S)]]

(* The nodes in the lists of S, at any age.                                *)
KnownTo(S) == UNION {UNION {RandomNeighbour(p, age) : age \in Ages} : p \in S}

(* dissemination_query counts the nodes within RaggioQuery steps;          *)
(* test_copertura_rete, asked any number of times, those in the lists, as  *)
(* they are after it aged them, of all within HopsCopertura - 1 steps.     *)
StatisticsReach ==
  /\ result.of = "query" =>
       result.nodi = UNION {After[r][{result.nodo}] : r \in 1 .. RaggioQuery}
  /\ result.of = "membership" =>
       result.nodi =
         KnownTo(UNION {After[r][{result.nodo}] : r \in 0 .. HopsCopertura - 1})
=============================================================================
