------------------------------- MODULE RWLock -------------------------------
(***************************************************************************)
(* What the locks of sincronization.c promise their callers: any number of *)
(* threads read together, a writer is alone.  Two_rooms is the case where  *)
(* every caller is a writer.                                               *)
(***************************************************************************)
CONSTANTS Thread,
          Mode      \* the modes the callers ask for: "read", "write"

VARIABLE phase   \* phase[p]: <<"idle">>, <<"wants", m>> or <<"has", m>>

Phases == {<<"idle">>} \cup ({"wants", "has"} \X Mode)

Init == phase = [p \in Thread |-> <<"idle">>]

Request(p, m) ==
  /\ phase[p] = <<"idle">>
  /\ phase' = [phase EXCEPT ![p] = <<"wants", m>>]

Compatible(m, n) == m = "read" /\ n = "read"

Acquire(p, m) ==
  /\ phase[p] = <<"wants", m>>
  /\ \A q \in Thread, n \in Mode : phase[q] = <<"has", n>> => Compatible(m, n)
  /\ phase' = [phase EXCEPT ![p] = <<"has", m>>]

Release(p, m) ==
  /\ phase[p] = <<"has", m>>
  /\ phase' = [phase EXCEPT ![p] = <<"idle">>]

Next == \E p \in Thread, m \in Mode : Request(p, m) \/ Acquire(p, m) \/ Release(p, m)

Spec == Init /\ [][Next]_phase
=============================================================================
