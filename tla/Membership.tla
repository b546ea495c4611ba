----------------------------- MODULE Membership -----------------------------
(***************************************************************************)
(* What the network knows of one peer q that leaves it or ends: the peers  *)
(* that stay, the gossip in which they tell each other of q, and the       *)
(* copies of the ping and of the bye of q that they forward.  How one peer *)
(* handles these messages step by step is in Peer, how it draws its fanout *)
(* and what it tells in RoundGossip; here each handler is one step.        *)
(*                                                                         *)
(* A message is in net from the step that decides to send it until it is   *)
(* handled: the time it waits in buffer_rs, in a sender thread and in a    *)
(* socket is one.  Its connection fails when the receiver has ended; the   *)
(* sender's process then exits.  Ids and byes are forgotten after a time,  *)
(* here in any round, and a full buffer does not take them.                *)
(***************************************************************************)
EXTENDS Integers, FiniteSets

CONSTANTS
  Peer,    \* the peers that stay
  q,       \* the one that does not
  MaxAge,  \* _MAX_AGE, for neighbours and for messages
  Fanout,  \* _FANOUT
  MaxNet   \* bound: how many messages are under way at once

ASSUME MembershipAssumption ==
  q \notin Peer /\ MaxAge \in Nat \ {0} /\ Fanout \in Nat /\ MaxNet \in Nat

VARIABLES
  up,    \* whose process runs
  news,  \* news[p]: the age at which q is a neighbour of p, or MaxAge
  bye,   \* who has q in buffer_bye_peer
  seen,  \* seen[p]: which messages of q p has in buffer_message
  net    \* what was sent and not handled

vars == <<up, news, bye, seen, net>>

Process == Peer \cup {q}
Flood == {"ping", "bye"}

(* The news of q in a gossip information: its age, and -1 in q's own, so   *)
(* that the receiver adds 1 to each.                                       *)
Message ==
  [kind : {"inf"}, from : Process, to : Process, age : -1 .. MaxAge - 1]
  \cup [kind : Flood, from : Process, to : Peer, age : 0 .. MaxAge]

Send(kind, from, S, age) == [kind : {kind}, from : {from}, to : S, age : {age}]

(* Any peers but p itself and q may be in the fanout of p.                 *)
Fanouts(p) == {F \in SUBSET (Peer \ {p}) : Cardinality(F) <= Fanout}

TypeOK ==
  /\ up \subseteq Process /\ bye \subseteq Peer
  /\ news \in [Peer -> 0 .. MaxAge]
  /\ seen \in [Peer -> SUBSET Flood]
  /\ net \subseteq Message

(* q has pinged some of the peers, which do not know it yet.               *)
Init ==
  /\ up = Process
  /\ news = [p \in Peer |-> MaxAge]
  /\ bye = {}
  /\ seen = [p \in Peer |-> {}]
  /\ \E S \in SUBSET Peer : Cardinality(S) <= MaxNet /\ net = Send("ping", q, S, 0)

-----------------------------------------------------------------------------
(* The RG thread: new_fanout and new_buffer_rg, age_plus_one, the senders, *)
(* and the helpers that delete what is dated.  Gossip that does not tell   *)
(* of q changes nothing here.                                              *)
Contact(p) ==
  \/ UNCHANGED net
  \/ /\ news[p] < MaxAge
     /\ \E S \in Fanouts(p) :
          \/ net' = net \cup Send("inf", p, S, news[p])
          \/ /\ Cardinality(S) < Fanout
             /\ net' = net \cup Send("inf", p, S \cup {q}, news[p])

Round(p) ==
  /\ p \in up
  /\ Contact(p)
  /\ news' = [news EXCEPT ![p] = IF @ < MaxAge THEN @ + 1 ELSE MaxAge]
  /\ \E kept \in SUBSET seen[p] : seen' = [seen EXCEPT ![p] = kept]
  /\ bye' \in {bye, bye \ {p}}
  /\ Cardinality(net') <= MaxNet
  /\ UNCHANGED up

-----------------------------------------------------------------------------
(* exit(4) of p, when it cannot connect: all it knew is gone.              *)
Exit(p) ==
  /\ up' = up \ {p}
  /\ news' = [news EXCEPT ![p] = MaxAge]
  /\ bye' = bye \ {p}
  /\ seen' = [seen EXCEPT ![p] = {}]

(* Fresher news moves q to its age or, where that list is full, to an      *)
(* older one or out.                                                       *)
Insert(p, age) ==
  IF age < news[p]
  THEN \E i \in age .. MaxAge : news' = [news EXCEPT ![p] = i]
  ELSE UNCHANGED news

(* Mutant: news keeps the age that it is told with.                        *)
HelperInfSame(m) ==
  /\ m.kind = "inf"
  /\ Insert(m.to, IF m.age < 0 THEN 0 ELSE m.age)
  /\ net' = net \ {m}
  /\ UNCHANGED <<up, bye, seen>>

HelperInf(m) ==
  /\ m.kind = "inf"
  /\ Insert(m.to, m.age + 1)
  /\ net' = net \ {m}
  /\ UNCHANGED <<up, bye, seen>>

(* A message that was not seen is remembered, if there is room.            *)
New(m) ==
  /\ m.kind \notin seen[m.to]
  /\ seen' \in {seen, [seen EXCEPT ![m.to] = @ \cup {m.kind}]}

Seen(m) ==
  /\ m.kind \in seen[m.to]
  /\ net' = net \ {m}
  /\ UNCHANGED <<up, news, bye, seen>>

(* Mutant: it goes on as it came, as insert_mymessageRS would have it.     *)
InsertMyMessageRS(m) ==
  IF m.age < MaxAge
  THEN \E F \in Fanouts(m.to) :
         /\ net' = (net \ {m}) \cup Send(m.kind, m.to, F, m.age)
         /\ Cardinality(net') <= MaxNet
  ELSE net' = net \ {m}

(* A message goes on to the fanout, unless it has come too far.            *)
InsertMessageRS(m) ==
  IF m.age < MaxAge
  THEN \E F \in Fanouts(m.to) :
         /\ net' = (net \ {m}) \cup Send(m.kind, m.to, F, m.age + 1)
         /\ Cardinality(net') <= MaxNet
  ELSE net' = net \ {m}

(* helper_ping: q is no longer one that said bye; a ping that comes from q *)
(* itself is answered, one that has not come MaxAge far by chance.         *)
Answer(m) ==
  /\ m.kind = "ping" /\ m.age < MaxAge /\ q \in up
  /\ New(m)
  /\ bye' = bye \ {m.to}
  /\ Insert(m.to, 0)
  /\ InsertMessageRS(m)
  /\ UNCHANGED up

AnswerFails(m) ==
  /\ m.kind = "ping" /\ m.age < MaxAge /\ q \notin up
  /\ m.kind \notin seen[m.to]
  /\ Exit(m.to)
  /\ net' = net \ {m}

NoAnswer(m) ==
  /\ m.kind = "ping" /\ m.age > 0
  /\ New(m)
  /\ bye' = bye \ {m.to}
  /\ InsertMessageRS(m)
  /\ UNCHANGED <<up, news>>

HelperPing(m) == Answer(m) \/ AnswerFails(m) \/ NoAnswer(m)

HelperBye(m) ==
  /\ m.kind = "bye"
  /\ New(m)
  /\ bye' \in {bye, bye \cup {m.to}}
  /\ news' = [news EXCEPT ![m.to] = MaxAge]
  /\ InsertMessageRS(m)
  /\ UNCHANGED up

Receive(m) ==
  /\ m \in net /\ m.to \in up \cap Peer
  /\ HelperInf(m) \/ Seen(m) \/ HelperPing(m) \/ HelperBye(m)

(* What goes to q: nothing, when the sender has had its bye.               *)
Reach(m) ==
  /\ m \in net /\ m.to = q
  /\ q \in up \/ m.from \in bye \/ m.from \notin up
  /\ net' = net \ {m}
  /\ UNCHANGED <<up, news, bye, seen>>

(* func_helper_sndRG, func_snd_rs                                          *)
ConnectFails(m) ==
  /\ m \in net /\ m.to \notin up
  /\ net' = net \ {m}
  /\ IF m.from \in up \cap Peer /\ ~(m.to = q /\ m.from \in bye)
     THEN Exit(m.from)
     ELSE UNCHANGED <<up, news, bye, seen>>

-----------------------------------------------------------------------------
(* q gossips with whom it likes while it runs, or answers its ping: a pong *)
(* is an information of age 0 that can come late too, and HelperInf can do *)
(* with it all that helper_pong does, which leaves a peer it knows where   *)
(* it is.  q stops with or without a bye that some of its fanout get.      *)
Hello(p) ==
  /\ {q, p} \subseteq up
  /\ net' = net \cup Send("inf", q, {p}, -1)
  /\ Cardinality(net') <= MaxNet
  /\ UNCHANGED <<up, news, bye, seen>>

Stop ==
  /\ q \in up
  /\ up' = up \ {q}
  /\ \E F \in SUBSET (Peer \cap up) : net' = net \cup Send("bye", q, F, 0)
  /\ Cardinality(net') <= MaxNet
  /\ UNCHANGED <<news, bye, seen>>

Deliver(m) == Receive(m) \/ Reach(m) \/ ConnectFails(m)

Next ==
  \/ \E p \in Peer : Round(p) \/ Hello(p)
  \/ \E m \in net : Deliver(m)
  \/ Stop

(* Rounds go on, and of each kind of messages some one arrives.            *)
Fairness ==
  /\ \A p \in Peer : WF_vars(Round(p))
  /\ \A k \in {"inf"} \cup Flood : WF_vars(\E m \in net : m.kind = k /\ Deliver(m))

Spec == Init /\ [][Next]_vars /\ Fairness

-----------------------------------------------------------------------------
(* When q has stopped, with or without a bye, the peers that stay forget   *)
(* it for good: the news of it that they tell each other grow old          *)
(* (age_plus_one, func_helper_inf).                                        *)
Forgotten == <>[](q \in up \/ \A p \in Peer : news[p] = MaxAge)

(* Once q has stopped, the freshest news of it that a peer has or that is  *)
(* under way gets no fresher: peers that tell each other do not make q     *)
(* young again, late pings do not either (func_helper_inf, helper_ping).   *)
Stale(k) ==
  /\ q \notin up
  /\ \A p \in Peer : news[p] >= k
  /\ \A m \in net : m.kind = "inf" => m.age + 1 >= k

NoRejuvenation == [][\A k \in 0 .. MaxAge : Stale(k) => Stale(k)']_vars

(* The copies of a ping and of a bye die out, although the peers forget    *)
(* that they have seen them (insert_messageRS).                            *)
FloodEnds == <>[](\A m \in net : m.kind = "inf")
=============================================================================
