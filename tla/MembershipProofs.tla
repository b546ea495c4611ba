-------------------------- MODULE MembershipProofs --------------------------
(***************************************************************************)
(* Proofs about Membership, for any peers that stay, ages and fanout: the  *)
(* variables keep their types, and what is known of a peer that stopped    *)
(* only grows older.                                                       *)
(***************************************************************************)
EXTENDS Membership, TLAPS

LEMMA Ages == MaxAge \in Nat /\ MaxAge > 0
  BY MembershipAssumption

(* What is sent has the type of a message.                                 *)
LEMMA InfSent ==
  ASSUME NEW p \in Process, NEW S \in SUBSET Process, NEW age \in -1 .. MaxAge - 1
  PROVE  Send("inf", p, S, age) \subseteq Message
  BY SMT DEF Send, Message

LEMMA FloodSent ==
  ASSUME NEW p \in Process, NEW S \in SUBSET Peer, NEW kind \in Flood,
         NEW age \in 0 .. MaxAge
  PROVE  Send(kind, p, S, age) \subseteq Message
  BY SMT DEF Send, Message

LEMMA FloodMessage ==
  ASSUME NEW m \in Message, m.kind \in Flood
  PROVE  m.to \in Peer /\ m.age \in 0 .. MaxAge
  BY SMT DEF Message, Flood

LEMMA InfMessage ==
  ASSUME NEW m \in Message, m.kind = "inf"
  PROVE  m.age + 1 \in 0 .. MaxAge
  BY Ages, SMT DEF Message, Flood

LEMMA InitTypes == Init => TypeOK
  <1> SUFFICES ASSUME Init PROVE TypeOK
    OBVIOUS
  <1>1. PICK S \in SUBSET Peer : net = Send("ping", q, S, 0)
    BY DEF Init
  <1>2. net \subseteq Message
    BY <1>1, Ages, FloodSent, SMT DEF Process, Flood
  <1> QED BY <1>2, Ages, SMT DEF Init, TypeOK, Process

-----------------------------------------------------------------------------
(* What the handlers have in common.                                       *)

(* The only news under way after a step were so before it.                 *)
NoNewInf == \A m \in net' : m.kind = "inf" => m \in net

(* All known ages of q stay where they were or are at least age.           *)
NoYounger(age) == \A p \in Peer : news'[p] >= news[p] \/ news'[p] >= age

LEMMA Inserted ==
  ASSUME TypeOK, NEW p \in Peer, NEW age \in 0 .. MaxAge, Insert(p, age)
  PROVE  news' \in [Peer -> 0 .. MaxAge] /\ NoYounger(age)
  <1>1. CASE age < news[p]
    <2>1. PICK i \in age .. MaxAge : news' = [news EXCEPT ![p] = i]
      BY <1>1 DEF Insert
    <2> QED BY <2>1, Ages, SMT DEF TypeOK, NoYounger
  <1>2. CASE ~(age < news[p])
    <2>1. news' = news
      BY <1>2 DEF Insert
    <2> QED BY <2>1, SMT DEF TypeOK, NoYounger
  <1> QED BY <1>1, <1>2

LEMMA Exited ==
  ASSUME TypeOK, NEW p \in Peer, Exit(p)
  PROVE  /\ up' \subseteq Process /\ bye' \subseteq Peer
         /\ news' \in [Peer -> 0 .. MaxAge] /\ seen' \in [Peer -> SUBSET Flood]
         /\ NoYounger(MaxAge) /\ (q \notin up => q \notin up')
  BY Ages, SMT DEF TypeOK, Exit, NoYounger

LEMMA Forwarded ==
  ASSUME TypeOK, NEW m \in net, m.kind \in Flood, InsertMessageRS(m)
  PROVE  net' \subseteq Message /\ NoNewInf
  <1>1. m \in Message
    BY DEF TypeOK
  <1>2. m.to \in Peer /\ m.age \in 0 .. MaxAge
    BY <1>1, FloodMessage
  <1>3. CASE m.age < MaxAge
    <2>1. PICK F \in Fanouts(m.to) :
            net' = (net \ {m}) \cup Send(m.kind, m.to, F, m.age + 1)
      BY <1>3 DEF InsertMessageRS
    <2>2. F \in SUBSET Peer /\ m.age + 1 \in 0 .. MaxAge /\ m.to \in Process
      BY <1>2, <1>3, <2>1, Ages, SMT DEF Fanouts, Process
    <2>3. Send(m.kind, m.to, F, m.age + 1) \subseteq Message
      BY <2>2, FloodSent
    <2>4. \A x \in Send(m.kind, m.to, F, m.age + 1) : x.kind # "inf"
      BY SMT DEF Send, Flood
    <2> QED BY <2>1, <2>3, <2>4 DEF TypeOK, NoNewInf
  <1>4. CASE ~(m.age < MaxAge)
    BY <1>4 DEF InsertMessageRS, TypeOK, NoNewInf
  <1> QED BY <1>3, <1>4

LEMMA Remembered ==
  ASSUME TypeOK, NEW m \in net, m.kind \in Flood, New(m)
  PROVE  seen' \in [Peer -> SUBSET Flood]
  <1>1. m.to \in Peer
    BY FloodMessage DEF TypeOK
  <1> QED BY <1>1, SMT DEF New, TypeOK

-----------------------------------------------------------------------------
(* What a step does to the freshest news of q: nothing fresher after a     *)
(* stop.                                                                   *)
Older == \A k \in 0 .. MaxAge : Stale(k) => Stale(k)'

LEMMA StaysStale ==
  ASSUME TypeOK, TypeOK', NEW age \in Nat, NoYounger(age), NoNewInf,
         q \notin up => q \notin up',
         \A k \in 0 .. MaxAge : Stale(k) => age >= k
  PROVE  Older
  <1> SUFFICES ASSUME NEW k \in 0 .. MaxAge, Stale(k) PROVE Stale(k)'
    BY DEF Older
  <1>1. q \notin up' /\ age >= k
    BY DEF Stale
  <1>2. ASSUME NEW p \in Peer PROVE news'[p] >= k
    <2>1. news[p] \in Int /\ news'[p] \in Int /\ news[p] >= k
      BY SMT DEF TypeOK, Stale
    <2>2. news'[p] >= news[p] \/ news'[p] >= age
      BY DEF NoYounger
    <2> QED BY <1>1, <2>1, <2>2, SMT
  <1>3. \A m \in net' : m.kind = "inf" => m.age + 1 >= k
    BY DEF NoNewInf, Stale
  <1> QED BY <1>1, <1>2, <1>3 DEF Stale

LEMMA RoundGood ==
  ASSUME TypeOK, NEW p \in Peer, Round(p)
  PROVE  TypeOK' /\ Older
  <1>1. news[p] \in 0 .. MaxAge
    BY DEF TypeOK
  <1>2. \A m \in net' :
          \/ m \in net
          \/ m \in Message /\ m.kind = "inf" /\ m.age = news[p]
    <2>1. CASE UNCHANGED net
      BY <2>1
    <2>2. CASE ~ UNCHANGED net
      <3>1. PICK S \in SUBSET Process : net' = net \cup Send("inf", p, S, news[p])
        BY <2>2 DEF Round, Contact, Fanouts, Process
      <3>2. news[p] \in -1 .. MaxAge - 1
        BY <1>1, <2>2, Ages, SMT DEF Round, Contact
      <3>3. Send("inf", p, S, news[p]) \subseteq Message
        BY <3>2, InfSent DEF Process
      <3>4. \A m \in Send("inf", p, S, news[p]) : m.kind = "inf" /\ m.age = news[p]
        BY SMT DEF Send
      <3> QED BY <3>1, <3>3, <3>4
    <2> QED BY <2>1, <2>2
  <1>3. news' \in [Peer -> 0 .. MaxAge] /\ \A r \in Peer : news'[r] >= news[r]
    BY Ages, SMT DEF Round, TypeOK
  <1>4. seen' \in [Peer -> SUBSET Flood]
    <2>1. PICK kept \in SUBSET seen[p] : seen' = [seen EXCEPT ![p] = kept]
      BY DEF Round
    <2> QED BY <2>1 DEF TypeOK
  <1>5. bye' \subseteq Peer /\ up' = up
    BY DEF Round, TypeOK
  <1>6. TypeOK'
    BY <1>2, <1>3, <1>4, <1>5 DEF TypeOK
  <1>7. Older
    <2> SUFFICES ASSUME NEW k \in 0 .. MaxAge, Stale(k) PROVE Stale(k)'
      BY DEF Older
    <2>1. \A r \in Peer : news'[r] >= k
      BY <1>3, SMT DEF Stale, TypeOK
    <2>2. \A m \in net' : m.kind = "inf" => m.age + 1 >= k
      <3> SUFFICES ASSUME NEW m \in net', m.kind = "inf" PROVE m.age + 1 >= k
        OBVIOUS
      <3>1. CASE m \in net
        BY <3>1 DEF Stale
      <3>2. CASE m.age = news[p]
        BY <3>2, <1>1, SMT DEF Stale
      <3> QED BY <1>2, <3>1, <3>2
    <2> QED BY <1>5, <2>1, <2>2 DEF Stale
  <1> QED BY <1>6, <1>7

LEMMA InfGood ==
  ASSUME TypeOK, NEW m \in net, m.to \in Peer, HelperInf(m)
  PROVE  TypeOK' /\ Older
  <1>1. m.age + 1 \in 0 .. MaxAge
    BY InfMessage DEF HelperInf, TypeOK
  <1>2. news' \in [Peer -> 0 .. MaxAge] /\ NoYounger(m.age + 1)
    BY <1>1, Inserted DEF HelperInf
  <1>3. TypeOK' /\ NoNewInf
    BY <1>2 DEF HelperInf, TypeOK, NoNewInf
  <1>4. \A k \in 0 .. MaxAge : Stale(k) => m.age + 1 >= k
    BY DEF HelperInf, Stale
  <1>5. m.age + 1 \in Nat /\ up' = up
    BY <1>1, SMT DEF HelperInf
  <1> QED BY <1>2, <1>3, <1>4, <1>5, StaysStale

(* A handler that leaves all ages as they are, or takes q out, or stops.   *)
LEMMA KeepsOld ==
  ASSUME TypeOK, TypeOK', NoYounger(MaxAge), NoNewInf, q \notin up => q \notin up'
  PROVE  Older
  <1>1. MaxAge \in Nat /\ \A k \in 0 .. MaxAge : MaxAge >= k
    BY Ages, SMT
  <1> QED BY <1>1, StaysStale

LEMMA PingGood ==
  ASSUME TypeOK, NEW m \in net, m.to \in Peer, HelperPing(m)
  PROVE  TypeOK' /\ Older
  <1>1. m.kind = "ping" /\ m.kind \in Flood
    BY DEF HelperPing, Answer, AnswerFails, NoAnswer, Flood
  <1>2. CASE Answer(m)
    <2>1. net' \subseteq Message /\ NoNewInf
      BY <1>1, <1>2, Forwarded DEF Answer
    <2>2. 0 \in 0 .. MaxAge
      BY Ages, SMT
    <2>3. news' \in [Peer -> 0 .. MaxAge]
      BY <1>2, <2>2, Inserted DEF Answer
    <2>4. seen' \in [Peer -> SUBSET Flood]
      BY <1>1, <1>2, Remembered DEF Answer
    <2>5. TypeOK'
      BY <1>2, <2>1, <2>3, <2>4 DEF Answer, TypeOK
    <2>6. Older
      BY <1>2 DEF Answer, Older, Stale
    <2> QED BY <2>5, <2>6
  <1>3. CASE AnswerFails(m)
    <2>1. TypeOK' /\ NoNewInf
      BY <1>3, Exited DEF AnswerFails, TypeOK, NoNewInf
    <2> QED BY <1>3, <2>1, Exited, KeepsOld DEF AnswerFails
  <1>4. CASE NoAnswer(m)
    <2>1. net' \subseteq Message /\ NoNewInf
      BY <1>1, <1>4, Forwarded DEF NoAnswer
    <2>2. seen' \in [Peer -> SUBSET Flood]
      BY <1>1, <1>4, Remembered DEF NoAnswer
    <2>3. TypeOK'
      BY <1>4, <2>1, <2>2 DEF NoAnswer, TypeOK
    <2>4. NoYounger(MaxAge) /\ up' = up
      BY <1>4, SMT DEF NoAnswer, NoYounger, TypeOK
    <2> QED BY <2>1, <2>3, <2>4, KeepsOld
  <1> QED BY <1>2, <1>3, <1>4 DEF HelperPing

LEMMA ByeGood ==
  ASSUME TypeOK, NEW m \in net, m.to \in Peer, HelperBye(m)
  PROVE  TypeOK' /\ Older
  <1>1. m.kind \in Flood
    BY DEF HelperBye, Flood
  <1>2. net' \subseteq Message /\ NoNewInf
    BY <1>1, Forwarded DEF HelperBye
  <1>3. seen' \in [Peer -> SUBSET Flood]
    BY <1>1, Remembered DEF HelperBye
  <1>4. news' \in [Peer -> 0 .. MaxAge] /\ NoYounger(MaxAge)
    BY Ages, SMT DEF HelperBye, TypeOK, NoYounger
  <1>5. TypeOK' /\ up' = up
    BY <1>2, <1>3, <1>4 DEF HelperBye, TypeOK
  <1> QED BY <1>2, <1>4, <1>5, KeepsOld

(* A message that is dropped, with the process of its sender or without.   *)
LEMMA DroppedGood ==
  ASSUME TypeOK, NEW m \in net, Seen(m) \/ Reach(m) \/ ConnectFails(m)
  PROVE  TypeOK' /\ Older
  <1>1. net' = net \ {m} /\ NoNewInf
    BY DEF Seen, Reach, ConnectFails, NoNewInf
  <1>2. CASE UNCHANGED <<up, news, bye, seen>>
    <2>1. TypeOK'
      BY <1>1, <1>2 DEF TypeOK
    <2>2. NoYounger(MaxAge) /\ up' = up
      BY <1>2, SMT DEF NoYounger, TypeOK
    <2> QED BY <1>1, <2>1, <2>2, KeepsOld
  <1>3. CASE m.from \in up \cap Peer /\ Exit(m.from)
    <2>1. m.from \in Peer
      BY <1>3
    <2>2. TypeOK'
      BY <1>1, <1>3, <2>1, Exited DEF TypeOK
    <2> QED BY <1>1, <1>3, <2>1, <2>2, Exited, KeepsOld
  <1> QED BY <1>2, <1>3 DEF Seen, Reach, ConnectFails

LEMMA HelloGood ==
  ASSUME TypeOK, NEW p \in Peer, Hello(p)
  PROVE  TypeOK' /\ Older
  <1>1. Send("inf", q, {p}, -1) \subseteq Message
    BY Ages, InfSent, SMT DEF Process
  <1>2. TypeOK'
    BY <1>1 DEF Hello, TypeOK
  <1>3. Older
    BY DEF Hello, Older, Stale
  <1> QED BY <1>2, <1>3

LEMMA StopGood ==
  ASSUME TypeOK, Stop
  PROVE  TypeOK' /\ Older
  <1>1. PICK F \in SUBSET (Peer \cap up) : net' = net \cup Send("bye", q, F, 0)
    BY DEF Stop
  <1>2. Send("bye", q, F, 0) \subseteq Message
    BY Ages, FloodSent, SMT DEF Process, Flood
  <1>3. TypeOK'
    BY <1>1, <1>2 DEF Stop, TypeOK
  <1>4. Older
    BY DEF Stop, Older, Stale
  <1> QED BY <1>3, <1>4

LEMMA StepGood ==
  ASSUME TypeOK, [Next]_vars
  PROVE  TypeOK' /\ Older
  <1>1. CASE \E p \in Peer : Round(p) \/ Hello(p)
    BY <1>1, RoundGood, HelloGood
  <1>2. CASE \E m \in net : Deliver(m)
    BY <1>2, InfGood, PingGood, ByeGood, DroppedGood DEF Deliver, Receive
  <1>3. CASE Stop
    BY <1>3, StopGood
  <1>4. CASE UNCHANGED vars
    BY <1>4 DEF vars, TypeOK, Older, Stale
  <1> QED BY <1>1, <1>2, <1>3, <1>4 DEF Next

-----------------------------------------------------------------------------
(* Every variable has its type: messages are no older than MaxAge, and     *)
(* nobody remembers anything but pings and byes.                           *)
THEOREM TypeCorrect == Spec => []TypeOK
  <1>1. TypeOK /\ [Next]_vars => TypeOK'
    BY StepGood
  <1> QED BY InitTypes, <1>1, PTL DEF Spec

(* The freshest news of a peer that stopped never gets fresher, whatever   *)
(* the peers tell each other and whatever is still under way.              *)
THEOREM NeverRejuvenated == Spec => NoRejuvenation
  <1>1. TypeOK /\ [Next]_vars => [\A k \in 0 .. MaxAge : Stale(k) => Stale(k)']_vars
    BY StepGood DEF Older
  <1> QED BY TypeCorrect, <1>1, PTL DEF Spec, NoRejuvenation
=============================================================================
