----------------------------- MODULE BootProofs -----------------------------
(***************************************************************************)
(* Proofs about how peers join, for every set of peers, number of helpers  *)
(* of the server and size of its buffer and of an answer: the server       *)
(* registers nobody twice, never draws an answer for ever and keeps what   *)
(* BootService promises, and a peer is told to nobody before its           *)
(* dispatchers listen.                                                     *)
(***************************************************************************)
EXTENDS BootServer, Bootstrap, TLAPS, SequenceTheorems, FiniteSetTheorems,
        WellFoundedInduction

-----------------------------------------------------------------------------
(* The inductive invariant of the server.                                  *)

ServerPlaces == {"accept", "search", "register", "compose", "draw", "send"}

ServerTypeOK ==
  /\ nodi \in Seq(Peer)
  /\ at \in [Thread -> ServerPlaces]
  /\ asker \in [Thread -> Peer]
  /\ answer \in [Thread -> [limit : Nat, nodes : Seq(Peer)]]
  /\ index \in [Thread -> Seq(Nat)]

Distinct(s) == \A k, l \in 1 .. Len(s) : s[k] = s[l] => k = l

Has(s, p) == \E k \in 1 .. Len(s) : s[k] = p

(* The buffer: everybody once, and within its size.                        *)
Registered == Distinct(nodi) /\ Len(nodi) <= NNodi

(* No peer is served by two helpers.                                       *)
OneEach ==
  \A t, u \in Thread :
    at[t] # "accept" /\ at[u] # "accept" /\ asker[t] = asker[u] => t = u

(* What the search found is still true when the helper acts on it, since   *)
(* nobody else serves its asker.                                           *)
StillNew == \A t \in Thread : at[t] = "register" => ~ Has(nodi, asker[t])

(* After that the asker is registered, or there was no room.               *)
Settled ==
  \A t \in Thread : at[t] \in {"compose", "draw", "send"} =>
    Has(nodi, asker[t]) \/ Len(nodi) = NNodi

ServerIInv == ServerTypeOK /\ Registered /\ OneEach /\ StillNew /\ Settled

LEMMA AppendFacts ==
  ASSUME NEW S, NEW s \in Seq(S), NEW e \in S
  PROVE  /\ Append(s, e) \in Seq(S)
         /\ Len(s) \in Nat /\ Len(Append(s, e)) = Len(s) + 1
         /\ Append(s, e)[Len(s) + 1] = e
         /\ \A k \in 1 .. Len(s) : Append(s, e)[k] = s[k]
  BY SMT

LEMMA AppendHas ==
  ASSUME NEW S, NEW s \in Seq(S), NEW e \in S
  PROVE  \A p : Has(Append(s, e), p) <=> Has(s, p) \/ p = e
  <1> DEFINE a == Append(s, e)
  <1>1. /\ Len(s) \in Nat /\ Len(a) = Len(s) + 1
        /\ a[Len(s) + 1] = e
        /\ \A k \in 1 .. Len(s) : a[k] = s[k]
    BY AppendFacts
  <1> HIDE DEF a
  <1>2. \A p : Has(a, p) <=> Has(s, p) \/ p = e
    BY <1>1, SMT DEF Has
  <1> QED BY <1>2 DEF a

LEMMA AppendDistinct ==
  ASSUME NEW S, NEW s \in Seq(S), NEW e \in S, Distinct(s), ~ Has(s, e)
  PROVE  Distinct(Append(s, e))
  <1> DEFINE a == Append(s, e)
  <1>1. /\ Len(s) \in Nat /\ Len(a) = Len(s) + 1
        /\ a[Len(s) + 1] = e
        /\ \A k \in 1 .. Len(s) : a[k] = s[k]
    BY AppendFacts
  <1> HIDE DEF a
  <1>2. Distinct(a)
    BY <1>1, SMT DEF Has, Distinct
  <1> QED BY <1>2 DEF a

LEMMA RangeHas ==
  ASSUME NEW S, NEW s \in Seq(S)
  PROVE  \A p : p \in Range(s) <=> Has(s, p)
  <1>1. DOMAIN s = 1 .. Len(s)
    BY SMT
  <1> QED BY <1>1, Zenon DEF Range, Has

-----------------------------------------------------------------------------
(* What the loop of set_Gserver_nodi copies.                               *)

LEMMA AllInside ==
  ASSUME NEW S, 0 \in S, \A n \in Nat : n \in S => n + 1 \in S
  PROVE  Nat \subseteq S
  <1> SUFFICES ASSUME Nat \ S # {} PROVE FALSE
    OBVIOUS
  <1>1. PICK m \in Nat \ S : \A x \in Nat \ S : ~ (<<x, m>> \in OpToRel(<, Nat))
    BY NatLessThanWellFounded, WFMin, Zenon
  <1>2. m # 0 /\ m - 1 \in Nat /\ m - 1 < m /\ (m - 1) + 1 = m
    <2>1. m \in Nat /\ m # 0
      OBVIOUS
    <2> QED BY <2>1, SMT
  <1>3. m - 1 \in S
    <2>1. <<m - 1, m>> \in Nat \X Nat /\ <<m - 1, m>>[1] = m - 1 /\ <<m - 1, m>>[2] = m
      BY <1>1, <1>2
    <2>2. <<m - 1, m>> \in OpToRel(<, Nat)
      BY <1>2, <2>1 DEF OpToRel
    <2> QED BY <1>1, <1>2, <2>2
  <1> QED BY <1>1, <1>2, <1>3

CopyUnless(p, n, s) == IF nodi[n] = p THEN s ELSE Append(s, nodi[n])

(* f[i] is what the first i turns of the loop copy.                        *)
CopyOf(p, f, n) ==
  f = [i \in 0 .. n |-> IF i = 0 THEN <<>> ELSE CopyUnless(p, i, f[i - 1])]

LEMMA CopyAtEach ==
  ASSUME NEW p, NEW f, NEW n \in Nat, CopyOf(p, f, n), NEW i \in 0 .. n
  PROVE  f[i] = IF i = 0 THEN <<>> ELSE CopyUnless(p, i, f[i - 1])
  BY Zenon DEF CopyOf

LEMMA CopyGrows ==
  ASSUME NEW p, NEW f, NEW n \in Nat, CopyOf(p, f, n)
  PROVE  \E g : CopyOf(p, g, n + 1)
  <1> DEFINE g == [i \in 0 .. n + 1 |-> IF i = n + 1 THEN CopyUnless(p, n + 1, f[n]) ELSE f[i]]
  <1>1. \A i \in 0 .. n : g[i] = f[i]
    BY SMT
  <1>2. g[n + 1] = CopyUnless(p, n + 1, f[n])
    BY SMT
  <1>3. DOMAIN g = 0 .. n + 1 /\ g = [i \in DOMAIN g |-> g[i]]
    OBVIOUS
  <1> HIDE DEF g
  <1>4. ASSUME NEW i \in 0 .. n + 1
        PROVE  g[i] = IF i = 0 THEN <<>> ELSE CopyUnless(p, i, g[i - 1])
    <2>1. CASE i = n + 1
      <3>1. n \in 0 .. n /\ (n + 1) - 1 = n /\ n + 1 # 0
        BY SMT
      <3> QED BY <1>1, <1>2, <2>1, <3>1
    <2>2. CASE i \in 0 .. n /\ i # 0
      <3>1. i - 1 \in 0 .. n
        BY <2>2, SMT
      <3>2. f[i] = IF i = 0 THEN <<>> ELSE CopyUnless(p, i, f[i - 1])
        BY <2>2, CopyAtEach
      <3> QED BY <1>1, <2>2, <3>1, <3>2
    <2>3. CASE i = 0
      <3>1. 0 \in 0 .. n
        BY SMT
      <3> QED BY <1>1, <2>3, <3>1, CopyAtEach, Zenon
    <2> QED BY <2>1, <2>2, <2>3, SMT
  <1>5. CopyOf(p, g, n + 1)
    BY <1>3, <1>4, Zenon DEF CopyOf
  <1> QED BY <1>5

LEMMA OthersCopied ==
  ASSUME NEW p, nodi \in Seq(Peer)
  PROVE  \E f : CopyOf(p, f, Len(nodi)) /\ Others(p) = f[Len(nodi)]
  <1> DEFINE S == {n \in Nat : \E f : CopyOf(p, f, n)}
  <1>1. 0 \in S
    <2>1. CopyOf(p, [i \in 0 .. 0 |-> <<>>], 0)
      BY SMT DEF CopyOf
    <2> QED BY <2>1
  <1>2. ASSUME NEW n \in Nat, n \in S PROVE n + 1 \in S
    <2>1. \E g : CopyOf(p, g, n + 1)
      BY <1>2, CopyGrows
    <2> QED BY <2>1, SMT
  <1>3. Len(nodi) \in S
    <2> HIDE DEF S
    <2>1. Len(nodi) \in Nat
      BY SMT
    <2> QED BY <1>1, <1>2, <2>1, AllInside
  <1>4. \E f : CopyOf(p, f, Len(nodi))
    BY <1>3
  <1> QED BY <1>4, Zenon DEF Others, CopyOf, CopyUnless

(* The others of a buffer: everybody in it but p.                          *)
LEMMA OthersFacts ==
  ASSUME NEW p, nodi \in Seq(Peer)
  PROVE  /\ Others(p) \in Seq(Peer)
         /\ \A q : Has(Others(p), q) <=> Has(nodi, q) /\ q # p
  <1>1. PICK f : CopyOf(p, f, Len(nodi)) /\ Others(p) = f[Len(nodi)]
    BY OthersCopied
  <1> DEFINE HasBelow(q, n) == \E k \in 1 .. n : nodi[k] = q
             Good(n) == /\ f[n] \in Seq(Peer)
                        /\ \A q : Has(f[n], q) <=> HasBelow(q, n) /\ q # p
             S == {n \in Nat : n <= Len(nodi) => Good(n)}
  <1>2. Len(nodi) \in Nat
    BY SMT
  <1>3. 0 \in S
    <2>1. f[0] = <<>>
      <3>1. 0 \in 0 .. Len(nodi)
        BY <1>2, SMT
      <3> QED BY <1>1, <1>2, <3>1, CopyAtEach, Zenon
    <2>2. \A q : ~ Has(f[0], q) /\ ~ HasBelow(q, 0)
      BY <2>1, SMT DEF Has
    <2>3. f[0] \in Seq(Peer)
      BY <2>1, SMT
    <2> QED BY <2>2, <2>3
  <1>4. ASSUME NEW n \in Nat, n \in S PROVE n + 1 \in S
    <2> SUFFICES ASSUME n + 1 <= Len(nodi) PROVE Good(n + 1)
      BY SMT
    <2>1. n <= Len(nodi) /\ n + 1 \in 1 .. Len(nodi) /\ n + 1 \in 0 .. Len(nodi)
          /\ (n + 1) - 1 = n /\ n + 1 # 0
      BY <1>2, SMT
    <2>2. f[n] \in Seq(Peer) /\ \A q : Has(f[n], q) <=> HasBelow(q, n) /\ q # p
      BY <1>4, <2>1
    <2>3. f[n + 1] = CopyUnless(p, n + 1, f[n])
      <3>1. f[n + 1] = IF n + 1 = 0 THEN <<>> ELSE CopyUnless(p, n + 1, f[(n + 1) - 1])
        BY <1>1, <1>2, <2>1, CopyAtEach
      <3> QED BY <2>1, <3>1
    <2>4. \A q : HasBelow(q, n + 1) <=> HasBelow(q, n) \/ q = nodi[n + 1]
      <3>1. 1 .. n + 1 = (1 .. n) \cup {n + 1}
        BY SMT
      <3> QED BY <3>1
    <2>5. nodi[n + 1] \in Peer
      BY <2>1, ElementOfSeq
    <2>6. CASE nodi[n + 1] = p
      BY <2>2, <2>3, <2>4, <2>6, Zenon DEF CopyUnless
    <2>7. CASE nodi[n + 1] # p
      <3>1. f[n + 1] = Append(f[n], nodi[n + 1])
        BY <2>3, <2>7 DEF CopyUnless
      <3>2. \A q : Has(f[n + 1], q) <=> Has(f[n], q) \/ q = nodi[n + 1]
        BY <2>2, <2>5, <3>1, AppendHas
      <3>3. f[n + 1] \in Seq(Peer)
        BY <2>2, <2>5, <3>1, AppendFacts
      <3> QED BY <2>2, <2>4, <2>7, <3>2, <3>3, Zenon
    <2> QED BY <2>6, <2>7
  <1>5. Good(Len(nodi))
    <2>1. Len(nodi) \in S
      <3> HIDE DEF S
      <3> QED BY <1>2, <1>3, <1>4, AllInside
    <2> QED BY <1>2, <2>1, SMT
  <1>6. \A q : HasBelow(q, Len(nodi)) <=> Has(nodi, q)
    BY DEF Has
  <1> QED BY <1>1, <1>5, <1>6, Zenon

-----------------------------------------------------------------------------
(* The invariant holds at first, and every step keeps it.                  *)

LEMMA ServerInit == Init => ServerIInv
  <1> SUFFICES ASSUME Init PROVE ServerIInv
    OBVIOUS
  <1>1. <<>> \in Seq(Peer) /\ <<>> \in Seq(Nat) /\ Len(<<>>) = 0
    BY SMT
  <1>2. NoAnswer \in [limit : Nat, nodes : Seq(Peer)]
    BY <1>1 DEF NoAnswer
  <1>3. ServerTypeOK
    BY <1>1, <1>2 DEF Init, ServerTypeOK, ServerPlaces
  <1>4. Registered
    BY <1>1, NodesAssumption, SMT DEF Init, Registered, Distinct
  <1>5. OneEach /\ StillNew /\ Settled
    BY DEF Init, OneEach, StillNew, Settled
  <1> QED BY <1>3, <1>4, <1>5 DEF ServerIInv

(* A step of one helper that registers nobody: only what it does matters.  *)
LEMMA QuietStep ==
  ASSUME ServerIInv, ServerTypeOK', UNCHANGED <<nodi, asker>>,
         NEW t \in Thread, at[t] # "accept",
         \A u \in Thread \ {t} : at'[u] = at[u],
         at'[t] = "register" => ~ Has(nodi, asker[t]),
         at'[t] \in {"compose", "draw", "send"} =>
           Has(nodi, asker[t]) \/ Len(nodi) = NNodi
  PROVE  ServerIInv'
  <1>1. Registered'
    BY DEF ServerIInv, Registered, Distinct
  <1>2. OneEach'
    <2>1. \A u \in Thread : at'[u] # "accept" => at[u] # "accept"
      OBVIOUS
    <2> QED BY <2>1 DEF ServerIInv, OneEach
  <1>3. StillNew'
    BY DEF ServerIInv, StillNew, Has
  <1>4. Settled'
    <2> SUFFICES ASSUME NEW u \in Thread, at'[u] \in {"compose", "draw", "send"}
                 PROVE  Has(nodi, asker[u]) \/ Len(nodi) = NNodi
      BY DEF Settled, Has
    <2>1. CASE u = t
      BY <2>1
    <2>2. CASE u # t
      BY <2>2 DEF ServerIInv, Settled
    <2> QED BY <2>1, <2>2
  <1> QED BY <1>1, <1>2, <1>3, <1>4 DEF ServerIInv

LEMMA GotoFacts ==
  ASSUME ServerTypeOK, NEW t \in Thread, NEW from, NEW to \in ServerPlaces, Goto(t, from, to)
  PROVE  /\ at' \in [Thread -> ServerPlaces]
         /\ at[t] = from /\ at'[t] = to
         /\ \A u \in Thread \ {t} : at'[u] = at[u]
  BY DEF ServerTypeOK, Goto

LEMMA AcceptKeeps ==
  ASSUME ServerIInv, NEW t \in Thread, NEW p \in Peer, Accept(t, p)
  PROVE  ServerIInv'
  <1>1. /\ at' \in [Thread -> ServerPlaces]
        /\ at[t] = "accept" /\ at'[t] = "search"
        /\ \A u \in Thread \ {t} : at'[u] = at[u]
    <2>1. "search" \in ServerPlaces /\ Goto(t, "accept", "search")
      BY DEF ServerPlaces, Accept
    <2> QED BY <2>1, GotoFacts DEF ServerIInv
  <1>2. /\ asker' \in [Thread -> Peer] /\ asker'[t] = p
        /\ \A u \in Thread \ {t} : asker'[u] = asker[u]
    BY DEF Accept, ServerIInv, ServerTypeOK
  <1>3. \A u \in Thread : at[u] # "accept" => asker[u] # p
    BY DEF Accept, Served
  <1>4. ServerTypeOK'
    BY <1>1, <1>2 DEF Accept, ServerIInv, ServerTypeOK
  <1>5. Registered'
    BY DEF Accept, ServerIInv, Registered, Distinct
  <1>6. OneEach'
    BY <1>1, <1>2, <1>3 DEF ServerIInv, OneEach
  <1>7. StillNew' /\ Settled'
    BY <1>1, <1>2 DEF Accept, ServerIInv, StillNew, Settled, Has
  <1> QED BY <1>4, <1>5, <1>6, <1>7 DEF ServerIInv

LEMMA SearchKeeps ==
  ASSUME ServerIInv, NEW t \in Thread, Search(t)
  PROVE  ServerIInv'
  <1> DEFINE to == IF asker[t] \in Range(nodi) THEN "compose" ELSE "register"
  <1>1. to \in ServerPlaces /\ Goto(t, "search", to)
    BY DEF ServerPlaces, Search
  <1>2. to = "register" <=> ~ Has(nodi, asker[t])
    BY RangeHas DEF ServerIInv, ServerTypeOK
  <1>3. to \in {"register", "compose"}
    OBVIOUS
  <1> HIDE DEF to
  <1>4. /\ at' \in [Thread -> ServerPlaces]
        /\ at[t] = "search" /\ at'[t] = to
        /\ \A u \in Thread \ {t} : at'[u] = at[u]
    BY <1>1, GotoFacts DEF ServerIInv
  <1>5. ServerTypeOK'
    BY <1>4 DEF Search, ServerIInv, ServerTypeOK
  <1> QED BY <1>2, <1>3, <1>4, <1>5, QuietStep DEF Search

LEMMA IscrizioneKeeps ==
  ASSUME ServerIInv, NEW t \in Thread, Iscrizione(t)
  PROVE  ServerIInv'
  <1>1. /\ at' \in [Thread -> ServerPlaces]
        /\ at[t] = "register" /\ at'[t] = "compose"
        /\ \A u \in Thread \ {t} : at'[u] = at[u]
    <2>1. "compose" \in ServerPlaces /\ Goto(t, "register", "compose")
      BY DEF ServerPlaces, Iscrizione
    <2> QED BY <2>1, GotoFacts DEF ServerIInv
  <1>2. nodi \in Seq(Peer) /\ asker[t] \in Peer /\ Len(nodi) \in Nat /\ NNodi \in Nat
    <2>1. nodi \in Seq(Peer) /\ asker[t] \in Peer
      BY DEF ServerIInv, ServerTypeOK
    <2> QED BY <2>1, NodesAssumption, SMT
  <1>3. ~ Has(nodi, asker[t]) /\ Distinct(nodi) /\ Len(nodi) <= NNodi
    BY <1>1 DEF ServerIInv, StillNew, Registered
  <1>4. CASE Len(nodi) < NNodi
    <2>1. nodi' = Append(nodi, asker[t])
      BY <1>4 DEF Iscrizione
    <2>2. nodi' \in Seq(Peer) /\ Len(nodi') = Len(nodi) + 1
      BY <1>2, <2>1, AppendFacts
    <2>3. \A p : Has(nodi', p) <=> Has(nodi, p) \/ p = asker[t]
      BY <1>2, <2>1, AppendHas
    <2>4. Distinct(nodi') /\ Len(nodi') <= NNodi
      <3>1. Distinct(nodi')
        BY <1>2, <1>3, <2>1, AppendDistinct
      <3> QED BY <1>2, <1>4, <2>2, <3>1, SMT
    <2>5. \A u \in Thread \ {t} : at[u] # "accept" => asker[u] # asker[t]
      BY <1>1 DEF ServerIInv, OneEach
    <2>6. ServerTypeOK'
      BY <1>1, <2>2 DEF Iscrizione, ServerIInv, ServerTypeOK
    <2>7. Registered'
      BY <2>4 DEF Registered, Distinct
    <2>8. OneEach'
      <3>1. \A u \in Thread : at'[u] # "accept" => at[u] # "accept"
        BY <1>1
      <3> QED BY <3>1 DEF Iscrizione, ServerIInv, OneEach
    <2>9. StillNew'
      <3>1. ASSUME NEW u \in Thread, at'[u] = "register" PROVE ~ Has(nodi', asker[u])
        <4>1. u # t /\ at[u] = "register"
          BY <1>1, <3>1
        <4>2. asker[u] # asker[t] /\ ~ Has(nodi, asker[u])
          BY <2>5, <4>1 DEF ServerIInv, StillNew
        <4> QED BY <2>3, <4>2
      <3> QED BY <3>1 DEF Iscrizione, StillNew, Has
    <2>10. Settled'
      <3>1. ASSUME NEW u \in Thread, at'[u] \in {"compose", "draw", "send"}
            PROVE  Has(nodi', asker[u])
        <4>1. CASE u = t
          BY <2>3, <4>1
        <4>2. CASE u # t
          <5>1. Has(nodi, asker[u]) \/ Len(nodi) = NNodi
            BY <1>1, <3>1, <4>2 DEF ServerIInv, Settled
          <5> QED BY <1>2, <1>4, <2>3, <5>1, SMT
        <4> QED BY <4>1, <4>2
      <3> QED BY <3>1 DEF Iscrizione, Settled, Has
    <2> QED BY <2>6, <2>7, <2>8, <2>9, <2>10 DEF ServerIInv
  <1>5. CASE ~ (Len(nodi) < NNodi)
    <2>1. nodi' = nodi
      BY <1>5 DEF Iscrizione
    <2>2. Len(nodi) = NNodi
      BY <1>2, <1>3, <1>5, SMT
    <2>3. ServerTypeOK'
      BY <1>1, <2>1 DEF Iscrizione, ServerIInv, ServerTypeOK
    <2> QED BY <1>1, <2>1, <2>2, <2>3, QuietStep DEF Iscrizione
  <1> QED BY <1>4, <1>5

LEMMA AnswerTyped ==
  ASSUME ServerTypeOK, NEW t \in Thread, NEW a \in [limit : Nat, nodes : Seq(Peer)]
  PROVE  /\ [answer EXCEPT ![t] = a] \in [Thread -> [limit : Nat, nodes : Seq(Peer)]]
         /\ [answer EXCEPT ![t] = a][t] = a
         /\ \A u \in Thread \ {t} : [answer EXCEPT ![t] = a][u] = answer[u]
  <1> DEFINE A == [limit : Nat, nodes : Seq(Peer)]
  <1>1. answer \in [Thread -> A] /\ a \in A
    BY DEF ServerTypeOK
  <1> HIDE DEF A
  <1>2. /\ [answer EXCEPT ![t] = a] \in [Thread -> A]
        /\ [answer EXCEPT ![t] = a][t] = a
        /\ \A u \in Thread \ {t} : [answer EXCEPT ![t] = a][u] = answer[u]
    BY <1>1
  <1> QED BY <1>2 DEF A

(* The answer of a helper that has nobody to draw: everybody else.         *)
LEMMA ComposeAll ==
  ASSUME ServerTypeOK, NEW t \in Thread, Compose(t), Len(nodi) - 1 < ServerNodi
  PROVE  /\ Goto(t, "compose", "send")
         /\ answer' \in [Thread -> [limit : Nat, nodes : Seq(Peer)]]
         /\ answer'[t].limit = Len(Others(asker[t]))
         /\ answer'[t].nodes = Others(asker[t])
         /\ \A u \in Thread \ {t} : answer'[u] = answer[u]
  <1> DEFINE o == Others(asker[t])
             a == [limit |-> Len(o), nodes |-> o]
  <1>1. Goto(t, "compose", "send") /\ answer' = [answer EXCEPT ![t] = a]
    BY DEF Compose
  <1>2. o \in Seq(Peer)
    BY OthersFacts DEF ServerTypeOK
  <1> HIDE DEF o
  <1>3. a \in [limit : Nat, nodes : Seq(Peer)] /\ a.limit = Len(o) /\ a.nodes = o
    BY <1>2, LenProperties
  <1> HIDE DEF a
  <1>4. /\ answer' \in [Thread -> [limit : Nat, nodes : Seq(Peer)]]
        /\ answer'[t] = a
        /\ \A u \in Thread \ {t} : answer'[u] = answer[u]
    BY <1>1, <1>3, AnswerTyped
  <1> QED BY <1>1, <1>3, <1>4 DEF o

LEMMA NobodyAnswered ==
  NoAnswer \in [limit : Nat, nodes : Seq(Peer)] /\ NoAnswer.limit = 0 /\ NoAnswer.nodes = <<>>
  BY SMT DEF NoAnswer

LEMMA ComposeKeeps ==
  ASSUME ServerIInv, NEW t \in Thread, Compose(t)
  PROVE  ServerIInv'
  <1> SUFFICES ASSUME NEW to \in {"draw", "send"}, Goto(t, "compose", to),
                      answer' \in [Thread -> [limit : Nat, nodes : Seq(Peer)]]
               PROVE  ServerIInv'
    <2>1. CASE Len(nodi) - 1 < ServerNodi
      BY <2>1, ComposeAll DEF ServerIInv
    <2>2. CASE ~ (Len(nodi) - 1 < ServerNodi)
      <3>1. Goto(t, "compose", "draw") /\ answer' = [answer EXCEPT ![t] = NoAnswer]
        BY <2>2 DEF Compose
      <3> QED BY <3>1, AnswerTyped, NobodyAnswered DEF ServerIInv
    <2> QED BY <2>1, <2>2
  <1>1. to \in ServerPlaces
    BY DEF ServerPlaces
  <1>2. /\ at' \in [Thread -> ServerPlaces]
        /\ at[t] = "compose" /\ at'[t] = to
        /\ \A u \in Thread \ {t} : at'[u] = at[u]
    BY <1>1, GotoFacts DEF ServerIInv
  <1>3. ServerTypeOK'
    BY <1>2 DEF Compose, ServerIInv, ServerTypeOK
  <1>4. Has(nodi, asker[t]) \/ Len(nodi) = NNodi
    BY <1>2 DEF ServerIInv, Settled
  <1> QED BY <1>2, <1>3, <1>4, QuietStep DEF Compose

LEMMA AddFacts ==
  ASSUME ServerTypeOK, NEW t \in Thread, NEW k \in DOMAIN nodi, Add(t, k)
  PROVE  /\ index' \in [Thread -> Seq(Nat)]
         /\ answer' \in [Thread -> [limit : Nat, nodes : Seq(Peer)]]
         /\ answer'[t].limit = answer[t].limit
         /\ \A u \in Thread \ {t} : answer'[u] = answer[u]
         /\ \E to \in {"draw", "send"} : Goto(t, "draw", to)
         /\ UNCHANGED <<nodi, asker>>
  <1>1. nodi[k] \in Peer /\ k \in Nat
    <2>1. nodi \in Seq(Peer)
      BY DEF ServerTypeOK
    <2>2. k \in 1 .. Len(nodi)
      BY <2>1, SMT
    <2> QED BY <2>1, <2>2, ElementOfSeq, SMT
  <1> DEFINE p == nodi[k]
             a == [answer[t] EXCEPT !.nodes = Append(@, p)]
             i == Append(index[t], k)
  <1> HIDE DEF p
  <1>2. answer[t] \in [limit : Nat, nodes : Seq(Peer)] /\ index[t] \in Seq(Nat) /\ p \in Peer
    BY <1>1 DEF ServerTypeOK, p
  <1>3. a \in [limit : Nat, nodes : Seq(Peer)] /\ a.limit = answer[t].limit
    <2> DEFINE n == Append(answer[t].nodes, p)
    <2>1. n \in Seq(Peer)
      BY <1>2, AppendFacts
    <2>2. a = [answer[t] EXCEPT !.nodes = n]
      OBVIOUS
    <2> HIDE DEF n, a
    <2> QED BY <1>2, <2>1, <2>2
  <1>4. i \in Seq(Nat)
    BY <1>1, <1>2, AppendFacts
  <1>5. answer' = [answer EXCEPT ![t] = a] /\ index' = [index EXCEPT ![t] = i]
    BY DEF Add, p, ServerTypeOK
  <1> HIDE DEF a, i
  <1>6. /\ answer' \in [Thread -> [limit : Nat, nodes : Seq(Peer)]]
        /\ answer'[t] = a
        /\ \A u \in Thread \ {t} : answer'[u] = answer[u]
    BY <1>3, <1>5, AnswerTyped
  <1>7. index' \in [Thread -> Seq(Nat)]
    BY <1>4, <1>5 DEF ServerTypeOK
  <1>8. \E to \in {"draw", "send"} : Goto(t, "draw", to)
    BY DEF Add
  <1>9. UNCHANGED <<nodi, asker>>
    BY DEF Add
  <1> QED BY <1>3, <1>6, <1>7, <1>8, <1>9

LEMMA DrawKeeps ==
  ASSUME ServerIInv, NEW t \in Thread, Draw(t)
  PROVE  ServerIInv'
  <1>1. PICK k \in DOMAIN nodi : Add(t, k)
    BY DEF Draw
  <1>2. PICK to \in {"draw", "send"} : Goto(t, "draw", to)
    BY <1>1, AddFacts DEF ServerIInv
  <1>3. /\ at' \in [Thread -> ServerPlaces]
        /\ at[t] = "draw" /\ at'[t] = to
        /\ \A u \in Thread \ {t} : at'[u] = at[u]
    <2>1. to \in ServerPlaces
      BY DEF ServerPlaces
    <2> QED BY <1>2, <2>1, GotoFacts DEF ServerIInv
  <1>4. ServerTypeOK' /\ UNCHANGED <<nodi, asker>>
    BY <1>1, <1>3, AddFacts DEF ServerIInv, ServerTypeOK
  <1>5. Has(nodi, asker[t]) \/ Len(nodi) = NNodi
    BY <1>3 DEF ServerIInv, Settled
  <1> QED BY <1>3, <1>4, <1>5, QuietStep

LEMMA SendKeeps ==
  ASSUME ServerIInv, NEW t \in Thread, Send(t)
  PROVE  ServerIInv'
  <1>1. /\ at' \in [Thread -> ServerPlaces]
        /\ at[t] = "send" /\ at'[t] = "accept"
        /\ \A u \in Thread \ {t} : at'[u] = at[u]
    <2>1. "accept" \in ServerPlaces /\ Goto(t, "send", "accept")
      BY DEF ServerPlaces, Send
    <2> QED BY <2>1, GotoFacts DEF ServerIInv
  <1>2. answer' \in [Thread -> [limit : Nat, nodes : Seq(Peer)]]
    BY AnswerTyped, NobodyAnswered DEF Send, ServerIInv
  <1>3. index' \in [Thread -> Seq(Nat)]
    BY SMT DEF Send, ServerIInv, ServerTypeOK
  <1>4. ServerTypeOK'
    BY <1>1, <1>2, <1>3 DEF Send, ServerIInv, ServerTypeOK
  <1> QED BY <1>1, <1>4, QuietStep DEF Send

LEMMA ServerStep == ServerIInv /\ [Next]_vars => ServerIInv'
  <1>1. ASSUME ServerIInv, UNCHANGED vars PROVE ServerIInv'
    BY <1>1 DEF vars, ServerIInv, ServerTypeOK, Registered, Distinct, OneEach,
                StillNew, Settled, Has
  <1> QED BY <1>1, AcceptKeeps, SearchKeeps, IscrizioneKeeps, ComposeKeeps, DrawKeeps,
             SendKeeps DEF Next, Answer

LEMMA ServerAlways == Spec => []ServerIInv
  BY ServerInit, ServerStep, PTL DEF Spec

(* Nobody is registered twice, however many helpers search and register at *)
(* the same time, and the peers fit in the buffer.                         *)
THEOREM NeverTwiceRegistered == Spec => []RegisteredOnce
  <1>1. ServerIInv => RegisteredOnce
    <2> SUFFICES ASSUME ServerIInv PROVE IsInjective(nodi)
      BY DEF ServerIInv, Registered, RegisteredOnce
    <2>1. DOMAIN nodi = 1 .. Len(nodi)
      BY SMT DEF ServerIInv, ServerTypeOK
    <2> QED BY <2>1 DEF ServerIInv, Registered, Distinct, IsInjective
  <1> QED BY <1>1, ServerAlways, PTL

-----------------------------------------------------------------------------
(* A draw in progress: places are wanted, and there are more than that.    *)

Drawing(t) ==
  /\ at[t] \in {"accept", "search", "register", "compose"} => index[t] = <<>>
  /\ at[t] = "draw" => Len(index[t]) < ServerNodi /\ ServerNodi < Len(nodi)

DrawIInv == \A t \in Thread : Drawing(t)

LEMMA SizesServer == ServerNodi \in Nat /\ 0 < ServerNodi
  BY ServerAssumption, NodesAssumption

(* What the other helpers do keeps a draw going: the buffer only grows.    *)
LEMMA OthersDraw ==
  ASSUME DrawIInv, Len(nodi) \in Nat, Len(nodi') \in Nat, Len(nodi) <= Len(nodi'),
         NEW t \in Thread,
         \A u \in Thread \ {t} : at'[u] = at[u] /\ index'[u] = index[u],
         Drawing(t)'
  PROVE  DrawIInv'
  <1> SUFFICES ASSUME NEW u \in Thread, u # t PROVE Drawing(u)'
    BY DEF DrawIInv
  <1>1. Drawing(u) /\ at'[u] = at[u] /\ index'[u] = index[u]
    BY DEF DrawIInv
  <1>2. ServerNodi < Len(nodi) => ServerNodi < Len(nodi')
    BY SizesServer, SMT
  <1> QED BY <1>1, <1>2 DEF Drawing

LEMMA DrawStep ==
  ASSUME ServerIInv, DrawIInv, [Next]_vars
  PROVE  DrawIInv'
  <1>1. nodi \in Seq(Peer) /\ Len(nodi) \in Nat
    BY LenProperties DEF ServerIInv, ServerTypeOK
  <1>2. ASSUME NEW t \in Thread, Search(t) \/ (\E p \in Peer : Accept(t, p))
        PROVE  DrawIInv'
    <2>1. /\ at[t] \in {"accept", "search"} /\ at'[t] \in {"search", "register", "compose"}
          /\ \A u \in Thread \ {t} : at'[u] = at[u]
          /\ UNCHANGED <<nodi, index>>
      BY <1>2 DEF Search, Accept, Goto, ServerIInv, ServerTypeOK
    <2>2. Drawing(t)'
      BY <2>1 DEF DrawIInv, Drawing
    <2>3. Len(nodi') \in Nat /\ Len(nodi) <= Len(nodi')
      BY <1>1, <2>1, SMT
    <2> QED BY <1>1, <2>1, <2>2, <2>3, OthersDraw
  <1>3. ASSUME NEW t \in Thread, Iscrizione(t)
        PROVE  DrawIInv'
    <2>1. /\ at[t] = "register" /\ at'[t] = "compose"
          /\ \A u \in Thread \ {t} : at'[u] = at[u]
          /\ index' = index
      BY <1>3 DEF Iscrizione, Goto, ServerIInv, ServerTypeOK
    <2>2. Drawing(t)'
      BY <2>1 DEF DrawIInv, Drawing
    <2>3. Len(nodi') \in Nat /\ Len(nodi) <= Len(nodi')
      <3>1. asker[t] \in Peer
        BY DEF ServerIInv, ServerTypeOK
      <3>2. Len(Append(nodi, asker[t])) = Len(nodi) + 1
        BY <1>1, <3>1, AppendFacts
      <3> QED BY <1>1, <1>3, <3>2, SMT DEF Iscrizione
    <2> QED BY <1>1, <2>1, <2>2, <2>3, OthersDraw
  <1>4. ASSUME NEW t \in Thread, Compose(t)
        PROVE  DrawIInv'
    <2>1. /\ at[t] = "compose" /\ index[t] = <<>>
          /\ \/ at'[t] = "send"
             \/ at'[t] = "draw" /\ ~ (Len(nodi) - 1 < ServerNodi)
          /\ \A u \in Thread \ {t} : at'[u] = at[u]
          /\ UNCHANGED <<nodi, index>>
      BY <1>4 DEF Compose, Goto, ServerIInv, ServerTypeOK, DrawIInv, Drawing
    <2>2. ~ (Len(nodi) - 1 < ServerNodi) => ServerNodi < Len(nodi)
      BY <1>1, SizesServer, SMT
    <2>3. Len(<<>>) < ServerNodi
      BY SizesServer, SMT
    <2>4. Drawing(t)'
      BY <2>1, <2>2, <2>3 DEF Drawing
    <2>5. Len(nodi') \in Nat /\ Len(nodi) <= Len(nodi')
      BY <1>1, <2>1, SMT
    <2> QED BY <1>1, <2>1, <2>4, <2>5, OthersDraw
  <1>5. ASSUME NEW t \in Thread, Draw(t)
        PROVE  DrawIInv'
    <2>1. PICK k \in DOMAIN nodi : Add(t, k)
      BY <1>5 DEF Draw
    <2>2. k \in Nat /\ index[t] \in Seq(Nat) /\ index' = [index EXCEPT ![t] = Append(@, k)]
      BY <1>1, <2>1, SMT DEF Add, ServerIInv, ServerTypeOK
    <2>3. /\ index'[t] = Append(index[t], k)
          /\ \A u \in Thread \ {t} : index'[u] = index[u]
      BY <2>2 DEF ServerIInv, ServerTypeOK
    <2>4. Len(index'[t]) = Len(index[t]) + 1 /\ Len(index[t]) \in Nat
      BY <2>2, <2>3, AppendFacts
    <2>5. /\ at[t] = "draw"
          /\ at'[t] = IF Len(index'[t]) = ServerNodi THEN "send" ELSE "draw"
          /\ \A u \in Thread \ {t} : at'[u] = at[u]
          /\ nodi' = nodi
      BY <2>1 DEF Add, Goto, ServerIInv, ServerTypeOK
    <2>6. Len(index[t]) < ServerNodi /\ ServerNodi < Len(nodi)
      BY <2>5 DEF DrawIInv, Drawing
    <2>7. at'[t] = "draw" => Len(index'[t]) < ServerNodi
      BY <2>4, <2>5, <2>6, SizesServer, SMT
    <2>8. Drawing(t)'
      BY <2>5, <2>6, <2>7 DEF Drawing
    <2>9. Len(nodi') \in Nat /\ Len(nodi) <= Len(nodi')
      BY <1>1, <2>5, SMT
    <2> QED BY <1>1, <2>3, <2>5, <2>8, <2>9, OthersDraw
  <1>6. ASSUME NEW t \in Thread, Send(t)
        PROVE  DrawIInv'
    <2>1. /\ at'[t] = "accept" /\ index'[t] = <<>>
          /\ \A u \in Thread \ {t} : at'[u] = at[u] /\ index'[u] = index[u]
          /\ nodi' = nodi
      BY <1>6 DEF Send, Goto, ServerIInv, ServerTypeOK
    <2>2. Drawing(t)'
      BY <2>1 DEF Drawing
    <2>3. Len(nodi') \in Nat /\ Len(nodi) <= Len(nodi')
      BY <1>1, <2>1, SMT
    <2> QED BY <1>1, <2>1, <2>2, <2>3, OthersDraw
  <1>7. ASSUME UNCHANGED vars PROVE DrawIInv'
    BY <1>7 DEF vars, DrawIInv, Drawing
  <1> QED BY <1>2, <1>3, <1>4, <1>5, <1>6, <1>7 DEF Next, Answer

LEMMA PlacesFrom ==
  ASSUME NEW a \in Nat, NEW b \in Nat, a <= b + 1
  PROVE  IsFiniteSet(a .. b) /\ Cardinality(a .. b) = (b + 1) - a
  <1>1. IsFiniteSet(a .. b) /\ Cardinality(a .. b) = IF a > b THEN 0 ELSE b - a + 1
    BY FS_Interval
  <1> QED BY <1>1, SMT

(* Fewer places are drawn than there are others to choose from.            *)
LEMMA SomePlace ==
  ASSUME ServerIInv, DrawIInv, NEW t \in Thread, at[t] = "draw"
  PROVE  \E k \in DOMAIN nodi : k \notin Range(index[t]) /\ nodi[k] # asker[t]
  <1> SUFFICES ASSUME \A k \in DOMAIN nodi : nodi[k] # asker[t] => k \in Range(index[t])
               PROVE  FALSE
    OBVIOUS
  <1> DEFINE n == Len(nodi)
             m == Len(index[t])
             D == 1 .. n
             R == 0 .. m
             f == [k \in D |-> IF nodi[k] = asker[t] THEN 0
                               ELSE CHOOSE i \in 1 .. m : index[t][i] = k]
  <1>1. DOMAIN nodi = D /\ n \in Nat /\ DOMAIN index[t] = 1 .. m /\ m \in Nat
    <2>1. nodi \in Seq(Peer) /\ index[t] \in Seq(Nat)
      BY DEF ServerIInv, ServerTypeOK
    <2> QED BY <2>1, LenProperties
  <1>2. m < ServerNodi /\ ServerNodi < n
    BY DEF DrawIInv, Drawing
  <1>3. ASSUME NEW k \in D
        PROVE  \/ nodi[k] = asker[t] /\ f[k] = 0
               \/ f[k] \in 1 .. m /\ index[t][f[k]] = k
    <2>1. CASE nodi[k] = asker[t]
      BY <2>1
    <2>2. CASE nodi[k] # asker[t]
      <3>1. \E i \in 1 .. m : index[t][i] = k
        BY <1>1, <2>2 DEF Range
      <3> QED BY <2>2, <3>1
    <2> QED BY <2>1, <2>2
  <1>4. f \in [D -> R]
    <2>1. 0 \in R /\ \A i \in 1 .. m : i \in R
      BY <1>1, SMT
    <2>2. \A k \in D : f[k] \in R
      BY <1>3, <2>1
    <2> QED BY <2>2
  <1>5. IsFiniteSet(D) /\ Cardinality(D) = (n + 1) - 1
    <2>1. 1 <= n + 1
      BY <1>1, SMT
    <2> QED BY <1>1, <2>1, PlacesFrom
  <1>6. IsFiniteSet(R) /\ Cardinality(R) = (m + 1) - 0
    <2>1. 0 <= m + 1
      BY <1>1, SMT
    <2> QED BY <1>1, <2>1, PlacesFrom
  <1>7. Cardinality(R) < Cardinality(D)
    BY <1>1, <1>2, <1>5, <1>6, SizesServer, SMT
  <1>8. \A i \in 1 .. m : i # 0
    BY <1>1, SMT
  <1>9. \A k, l \in D : nodi[k] = nodi[l] => k = l
    BY DEF ServerIInv, Registered, Distinct
  <1> HIDE DEF f, D, R, n, m
  <1>10. \E k, l \in D : k # l /\ f[k] = f[l]
    BY <1>4, <1>5, <1>6, <1>7, FS_PigeonHole
  <1>11. PICK k \in D, l \in D : k # l /\ f[k] = f[l]
    BY <1>10
  <1>12. CASE nodi[k] = asker[t] /\ f[k] = 0
    BY <1>3, <1>8, <1>9, <1>11, <1>12
  <1>13. CASE f[k] \in 1 .. m /\ index[t][f[k]] = k
    BY <1>3, <1>8, <1>11, <1>13
  <1> QED BY <1>3, <1>12, <1>13

(* A helper that draws an answer always finds a place it has not drawn and *)
(* that is not its asker's, for every number of helpers and peers and size *)
(* of an answer, though others register and answer meanwhile: it does not  *)
(* draw for ever with the lock held.                                       *)
THEOREM DrawsGoOn == Spec => []PlaceLeft
  <1>1. Init => DrawIInv
    BY DEF Init, DrawIInv, Drawing
  <1>2. ServerIInv /\ DrawIInv /\ [Next]_vars => DrawIInv'
    BY DrawStep
  <1>3. ServerIInv /\ DrawIInv => PlaceLeft
    BY SomePlace DEF PlaceLeft
  <1> QED BY <1>1, <1>2, <1>3, ServerAlways, PTL DEF Spec

-----------------------------------------------------------------------------
(* The server implements its service.                                      *)

LEMMA CountFacts ==
  ASSUME ServerIInv
  PROVE  /\ IsFiniteSet(Range(nodi))
         /\ Cardinality(Range(nodi)) = Len(nodi)
  <1>1. nodi \in Seq(Peer) /\ Distinct(nodi)
    BY DEF ServerIInv, ServerTypeOK, Registered
  <1>2. /\ DOMAIN nodi = 1 .. Len(nodi) /\ Len(nodi) \in Nat
        /\ nodi = [k \in DOMAIN nodi |-> nodi[k]]
    BY <1>1, SMT
  <1> DEFINE D == 1 .. Len(nodi)
             R == Range(nodi)
  <1>3. IsFiniteSet(D) /\ Cardinality(D) = Len(nodi)
    <2>1. 1 \in Int /\ Len(nodi) \in Int
      BY <1>2
    <2>2. IsFiniteSet(D) /\ Cardinality(D) = IF 1 > Len(nodi) THEN 0 ELSE Len(nodi) - 1 + 1
      BY <2>1, FS_Interval
    <2> HIDE DEF D
    <2> QED BY <1>2, <2>2, SMT
  <1>4. nodi \in [D -> R] /\ \A p \in R : \E k \in D : nodi[k] = p
    BY <1>2 DEF Range
  <1>5. IsInjective(nodi)
    BY <1>1, <1>2 DEF Distinct, IsInjective
  <1> HIDE DEF D, R
  <1>6. nodi \in Surjection(D, R) /\ nodi \in Injection(D, R)
    BY <1>4, <1>5 DEF Surjection, Injection
  <1>7. IsFiniteSet(R) /\ Cardinality(R) = Cardinality(D)
    BY <1>3, <1>6, FS_Surjection
  <1> QED BY <1>3, <1>7 DEF R

(* What the answers hold, between the holds of the lock and after them.    *)
AnswerOK(t) ==
  /\ at[t] = "draw" => answer[t].limit = 0 /\ ~ (Len(nodi) - 1 < ServerNodi)
  /\ at[t] = "send" => Announced(t) \subseteq Range(nodi)

AnswersOK == \A t \in Thread : AnswerOK(t)

(* What a helper does for its asker, as the asker sees it.                 *)
RequestAt(t) == IF at[t] = "send" THEN <<"told", Announced(t)>> ELSE <<"asked">>

LEMMA RequestServed ==
  ASSUME ServerIInv, NEW t \in Thread, at[t] # "accept"
  PROVE  asker[t] \in Peer /\ Requests[asker[t]] = RequestAt(t)
  <1>1. asker[t] \in Peer
    BY DEF ServerIInv, ServerTypeOK
  <1> DEFINE serving == {u \in Thread : at[u] # "accept" /\ asker[u] = asker[t]}
  <1>2. serving = {t}
    BY DEF ServerIInv, OneEach
  <1>3. (CHOOSE u \in serving : TRUE) = t
    BY <1>2
  <1>4. RequestOf(asker[t]) = RequestAt(t)
    BY <1>2, <1>3 DEF RequestOf, RequestAt
  <1> QED BY <1>1, <1>4 DEF Requests

LEMMA RequestUnserved ==
  ASSUME NEW p \in Peer, p \notin Served
  PROVE  Requests[p] = <<"none">>
  BY DEF Requests, RequestOf, Served

RequestsOK ==
  /\ \A t \in Thread : at[t] # "accept" =>
       asker[t] \in Peer /\ Requests[asker[t]] = RequestAt(t)
  /\ \A p \in Peer : p \notin Served => Requests[p] = <<"none">>

LEMMA RequestsAre == ServerIInv => RequestsOK
  BY RequestServed, RequestUnserved DEF RequestsOK

LEMMA RequestsAreNext == ServerIInv' => RequestsOK'
  BY RequestsAre, PTL

LEMMA RequestsMap == Requests = [p \in Peer |-> Requests[p]]
  BY DEF Requests

LEMMA RequestsMapNext == Requests' = [p \in Peer |-> Requests'[p]]
  BY DEF Requests

(* The step of a helper changes nothing for those it does not serve.       *)
LEMMA RequestKept ==
  ASSUME ServerIInv, ServerIInv', NEW t \in Thread, NEW p \in Peer,
         \A u \in Thread \ {t} :
           at'[u] = at[u] /\ asker'[u] = asker[u] /\ answer'[u] = answer[u],
         at[t] = "accept" \/ asker[t] # p, at'[t] = "accept" \/ asker'[t] # p
  PROVE  Requests'[p] = Requests[p]
  <1>1. CASE p \in Served
    <2>1. PICK u \in Thread : at[u] # "accept" /\ asker[u] = p
      BY <1>1 DEF Served
    <2>2. u # t /\ at'[u] = at[u] /\ asker'[u] = asker[u] /\ answer'[u] = answer[u]
      BY <2>1
    <2>3. Requests[p] = RequestAt(u)
      BY <2>1, RequestServed
    <2>4. Requests'[p] = RequestAt(u)'
      BY <2>1, <2>2, RequestsAreNext DEF RequestsOK
    <2>5. RequestAt(u)' = RequestAt(u)
      BY <2>2 DEF RequestAt, Announced
    <2> QED BY <2>3, <2>4, <2>5
  <1>2. CASE p \notin Served
    <2>1. p \notin Served'
      BY <1>2 DEF Served
    <2>2. Requests'[p] = <<"none">>
      BY <2>1, RequestsAreNext DEF RequestsOK
    <2> QED BY <1>2, <2>2, RequestUnserved
  <1> QED BY <1>1, <1>2

LEMMA BecomeStep ==
  ASSUME NEW p \in Peer, NEW from, NEW to, Requests[p] = from, Requests'[p] = to,
         \A q \in Peer \ {p} : Requests'[q] = Requests[q]
  PROVE  Service!Become(p, from, to)
  <1>1. Requests' = [Requests EXCEPT ![p] = to]
    BY RequestsMap, RequestsMapNext, Zenon
  <1> QED BY <1>1 DEF Service!Become

(* A step of helper t that goes on with its asker: only the request of the *)
(* asker may change.                                                       *)
LEMMA OnlyAsker ==
  ASSUME ServerIInv, ServerIInv', NEW t \in Thread, at[t] # "accept", UNCHANGED asker,
         \A u \in Thread \ {t} : at'[u] = at[u] /\ answer'[u] = answer[u]
  PROVE  /\ asker[t] \in Peer
         /\ Requests[asker[t]] = RequestAt(t)
         /\ at'[t] # "accept" => Requests'[asker[t]] = RequestAt(t)'
         /\ at'[t] = "accept" => Requests'[asker[t]] = <<"none">>
         /\ \A p \in Peer \ {asker[t]} : Requests'[p] = Requests[p]
  <1>1. asker[t] \in Peer /\ Requests[asker[t]] = RequestAt(t)
    BY RequestServed
  <1>2. at'[t] # "accept" => Requests'[asker[t]] = RequestAt(t)'
    BY RequestsAreNext DEF RequestsOK
  <1>3. ASSUME at'[t] = "accept" PROVE Requests'[asker[t]] = <<"none">>
    <2>1. asker[t] \notin Served'
      BY <1>3 DEF Served, ServerIInv, OneEach
    <2> QED BY <1>1, <2>1, RequestsAreNext DEF RequestsOK
  <1>4. \A p \in Peer \ {asker[t]} : Requests'[p] = Requests[p]
    BY RequestKept
  <1> QED BY <1>1, <1>2, <1>3, <1>4

(* As seen by the peers a helper that goes on without an answer stutters.  *)
LEMMA StillAsked ==
  ASSUME ServerIInv, ServerIInv', NEW t \in Thread, UNCHANGED asker,
         at[t] \notin {"accept", "send"}, at'[t] \notin {"accept", "send"},
         \A u \in Thread \ {t} : at'[u] = at[u] /\ answer'[u] = answer[u]
  PROVE  /\ Requests[asker[t]] = <<"asked">> /\ asker[t] \in Peer
         /\ Requests' = Requests
  <1>1. RequestAt(t) = <<"asked">> /\ RequestAt(t)' = <<"asked">>
    BY DEF RequestAt
  <1>2. /\ Requests[asker[t]] = <<"asked">> /\ asker[t] \in Peer
        /\ Requests'[asker[t]] = <<"asked">>
        /\ \A p \in Peer \ {asker[t]} : Requests'[p] = Requests[p]
    BY <1>1, OnlyAsker
  <1>3. \A p \in Peer : Requests'[p] = Requests[p]
    BY <1>2
  <1>4. Requests' = Requests
    BY <1>3, RequestsMap, RequestsMapNext, Zenon
  <1> QED BY <1>2, <1>4

LEMMA SameCount == \A S : Service!Cardinality(S) = Cardinality(S)
  BY Zenon DEF Cardinality, Service!Cardinality

(* A helper that has its answer ready told its asker, who was registered   *)
(* if there was room.                                                      *)
LEMMA TellStep ==
  ASSUME ServerIInv, ServerIInv', NEW t \in Thread, UNCHANGED <<nodi, asker>>,
         at[t] \in {"compose", "draw"}, at'[t] = "send",
         \A u \in Thread \ {t} : at'[u] = at[u] /\ answer'[u] = answer[u],
         Announced(t)' = IF Len(nodi) - 1 < ServerNodi THEN Range(nodi) \ {asker[t]} ELSE {}
  PROVE  Service!Tell(asker[t]) /\ asker[t] \in Peer
  <1>1. RequestAt(t) = <<"asked">> /\ RequestAt(t)' = <<"told", Announced(t)'>>
    BY DEF RequestAt
  <1>2. /\ asker[t] \in Peer
        /\ Requests[asker[t]] = <<"asked">>
        /\ Requests'[asker[t]] = <<"told", Announced(t)'>>
        /\ \A p \in Peer \ {asker[t]} : Requests'[p] = Requests[p]
    BY <1>1, OnlyAsker
  <1>3. Cardinality(Range(nodi)) = Len(nodi)
    BY CountFacts
  <1>4. asker[t] \in Range(nodi) \/ Cardinality(Range(nodi)) = NNodi
    <2>1. Has(nodi, asker[t]) \/ Len(nodi) = NNodi
      BY DEF ServerIInv, Settled
    <2> QED BY <1>3, <2>1, RangeHas DEF ServerIInv, ServerTypeOK
  <1> DEFINE peers == IF Service!Fit THEN Range(nodi) \ {asker[t]} ELSE {}
  <1>5. peers = Announced(t)'
    BY <1>3, SameCount DEF Service!Fit
  <1> HIDE DEF peers
  <1>6. Service!Become(asker[t], <<"asked">>, <<"told", peers>>)
    <2>1. Requests'[asker[t]] = <<"told", peers>>
      BY <1>2, <1>5
    <2> QED BY <1>2, <2>1, BecomeStep, Zenon
  <1> QED BY <1>2, <1>4, <1>6, SameCount DEF Service!Tell, peers

LEMMA AcceptAsks ==
  ASSUME ServerIInv, ServerIInv', NEW t \in Thread, NEW p \in Peer, Accept(t, p)
  PROVE  Service!AskServer(p)
  <1>1. /\ at[t] = "accept" /\ at'[t] = "search" /\ asker'[t] = p
        /\ UNCHANGED <<nodi, answer>>
        /\ \A u \in Thread \ {t} : at'[u] = at[u] /\ asker'[u] = asker[u]
    BY DEF Accept, Goto, ServerIInv, ServerTypeOK
  <1>2. Requests[p] = <<"none">>
    BY RequestUnserved DEF Accept
  <1>3. Requests'[p] = <<"asked">>
    <2>1. RequestAt(t)' = <<"asked">>
      BY <1>1 DEF RequestAt
    <2> QED BY <1>1, <2>1, RequestsAreNext DEF RequestsOK
  <1>4. \A q \in Peer \ {p} : Requests'[q] = Requests[q]
    BY <1>1, RequestKept
  <1> QED BY <1>1, <1>2, <1>3, <1>4, BecomeStep DEF Service!AskServer

LEMMA IscrizioneRegisters ==
  ASSUME ServerIInv, ServerIInv', NEW t \in Thread, Iscrizione(t)
  PROVE  \/ UNCHANGED <<Range(nodi), Requests>>
         \/ asker[t] \in Peer /\ Service!Register(asker[t])
  <1>1. /\ at[t] = "register" /\ at'[t] = "compose" /\ UNCHANGED <<asker, answer>>
        /\ \A u \in Thread \ {t} : at'[u] = at[u] /\ answer'[u] = answer[u]
    BY DEF Iscrizione, Goto, ServerIInv, ServerTypeOK
  <1>2. Requests[asker[t]] = <<"asked">> /\ asker[t] \in Peer /\ Requests' = Requests
    BY <1>1, StillAsked
  <1>3. CASE Len(nodi) < NNodi
    <2>1. nodi' = Append(nodi, asker[t]) /\ nodi \in Seq(Peer) /\ nodi' \in Seq(Peer)
      BY <1>3 DEF Iscrizione, ServerIInv, ServerTypeOK
    <2>2. Range(nodi') = Range(nodi) \cup {asker[t]}
      <3>1. \A p : Has(nodi', p) <=> Has(nodi, p) \/ p = asker[t]
        BY <1>2, <2>1, AppendHas
      <3> QED BY <2>1, <3>1, RangeHas
    <2>3. asker[t] \notin Range(nodi)
      BY <1>1, <2>1, RangeHas DEF ServerIInv, StillNew
    <2>4. Cardinality(Range(nodi)) < NNodi
      BY <1>3, CountFacts
    <2> QED BY <1>2, <2>2, <2>3, <2>4, SameCount DEF Service!Register
  <1>4. CASE ~ (Len(nodi) < NNodi)
    BY <1>2, <1>4 DEF Iscrizione
  <1> QED BY <1>3, <1>4

LEMMA ComposeTells ==
  ASSUME ServerIInv, ServerIInv', NEW t \in Thread, Compose(t)
  PROVE  \/ UNCHANGED <<Range(nodi), Requests>>
         \/ asker[t] \in Peer /\ Service!Tell(asker[t])
  <1>1. UNCHANGED <<nodi, asker>>
    BY DEF Compose
  <1>2. CASE Len(nodi) - 1 < ServerNodi
    <2>1. /\ Goto(t, "compose", "send")
          /\ answer'[t].limit = Len(Others(asker[t]))
          /\ answer'[t].nodes = Others(asker[t])
          /\ \A u \in Thread \ {t} : answer'[u] = answer[u]
      BY <1>2, ComposeAll DEF ServerIInv
    <2>2. Others(asker[t]) \in Seq(Peer) /\ nodi \in Seq(Peer)
          /\ \A q : Has(Others(asker[t]), q) <=> Has(nodi, q) /\ q # asker[t]
      BY OthersFacts DEF ServerIInv, ServerTypeOK
    <2>3. Announced(t)' = Range(nodi) \ {asker[t]}
      <3>1. \A q : q \in Announced(t)' <=> Has(Others(asker[t]), q)
        BY <2>1 DEF Announced, Has
      <3> QED BY <2>2, <3>1, RangeHas
    <2>4. /\ at[t] = "compose" /\ at'[t] = "send"
          /\ \A u \in Thread \ {t} : at'[u] = at[u]
      BY <2>1 DEF Goto, ServerIInv, ServerTypeOK
    <2> QED BY <1>1, <1>2, <2>1, <2>3, <2>4, TellStep
  <1>3. CASE ~ (Len(nodi) - 1 < ServerNodi)
    <2>1. Goto(t, "compose", "draw") /\ answer' = [answer EXCEPT ![t] = NoAnswer]
      BY <1>3 DEF Compose
    <2>2. /\ at[t] = "compose" /\ at'[t] = "draw"
          /\ \A u \in Thread \ {t} : at'[u] = at[u] /\ answer'[u] = answer[u]
      BY <2>1, AnswerTyped, NobodyAnswered DEF Goto, ServerIInv, ServerTypeOK
    <2>3. Requests' = Requests
      BY <1>1, <2>2, StillAsked
    <2> QED BY <1>1, <2>3
  <1> QED BY <1>2, <1>3

LEMMA DrawTells ==
  ASSUME ServerIInv, ServerIInv', AnswersOK, NEW t \in Thread, Draw(t)
  PROVE  \/ UNCHANGED <<Range(nodi), Requests>>
         \/ asker[t] \in Peer /\ Service!Tell(asker[t])
  <1>1. PICK k \in DOMAIN nodi : Add(t, k)
    BY DEF Draw
  <1>2. PICK to \in {"draw", "send"} : Goto(t, "draw", to)
    BY <1>1, AddFacts DEF ServerIInv
  <1>3. /\ at[t] = "draw" /\ at'[t] = to
        /\ answer'[t].limit = answer[t].limit
        /\ UNCHANGED <<nodi, asker>>
        /\ \A u \in Thread \ {t} : at'[u] = at[u] /\ answer'[u] = answer[u]
    BY <1>1, <1>2, AddFacts DEF Goto, ServerIInv, ServerTypeOK
  <1>4. CASE to = "draw"
    BY <1>3, <1>4, StillAsked
  <1>5. CASE to = "send"
    <2>1. answer'[t].limit = 0 /\ ~ (Len(nodi) - 1 < ServerNodi)
      BY <1>3 DEF AnswersOK, AnswerOK
    <2>2. Announced(t)' = {}
      BY <2>1, SMT DEF Announced
    <2> QED BY <1>3, <1>5, <2>1, <2>2, TellStep
  <1> QED BY <1>4, <1>5

LEMMA SendReceived ==
  ASSUME ServerIInv, ServerIInv', AnswersOK, NEW t \in Thread, Send(t)
  PROVE  /\ asker[t] \in Peer
         /\ \E peers \in SUBSET Range(nodi) : Service!Receive(asker[t], peers)
  <1>1. /\ at[t] = "send" /\ at'[t] = "accept" /\ UNCHANGED <<nodi, asker>>
        /\ \A u \in Thread \ {t} : at'[u] = at[u] /\ answer'[u] = answer[u]
    BY AnswerTyped, NobodyAnswered DEF Send, Goto, ServerIInv, ServerTypeOK
  <1>2. RequestAt(t) = <<"told", Announced(t)>>
    BY <1>1 DEF RequestAt
  <1>3. /\ asker[t] \in Peer
        /\ Requests[asker[t]] = <<"told", Announced(t)>>
        /\ Requests'[asker[t]] = <<"none">>
        /\ \A p \in Peer \ {asker[t]} : Requests'[p] = Requests[p]
    BY <1>1, <1>2, OnlyAsker
  <1>4. Announced(t) \in SUBSET Range(nodi)
    BY <1>1 DEF AnswersOK, AnswerOK
  <1>5. Service!Receive(asker[t], Announced(t))
    BY <1>1, <1>3, BecomeStep DEF Service!Receive
  <1> QED BY <1>3, <1>4, <1>5

-----------------------------------------------------------------------------
(* The other helpers: those that draw hold the lock, and an answer that is *)
(* ready stays right while more peers register.                            *)
LEMMA AnswersKept ==
  ASSUME AnswersOK, NEW t \in Thread,
         \A u \in Thread \ {t} : at'[u] = at[u] /\ answer'[u] = answer[u],
         nodi' = nodi \/ (Writable /\ Range(nodi) \subseteq Range(nodi')),
         AnswerOK(t)'
  PROVE  AnswersOK'
  <1> SUFFICES ASSUME NEW u \in Thread \ {t} PROVE AnswerOK(u)'
    BY DEF AnswersOK
  <1>1. at'[u] = at[u] /\ answer'[u] = answer[u] /\ Announced(u)' = Announced(u)
    BY DEF Announced
  <1>2. CASE nodi' = nodi
    BY <1>1, <1>2 DEF AnswersOK, AnswerOK
  <1>3. CASE Writable /\ Range(nodi) \subseteq Range(nodi')
    <2>1. at[u] # "draw"
      BY <1>3 DEF Writable
    <2> QED BY <1>1, <1>3, <2>1 DEF AnswersOK, AnswerOK
  <1> QED BY <1>2, <1>3

LEMMA AnswersStep ==
  ASSUME ServerIInv, ServerIInv', AnswersOK, NEW t \in Thread,
         Answer(t) \/ \E p \in Peer : Accept(t, p)
  PROVE  AnswersOK'
  <1>1. nodi \in Seq(Peer) /\ nodi' \in Seq(Peer)
    BY DEF ServerIInv, ServerTypeOK
  <1>2. ASSUME NEW p \in Peer, Accept(t, p) PROVE AnswersOK'
    <2>1. /\ at'[t] = "search" /\ UNCHANGED <<nodi, answer>>
          /\ \A u \in Thread \ {t} : at'[u] = at[u]
      BY <1>2 DEF Accept, Goto, ServerIInv, ServerTypeOK
    <2> QED BY <2>1, AnswersKept DEF AnswerOK
  <1>3. CASE Search(t)
    <2>1. /\ at'[t] \in {"register", "compose"} /\ UNCHANGED <<nodi, answer>>
          /\ \A u \in Thread \ {t} : at'[u] = at[u]
      BY <1>3 DEF Search, Goto, ServerIInv, ServerTypeOK
    <2> QED BY <2>1, AnswersKept DEF AnswerOK
  <1>4. CASE Iscrizione(t)
    <2>1. /\ at'[t] = "compose" /\ UNCHANGED <<asker, answer>> /\ Writable
          /\ \A u \in Thread \ {t} : at'[u] = at[u]
      BY <1>4 DEF Iscrizione, Goto, ServerIInv, ServerTypeOK
    <2>2. Range(nodi) \subseteq Range(nodi')
      <3>1. CASE nodi' = nodi
        BY <3>1
      <3>2. CASE nodi' = Append(nodi, asker[t])
        <4>1. asker[t] \in Peer
          BY DEF ServerIInv, ServerTypeOK
        <4>2. \A p : Has(nodi', p) <=> Has(nodi, p) \/ p = asker[t]
          BY <1>1, <3>2, <4>1, AppendHas
        <4> QED BY <1>1, <4>2, RangeHas
      <3> QED BY <1>4, <3>1, <3>2 DEF Iscrizione
    <2> QED BY <2>1, <2>2, AnswersKept DEF AnswerOK
  <1>5. CASE Compose(t) /\ Len(nodi) - 1 < ServerNodi
    <2>1. /\ Goto(t, "compose", "send")
          /\ answer'[t].limit = Len(Others(asker[t]))
          /\ answer'[t].nodes = Others(asker[t])
          /\ \A u \in Thread \ {t} : answer'[u] = answer[u]
      BY <1>5, ComposeAll DEF ServerIInv
    <2>2. /\ at'[t] = "send" /\ nodi' = nodi
          /\ \A u \in Thread \ {t} : at'[u] = at[u]
      BY <1>5, <2>1 DEF Goto, Compose, ServerIInv, ServerTypeOK
    <2>3. \A q : Has(Others(asker[t]), q) <=> Has(nodi, q) /\ q # asker[t]
      BY <1>1, OthersFacts
    <2>4. Announced(t)' \subseteq Range(nodi)
      <3>1. \A q : q \in Announced(t)' <=> Has(Others(asker[t]), q)
        BY <2>1 DEF Announced, Has
      <3> QED BY <1>1, <2>3, <3>1, RangeHas
    <2>5. AnswerOK(t)'
      BY <2>2, <2>4 DEF AnswerOK
    <2> QED BY <2>1, <2>2, <2>5, AnswersKept
  <1>6. CASE Compose(t) /\ ~ (Len(nodi) - 1 < ServerNodi)
    <2>1. Goto(t, "compose", "draw") /\ answer' = [answer EXCEPT ![t] = NoAnswer]
          /\ UNCHANGED nodi
      BY <1>6 DEF Compose
    <2>2. /\ at'[t] = "draw" /\ answer'[t].limit = 0
          /\ \A u \in Thread \ {t} : at'[u] = at[u] /\ answer'[u] = answer[u]
      BY <2>1, AnswerTyped, NobodyAnswered DEF Goto, ServerIInv, ServerTypeOK
    <2>3. AnswerOK(t)'
      BY <1>6, <2>1, <2>2 DEF AnswerOK
    <2> QED BY <2>1, <2>2, <2>3, AnswersKept
  <1>7. CASE Draw(t)
    <2>1. PICK k \in DOMAIN nodi : Add(t, k)
      BY <1>7 DEF Draw
    <2>2. PICK to \in {"draw", "send"} : Goto(t, "draw", to)
      BY <2>1, AddFacts DEF ServerIInv
    <2>3. /\ at[t] = "draw" /\ at'[t] = to
          /\ answer'[t].limit = answer[t].limit
          /\ UNCHANGED nodi
          /\ \A u \in Thread \ {t} : at'[u] = at[u] /\ answer'[u] = answer[u]
      BY <2>1, <2>2, AddFacts DEF Goto, ServerIInv, ServerTypeOK
    <2>4. answer'[t].limit = 0 /\ ~ (Len(nodi) - 1 < ServerNodi)
      BY <2>3 DEF AnswersOK, AnswerOK
    <2>5. Announced(t)' = {}
      BY <2>4, SMT DEF Announced
    <2>6. AnswerOK(t)'
      BY <2>3, <2>4, <2>5 DEF AnswerOK
    <2> QED BY <2>3, <2>6, AnswersKept
  <1>8. CASE Send(t)
    <2>1. /\ at'[t] = "accept" /\ UNCHANGED nodi
          /\ \A u \in Thread \ {t} : at'[u] = at[u] /\ answer'[u] = answer[u]
      BY <1>8, AnswerTyped, NobodyAnswered DEF Send, Goto, ServerIInv, ServerTypeOK
    <2> QED BY <2>1, AnswersKept DEF AnswerOK
  <1> QED BY <1>2, <1>3, <1>4, <1>5, <1>6, <1>7, <1>8 DEF Answer

(* The bootstrap server does what BootService says, for any number of      *)
(* helpers and peers: it searches, registers, composes and draws under     *)
(* separate holds of the lock, and still whoever is answered is registered *)
(* if there was room, and is told all the others or nobody.                *)
THEOREM ServesAsSpecified == Spec => ImplementsService
  <1>1. Init => Service!ServiceInit
    <2> SUFFICES ASSUME Init PROVE Service!ServiceInit
      OBVIOUS
    <2>1. Range(nodi) = {}
      BY SMT DEF Init, Range
    <2>2. Served = {}
      BY DEF Init, Served
    <2>3. Requests = [p \in Peer |-> <<"none">>]
      BY <2>2, RequestsMap, RequestUnserved
    <2> QED BY <2>1, <2>3 DEF Service!ServiceInit
  <1>2. Init => AnswersOK
    BY DEF Init, AnswersOK, AnswerOK
  <1>3. ServerIInv /\ ServerIInv' /\ AnswersOK /\ [Next]_vars => AnswersOK'
    <2>1. AnswersOK /\ UNCHANGED vars => AnswersOK'
      BY DEF vars, AnswersOK, AnswerOK, Announced
    <2> QED BY <2>1, AnswersStep DEF Next
  <1>4. ServerIInv /\ ServerIInv' /\ AnswersOK /\ [Next]_vars
          => [Service!ServiceNext]_Service!serviceVars
    <2> SUFFICES ASSUME ServerIInv, ServerIInv', AnswersOK, [Next]_vars
                 PROVE  Service!ServiceNext \/ UNCHANGED <<Range(nodi), Requests>>
      BY DEF Service!serviceVars
    <2>1. CASE UNCHANGED vars
      BY <2>1 DEF vars, Requests, RequestOf, Announced
    <2>2. ASSUME NEW t \in Thread, NEW p \in Peer, Accept(t, p) PROVE Service!ServiceNext
      BY <2>2, AcceptAsks DEF Service!ServiceNext
    <2>3. ASSUME NEW t \in Thread, Search(t)
          PROVE  UNCHANGED <<Range(nodi), Requests>>
      <3>1. /\ at[t] = "search" /\ at'[t] \in {"register", "compose"}
            /\ UNCHANGED <<nodi, asker, answer>>
            /\ \A u \in Thread \ {t} : at'[u] = at[u]
        BY <2>3 DEF Search, Goto, ServerIInv, ServerTypeOK
      <3> QED BY <3>1, StillAsked
    <2>4. ASSUME NEW t \in Thread, Iscrizione(t)
          PROVE  Service!ServiceNext \/ UNCHANGED <<Range(nodi), Requests>>
      BY <2>4, IscrizioneRegisters DEF Service!ServiceNext
    <2>5. ASSUME NEW t \in Thread, Compose(t)
          PROVE  Service!ServiceNext \/ UNCHANGED <<Range(nodi), Requests>>
      BY <2>5, ComposeTells DEF Service!ServiceNext
    <2>6. ASSUME NEW t \in Thread, Draw(t)
          PROVE  Service!ServiceNext \/ UNCHANGED <<Range(nodi), Requests>>
      BY <2>6, DrawTells DEF Service!ServiceNext
    <2>7. ASSUME NEW t \in Thread, Send(t) PROVE Service!ServiceNext
      BY <2>7, SendReceived DEF Service!ServiceNext
    <2> QED BY <2>1, <2>2, <2>3, <2>4, <2>5, <2>6, <2>7 DEF Next, Answer
  <1> QED BY <1>1, <1>2, <1>3, <1>4, ServerAlways, PTL
       DEF Spec, ImplementsService, Service!ServiceSpec

-----------------------------------------------------------------------------
(* The peers that join.                                                    *)

BootPhases == {"off", "init", "ask", "asked", "ping", "done"}

JoinTypeOK ==
  /\ known \subseteq Peer
  /\ DOMAIN request = Peer
  /\ boot \in [Peer -> BootPhases]
  /\ toPing \in [Peer -> SUBSET Peer]
  /\ seen \in [Peer -> SUBSET Peer]
  /\ neighbour \in [Peer -> SUBSET Peer]
  /\ pongs \subseteq Peer \X Peer

(* Who has gone beyond the start of its dispatchers listens.               *)
BeyondInit == \A p \in Peer : boot[p] \notin {"off", "init"} => p \in listening

(* Only such a peer asks, and only who asked is registered.                *)
Asking == \A p \in Peer : request[p] # <<"none">> => boot[p] = "asked"

KnownListens == known \subseteq listening

(* Who is told to a peer is registered, and is not that peer.              *)
ToldKnown ==
  \A p \in Peer : \A peers :
    request[p] = <<"told", peers>> => peers \subseteq known \ {p}

(* Only a peer that listens has sent a ping that others forward.           *)
SeenListens == \A p \in Peer : seen[p] # {} => p \in listening

JoinIInv ==
  JoinTypeOK /\ BeyondInit /\ Asking /\ KnownListens /\ ToldKnown /\ SeenListens
  /\ PingedListens

LEMMA JoinInit == BootInit => JoinIInv
  <1> SUFFICES ASSUME BootInit PROVE JoinIInv
    OBVIOUS
  <1>1. known = {} /\ request = [p \in Peer |-> <<"none">>]
    BY DEF BootInit, ServiceInit
  <1>2. JoinTypeOK
    BY <1>1 DEF BootInit, JoinTypeOK, BootPhases
  <1>3. ToldKnown
    BY <1>1 DEF ToldKnown
  <1> QED BY <1>1, <1>2, <1>3 DEF BootInit, JoinIInv, BeyondInit, Asking, KnownListens,
             SeenListens, PingedListens

LEMMA PhaseFacts ==
  ASSUME JoinTypeOK, NEW p \in Peer, NEW from, NEW to \in BootPhases, Phase(p, from, to)
  PROVE  /\ boot' \in [Peer -> BootPhases]
         /\ boot[p] = from /\ boot'[p] = to
         /\ \A q \in Peer \ {p} : boot'[q] = boot[q]
  BY DEF JoinTypeOK, Phase

LEMMA BecomeFacts ==
  ASSUME JoinTypeOK, NEW p \in Peer, NEW from, NEW to, Become(p, from, to)
  PROVE  /\ DOMAIN request' = Peer
         /\ request[p] = from /\ request'[p] = to
         /\ \A q \in Peer \ {p} : request'[q] = request[q]
  BY Zenon DEF JoinTypeOK, Become

(* Steps in which the server takes no part.                                *)
LEMMA PhaseStep ==
  ASSUME JoinIInv, NEW p \in Peer,
         NEW from \in BootPhases \ {"asked"}, NEW to \in BootPhases, Phase(p, from, to),
         to \notin {"off", "init"} => p \in listening,
         UNCHANGED <<serviceVars, listening, toPing, seen, neighbour, pongs>>
  PROVE  JoinIInv'
  <1>1. /\ boot' \in [Peer -> BootPhases]
        /\ boot[p] = from /\ boot'[p] = to
        /\ \A q \in Peer \ {p} : boot'[q] = boot[q]
    BY PhaseFacts DEF JoinIInv
  <1>2. UNCHANGED <<known, request>>
    BY DEF serviceVars
  <1>3. JoinTypeOK'
    BY <1>1, <1>2 DEF JoinIInv, JoinTypeOK
  <1>4. BeyondInit' /\ Asking'
    BY <1>1, <1>2 DEF JoinIInv, BeyondInit, Asking
  <1>5. KnownListens' /\ ToldKnown' /\ SeenListens' /\ PingedListens'
    BY <1>2 DEF JoinIInv, KnownListens, ToldKnown, SeenListens, PingedListens
  <1> QED BY <1>3, <1>4, <1>5 DEF JoinIInv

LEMMA ListenKeeps ==
  ASSUME JoinIInv, NEW p \in Peer, Listen(p)
  PROVE  JoinIInv'
  <1>1. listening \subseteq listening' /\ UNCHANGED <<known, request>>
        /\ UNCHANGED <<boot, toPing, seen, neighbour, pongs>>
    BY DEF Listen, serviceVars
  <1> QED BY <1>1 DEF JoinIInv, JoinTypeOK, BeyondInit, Asking, KnownListens, ToldKnown,
             SeenListens, PingedListens

LEMMA JoinAskKeeps ==
  ASSUME JoinIInv, NEW p \in Peer, Ask(p)
  PROVE  JoinIInv'
  <1>1. /\ boot' \in [Peer -> BootPhases]
        /\ boot[p] = "ask" /\ boot'[p] = "asked"
        /\ \A q \in Peer \ {p} : boot'[q] = boot[q]
    <2>1. "asked" \in BootPhases /\ Phase(p, "ask", "asked")
      BY DEF BootPhases, Ask
    <2> QED BY <2>1, PhaseFacts DEF JoinIInv
  <1>2. /\ DOMAIN request' = Peer /\ request'[p] = <<"asked">>
        /\ \A q \in Peer \ {p} : request'[q] = request[q]
        /\ known' = known
    <2>1. Become(p, <<"none">>, <<"asked">>) /\ known' = known
      BY DEF Ask, AskServer
    <2> QED BY <2>1, BecomeFacts DEF JoinIInv
  <1>3. UNCHANGED <<listening, toPing, seen, neighbour, pongs>>
    BY DEF Ask
  <1>4. JoinTypeOK'
    BY <1>1, <1>2, <1>3 DEF JoinIInv, JoinTypeOK
  <1>5. BeyondInit' /\ Asking'
    BY <1>1, <1>2, <1>3 DEF JoinIInv, BeyondInit, Asking
  <1>6. ToldKnown'
    <2>1. \A peers : <<"asked">> # <<"told", peers>>
      OBVIOUS
    <2> QED BY <1>2, <2>1 DEF JoinIInv, ToldKnown
  <1>7. KnownListens' /\ SeenListens' /\ PingedListens'
    BY <1>2, <1>3 DEF JoinIInv, KnownListens, SeenListens, PingedListens
  <1> QED BY <1>4, <1>5, <1>6, <1>7 DEF JoinIInv

LEMMA RegisterKeeps ==
  ASSUME JoinIInv, NEW p \in Peer, Register(p), UNCHANGED joinVars
  PROVE  JoinIInv'
  <1>1. known' = known \cup {p} /\ request' = request
        /\ UNCHANGED <<boot, listening, toPing, seen, neighbour, pongs>>
    BY DEF Register, joinVars
  <1>2. p \in listening
    <2>1. request[p] # <<"none">>
      BY DEF Register
    <2> QED BY <2>1 DEF JoinIInv, Asking, BeyondInit
  <1> QED BY <1>1, <1>2 DEF JoinIInv, JoinTypeOK, BeyondInit, Asking, KnownListens,
             ToldKnown, SeenListens, PingedListens

LEMMA TellKeeps ==
  ASSUME JoinIInv, NEW p \in Peer, Tell(p), UNCHANGED joinVars
  PROVE  JoinIInv'
  <1> DEFINE peers == IF Fit THEN known \ {p} ELSE {}
  <1>1. Become(p, <<"asked">>, <<"told", peers>>) /\ known' = known
    BY DEF Tell
  <1>2. peers \subseteq known \ {p}
    OBVIOUS
  <1> HIDE DEF peers
  <1>3. /\ DOMAIN request' = Peer
        /\ request[p] = <<"asked">> /\ request'[p] = <<"told", peers>>
        /\ \A q \in Peer \ {p} : request'[q] = request[q]
    BY <1>1, BecomeFacts DEF JoinIInv
  <1>4. UNCHANGED <<boot, listening, toPing, seen, neighbour, pongs>>
    BY DEF joinVars
  <1>5. boot[p] = "asked"
    BY <1>3 DEF JoinIInv, Asking
  <1>6. JoinTypeOK'
    BY <1>1, <1>3, <1>4 DEF JoinIInv, JoinTypeOK
  <1>7. BeyondInit' /\ Asking'
    BY <1>3, <1>4, <1>5 DEF JoinIInv, BeyondInit, Asking
  <1>8. ToldKnown'
    <2> SUFFICES ASSUME NEW q \in Peer, NEW s, request'[q] = <<"told", s>>
                 PROVE  s \subseteq known \ {q}
      BY <1>1 DEF ToldKnown
    <2>1. CASE q = p
      BY <1>2, <1>3, <2>1
    <2>2. CASE q # p
      BY <1>3, <2>2 DEF JoinIInv, ToldKnown
    <2> QED BY <2>1, <2>2
  <1>9. KnownListens' /\ SeenListens' /\ PingedListens'
    BY <1>1, <1>4 DEF JoinIInv, KnownListens, SeenListens, PingedListens
  <1> QED BY <1>6, <1>7, <1>8, <1>9 DEF JoinIInv

LEMMA ToldKeeps ==
  ASSUME JoinIInv, NEW p \in Peer, Told(p)
  PROVE  JoinIInv'
  <1>1. PICK peers \in SUBSET known :
          /\ Receive(p, peers)
          /\ \/ Phase(p, "asked", "ask") /\ UNCHANGED <<toPing, seen>>
             \/ /\ Phase(p, "asked", "ping")
                /\ toPing' = [toPing EXCEPT ![p] = peers]
                /\ seen' = [seen EXCEPT ![p] = {}]
          /\ UNCHANGED <<listening, neighbour, pongs>>
    BY DEF Told
  <1>2. /\ DOMAIN request' = Peer /\ known' = known
        /\ request[p] = <<"told", peers>> /\ request'[p] = <<"none">>
        /\ \A q \in Peer \ {p} : request'[q] = request[q]
    <2>1. Become(p, <<"told", peers>>, <<"none">>) /\ known' = known
      BY <1>1 DEF Receive
    <2> QED BY <2>1, BecomeFacts DEF JoinIInv
  <1>3. peers \subseteq listening \ {p} /\ peers \subseteq Peer
    BY <1>2 DEF JoinIInv, ToldKnown, KnownListens, JoinTypeOK
  <1>4. /\ boot' \in [Peer -> BootPhases]
        /\ boot[p] = "asked" /\ boot'[p] \in {"ask", "ping"}
        /\ \A q \in Peer \ {p} : boot'[q] = boot[q]
    <2>1. "ask" \in BootPhases /\ "ping" \in BootPhases
      BY DEF BootPhases
    <2>2. CASE Phase(p, "asked", "ask")
      BY <2>1, <2>2, PhaseFacts DEF JoinIInv
    <2>3. CASE Phase(p, "asked", "ping")
      BY <2>1, <2>3, PhaseFacts DEF JoinIInv
    <2> QED BY <1>1, <2>2, <2>3
  <1>5. /\ toPing' \in [Peer -> SUBSET Peer]
        /\ \A q \in Peer : toPing'[q] \subseteq listening \ {q}
        /\ seen' \in [Peer -> SUBSET Peer]
        /\ \A q \in Peer : seen'[q] \subseteq seen[q]
    BY <1>1, <1>3 DEF JoinIInv, JoinTypeOK, PingedListens
  <1>6. JoinTypeOK'
    BY <1>1, <1>2, <1>4, <1>5 DEF JoinIInv, JoinTypeOK
  <1>7. BeyondInit' /\ Asking'
    BY <1>1, <1>2, <1>4 DEF JoinIInv, BeyondInit, Asking
  <1>8. ToldKnown'
    <2>1. \A s : <<"none">> # <<"told", s>>
      OBVIOUS
    <2> QED BY <1>2, <2>1 DEF JoinIInv, ToldKnown
  <1>9. KnownListens' /\ SeenListens' /\ PingedListens'
    BY <1>1, <1>2, <1>5 DEF JoinIInv, KnownListens, SeenListens, PingedListens
  <1> QED BY <1>6, <1>7, <1>8, <1>9 DEF JoinIInv

LEMMA LearnTyped ==
  ASSUME JoinTypeOK, NEW p \in Peer, NEW q \in Peer, Learn(q, p)
  PROVE  neighbour' \in [Peer -> SUBSET Peer]
  BY DEF JoinTypeOK, Learn

(* What is neither asked nor told nor listening: pings, pongs and gossip.  *)
LEMMA TrafficStep ==
  ASSUME JoinIInv, UNCHANGED <<serviceVars, boot, listening>>,
         toPing' \in [Peer -> SUBSET Peer], \A p \in Peer : toPing'[p] \subseteq toPing[p],
         seen' \in [Peer -> SUBSET Peer],
         \A p \in Peer : seen'[p] # seen[p] => p \in listening,
         neighbour' \in [Peer -> SUBSET Peer],
         pongs' \subseteq Peer \X Peer,
         \A m \in pongs' \ pongs : m[2] \in listening
  PROVE  JoinIInv'
  <1>1. UNCHANGED <<known, request, boot, listening>>
    BY DEF serviceVars
  <1>2. JoinTypeOK'
    BY <1>1 DEF JoinIInv, JoinTypeOK
  <1>3. BeyondInit' /\ Asking' /\ KnownListens' /\ ToldKnown'
    BY <1>1 DEF JoinIInv, BeyondInit, Asking, KnownListens, ToldKnown
  <1>4. SeenListens' /\ PingedListens'
    BY <1>1 DEF JoinIInv, SeenListens, PingedListens
  <1> QED BY <1>2, <1>3, <1>4 DEF JoinIInv

LEMMA PingKeeps ==
  ASSUME JoinIInv, NEW p \in Peer, NEW q \in Peer, Ping(p, q)
  PROVE  JoinIInv'
  <1>1. p \in listening
    BY DEF Ping, JoinIInv, BeyondInit
  <1>2. /\ toPing' \in [Peer -> SUBSET Peer] /\ \A r \in Peer : toPing'[r] \subseteq toPing[r]
        /\ UNCHANGED <<serviceVars, boot, listening>>
    BY DEF Ping, JoinIInv, JoinTypeOK
  <1>3. CASE UNCHANGED <<seen, neighbour, pongs>>
    BY <1>2, <1>3, TrafficStep DEF JoinIInv, JoinTypeOK
  <1>4. CASE /\ seen' = [seen EXCEPT ![p] = @ \cup {q}]
             /\ pongs' = pongs \cup {<<q, p>>}
             /\ Learn(q, p)
    <2>1. neighbour' \in [Peer -> SUBSET Peer]
      BY <1>4, LearnTyped DEF JoinIInv
    <2>2. /\ seen' \in [Peer -> SUBSET Peer]
          /\ \A r \in Peer : seen'[r] # seen[r] => r \in listening
      BY <1>1, <1>4 DEF JoinIInv, JoinTypeOK
    <2>3. pongs' \subseteq Peer \X Peer /\ \A m \in pongs' \ pongs : m[2] \in listening
      BY <1>1, <1>4 DEF JoinIInv, JoinTypeOK
    <2> QED BY <1>2, <2>1, <2>2, <2>3, TrafficStep
  <1> QED BY <1>3, <1>4 DEF Ping

LEMMA DeliverPongKeeps ==
  ASSUME JoinIInv, NEW p \in Peer, NEW q \in Peer, DeliverPong(p, q)
  PROVE  JoinIInv'
  <1>1. neighbour' \in [Peer -> SUBSET Peer]
    BY LearnTyped DEF DeliverPong, JoinIInv
  <1>2. pongs' \subseteq pongs /\ UNCHANGED <<serviceVars, boot, listening, toPing, seen>>
    BY DEF DeliverPong
  <1> QED BY <1>1, <1>2, TrafficStep DEF JoinIInv, JoinTypeOK

LEMMA ForwardKeeps ==
  ASSUME JoinIInv, NEW p \in Peer, NEW q \in Peer, Forward(p, q)
  PROVE  JoinIInv'
  <1>1. p \in listening
    BY DEF Forward, Answered, Forwarded, JoinIInv, SeenListens
  <1>2. /\ seen' \in [Peer -> SUBSET Peer]
        /\ \A r \in Peer : seen'[r] # seen[r] => r \in listening
        /\ UNCHANGED <<serviceVars, boot, listening, toPing>>
    BY <1>1 DEF Forward, Answered, Forwarded, JoinIInv, JoinTypeOK
  <1>3. neighbour' \in [Peer -> SUBSET Peer]
    BY LearnTyped DEF Forward, Answered, Forwarded, JoinIInv, JoinTypeOK
  <1>4. pongs' \subseteq Peer \X Peer /\ \A m \in pongs' \ pongs : m[2] \in listening
    BY <1>1 DEF Forward, Answered, Forwarded, JoinIInv, JoinTypeOK
  <1> QED BY <1>2, <1>3, <1>4, TrafficStep DEF JoinIInv, JoinTypeOK

LEMMA HearKeeps ==
  ASSUME JoinIInv, NEW p \in Peer, NEW q \in Peer, Hear(p, q)
  PROVE  JoinIInv'
  <1>1. \A r \in {p} \cup neighbour[p] : r \in Peer
    BY DEF JoinIInv, JoinTypeOK
  <1>2. neighbour' \in [Peer -> SUBSET Peer]
    BY <1>1, LearnTyped DEF Hear, JoinIInv
  <1>3. UNCHANGED <<serviceVars, boot, listening, toPing, seen, pongs>>
    BY DEF Hear
  <1> QED BY <1>2, <1>3, TrafficStep DEF JoinIInv, JoinTypeOK

LEMMA JoinStep == JoinIInv /\ [BootNext]_bootVars => JoinIInv'
  <1> SUFFICES ASSUME JoinIInv, [BootNext]_bootVars PROVE JoinIInv'
    OBVIOUS
  <1>1. CASE UNCHANGED bootVars
    BY <1>1 DEF bootVars, serviceVars, joinVars, JoinIInv, JoinTypeOK, BeyondInit, Asking,
                KnownListens, ToldKnown, SeenListens, PingedListens
  <1> USE DEF BootPhases
  <1>2. ASSUME NEW p \in Peer, Start(p) PROVE JoinIInv'
    <2>1. Phase(p, "off", "init")
          /\ UNCHANGED <<serviceVars, listening, toPing, seen, neighbour, pongs>>
      BY <1>2 DEF Start
    <2> QED BY <2>1, PhaseStep
  <1>3. ASSUME NEW p \in Peer, Initialised(p) PROVE JoinIInv'
    <2>1. Phase(p, "init", "ask") /\ p \in listening
          /\ UNCHANGED <<serviceVars, listening, toPing, seen, neighbour, pongs>>
      BY <1>3 DEF Initialised
    <2> QED BY <2>1, PhaseStep
  <1>4. ASSUME NEW p \in Peer, Check(p) PROVE JoinIInv'
    <2>1. PICK to \in {"ask", "done"} : Phase(p, "ping", to)
      BY <1>4 DEF Check
    <2>2. p \in listening
      BY <2>1 DEF Phase, JoinIInv, BeyondInit
    <2> QED BY <1>4, <2>1, <2>2, PhaseStep DEF Check
  <1>5. ASSUME NEW p \in Peer, Serve(p) PROVE JoinIInv'
    BY <1>5, RegisterKeeps, TellKeeps DEF Serve
  <1> QED BY <1>1, <1>2, <1>3, <1>4, <1>5, ListenKeeps, JoinAskKeeps, ToldKeeps, PingKeeps,
             DeliverPongKeeps, ForwardKeeps, HearKeeps DEF BootNext, Join

(* Joining ends nobody's process: whoever is about to be pinged or ponged  *)
(* listens, for any number of peers and in whatever order they start, ask, *)
(* are told, ping and forward.                                             *)
THEOREM NobodyPingedEarly == BootSpec => []PingedListens
  <1>1. BootSpec => []JoinIInv
    BY JoinInit, JoinStep, PTL DEF BootSpec
  <1>2. JoinIInv => PingedListens
    BY DEF JoinIInv
  <1> QED BY <1>1, <1>2, PTL
=============================================================================
