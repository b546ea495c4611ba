----------------------------- MODULE PeerProofs -----------------------------
(***************************************************************************)
(* Proofs about the threads of a peer that share its neighbour buffer.     *)
(*                                                                         *)
(* The buffer (Neighbour), for every number of lists and set of peers: it  *)
(* never holds a peer twice or its own, and news makes no peer older.      *)
(*                                                                         *)
(* The message handlers (Peer), for every number of helpers and every set  *)
(* of messages: they use the neighbour buffer by its operations only,      *)
(* handle a message once while its id is remembered, and a bye takes       *)
(* effect whatever the other threads do between the steps of its handler.  *)
(*                                                                         *)
(* Round gossip (RoundGossip), for every fanout and size of a message: it  *)
(* uses the buffer in the same way, draws nobody twice and never draws on  *)
(* for nothing, reaches the neighbours it should, and tells no fresher     *)
(* news than the peer has.                                                 *)
(***************************************************************************)
EXTENDS PeerHistory, MCRoundGossip, TLAPS, SequenceTheorems, FiniteSetTheorems,
        WellFoundedInduction

(* What the shifting loop of every removal leaves of a list.               *)
LEMMA RemoveAtFacts ==
  ASSUME NEW S, NEW s \in Seq(S), NEW k \in 1 .. Len(s)
  PROVE  /\ RemoveAt(s, k) \in Seq(S)
         /\ Len(RemoveAt(s, k)) = Len(s) - 1
         /\ \A m \in 1 .. Len(s) - 1 :
              RemoveAt(s, k)[m] = IF m < k THEN s[m] ELSE s[m + 1]
  <1>1. /\ SubSeq(s, 1, k - 1) \in Seq(S)
        /\ Len(SubSeq(s, 1, k - 1)) = k - 1
        /\ \A m \in 1 .. k - 1 : SubSeq(s, 1, k - 1)[m] = s[m]
    BY SMT
  <1>2. /\ SubSeq(s, k + 1, Len(s)) \in Seq(S)
        /\ Len(SubSeq(s, k + 1, Len(s))) = Len(s) - k
        /\ \A m \in 1 .. Len(s) - k : SubSeq(s, k + 1, Len(s))[m] = s[m + k]
    BY SMT
  <1> DEFINE a == SubSeq(s, 1, k - 1)
             b == SubSeq(s, k + 1, Len(s))
  <1>3. /\ a \o b \in Seq(S)
        /\ Len(a \o b) = Len(a) + Len(b)
        /\ \A m \in 1 .. Len(a) + Len(b) :
             (a \o b)[m] = IF m <= Len(a) THEN a[m] ELSE b[m - Len(a)]
    <2> HIDE DEF a, b
    <2>1. a \in Seq(S) /\ b \in Seq(S)
      BY <1>1, <1>2 DEF a, b
    <2> QED BY <2>1, ConcatProperties, Zenon
  <1>4. RemoveAt(s, k) = a \o b
    BY DEF RemoveAt
  <1> HIDE DEF a, b
  <1>5. /\ Len(a) = k - 1 /\ Len(b) = Len(s) - k
        /\ \A m \in 1 .. k - 1 : a[m] = s[m]
        /\ \A m \in 1 .. Len(s) - k : b[m] = s[m + k]
    BY <1>1, <1>2 DEF a, b
  <1>6. Len(s) \in Nat
    BY SMT
  <1>7. ASSUME NEW m \in 1 .. Len(s) - 1
        PROVE  (a \o b)[m] = IF m < k THEN s[m] ELSE s[m + 1]
    <2>1. m \in 1 .. Len(a) + Len(b)
      BY <1>5, <1>6, SMT
    <2>2. CASE m < k
      BY <1>3, <1>5, <2>1, <2>2, SMT
    <2>3. CASE ~ (m < k)
      <3>1. m - Len(a) \in 1 .. Len(s) - k /\ (m - Len(a)) + k = m + 1 /\ ~ (m <= Len(a))
        BY <1>5, <1>6, <2>3, SMT
      <3>2. (a \o b)[m] = b[m - Len(a)]
        BY <1>3, <2>1, <3>1, Zenon
      <3>3. b[m - Len(a)] = s[m + 1]
        BY <1>5, <3>1, Zenon
      <3> QED BY <2>3, <3>2, <3>3
    <2> QED BY <2>2, <2>3
  <1> QED BY <1>3, <1>4, <1>5, <1>6, <1>7, SMT

LEMMA MinInside ==
  ASSUME NEW S \in SUBSET Nat, S # {}
  PROVE  Min(S) \in S /\ \A x \in S : Min(S) <= x
  <1>1. \E x \in S : \A y \in S : ~ (<<y, x>> \in OpToRel(<, Nat))
    BY NatLessThanWellFounded, WFMin, Zenon
  <1>2. \E x \in S : \A y \in S : x <= y
    <2>1. PICK x \in S : \A y \in S : ~ (<<y, x>> \in OpToRel(<, Nat))
      BY <1>1
    <2>2. ASSUME NEW y \in S PROVE ~ (y < x)
      <3>1. <<y, x>> \in Nat \X Nat /\ <<y, x>>[1] = y /\ <<y, x>>[2] = x
        OBVIOUS
      <3> QED BY <2>1, <3>1 DEF OpToRel
    <2> QED BY <2>2, SMT
  <1> QED BY <1>2, Zenon DEF Min

-----------------------------------------------------------------------------
(* The inductive invariant, of a buffer b: the lists never hold more than  *)
(* MaxAge peers, which is what makes the free slot of Insert exist.        *)
Sound(b) ==
  /\ b \in [Ages -> Seq(Peer)]
  /\ \A i \in Ages : Len(b[i]) <= MaxAge
  /\ \A i \in Ages : \A k \in 1 .. Len(b[i]) : b[i][k] # Self
  /\ \A i, j \in Ages : \A k \in 1 .. Len(b[i]), l \in 1 .. Len(b[j]) :
       b[i][k] = b[j][l] => i = j /\ k = l

Lacks(b, p) == \A i \in Ages : \A k \in 1 .. Len(b[i]) : b[i][k] # p

LEMMA InsertWhere ==
  ASSUME NEW b, NEW p, NEW age \in Nat
  PROVE  \/ /\ Insert(b, p, age) = b
            /\ \A i \in age .. MaxAge - 1 : ~ (Len(b[i]) < MaxAge)
         \/ \E i \in Ages : /\ age <= i /\ Len(b[i]) < MaxAge
                            /\ \A j \in age .. MaxAge - 1 : Len(b[j]) < MaxAge => i <= j
                            /\ Insert(b, p, age) = [b EXCEPT ![i] = Append(@, p)]
  <1> DEFINE room == {i \in age .. MaxAge - 1 : Len(b[i]) < MaxAge}
  <1>1. CASE room = {}
    <2>1. Insert(b, p, age) = b
      BY <1>1 DEF Insert
    <2> QED BY <1>1, <2>1
  <1>2. CASE room # {}
    <2>1. room \in SUBSET Nat
      BY AgeAssumption, SMT
    <2>2. Min(room) \in room /\ \A x \in room : Min(room) <= x
      <3> HIDE DEF room
      <3> QED BY <1>2, <2>1, MinInside
    <2>3. Insert(b, p, age) = [b EXCEPT ![Min(room)] = Append(@, p)]
      BY <1>2 DEF Insert
    <2>4. Min(room) \in Ages /\ age <= Min(room) /\ Len(b[Min(room)]) < MaxAge
      <3>1. Min(room) \in age .. MaxAge - 1 /\ Len(b[Min(room)]) < MaxAge
        BY <2>2
      <3> QED BY <3>1, AgeAssumption, SMT DEF Ages
    <2>5. \A j \in age .. MaxAge - 1 : Len(b[j]) < MaxAge => Min(room) <= j
      BY <2>2
    <2> QED BY <2>3, <2>4, <2>5
  <1> QED BY <1>1, <1>2

LEMMA InsertSound ==
  ASSUME NEW b, Sound(b), NEW p \in Peer, p # Self, Lacks(b, p), NEW age \in Nat
  PROVE  Sound(Insert(b, p, age))
  <1>1. CASE Insert(b, p, age) = b
    BY <1>1
  <1>2. ASSUME NEW i \in Ages, Len(b[i]) < MaxAge,
               Insert(b, p, age) = [b EXCEPT ![i] = Append(@, p)]
        PROVE  Sound(Insert(b, p, age))
    <2> DEFINE c == Insert(b, p, age)
    <2>1. /\ c \in [Ages -> Seq(Peer)]
          /\ c[i] = Append(b[i], p)
          /\ \A j \in Ages \ {i} : c[j] = b[j]
      BY <1>2, SMT DEF Sound
    <2>2. /\ Len(c[i]) = Len(b[i]) + 1
          /\ c[i][Len(b[i]) + 1] = p
          /\ \A k \in 1 .. Len(b[i]) : c[i][k] = b[i][k]
      BY <2>1, SMT DEF Sound
    <2>3. \A j \in Ages : Len(b[j]) \in Nat /\ Len(c[j]) <= MaxAge
      BY <1>2, <2>1, <2>2, AgeAssumption, SMT DEF Sound
    <2> HIDE DEF c
    <2>4. \A j \in Ages : \A k \in 1 .. Len(c[j]) :
            \/ j = i /\ k = Len(b[i]) + 1 /\ c[j][k] = p
            \/ k \in 1 .. Len(b[j]) /\ c[j][k] = b[j][k]
      BY <2>1, <2>2, <2>3, SMT
    <2>5. \A j \in Ages : \A k \in 1 .. Len(c[j]) : c[j][k] # Self
      BY <2>4, SMT DEF Sound
    <2>6. ASSUME NEW j \in Ages, NEW l \in Ages, NEW m \in 1 .. Len(c[j]),
                 NEW n \in 1 .. Len(c[l]), c[j][m] = c[l][n]
          PROVE  j = l /\ m = n
      <3>1. \/ j = i /\ m = Len(b[i]) + 1 /\ c[j][m] = p
            \/ m \in 1 .. Len(b[j]) /\ c[j][m] = b[j][m]
        BY <2>4
      <3>2. \/ l = i /\ n = Len(b[i]) + 1 /\ c[l][n] = p
            \/ n \in 1 .. Len(b[l]) /\ c[l][n] = b[l][n]
        BY <2>4
      <3>3. \A x \in Ages : \A y \in 1 .. Len(b[x]) : b[x][y] # p
        BY DEF Lacks
      <3>4. \A y \in 1 .. Len(b[j]) : \A z \in 1 .. Len(b[l]) :
              b[j][y] = b[l][z] => j = l /\ y = z
        BY DEF Sound
      <3> QED BY <2>6, <3>1, <3>2, <3>3, <3>4
    <2>7. Sound(c)
      BY <2>1, <2>3, <2>5, <2>6, Zenon DEF Sound
    <2> QED BY <2>7 DEF c
  <1> QED BY <1>1, <1>2, InsertWhere

LEMMA RemovalSound ==
  ASSUME NEW b, Sound(b), NEW i \in Ages, NEW k \in 1 .. Len(b[i]),
         NEW c, c = [b EXCEPT ![i] = RemoveAt(@, k)]
  PROVE  Sound(c) /\ Lacks(c, b[i][k]) /\ Len(c[i]) < MaxAge
  <1>1. b[i] \in Seq(Peer) /\ Len(b[i]) \in Nat
    BY SMT DEF Sound
  <1>2. /\ c[i] \in Seq(Peer)
        /\ Len(c[i]) = Len(b[i]) - 1
        /\ \A m \in 1 .. Len(b[i]) - 1 :
             c[i][m] = IF m < k THEN b[i][m] ELSE b[i][m + 1]
    <2>1. c[i] = RemoveAt(b[i], k)
      BY SMT DEF Sound
    <2> QED BY <1>1, <2>1, RemoveAtFacts
  <1>3. c \in [Ages -> Seq(Peer)] /\ \A j \in Ages \ {i} : c[j] = b[j]
    BY <1>2, SMT DEF Sound
  <1>4. \A m \in 1 .. Len(c[i]) : \E n \in 1 .. Len(b[i]) \ {k} :
          c[i][m] = b[i][n] /\ n = IF m < k THEN m ELSE m + 1
    BY <1>1, <1>2, SMT
  <1>5. \A j \in Ages : Len(c[j]) <= MaxAge
    BY <1>1, <1>2, <1>3, AgeAssumption, SMT DEF Sound
  <1>6. Lacks(c, b[i][k])
    BY <1>3, <1>4, SMT DEF Sound, Lacks
  <1>7. \A j \in Ages : \A m \in 1 .. Len(c[j]) : c[j][m] # Self
    BY <1>3, <1>4, SMT DEF Sound
  <1>8. ASSUME NEW j \in Ages, NEW l \in Ages, NEW m \in 1 .. Len(c[j]),
               NEW n \in 1 .. Len(c[l]), c[j][m] = c[l][n]
        PROVE  j = l /\ m = n
    <2>1. \E x \in 1 .. Len(b[j]) : /\ c[j][m] = b[j][x]
                                    /\ x = IF j = i /\ ~ (m < k) THEN m + 1 ELSE m
      BY <1>3, <1>4, SMT
    <2>2. \E y \in 1 .. Len(b[l]) : /\ c[l][n] = b[l][y]
                                    /\ y = IF l = i /\ ~ (n < k) THEN n + 1 ELSE n
      BY <1>3, <1>4, SMT
    <2>3. PICK x \in 1 .. Len(b[j]), y \in 1 .. Len(b[l]) :
            /\ b[j][x] = b[l][y]
            /\ x = IF j = i /\ ~ (m < k) THEN m + 1 ELSE m
            /\ y = IF l = i /\ ~ (n < k) THEN n + 1 ELSE n
      BY <1>8, <2>1, <2>2
    <2>4. j = l /\ x = y
      BY <2>3 DEF Sound
    <2>5. m \in Int /\ n \in Int /\ k \in Int
      BY SMT
    <2> QED BY <2>3, <2>4, <2>5, SMT
  <1>9. Len(c[i]) < MaxAge
    BY <1>1, <1>2, AgeAssumption, SMT DEF Sound
  <1>10. Sound(c)
    BY <1>3, <1>5, <1>7, <1>8, Zenon DEF Sound
  <1> QED BY <1>6, <1>9, <1>10

-----------------------------------------------------------------------------
(* The invariant holds of the buffer, and implies the stated ones.         *)

LEMMA RangeAt ==
  ASSUME NEW s \in Seq(Peer), NEW p
  PROVE  p \in Range(s) <=> \E k \in 1 .. Len(s) : s[k] = p
  <1>1. DOMAIN s = 1 .. Len(s)
    BY SMT
  <1> QED BY <1>1, Zenon DEF Range

LEMMA KnownOrLacks ==
  ASSUME Sound(nodi), NEW p
  PROVE  p \notin Known <=> Lacks(nodi, p)
  <1>1. \A i \in Ages : nodi[i] \in Seq(Peer)
    BY SMT DEF Sound
  <1>2. p \in Known <=> \E i \in Ages : p \in Range(nodi[i])
    BY Zenon DEF Known
  <1>3. \A i \in Ages : p \in Range(nodi[i]) <=> \E k \in 1 .. Len(nodi[i]) : nodi[i][k] = p
    BY <1>1, RangeAt
  <1> QED BY <1>2, <1>3 DEF Lacks

LEMMA RefreshSound ==
  ASSUME Sound(nodi), NEW p \in Peer, NEW age \in Nat, Refresh(p, age)
  PROVE  Sound(nodi')
  <1>1. CASE nodi' = nodi
    BY <1>1
  <1>2. CASE p # Self /\ p \notin Known /\ nodi' = Insert(nodi, p, age)
    BY <1>2, KnownOrLacks, InsertSound
  <1>3. ASSUME NEW i \in Ages, NEW k \in 1 .. Len(nodi[i]), p # Self,
               p = nodi[i][k], nodi' = Insert(Without(i, k), p, age)
        PROVE  Sound(nodi')
    <2>1. Sound(Without(i, k)) /\ Lacks(Without(i, k), p)
      BY <1>3, RemovalSound DEF Without
    <2> QED BY <1>3, <2>1, InsertSound
  <1> QED BY <1>1, <1>2, <1>3 DEF Refresh, FirstAt

LEMMA AgePlusOneSound ==
  ASSUME Sound(nodi), AgePlusOne
  PROVE  Sound(nodi')
  BY AgeAssumption, SMT DEF Sound, AgePlusOne, Ages

LEMMA StepSound ==
  ASSUME Sound(nodi), [Next]_nodi
  PROVE  Sound(nodi')
  <1>1. ASSUME NEW p \in Peer, InsertPeer(p) PROVE Sound(nodi')
    <2>1. CASE p = Self \/ p \in Known
      BY <1>1, <2>1 DEF InsertPeer
    <2>2. CASE p # Self /\ p \notin Known
      <3>1. nodi' = Insert(nodi, p, 0) /\ 0 \in Nat
        BY <1>1, <2>2 DEF InsertPeer
      <3> QED BY <2>2, <3>1, KnownOrLacks, InsertSound
    <2> QED BY <2>1, <2>2
  <1>2. ASSUME NEW p \in Peer, InsertSource(p) PROVE Sound(nodi')
    <2>1. 0 \in Nat
      OBVIOUS
    <2> QED BY <1>2, <2>1, RefreshSound DEF InsertSource
  <1>3. ASSUME NEW p \in Peer, NEW age \in 1 .. MaxAge, InsertListed(p, age)
        PROVE  Sound(nodi')
    <2>1. age \in Nat
      BY AgeAssumption, SMT
    <2> QED BY <1>3, <2>1, RefreshSound DEF InsertListed
  <1>4. ASSUME NEW p \in Peer, DeletePeer(p) PROVE Sound(nodi')
    BY <1>4, RemovalSound DEF DeletePeer, Without
  <1>5. CASE AgePlusOne
    BY <1>5, AgePlusOneSound
  <1>6. CASE UNCHANGED nodi
    BY <1>6
  <1> QED BY <1>1, <1>2, <1>3, <1>4, <1>5, <1>6 DEF Next

THEOREM AlwaysSound == Spec => []Sound(nodi)
  <1>1. Init => Sound(nodi)
    BY AgeAssumption, SMT DEF Init, Sound
  <1>2. Sound(nodi) /\ [Next]_nodi => Sound(nodi)'
    BY StepSound
  <1> QED BY <1>1, <1>2, PTL DEF Spec

(* Every list is a sequence of peers that fits in its slots.               *)
THEOREM TypeCorrect == Spec => []TypeOK
  <1>1. Sound(nodi) => TypeOK
    BY AgeAssumption, SMT DEF Sound, TypeOK
  <1> QED BY <1>1, AlwaysSound, PTL

(* No peer is twice in the buffer.                                         *)
THEOREM NeverTwice == Spec => []NoDuplicates
  <1>1. Sound(nodi) => NoDuplicates
    BY DEF Sound, NoDuplicates
  <1> QED BY <1>1, AlwaysSound, PTL

(* The buffer never holds the peer's own address.                          *)
THEOREM NeverSelf == Spec => []NotSelf
  <1>1. Sound(nodi) => NotSelf
    BY KnownOrLacks, Zenon DEF Sound, NotSelf, Lacks
  <1> QED BY <1>1, AlwaysSound, PTL

-----------------------------------------------------------------------------
(* An insertion keeps every peer where it is.                              *)
LEMMA InsertKeeps ==
  ASSUME NEW b, Sound(b), NEW p \in Peer, NEW age \in Nat,
         NEW j \in Ages, NEW k \in 1 .. Len(b[j])
  PROVE  /\ k \in 1 .. Len(Insert(b, p, age)[j])
         /\ Insert(b, p, age)[j][k] = b[j][k]
  <1>1. CASE Insert(b, p, age) = b
    BY <1>1
  <1>2. ASSUME NEW i \in Ages, Insert(b, p, age) = [b EXCEPT ![i] = Append(@, p)]
        PROVE  /\ k \in 1 .. Len(Insert(b, p, age)[j])
               /\ Insert(b, p, age)[j][k] = b[j][k]
    BY <1>2, SMT DEF Sound
  <1> QED BY <1>1, <1>2, InsertWhere

(* A removal keeps every other peer in its list.                           *)
LEMMA RemovalKeeps ==
  ASSUME NEW b, Sound(b), NEW i \in Ages, NEW k \in 1 .. Len(b[i]),
         NEW c, c = [b EXCEPT ![i] = RemoveAt(@, k)],
         NEW j \in Ages, NEW m \in 1 .. Len(b[j]), b[j][m] # b[i][k]
  PROVE  \E n \in 1 .. Len(c[j]) : c[j][n] = b[j][m]
  <1>1. b[i] \in Seq(Peer) /\ Len(b[i]) \in Nat
    BY SMT DEF Sound
  <1>2. /\ Len(c[i]) = Len(b[i]) - 1
        /\ \A n \in 1 .. Len(b[i]) - 1 :
             c[i][n] = IF n < k THEN b[i][n] ELSE b[i][n + 1]
    <2>1. c[i] = RemoveAt(b[i], k)
      BY SMT DEF Sound
    <2> QED BY <1>1, <2>1, RemoveAtFacts
  <1>3. CASE j # i
    <2>1. c[j] = b[j]
      BY <1>3, SMT DEF Sound
    <2> QED BY <2>1
  <1>4. CASE j = i
    <2>1. m # k
      BY <1>4
    <2>2. CASE m < k
      <3>1. m \in 1 .. Len(c[i]) /\ c[i][m] = b[i][m]
        BY <1>1, <1>2, <1>4, <2>2, SMT
      <3> QED BY <1>4, <3>1
    <2>3. CASE ~ (m < k)
      <3>1. m - 1 \in 1 .. Len(c[i]) /\ c[i][m - 1] = b[i][m]
        BY <1>1, <1>2, <1>4, <2>1, <2>3, SMT
      <3> QED BY <1>4, <3>1
    <2> QED BY <2>2, <2>3
  <1> QED BY <1>3, <1>4

(* News moves a known peer to a list at most as old as the one it was in:  *)
(* the removal has just made room there.                                   *)
LEMMA RefreshKeepsFresh ==
  ASSUME Sound(nodi), NEW q \in Peer, NEW age \in Nat, Refresh(q, age)
  PROVE  \A p \in Peer : Fresher(p)
  <1> SUFFICES ASSUME NEW p \in Peer, NEW j \in Ages, HasAge(p, j)
               PROVE  \E h \in 0 .. j : HasAge(p, h)'
    BY DEF Fresher
  <1>1. \A h \in Ages : nodi[h] \in Seq(Peer) /\ nodi'[h] \in Seq(Peer)
    BY RefreshSound, SMT DEF Sound
  <1>2. PICK m \in 1 .. Len(nodi[j]) : nodi[j][m] = p
    BY <1>1, RangeAt, Zenon DEF HasAge
  <1>3. SUFFICES \E h \in 0 .. j : \E n \in 1 .. Len(nodi'[h]) : nodi'[h][n] = p
    <2>1. 0 .. j \subseteq Ages
      BY AgeAssumption, SMT DEF Ages
    <2> QED BY <1>1, <1>3, <2>1, RangeAt, Zenon DEF HasAge
  <1>4. j \in 0 .. j
    BY AgeAssumption, SMT DEF Ages
  <1>5. CASE nodi' = nodi
    BY <1>2, <1>4, <1>5
  <1>6. CASE nodi' = Insert(nodi, q, age)
    BY <1>2, <1>4, <1>6, InsertKeeps
  <1>7. ASSUME NEW i \in Ages, NEW k \in 1 .. Len(nodi[i]), q # Self, q = nodi[i][k],
               ~ (i <= age), nodi' = Insert(Without(i, k), q, age)
        PROVE  \E h \in 0 .. j : \E n \in 1 .. Len(nodi'[h]) : nodi'[h][n] = p
    <2>1. Sound(Without(i, k)) /\ Len(Without(i, k)[i]) < MaxAge
      BY <1>7, RemovalSound DEF Without
    <2>2. CASE p # q
      <3>1. PICK n \in 1 .. Len(Without(i, k)[j]) : Without(i, k)[j][n] = p
        BY <1>2, <1>7, <2>2, RemovalKeeps DEF Without
      <3>2. /\ n \in 1 .. Len(Insert(Without(i, k), q, age)[j])
            /\ Insert(Without(i, k), q, age)[j][n] = Without(i, k)[j][n]
        <4> HIDE DEF Without
        <4> QED BY <2>1, InsertKeeps
      <3> QED BY <1>4, <1>7, <3>1, <3>2
    <2>3. CASE p = q
      <3>1. i = j
        BY <1>2, <1>7, <2>3 DEF Sound
      <3>2. i \in age .. MaxAge - 1
        BY <1>7, AgeAssumption, SMT DEF Ages
      <3>3. PICK h \in Ages :
              /\ \A l \in age .. MaxAge - 1 : Len(Without(i, k)[l]) < MaxAge => h <= l
              /\ nodi' = [Without(i, k) EXCEPT ![h] = Append(@, q)]
        BY <1>7, <2>1, <3>2, InsertWhere
      <3>4. h \in 0 .. j
        <4>1. h <= i
          BY <2>1, <3>2, <3>3, Zenon
        <4> QED BY <3>1, <4>1, AgeAssumption, SMT DEF Ages
      <3>5. nodi'[h] = Append(Without(i, k)[h], q) /\ Without(i, k)[h] \in Seq(Peer)
        BY <2>1, <3>3, SMT DEF Sound
      <3>6. Len(nodi'[h]) \in 1 .. Len(nodi'[h]) /\ nodi'[h][Len(nodi'[h])] = q
        BY <3>5, SMT
      <3> QED BY <2>3, <3>4, <3>6
    <2> QED BY <2>2, <2>3
  <1> QED BY <1>5, <1>6, <1>7 DEF Refresh, FirstAt

LEMMA InsertPeerKeepsFresh ==
  ASSUME Sound(nodi), NEW q \in Peer, InsertPeer(q)
  PROVE  \A p \in Peer : Fresher(p)
  <1>1. CASE q = Self
    <2>1. Refresh(q, 0)
      BY <1>1 DEF InsertPeer, Refresh
    <2> QED BY <2>1, RefreshKeepsFresh
  <1>2. CASE q # Self /\ q \notin Known
    <2>1. Refresh(q, 0)
      BY <1>2 DEF InsertPeer, Refresh
    <2> QED BY <2>1, RefreshKeepsFresh
  <1>3. CASE q # Self /\ q \in Known
    <2>1. nodi' = nodi
      BY <1>3 DEF InsertPeer
    <2>2. \A p \in Peer, j \in Ages : HasAge(p, j) => HasAge(p, j)'
      BY <2>1 DEF HasAge
    <2>3. \A j \in Ages : j \in 0 .. j
      BY AgeAssumption, SMT DEF Ages
    <2> QED BY <2>2, <2>3 DEF Fresher
  <1> QED BY <1>1, <1>2, <1>3

(* A bye removes its peer and leaves the others as they are.               *)
LEMMA DeleteKeepsOthers ==
  ASSUME Sound(nodi), NEW q \in Peer, DeletePeer(q)
  PROVE  q \notin Known' /\ \A p \in Peer \ {q} : Fresher(p)
  <1>1. \A h \in Ages : nodi[h] \in Seq(Peer)
    BY SMT DEF Sound
  <1>2. \A j \in Ages : j \in 0 .. j
    BY AgeAssumption, SMT DEF Ages
  <1>3. CASE q \notin Known /\ nodi' = nodi
    BY <1>2, <1>3 DEF Fresher, HasAge, Known
  <1>4. ASSUME NEW i \in Ages, NEW k \in 1 .. Len(nodi[i]),
               q = nodi[i][k], nodi' = Without(i, k)
        PROVE  q \notin Known' /\ \A p \in Peer \ {q} : Fresher(p)
    <2>1. Sound(nodi') /\ Lacks(nodi', q)
      BY <1>4, RemovalSound DEF Without
    <2>2. \A h \in Ages : nodi'[h] \in Seq(Peer)
      BY <2>1, SMT DEF Sound
    <2>3. \A h \in Ages : q \notin Range(nodi'[h])
      <3>1. \A h \in Ages : q \in Range(nodi'[h]) <=> \E n \in 1 .. Len(nodi'[h]) : nodi'[h][n] = q
        BY <2>2, RangeAt
      <3> QED BY <2>1, <3>1, Zenon DEF Lacks
    <2>4. ASSUME NEW p \in Peer \ {q}, NEW j \in Ages, HasAge(p, j)
          PROVE  HasAge(p, j)'
      <3>1. PICK m \in 1 .. Len(nodi[j]) : nodi[j][m] = p
        BY <1>1, <2>4, RangeAt, Zenon DEF HasAge
      <3>2. \E n \in 1 .. Len(nodi'[j]) : nodi'[j][n] = p
        BY <1>4, <3>1, RemovalKeeps DEF Without
      <3> QED BY <2>2, <3>2, RangeAt, Zenon DEF HasAge
    <2> QED BY <1>2, <2>3, <2>4 DEF Known, Fresher
  <1> QED BY <1>3, <1>4 DEF DeletePeer, FirstAt

(* News never ages a peer nor pushes one out.                              *)
THEOREM NewsNeverAges == Spec => NewsKeepsFresh
  <1> DEFINE A == \/ AgePlusOne
                  \/ \A p \in Peer : Fresher(p)
                  \/ \E q \in Peer : /\ DeletePeer(q)
                                     /\ q \notin Known'
                                     /\ \A p \in Peer \ {q} : Fresher(p)
  <1>1. ASSUME Sound(nodi), [Next]_nodi PROVE [A]_nodi
    <2>1. ASSUME NEW p \in Peer, NEW age \in 1 .. MaxAge, InsertListed(p, age) PROVE A
      <3>1. age \in Nat
        BY AgeAssumption, SMT
      <3> QED BY <1>1, <2>1, <3>1, RefreshKeepsFresh DEF InsertListed
    <2>2. ASSUME NEW p \in Peer, InsertSource(p) PROVE A
      <3>1. 0 \in Nat
        OBVIOUS
      <3> QED BY <1>1, <2>2, <3>1, RefreshKeepsFresh DEF InsertSource
    <2>3. ASSUME NEW p \in Peer, InsertPeer(p) PROVE A
      BY <1>1, <2>3, InsertPeerKeepsFresh
    <2>4. ASSUME NEW p \in Peer, DeletePeer(p) PROVE A
      BY <1>1, <2>4, DeleteKeepsOthers
    <2> QED BY <1>1, <2>1, <2>2, <2>3, <2>4 DEF Next
  <1> QED BY <1>1, AlwaysSound, PTL DEF Spec, NewsKeepsFresh

-----------------------------------------------------------------------------

(* Where a helper is, it has a message fit for it.                         *)
HelperOK ==
  /\ helper \in [HelperMsg -> [at : Places, msg : Message \cup {NoMessage}]]
  /\ \A h \in HelperMsg :
       /\ helper[h].at # "accept" => helper[h].msg \in Message
       /\ helper[h].at = "search_bye" => helper[h].msg.kind \in {"ping", "query"}

LEMMA HelperAt ==
  ASSUME HelperOK, NEW h \in HelperMsg
  PROVE  /\ helper[h].at \in Places
         /\ helper[h].at # "accept" =>
              /\ Msg(h) \in Message
              /\ Msg(h).kind \in {"ping", "bye", "query"}
              /\ Msg(h).peer \in Peer
              /\ Msg(h).age \in Nat
  BY PeerAssumption DEF HelperOK, Msg

(* What a step of helper h does to the helpers.                            *)
Moves(h) ==
  /\ HelperOK'
  /\ \A g \in HelperMsg \ {h} : helper'[g] = helper[g]
  /\ helper'[h].at \in {"accept", "seen"} \/ helper'[h].msg = helper[h].msg

LEMMA GotoMoves ==
  ASSUME HelperOK, NEW h \in HelperMsg, NEW from \in Places \ {"accept"}, NEW to \in Places,
         to = "search_bye" => Msg(h).kind \in {"ping", "query"},
         Goto(h, from, to)
  PROVE  /\ helper[h].at = from
         /\ helper'[h].at = to
         /\ Moves(h)
  <1> DEFINE new == IF to = "accept" THEN Idle ELSE [at |-> to, msg |-> Msg(h)]
  <1>1. helper[h].at = from /\ helper' = [helper EXCEPT ![h] = new]
    BY DEF Goto
  <1>2. helper[h] \in [at : Places, msg : Message \cup {NoMessage}] /\ helper[h].msg \in Message
    BY <1>1 DEF HelperOK
  <1>3. /\ new \in [at : Places, msg : Message \cup {NoMessage}]
        /\ new.at = to
        /\ to # "accept" => new.msg = helper[h].msg
    BY <1>2 DEF Idle, Places, Msg
  <1> HIDE DEF new
  <1>4. helper'[h] = new /\ \A g \in HelperMsg \ {h} : helper'[g] = helper[g]
    BY <1>1 DEF HelperOK
  <1>5. helper' \in [HelperMsg -> [at : Places, msg : Message \cup {NoMessage}]]
    BY <1>1, <1>3 DEF HelperOK
  <1>6. HelperOK'
    <2>1. /\ helper'[h].at # "accept" => helper'[h].msg \in Message
          /\ helper'[h].at = "search_bye" => helper'[h].msg.kind \in {"ping", "query"}
      BY <1>2, <1>3, <1>4 DEF Msg
    <2> QED BY <1>4, <1>5, <2>1 DEF HelperOK
  <1> QED BY <1>1, <1>3, <1>4, <1>6 DEF Moves

(* What the proofs below need to know of a step of helper h.               *)
Good(h) ==
  /\ Moves(h)
  /\ [Next]_nodi
  /\ helper[h].at = "search" /\ Msg(h).peer \in Known => helper'[h].at = "delete"
  /\ helper[h].at = "delete" => Delete(h)
  /\ Handles(h) =>
       /\ Msg(h).id \notin buffer_message
       /\ Room => Msg(h).id \in buffer_message'

LEMMA StepGood ==
  ASSUME HelperOK, NEW h \in HelperMsg, Accept(h) \/ HelperStep(h)
  PROVE  Good(h)
  <1>0. /\ helper[h].at \in Places
        /\ helper[h].at # "accept" =>
             /\ Msg(h) \in Message
             /\ Msg(h).kind \in {"ping", "bye", "query"}
             /\ Msg(h).peer \in Peer
             /\ Msg(h).age \in Nat
    BY HelperAt
  <1>1. CASE Accept(h)
    <2>1. PICK m \in Message : helper' = [helper EXCEPT ![h] = [at |-> "seen", msg |-> m]]
      BY <1>1 DEF Accept
    <2>2. helper'[h] = [at |-> "seen", msg |-> m] /\ \A g \in HelperMsg \ {h} : helper'[g] = helper[g]
      BY <2>1 DEF HelperOK
    <2>3. HelperOK'
      BY <2>1, <2>2 DEF HelperOK, Places
    <2> QED BY <1>1, <2>2, <2>3 DEF Good, Moves, Accept, Handles
  <1>2. CASE SearchInsertId(h)
    <2> DEFINE to == IF Msg(h).id \in buffer_message THEN "accept"
                     ELSE IF Msg(h).kind = "bye" THEN "insert_bye" ELSE "search_bye"
    <2>1. helper[h].at = "seen" /\ Goto(h, "seen", to) /\ nodi' = nodi
      BY <1>2 DEF SearchInsertId
    <2>2. to = "search_bye" => Msg(h).kind \in {"ping", "query"}
      BY <1>0, <2>1
    <2>3. helper'[h].at = to /\ Moves(h)
      BY <2>1, <2>2, GotoMoves DEF Places
    <2>4. Handles(h) =>
            /\ Msg(h).id \notin buffer_message
            /\ Room => Msg(h).id \in buffer_message'
      BY <1>2, <2>3 DEF Handles, Room, SearchInsertId
    <2> QED BY <2>1, <2>3, <2>4 DEF Good
  <1>3. CASE SearchBye(h)
    <2>1. helper[h].at = "search_bye" /\ nodi' = nodi
      BY <1>3 DEF SearchBye, Goto
    <2>2. Msg(h).kind \in {"ping", "query"}
      BY <2>1 DEF HelperOK, Msg
    <2>3. PICK to \in {"delete_bye", "insert", "accept", "answer"} : Goto(h, "search_bye", to)
      BY <1>3, <2>2 DEF SearchBye
    <2>4. helper'[h].at = to /\ Moves(h)
      BY <2>3, GotoMoves DEF Places
    <2> QED BY <2>1, <2>4 DEF Good, Handles
  <1>4. CASE InsertPing(h)
    <2>1. helper[h].at = "insert" /\ helper'[h].at = "pong" /\ Moves(h)
      BY <1>4, GotoMoves DEF InsertPing, Places
    <2>2. InsertPeer(Msg(h).peer) /\ Msg(h).peer \in Peer
      BY <1>0, <1>4, <2>1 DEF InsertPing
    <2> QED BY <2>1, <2>2 DEF Good, Handles, Next
  <1>5. CASE Delete(h)
    <2>1. helper[h].at = "delete" /\ helper'[h].at = "forward" /\ Moves(h)
      BY <1>5, GotoMoves DEF Delete, Places
    <2>2. DeletePeer(Msg(h).peer) /\ Msg(h).peer \in Peer
      BY <1>0, <1>5, <2>1 DEF Delete
    <2> QED BY <1>5, <2>1, <2>2 DEF Good, Handles, Next
  <1>6. CASE SearchPeer(h)
    <2>1. PICK to \in {"delete", "forward"} :
            Goto(h, "search", to) /\ (Msg(h).peer \in Known => to = "delete")
      BY <1>6 DEF SearchPeer
    <2>2. helper[h].at = "search" /\ helper'[h].at = to /\ Moves(h)
      BY <2>1, GotoMoves DEF Places
    <2> QED BY <1>6, <2>1, <2>2 DEF Good, Handles, SearchPeer
  <1>7. CASE DeleteBye(h) \/ NoPong(h) \/ Pong(h) \/ InsertBye(h)
             \/ AnswerNobody(h) \/ AnswerThreads(h) \/ Forward(h)
    <2>1. PICK from \in {"delete_bye", "insert", "pong", "insert_bye", "answer", "forward",
                         "forward_join"},
               to \in {"insert", "forward", "search", "forward_join", "accept", "join"} :
            Goto(h, from, to)
      BY <1>7 DEF DeleteBye, NoPong, Pong, InsertBye, AnswerNobody, AnswerThreads, Forward
    <2>2. nodi' = nodi
      BY <1>7 DEF DeleteBye, NoPong, Pong, InsertBye, AnswerNobody, AnswerThreads, Forward
    <2>3. helper[h].at = from /\ helper'[h].at = to /\ Moves(h)
      BY <2>1, GotoMoves DEF Places
    <2> QED BY <2>2, <2>3 DEF Good, Handles
  <1>8. CASE PongFails(h) \/ HitFails(h) \/ AcceptFails(h)
    <2>1. /\ helper' = helper /\ nodi' = nodi
          /\ helper[h].at \in {"pong", "answer", "forward_join", "join"}
      BY <1>8 DEF PongFails, HitFails, AcceptFails, Exit
    <2>2. Moves(h)
      BY <2>1 DEF Moves, HelperOK
    <2> QED BY <2>1, <2>2 DEF Good, Handles
  <1> QED BY <1>1, <1>2, <1>3, <1>4, <1>5, <1>6, <1>7, <1>8 DEF HelperStep

(* The other threads change the neighbours by its operations too, and no   *)
(* helper.                                                                 *)
LEMMA OthersGood ==
  ASSUME HelperOK,
         \/ \E p \in Peer : HelperPong(p)
         \/ \E p \in Peer, age \in 0 .. MaxAge : HelperInf(p, age)
         \/ Round \/ DeleteDatedMsg \/ DeleteDatedBye
  PROVE  helper' = helper /\ HelperOK' /\ [Next]_nodi
  <1>1. helper' = helper
    BY DEF HelperPong, HelperInf, Round, DeleteDatedMsg, DeleteDatedBye, Others
  <1>2. HelperOK'
    BY <1>1 DEF HelperOK
  <1>3. ASSUME NEW p \in Peer, NEW age \in 0 .. MaxAge, HelperInf(p, age) PROVE Next
    <2>1. Refresh(p, age)
      BY <1>3 DEF HelperInf
    <2>2. age = 0 \/ age \in 1 .. MaxAge
      BY AgeAssumption
    <2> QED BY <2>1, <2>2 DEF Next, InsertSource, InsertListed
  <1>4. [Next]_nodi
    BY <1>3 DEF HelperPong, Round, DeleteDatedMsg, DeleteDatedBye, Next
  <1> QED BY <1>1, <1>2, <1>4

LEMMA PeerStep ==
  ASSUME HelperOK, [PeerNext]_vars
  PROVE  /\ HelperOK'
         /\ [Next]_nodi
         /\ helper' = helper \/ \E h \in HelperMsg : Good(h)
  <1>1. CASE UNCHANGED vars
    BY <1>1 DEF vars, HelperOK
  <1>2. ASSUME NEW h \in HelperMsg, Accept(h) \/ HelperStep(h)
        PROVE  HelperOK' /\ [Next]_nodi /\ Good(h)
    <2>1. Good(h)
      BY <1>2, StepGood
    <2> QED BY <2>1 DEF Good, Moves
  <1> QED BY <1>1, <1>2, OthersGood, Zenon DEF PeerNext

LEMMA HelpersAtStart == PeerInit => HelperOK
  BY DEF PeerInit, HelperOK, Idle, Places

(* Whatever messages arrive, the handlers, the gossip and the rounds do to *)
(* the neighbour buffer only what its operations do: the peer implements   *)
(* the specification of the buffer.                                        *)
THEOREM UsesNeighbour == PeerSpec => Spec
  <1>1. PeerInit => Init
    BY DEF PeerInit
  <1>2. HelperOK /\ [PeerNext]_vars => HelperOK' /\ [Next]_nodi
    BY PeerStep
  <1> QED BY <1>1, <1>2, HelpersAtStart, PTL DEF PeerSpec, Spec

(* So that what the buffer promises holds in a running peer: it knows      *)
(* nobody twice and not itself, and no news makes a neighbour older.       *)
THEOREM NeighboursKept == PeerSpec => []NoDuplicates /\ []NotSelf /\ NewsKeepsFresh
  BY UsesNeighbour, NeverTwice, NeverSelf, NewsNeverAges, Zenon

-----------------------------------------------------------------------------
(* A buffer of at most n entries from U.                                   *)
Fits(S, U, n) == S \subseteq U /\ IsFiniteSet(S) /\ Cardinality(S) <= n

LEMMA FitsLess ==
  ASSUME NEW S, NEW U, NEW n \in Nat, Fits(S, U, n), NEW T \in SUBSET S
  PROVE  Fits(T, U, n)
  <1>1. IsFiniteSet(T) /\ Cardinality(T) <= Cardinality(S)
    BY FS_Subset DEF Fits
  <1>2. Cardinality(S) \in Nat /\ Cardinality(T) \in Nat
    BY <1>1, FS_CardinalityType DEF Fits
  <1> QED BY <1>1, <1>2 DEF Fits

LEMMA FitsMore ==
  ASSUME NEW S, NEW U, NEW n \in Nat, Fits(S, U, n), Cardinality(S) < n, NEW x \in U
  PROVE  Fits(S \cup {x}, U, n)
  <1>1. /\ IsFiniteSet(S \cup {x})
        /\ Cardinality(S \cup {x}) = IF x \in S THEN Cardinality(S) ELSE Cardinality(S) + 1
    BY FS_AddElement DEF Fits
  <1>2. Cardinality(S) \in Nat
    BY FS_CardinalityType DEF Fits
  <1> QED BY <1>1, <1>2 DEF Fits

Ids == {m.id : m \in Message}

BuffersFit ==
  /\ Fits(buffer_message, Ids, MaxMsm)
  /\ Fits(bye_peer, Peer, MaxByePeer)
  /\ forwarded \subseteq Message
  /\ up \in BOOLEAN

LEMMA HelperFits ==
  ASSUME HelperOK, BuffersFit, NEW h \in HelperMsg, Accept(h) \/ HelperStep(h)
  PROVE  BuffersFit'
  <1>0. helper[h].at # "accept" => Msg(h) \in Message /\ Msg(h).peer \in Peer /\ Msg(h).id \in Ids
    BY HelperAt DEF Ids
  <1>1. MaxMsm \in Nat /\ MaxByePeer \in Nat
    BY PeerAssumption
  <1>2. CASE SearchInsertId(h)
    <2>1. Msg(h).id \in Ids
      BY <1>0, <1>2 DEF SearchInsertId
    <2>2. \/ buffer_message' = buffer_message
          \/ /\ Cardinality(buffer_message) < MaxMsm
             /\ buffer_message' = buffer_message \cup {Msg(h).id}
      BY <1>2 DEF SearchInsertId
    <2>3. Fits(buffer_message', Ids, MaxMsm)
      BY <1>1, <2>1, <2>2, FitsMore DEF BuffersFit
    <2> QED BY <1>2, <2>3 DEF SearchInsertId, BuffersFit, Ids
  <1>3. CASE InsertBye(h)
    <2>1. Msg(h).peer \in Peer
      BY <1>0, <1>3 DEF InsertBye, Goto
    <2>2. \/ bye_peer' = bye_peer
          \/ /\ Cardinality(bye_peer) < MaxByePeer
             /\ bye_peer' = bye_peer \cup {Msg(h).peer}
      BY <1>3 DEF InsertBye
    <2>3. Fits(bye_peer', Peer, MaxByePeer)
      BY <1>1, <2>1, <2>2, FitsMore DEF BuffersFit
    <2> QED BY <1>3, <2>3 DEF InsertBye, BuffersFit, Ids
  <1>4. CASE DeleteBye(h)
    <2>1. Fits(bye_peer', Peer, MaxByePeer)
      BY <1>1, <1>4, FitsLess DEF DeleteBye, BuffersFit
    <2> QED BY <1>4, <2>1 DEF DeleteBye, BuffersFit, Ids
  <1>5. CASE Forward(h)
    <2>1. Msg(h) \in Message
      BY <1>0, <1>5 DEF Forward, Goto
    <2> QED BY <1>5, <2>1 DEF Forward, BuffersFit, Ids
  <1>6. CASE PongFails(h) \/ HitFails(h) \/ AcceptFails(h)
    BY <1>6 DEF PongFails, HitFails, AcceptFails, Exit, BuffersFit, Ids
  <1>7. CASE \/ Accept(h) \/ SearchBye(h) \/ InsertPing(h) \/ NoPong(h) \/ Pong(h)
             \/ SearchPeer(h) \/ Delete(h) \/ AnswerNobody(h) \/ AnswerThreads(h)
    <2>1. UNCHANGED <<buffer_message, bye_peer, forwarded, up>>
      BY <1>7 DEF Accept, SearchBye, InsertPing, NoPong, Pong, SearchPeer, Delete,
                  AnswerNobody, AnswerThreads
    <2> QED BY <2>1 DEF BuffersFit, Ids
  <1> QED BY <1>2, <1>3, <1>4, <1>5, <1>6, <1>7 DEF HelperStep

LEMMA StepFits ==
  ASSUME HelperOK, BuffersFit, [PeerNext]_vars
  PROVE  BuffersFit'
  <1>1. MaxMsm \in Nat /\ MaxByePeer \in Nat
    BY PeerAssumption
  <1>2. CASE UNCHANGED vars
    BY <1>2 DEF vars, BuffersFit, Ids
  <1>3. CASE \/ \E p \in Peer : HelperPong(p)
             \/ \E p \in Peer, age \in 0 .. MaxAge : HelperInf(p, age)
             \/ Round
    BY <1>3 DEF HelperPong, HelperInf, Round, Others, BuffersFit, Ids
  <1>4. CASE DeleteDatedMsg
    <2>1. Fits(buffer_message', Ids, MaxMsm)
      BY <1>1, <1>4, FitsLess DEF DeleteDatedMsg, BuffersFit
    <2> QED BY <1>4, <2>1 DEF DeleteDatedMsg, Others, BuffersFit, Ids
  <1>5. CASE DeleteDatedBye
    <2>1. Fits(bye_peer', Peer, MaxByePeer)
      BY <1>1, <1>5, FitsLess DEF DeleteDatedBye, BuffersFit
    <2> QED BY <1>5, <2>1 DEF DeleteDatedBye, Others, BuffersFit, Ids
  <1> QED BY <1>2, <1>3, <1>4, <1>5, HelperFits DEF PeerNext

(* The variables keep their types: no buffer overflows, and no helper      *)
(* works without a message, for buffers of any size.                       *)
THEOREM PeerTypes == PeerSpec => []PeerTypeOK
  <1>1. PeerInit => BuffersFit
    <2>1. Fits({}, Ids, MaxMsm) /\ Fits({}, Peer, MaxByePeer)
      BY FS_EmptySet, PeerAssumption DEF Fits
    <2> QED BY <2>1 DEF PeerInit, BuffersFit
  <1>2. HelperOK /\ BuffersFit /\ [PeerNext]_vars => HelperOK' /\ BuffersFit'
    BY PeerStep, StepFits
  <1>3. HelperOK /\ BuffersFit /\ TypeOK => PeerTypeOK
    BY DEF HelperOK, BuffersFit, Fits, Ids, PeerTypeOK
  <1> QED BY <1>1, <1>2, <1>3, HelpersAtStart, UsesNeighbour, TypeCorrect, PTL DEF PeerSpec

-----------------------------------------------------------------------------
(* The inductive invariant of the histories: an id handled and not         *)
(* forgotten is in the buffer, which is what searchInsert looks at.        *)
HInv ==
  /\ HelperOK
  /\ Sound(nodi)
  /\ handled \subseteq buffer_message
  /\ ByeTakesEffect

(* A helper that has only p's bye to finish.                               *)
Ending(h, p) == helper[h].at \in {"search", "delete"} /\ Msg(h).peer = p

LEMMA ByeKept ==
  ASSUME HInv, HNext
  PROVE  ByeTakesEffect'
  <1> SUFFICES ASSUME NEW p, p \in gone', p \in Known'
               PROVE  \E h \in HelperMsg : Ending(h, p)'
    BY DEF ByeTakesEffect, Ending
  <1>1. HelperOK /\ (helper' = helper \/ \E h \in HelperMsg : Good(h))
    BY PeerStep DEF HInv, HNext
  <1>2. p \in Known
    BY DEF HNext
  <1>3. CASE \E g \in HelperMsg : StoresBye(g) /\ Msg(g).peer = p
    <2>1. PICK g \in HelperMsg : StoresBye(g) /\ Msg(g).peer = p
      BY <1>3
    <2>2. PICK h \in HelperMsg : Good(h)
      BY <1>1, <2>1 DEF StoresBye
    <2>3. h = g
      BY <2>1, <2>2 DEF StoresBye, Good, Moves
    <2>4. Msg(g)' = Msg(g)
      BY <2>1, <2>2, <2>3 DEF StoresBye, Good, Moves, Msg
    <2> QED BY <2>1, <2>4 DEF Ending, StoresBye
  <1>4. CASE \E g \in HelperMsg : Ending(g, p)
    <2>1. PICK g \in HelperMsg : Ending(g, p)
      BY <1>4
    <2>2. CASE helper'[g] = helper[g]
      BY <2>1, <2>2 DEF Ending, Msg
    <2>3. CASE helper'[g] # helper[g]
      <3>1. PICK h \in HelperMsg : Good(h)
        BY <1>1, <2>3
      <3>2. Good(g)
        BY <2>3, <3>1 DEF Good, Moves
      <3>3. CASE helper[g].at = "search"
        <4>1. helper'[g].at = "delete"
          BY <1>2, <2>1, <3>2, <3>3 DEF Good, Ending
        <4>2. Msg(g)' = Msg(g)
          BY <3>2, <4>1 DEF Good, Moves, Msg
        <4> QED BY <2>1, <4>1, <4>2 DEF Ending
      <3>4. CASE helper[g].at = "delete"
        <4>1. DeletePeer(p)
          BY <2>1, <3>2, <3>4 DEF Good, Delete, Ending
        <4>2. p \in Peer
          BY <1>1, <2>1, HelperAt DEF Ending
        <4>3. p \notin Known'
          BY <4>1, <4>2, DeleteKeepsOthers DEF HInv
        <4> QED BY <4>3
      <3> QED BY <2>1, <3>3, <3>4 DEF Ending
    <2> QED BY <2>2, <2>3
  <1>5. p \in gone \/ \E g \in HelperMsg : StoresBye(g) /\ Msg(g).peer = p
    BY DEF HNext
  <1> QED BY <1>2, <1>3, <1>4, <1>5 DEF HInv, ByeTakesEffect, Ending

LEMMA HandledKept ==
  ASSUME HInv, HNext
  PROVE  handled' \subseteq buffer_message'
  <1> SUFFICES ASSUME NEW id, id \in handled'
               PROVE  id \in buffer_message'
    OBVIOUS
  <1>1. HelperOK /\ (helper' = helper \/ \E h \in HelperMsg : Good(h))
    BY PeerStep DEF HInv, HNext
  <1>2. CASE id \in handled
    BY <1>2 DEF HInv, HNext
  <1>3. CASE \E g \in HelperMsg : Handles(g) /\ Room /\ Msg(g).id = id
    <2>1. PICK g \in HelperMsg : Handles(g) /\ Room /\ Msg(g).id = id
      BY <1>3
    <2>2. PICK h \in HelperMsg : Good(h)
      BY <1>1, <2>1 DEF Handles
    <2>3. h = g
      BY <2>1, <2>2 DEF Handles, Good, Moves
    <2> QED BY <2>1, <2>2, <2>3 DEF Good
  <1> QED BY <1>2, <1>3 DEF HNext

LEMMA HistoryKept ==
  ASSUME HInv, [HNext]_hVars
  PROVE  HInv'
  <1>1. CASE UNCHANGED hVars
    BY <1>1 DEF hVars, vars, HInv, HelperOK, Sound, Lacks, ByeTakesEffect, Known, Msg
  <1>2. CASE HNext
    <2>1. HelperOK' /\ [Next]_nodi
      BY <1>2, PeerStep DEF HInv, HNext
    <2>2. Sound(nodi')
      BY <2>1, StepSound DEF HInv
    <2> QED BY <1>2, <2>1, <2>2, ByeKept, HandledKept DEF HInv
  <1> QED BY <1>1, <1>2

LEMMA HistoryAtStart == HInit => HInv
  <1>1. Init => Sound(nodi)
    BY AgeAssumption, SMT DEF Init, Sound
  <1>2. {} \subseteq buffer_message /\ (gone = {} => ByeTakesEffect)
    BY DEF ByeTakesEffect
  <1> QED BY <1>1, <1>2, HelpersAtStart DEF HInit, HInv, PeerInit

(* A bye that was stored takes its peer out of the neighbour buffer for    *)
(* any number of helpers: whoever still finds the peer there finds also a  *)
(* helper that is about to delete it.                                      *)
THEOREM ByeEffective == HSpec => []ByeTakesEffect
  <1>1. HInv => ByeTakesEffect
    BY DEF HInv
  <1> QED BY <1>1, HistoryAtStart, HistoryKept, PTL DEF HSpec

(* No message is handled twice while its id is remembered, for any number  *)
(* of helpers, copies and ids.                                             *)
THEOREM OnlyOnce == HSpec => HandledOnce
  <1> DEFINE A == \A h \in HelperMsg : Handles(h) => Msg(h).id \notin handled
  <1>1. HInv /\ [HNext]_hVars => [A]_hVars
    <2> SUFFICES ASSUME HInv, HNext, NEW g \in HelperMsg, Handles(g)
                 PROVE  Msg(g).id \notin handled
      OBVIOUS
    <2>1. helper' = helper \/ \E h \in HelperMsg : Good(h)
      BY PeerStep DEF HInv, HNext
    <2>2. PICK h \in HelperMsg : Good(h)
      BY <2>1 DEF Handles
    <2>3. h = g
      BY <2>2 DEF Handles, Good, Moves
    <2> QED BY <2>2, <2>3 DEF Good, HInv
  <1> QED BY <1>1, HistoryAtStart, HistoryKept, PTL DEF HSpec, HandledOnce

-----------------------------------------------------------------------------
(* Induction over a set of naturals.                                       *)
LEMMA AllInside ==
  ASSUME NEW S, 0 \in S, \A n \in Nat : n \in S => n + 1 \in S
  PROVE  Nat \subseteq S
  <1> SUFFICES ASSUME Nat \ S # {} PROVE FALSE
    OBVIOUS
  <1>1. PICK m \in Nat \ S : \A x \in Nat \ S : m <= x
    BY MinInside
  <1>2. m # 0 /\ m - 1 \in Nat /\ m - 1 < m /\ (m - 1) + 1 = m
    BY <1>1, SMT
  <1>3. m - 1 \in S
    BY <1>1, <1>2, SMT
  <1> QED BY <1>1, <1>2, <1>3

Block(i) == [k \in 1 .. Len(nodi[i]) |-> [peer |-> nodi[i][k], age |-> i]]

(* The recursion of Entries defines a function.                            *)
LEMMA EntriesDefined ==
  Entries = [i \in 0 .. MaxAge |-> IF i = 0 THEN <<>> ELSE Entries[i - 1] \o Block(i - 1)]
  <1> DEFINE Upto(f, n) == f = [i \in 0 .. n |->
                                  IF i = 0 THEN <<>> ELSE f[i - 1] \o Block(i - 1)]
             S == {n \in Nat : \E f : Upto(f, n)}
  <1>1. 0 \in S
    <2>1. Upto([i \in 0 .. 0 |-> <<>>], 0)
      BY SMT
    <2> QED BY <2>1
  <1>2. ASSUME NEW n \in Nat, n \in S PROVE n + 1 \in S
    <2>1. PICK f : Upto(f, n)
      BY <1>2
    <2> DEFINE g == [i \in 0 .. n + 1 |-> IF i = n + 1 THEN f[n] \o Block(n) ELSE f[i]]
    <2>2. \A i \in 0 .. n : g[i] = f[i]
      BY SMT
    <2>3. g[n + 1] = f[n] \o Block(n)
      BY SMT
    <2>4. \A i \in 0 .. n : f[i] = IF i = 0 THEN <<>> ELSE f[i - 1] \o Block(i - 1)
      BY <2>1, Zenon
    <2>5. ASSUME NEW i \in 0 .. n + 1
          PROVE  g[i] = IF i = 0 THEN <<>> ELSE g[i - 1] \o Block(i - 1)
      <3>1. CASE i = 0
        BY <2>2, <2>4, <3>1, SMT
      <3>2. CASE i \in 1 .. n
        <4>1. i - 1 \in 0 .. n /\ i \in 0 .. n /\ i # 0
          BY <3>2, SMT
        <4>2. g[i - 1] = f[i - 1] /\ g[i] = f[i]
          BY <2>2, <4>1
        <4> HIDE DEF g
        <4> QED BY <2>4, <4>1, <4>2
      <3>3. CASE i = n + 1
        <4>1. i - 1 = n /\ n \in 0 .. n /\ i # 0
          BY <3>3, SMT
        <4>2. g[n] = f[n]
          BY <2>2, <4>1
        <4> HIDE DEF g
        <4> QED BY <2>3, <3>3, <4>1, <4>2
      <3> QED BY <3>1, <3>2, <3>3, SMT
    <2>6. DOMAIN g = 0 .. n + 1 /\ g = [i \in DOMAIN g |-> g[i]]
      OBVIOUS
    <2> HIDE DEF g
    <2>7. Upto(g, n + 1)
      BY <2>5, <2>6, Zenon
    <2>8. n + 1 \in Nat
      BY SMT
    <2> QED BY <2>7, <2>8, Zenon
  <1>3. MaxAge \in S
    <2> HIDE DEF S
    <2> QED BY <1>1, <1>2, AllInside, AgeAssumption
  <1>4. \E f : Upto(f, MaxAge)
    BY <1>3
  <1> QED BY <1>4, Zenon DEF Entries, Block

(* What a message or a fanout names: each peer once, from the lists of the *)
(* ages below i, with the age of its list.                                 *)
HeldBelow(e, i) ==
  /\ e \in Seq([peer : Peer, age : Nat])
  /\ \A k \in 1 .. Len(e) :
       /\ e[k].age < i
       /\ \E m \in 1 .. Len(nodi[e[k].age]) : nodi[e[k].age][m] = e[k].peer
  /\ \A k, l \in 1 .. Len(e) : e[k].peer = e[l].peer => k = l

LEMMA BlockFacts ==
  ASSUME Sound(nodi), NEW n \in Ages
  PROVE  /\ Block(n) \in Seq([peer : Peer, age : Nat])
         /\ Len(Block(n)) = Len(nodi[n]) /\ Len(nodi[n]) \in Nat
         /\ \A k \in 1 .. Len(nodi[n]) : Block(n)[k].peer = nodi[n][k] /\ Block(n)[k].age = n
  <1>1. nodi[n] \in Seq(Peer) /\ Len(nodi[n]) \in Nat /\ n \in Nat
    BY AgeAssumption, SMT DEF Sound, Ages
  <1>2. \A k \in 1 .. Len(nodi[n]) : [peer |-> nodi[n][k], age |-> n] \in [peer : Peer, age : Nat]
    BY <1>1, ElementOfSeq
  <1>3. Block(n) \in [1 .. Len(nodi[n]) -> [peer : Peer, age : Nat]]
    BY <1>2 DEF Block
  <1>4. Block(n) \in Seq([peer : Peer, age : Nat])
    <2> DEFINE R == [peer : Peer, age : Nat]
    <2> HIDE DEF R
    <2>1. [1 .. Len(nodi[n]) -> R] \in {[1 .. m -> R] : m \in Nat}
      BY <1>1
    <2>2. Block(n) \in Seq(R)
      BY <1>3, <2>1, SeqDef DEF R
    <2> QED BY <2>2 DEF R
  <1>5. Len(Block(n)) = Len(nodi[n])
    BY <1>1, <1>3, <1>4, LenProperties
  <1>6. \A k \in 1 .. Len(nodi[n]) : Block(n)[k].peer = nodi[n][k] /\ Block(n)[k].age = n
    BY DEF Block
  <1> QED BY <1>1, <1>4, <1>5, <1>6

LEMMA BlockAdded ==
  ASSUME Sound(nodi), NEW n \in Ages, NEW e, HeldBelow(e, n)
  PROVE  HeldBelow(e \o Block(n), n + 1)
  <1> DEFINE R == [peer : Peer, age : Nat]
             b == Block(n)
             c == e \o Block(n)
  <1>1. e \in Seq(R) /\ b \in Seq(R) /\ Len(e) \in Nat /\ Len(b) \in Nat /\ n \in Nat
        /\ Len(b) = Len(nodi[n])
    <2>1. e \in Seq(R)
      BY DEF HeldBelow
    <2>2. Len(e) \in Nat /\ n \in Nat
      BY <2>1, AgeAssumption, LenProperties DEF Ages
    <2> QED BY <2>1, <2>2, BlockFacts
  <1>2. \A k \in 1 .. Len(b) : b[k].peer = nodi[n][k] /\ b[k].age = n
    BY BlockFacts
  <1> HIDE DEF b, R
  <1>3. /\ c \in Seq(R) /\ Len(c) = Len(e) + Len(b)
        /\ \A k \in 1 .. Len(e) + Len(b) : c[k] = IF k <= Len(e) THEN e[k] ELSE b[k - Len(e)]
    BY <1>1, ConcatProperties, Zenon DEF b
  <1> HIDE DEF c
  <1>4. \A k \in 1 .. Len(c) :
          \/ k \in 1 .. Len(e) /\ c[k] = e[k]
          \/ k - Len(e) \in 1 .. Len(b) /\ c[k] = b[k - Len(e)]
    <2> SUFFICES ASSUME NEW k \in 1 .. Len(c)
                 PROVE  \/ k \in 1 .. Len(e) /\ c[k] = e[k]
                        \/ k - Len(e) \in 1 .. Len(b) /\ c[k] = b[k - Len(e)]
      OBVIOUS
    <2>1. CASE k <= Len(e)
      BY <1>1, <1>3, <2>1, SMT
    <2>2. CASE ~ (k <= Len(e))
      BY <1>1, <1>3, <2>2, SMT
    <2> QED BY <2>1, <2>2
  <1>5. \A k \in 1 .. Len(e) : e[k].age \in Nat /\ e[k].age < n /\ e[k].age \in Ages
    <2>1. \A k \in 1 .. Len(e) : e[k] \in R
      BY <1>1, ElementOfSeq
    <2>2. \A k \in 1 .. Len(e) : e[k].age \in Nat /\ e[k].age < n
      BY <2>1 DEF HeldBelow, R
    <2> QED BY <2>2, AgeAssumption, SMT DEF Ages
  <1>6. ASSUME NEW k \in 1 .. Len(c)
        PROVE  /\ c[k].age < n + 1
               /\ \E m \in 1 .. Len(nodi[c[k].age]) : nodi[c[k].age][m] = c[k].peer
    <2>1. CASE k \in 1 .. Len(e) /\ c[k] = e[k]
      <3>1. e[k].age < n + 1
        BY <1>1, <1>5, <2>1, SMT
      <3> QED BY <2>1, <3>1 DEF HeldBelow
    <2>2. CASE k - Len(e) \in 1 .. Len(b) /\ c[k] = b[k - Len(e)]
      <3>1. c[k].age = n /\ c[k].peer = nodi[n][k - Len(e)]
        BY <1>2, <2>2
      <3>2. n < n + 1
        BY <1>1, SMT
      <3> QED BY <1>1, <2>2, <3>1, <3>2
    <2> QED BY <1>4, <2>1, <2>2
  <1>7. ASSUME NEW k \in 1 .. Len(e), NEW l \in 1 .. Len(b)
        PROVE  e[k].peer # b[l].peer
    <2>1. PICK m \in 1 .. Len(nodi[e[k].age]) : nodi[e[k].age][m] = e[k].peer
      BY DEF HeldBelow
    <2>2. e[k].age \in Ages /\ e[k].age # n
      BY <1>1, <1>5, SMT
    <2>3. b[l].peer = nodi[n][l] /\ l \in 1 .. Len(nodi[n])
      BY <1>1, <1>2
    <2> QED BY <2>1, <2>2, <2>3 DEF Sound
  <1>8. \A k, l \in 1 .. Len(b) : b[k].peer = b[l].peer => k = l
    BY <1>1, <1>2 DEF Sound
  <1>9. ASSUME NEW k \in 1 .. Len(c), NEW l \in 1 .. Len(c), c[k].peer = c[l].peer
        PROVE  k = l
    <2>1. CASE k \in 1 .. Len(e) /\ c[k] = e[k] /\ l \in 1 .. Len(e) /\ c[l] = e[l]
      BY <1>9, <2>1 DEF HeldBelow
    <2>2. CASE /\ k - Len(e) \in 1 .. Len(b) /\ c[k] = b[k - Len(e)]
               /\ l - Len(e) \in 1 .. Len(b) /\ c[l] = b[l - Len(e)]
      <3>1. k - Len(e) = l - Len(e)
        BY <1>8, <1>9, <2>2
      <3> QED BY <1>1, <3>1, SMT
    <2> QED BY <1>4, <1>7, <1>9, <2>1, <2>2
  <1> QED BY <1>3, <1>6, <1>9, Zenon DEF HeldBelow, R, c

(* The equations of the recursion.                                         *)
LEMMA EntriesStep ==
  Entries[0] = <<>> /\ \A n \in 0 .. MaxAge - 1 : Entries[n + 1] = Entries[n] \o Block(n)
  <1> DEFINE E == Entries
  <1>1. E = [i \in 0 .. MaxAge |-> IF i = 0 THEN <<>> ELSE E[i - 1] \o Block(i - 1)]
    BY EntriesDefined
  <1> HIDE DEF E
  <1>2. 0 \in 0 .. MaxAge
    BY AgeAssumption, SMT
  <1>3. \A n \in 0 .. MaxAge - 1 : n + 1 \in 0 .. MaxAge /\ n + 1 # 0 /\ (n + 1) - 1 = n
    BY AgeAssumption, SMT
  <1>4. E[0] = <<>>
    BY <1>1, <1>2
  <1>5. \A n \in 0 .. MaxAge - 1 : E[n + 1] = E[n] \o Block(n)
    BY <1>1, <1>3
  <1> QED BY <1>4, <1>5 DEF E

LEMMA EntriesHeld ==
  ASSUME Sound(nodi)
  PROVE  HeldBelow(Entries[MaxAge], MaxAge)
  <1> DEFINE S == {n \in Nat : n <= MaxAge => HeldBelow(Entries[n], n)}
  <1>1. Entries[0] = <<>> /\ \A n \in 0 .. MaxAge - 1 : Entries[n + 1] = Entries[n] \o Block(n)
    BY EntriesStep
  <1>2. 0 \in S
    <2>1. HeldBelow(<<>>, 0)
      BY SMT DEF HeldBelow
    <2> QED BY <1>1, <2>1
  <1>3. ASSUME NEW n \in Nat, n \in S PROVE n + 1 \in S
    <2> SUFFICES ASSUME n + 1 <= MaxAge PROVE HeldBelow(Entries[n + 1], n + 1)
      BY SMT
    <2>1. n \in 0 .. MaxAge - 1 /\ n <= MaxAge /\ n \in Ages
      BY AgeAssumption, SMT DEF Ages
    <2> QED BY <1>1, <1>3, <2>1, BlockAdded
  <1>4. MaxAge \in S
    <2> HIDE DEF S
    <2> QED BY <1>2, <1>3, AllInside, AgeAssumption
  <1>5. MaxAge <= MaxAge
    BY AgeAssumption, SMT
  <1> QED BY <1>4, <1>5

(* Nobody of the lists below i is missing.                                 *)
NamesBelow(e, i) ==
  \A j \in Ages : j < i => \A m \in 1 .. Len(nodi[j]) :
    \E k \in 1 .. Len(e) : e[k].peer = nodi[j][m]

LEMMA BlockNamed ==
  ASSUME Sound(nodi), NEW n \in Ages, NEW e, HeldBelow(e, n), NamesBelow(e, n)
  PROVE  NamesBelow(e \o Block(n), n + 1)
  <1> DEFINE R == [peer : Peer, age : Nat]
             b == Block(n)
             c == e \o Block(n)
  <1>1. e \in Seq(R) /\ b \in Seq(R) /\ Len(e) \in Nat /\ Len(b) \in Nat /\ n \in Nat
        /\ Len(b) = Len(nodi[n])
    <2>1. e \in Seq(R)
      BY DEF HeldBelow
    <2>2. Len(e) \in Nat /\ n \in Nat
      BY <2>1, AgeAssumption, LenProperties DEF Ages
    <2> QED BY <2>1, <2>2, BlockFacts
  <1>2. \A k \in 1 .. Len(b) : b[k].peer = nodi[n][k]
    BY BlockFacts
  <1> HIDE DEF b, R
  <1>3. /\ Len(c) = Len(e) + Len(b)
        /\ \A k \in 1 .. Len(e) + Len(b) : c[k] = IF k <= Len(e) THEN e[k] ELSE b[k - Len(e)]
    BY <1>1, ConcatProperties, Zenon DEF b
  <1> HIDE DEF c
  <1>4. \A k \in 1 .. Len(e) : k \in 1 .. Len(c) /\ c[k] = e[k]
    BY <1>1, <1>3, SMT
  <1>5. \A m \in 1 .. Len(b) : Len(e) + m \in 1 .. Len(c) /\ c[Len(e) + m] = b[m]
    <2> SUFFICES ASSUME NEW m \in 1 .. Len(b)
                 PROVE  Len(e) + m \in 1 .. Len(c) /\ c[Len(e) + m] = b[m]
      OBVIOUS
    <2>1. /\ Len(e) + m \in 1 .. Len(e) + Len(b) /\ ~ (Len(e) + m <= Len(e))
          /\ (Len(e) + m) - Len(e) = m
      BY <1>1, SMT
    <2> QED BY <1>3, <2>1
  <1>6. ASSUME NEW j \in Ages, j < n + 1, NEW m \in 1 .. Len(nodi[j])
        PROVE  \E k \in 1 .. Len(c) : c[k].peer = nodi[j][m]
    <2>1. CASE j = n
      BY <1>1, <1>2, <1>5, <2>1
    <2>2. CASE j # n
      <3>1. j < n
        BY <1>1, <1>6, <2>2, AgeAssumption, SMT DEF Ages
      <3>2. PICK k \in 1 .. Len(e) : e[k].peer = nodi[j][m]
        BY <3>1 DEF NamesBelow
      <3> QED BY <1>4, <3>2
    <2> QED BY <2>1, <2>2
  <1> QED BY <1>6 DEF NamesBelow, c

LEMMA EntriesNamed ==
  ASSUME Sound(nodi)
  PROVE  NamesBelow(Entries[MaxAge], MaxAge)
  <1> DEFINE S == {n \in Nat : n <= MaxAge =>
                     HeldBelow(Entries[n], n) /\ NamesBelow(Entries[n], n)}
  <1>1. 0 \in S
    <2>1. HeldBelow(<<>>, 0)
      BY SMT DEF HeldBelow
    <2>2. NamesBelow(<<>>, 0)
      BY AgeAssumption, SMT DEF NamesBelow, Ages
    <2> QED BY EntriesStep, <2>1, <2>2
  <1>2. ASSUME NEW n \in Nat, n \in S PROVE n + 1 \in S
    <2> SUFFICES ASSUME n + 1 <= MaxAge
                 PROVE  HeldBelow(Entries[n + 1], n + 1) /\ NamesBelow(Entries[n + 1], n + 1)
      BY SMT
    <2>1. n \in 0 .. MaxAge - 1 /\ n <= MaxAge /\ n \in Ages
      BY AgeAssumption, SMT DEF Ages
    <2> QED BY EntriesStep, <1>2, <2>1, BlockAdded, BlockNamed
  <1>3. MaxAge \in S
    <2> HIDE DEF S
    <2> QED BY <1>1, <1>2, AllInside, AgeAssumption
  <1>4. MaxAge <= MaxAge
    BY AgeAssumption, SMT
  <1> QED BY <1>3, <1>4

-----------------------------------------------------------------------------
Drawable == Peer \cup {Blank}

(* A fanout, and the entries of a message: nobody twice, never this peer.  *)
Drawn(s) ==
  /\ s \in Seq(Drawable)
  /\ \A k, l \in 1 .. Len(s) : s[k] = s[l] => k = l
  /\ \A k \in 1 .. Len(s) : s[k] # Self

Listed(e) ==
  /\ e \in Seq([peer : Drawable, age : Nat])
  /\ \A k, l \in 1 .. Len(e) : e[k].peer = e[l].peer => k = l
  /\ \A k \in 1 .. Len(e) : e[k].peer # Self

(* The buffer has news of p that is at most a rounds old, or has forgotten *)
(* it by its age.                                                          *)
Fresh(p, a) == a >= MaxAge \/ \E j \in Ages : j <= a /\ HasAge(p, j)

(* The inductive invariants of the RG thread and of the history.           *)
DrawInv ==
  /\ Sound(nodi)
  /\ rg \in {"round", "fanout", "inf", "draw"}
  /\ Drawn(fanout) /\ Len(fanout) <= Fanout
  /\ Listed(inf) /\ Len(inf) <= GossipNodes
  /\ rg = "fanout" => Len(fanout) < Fanout /\ inf = <<>>
  /\ rg = "draw" => Len(inf) < Fanout

Held(k) == Fresh(inf[k].peer, IF rg = "round" THEN inf[k].age + 1 ELSE inf[k].age)

ToldInv == \A k \in 1 .. Len(inf) : inf[k].peer \in byes \cup {Blank} \/ Held(k)

LEMMA RangeOf ==
  ASSUME NEW S, NEW s \in Seq(S), NEW x
  PROVE  x \in Range(s) <=> \E k \in 1 .. Len(s) : s[k] = x
  <1>1. DOMAIN s = 1 .. Len(s)
    BY SMT
  <1> QED BY <1>1, Zenon DEF Range

LEMMA PeersOf ==
  ASSUME NEW S, NEW e \in Seq([peer : S, age : Nat])
  PROVE  /\ Peers(e) \in Seq(S) /\ Len(Peers(e)) = Len(e) /\ Len(e) \in Nat
         /\ DOMAIN e = 1 .. Len(e) /\ DOMAIN Peers(e) = 1 .. Len(e)
         /\ \A k \in 1 .. Len(e) : /\ Peers(e)[k] = e[k].peer
                                   /\ e[k].peer \in S /\ e[k].age \in Nat
  <1>1. DOMAIN e = 1 .. Len(e) /\ Len(e) \in Nat
    BY LenProperties
  <1>2. \A k \in 1 .. Len(e) : e[k].peer \in S /\ e[k].age \in Nat
    <2>1. \A k \in 1 .. Len(e) : e[k] \in [peer : S, age : Nat]
      BY ElementOfSeq
    <2> QED BY <2>1
  <1>3. Peers(e) = [k \in 1 .. Len(e) |-> e[k].peer]
    BY <1>1 DEF Peers
  <1>4. Peers(e) \in [1 .. Len(e) -> S]
    BY <1>2, <1>3
  <1>5. Peers(e) \in Seq(S)
    <2>1. [1 .. Len(e) -> S] \in {[1 .. m -> S] : m \in Nat}
      BY <1>1
    <2> QED BY <1>4, <2>1, SeqDef
  <1>6. Len(Peers(e)) = Len(e)
    BY <1>1, <1>4, <1>5, LenProperties
  <1> QED BY <1>1, <1>2, <1>3, <1>5, <1>6

(* What the loops over the whole buffer copy.                              *)
LEMMA CopyFacts ==
  ASSUME Sound(nodi)
  PROVE  /\ Drawn(InSequence) /\ Listed(Entries[MaxAge])
         /\ Len(InSequence) = Len(Entries[MaxAge]) /\ Len(InSequence) \in Nat
         /\ \A k \in 1 .. Len(Entries[MaxAge]) :
              Fresh(Entries[MaxAge][k].peer, Entries[MaxAge][k].age)
  <1> DEFINE e == Entries[MaxAge]
  <1>1. HeldBelow(e, MaxAge)
    BY EntriesHeld
  <1> HIDE DEF e
  <1>2. /\ Peers(e) \in Seq(Peer) /\ Len(Peers(e)) = Len(e) /\ Len(e) \in Nat
        /\ \A k \in 1 .. Len(e) : Peers(e)[k] = e[k].peer /\ e[k].peer \in Peer /\ e[k].age \in Nat
    <2>1. e \in Seq([peer : Peer, age : Nat])
      BY <1>1 DEF HeldBelow
    <2> QED BY <2>1, PeersOf
  <1>3. \A k \in 1 .. Len(e) : e[k].age \in Ages
    BY <1>1, <1>2, AgeAssumption, SMT DEF HeldBelow, Ages
  <1>4. \A k \in 1 .. Len(e) : e[k].peer # Self /\ HasAge(e[k].peer, e[k].age)
    <2> SUFFICES ASSUME NEW k \in 1 .. Len(e)
                 PROVE  e[k].peer # Self /\ HasAge(e[k].peer, e[k].age)
      OBVIOUS
    <2>1. PICK m \in 1 .. Len(nodi[e[k].age]) : nodi[e[k].age][m] = e[k].peer
      BY <1>1 DEF HeldBelow
    <2>2. nodi[e[k].age] \in Seq(Peer) /\ nodi[e[k].age][m] # Self
      BY <1>3, <2>1 DEF Sound
    <2> QED BY <2>1, <2>2, RangeAt DEF HasAge
  <1>5. Listed(e)
    <2>1. [peer : Peer, age : Nat] \subseteq [peer : Drawable, age : Nat]
      BY DEF Drawable
    <2>2. e \in Seq([peer : Drawable, age : Nat])
      BY <1>1, <2>1, SeqMonotonic DEF HeldBelow
    <2> QED BY <1>1, <1>4, <2>2 DEF HeldBelow, Listed
  <1>6. Drawn(Peers(e))
    <2>1. Peers(e) \in Seq(Drawable)
      <3>1. Peer \subseteq Drawable
        BY DEF Drawable
      <3> QED BY <1>2, <3>1, SeqMonotonic
    <2> QED BY <1>1, <1>2, <1>4, <2>1 DEF HeldBelow, Drawn
  <1>7. \A k \in 1 .. Len(e) : Fresh(e[k].peer, e[k].age)
    BY <1>2, <1>3, <1>4, SMT DEF Fresh
  <1> QED BY <1>2, <1>5, <1>6, <1>7 DEF InSequence, e

(* A draw appends what is not there yet.                                   *)
LEMMA SlotFacts ==
  ASSUME Sound(nodi), NEW age \in Ages, NEW p \in Slots(age)
  PROVE  p \in Drawable /\ p # Self /\ (p # Blank => HasAge(p, age))
  <1>1. CASE nodi[age] = <<>>
    BY <1>1, SelfAssumption, BlankAssumption DEF Slots, Drawable
  <1>2. CASE nodi[age] # <<>>
    <2>1. p \in Range(nodi[age]) /\ nodi[age] \in Seq(Peer)
      BY <1>2 DEF Slots, Sound
    <2>2. PICK k \in 1 .. Len(nodi[age]) : nodi[age][k] = p
      BY <2>1, RangeAt
    <2>3. p \in Peer /\ p # Self
      BY <2>1, <2>2, ElementOfSeq DEF Sound
    <2> QED BY <2>1, <2>3 DEF HasAge, Drawable
  <1> QED BY <1>1, <1>2

LEMMA Appended ==
  ASSUME NEW S, NEW s \in Seq(S), NEW x \in S
  PROVE  /\ Append(s, x) \in Seq(S) /\ Len(Append(s, x)) = Len(s) + 1 /\ Len(s) \in Nat
         /\ Append(s, x)[Len(s) + 1] = x
         /\ \A k \in 1 .. Len(s) : Append(s, x)[k] = s[k]
         /\ \A k \in 1 .. Len(Append(s, x)) : k \in 1 .. Len(s) \/ k = Len(s) + 1
  BY SMT

LEMMA DrawnOneMore ==
  ASSUME NEW s, Drawn(s), NEW p \in Drawable, p # Self, p \notin Range(s)
  PROVE  Drawn(Append(s, p)) /\ Len(Append(s, p)) = Len(s) + 1
  <1> DEFINE t == Append(s, p)
  <1>1. s \in Seq(Drawable)
    BY DEF Drawn
  <1>2. /\ t \in Seq(Drawable) /\ Len(t) = Len(s) + 1
        /\ t[Len(s) + 1] = p
        /\ \A k \in 1 .. Len(s) : t[k] = s[k]
        /\ \A k \in 1 .. Len(t) : k \in 1 .. Len(s) \/ k = Len(s) + 1
    BY <1>1, Appended
  <1>3. \A k \in 1 .. Len(s) : s[k] # p
    BY <1>1, RangeOf
  <1> HIDE DEF t
  <1>4. Drawn(t)
    BY <1>2, <1>3 DEF Drawn
  <1> QED BY <1>2, <1>4 DEF t

LEMMA ListedOneMore ==
  ASSUME NEW e, Listed(e), NEW p \in Drawable, p # Self, NEW age \in Nat,
         \A k \in DOMAIN e : e[k].peer # p
  PROVE  LET t == Append(e, [peer |-> p, age |-> age])
         IN  /\ Listed(t) /\ Len(t) = Len(e) + 1 /\ Len(e) \in Nat
             /\ t[Len(e) + 1].peer = p /\ t[Len(e) + 1].age = age
             /\ \A k \in 1 .. Len(e) : t[k] = e[k]
             /\ \A k \in 1 .. Len(t) : k \in 1 .. Len(e) \/ k = Len(e) + 1
  <1> DEFINE x == [peer |-> p, age |-> age]
             t == Append(e, x)
  <1>1. e \in Seq([peer : Drawable, age : Nat]) /\ DOMAIN e = 1 .. Len(e)
    <2>1. e \in Seq([peer : Drawable, age : Nat])
      BY DEF Listed
    <2> QED BY <2>1, LenProperties
  <1>2. x \in [peer : Drawable, age : Nat] /\ x.peer = p /\ x.age = age
    OBVIOUS
  <1> HIDE DEF x
  <1>3. /\ t \in Seq([peer : Drawable, age : Nat]) /\ Len(t) = Len(e) + 1 /\ Len(e) \in Nat
        /\ t[Len(e) + 1] = x
        /\ \A k \in 1 .. Len(e) : t[k] = e[k]
        /\ \A k \in 1 .. Len(t) : k \in 1 .. Len(e) \/ k = Len(e) + 1
    BY <1>1, <1>2, Appended
  <1> HIDE DEF t
  <1>4. Listed(t)
    BY <1>1, <1>2, <1>3 DEF Listed
  <1> QED BY <1>2, <1>3, <1>4 DEF t, x

-----------------------------------------------------------------------------
(* What the helpers do meanwhile: a peer stays as fresh as it was, or goes.*)
LEMMA WriterNews ==
  ASSUME Sound(nodi), Helper
  PROVE  /\ Sound(nodi')
         /\ \A p \in Peer : Fresher(p) \/ p \in Known \ Known'
  <1>1. Sound(nodi')
    BY StepSound DEF Helper, Next
  <1>2. ASSUME NEW p \in Peer, NEW age \in 1 .. MaxAge, InsertListed(p, age)
        PROVE  \A q \in Peer : Fresher(q)
    <2>1. age \in Nat
      BY AgeAssumption, SMT
    <2> QED BY <1>2, <2>1, RefreshKeepsFresh DEF InsertListed
  <1>3. ASSUME NEW p \in Peer, InsertSource(p) PROVE \A q \in Peer : Fresher(q)
    <2>1. 0 \in Nat
      OBVIOUS
    <2> QED BY <1>3, <2>1, RefreshKeepsFresh DEF InsertSource
  <1>4. ASSUME NEW p \in Peer, InsertPeer(p) PROVE \A q \in Peer : Fresher(q)
    BY <1>4, InsertPeerKeepsFresh
  <1>5. ASSUME NEW p \in Peer, DeletePeer(p)
        PROVE  \A q \in Peer : Fresher(q) \/ q \in Known \ Known'
    <2>1. p \notin Known' /\ \A q \in Peer \ {p} : Fresher(q)
      BY <1>5, DeleteKeepsOthers
    <2>2. p \notin Known => Fresher(p)
      BY Zenon DEF Known, Fresher, HasAge
    <2> QED BY <2>1, <2>2
  <1> QED BY <1>1, <1>2, <1>3, <1>4, <1>5 DEF Helper

LEMMA StaysFresh ==
  ASSUME NEW p, NEW a \in Nat, Fresh(p, a), Fresher(p)
  PROVE  Fresh(p, a)'
  <1>1. CASE a >= MaxAge
    BY <1>1 DEF Fresh
  <1>2. ASSUME NEW j \in Ages, j <= a, HasAge(p, j)
        PROVE  Fresh(p, a)'
    <2>1. PICK i \in 0 .. j : HasAge(p, i)'
      BY <1>2 DEF Fresher
    <2>2. i \in Ages /\ i <= a
      BY <1>2, AgeAssumption, SMT DEF Ages
    <2> QED BY <2>1, <2>2 DEF Fresh
  <1> QED BY <1>1, <1>2 DEF Fresh

(* A round makes everybody one older.                                      *)
LEMMA OneOlder ==
  ASSUME NEW p, NEW a \in Nat, Fresh(p, a), AgePlusOne
  PROVE  Fresh(p, a + 1)'
  <1>1. CASE a >= MaxAge
    <2>1. a + 1 >= MaxAge
      BY <1>1, AgeAssumption, SMT
    <2> QED BY <2>1 DEF Fresh
  <1>2. ASSUME NEW j \in Ages, j <= a, HasAge(p, j)
        PROVE  Fresh(p, a + 1)'
    <2>1. CASE j + 1 \in Ages
      <3>1. nodi'[j + 1] = nodi[j]
        <4>1. j + 1 # 0 /\ (j + 1) - 1 = j
          BY AgeAssumption, SMT DEF Ages
        <4> QED BY <2>1, <4>1 DEF AgePlusOne
      <3>2. j + 1 <= a + 1
        BY <1>2, AgeAssumption, SMT DEF Ages
      <3> QED BY <1>2, <2>1, <3>1, <3>2 DEF Fresh, HasAge
    <2>2. CASE j + 1 \notin Ages
      <3>1. a + 1 >= MaxAge
        BY <1>2, <2>2, AgeAssumption, SMT DEF Ages
      <3> QED BY <3>1 DEF Fresh
    <2> QED BY <2>1, <2>2
  <1> QED BY <1>1, <1>2 DEF Fresh

-----------------------------------------------------------------------------
LEMMA NothingDrawn ==
  Drawn(<<>>) /\ Listed(<<>>) /\ Len(<<>>) = 0
  BY SMT DEF Drawn, Listed

LEMMA DrawAtStart == RGInit => DrawInv
  <1> SUFFICES ASSUME RGInit PROVE DrawInv
    OBVIOUS
  <1>1. Sound(nodi)
    BY AgeAssumption, SMT DEF RGInit, Init, Sound
  <1>2. Fanout \in Nat /\ GossipNodes \in Nat
    BY FanoutAssumption, GossipAssumption, AgeAssumption, SMT
  <1>3. Len(fanout) <= Fanout /\ Len(inf) <= GossipNodes
    BY <1>2, SMT DEF RGInit
  <1> QED BY <1>1, <1>3, NothingDrawn DEF RGInit, DrawInv

LEMMA Sizes ==
  /\ Fanout \in Nat /\ GossipNodes \in Nat /\ 0 < Fanout /\ Fanout <= GossipNodes
  /\ 0 .. MaxAge - 2 \subseteq Ages /\ \A a \in Ages : a \in Nat
  BY FanoutAssumption, GossipAssumption, AgeAssumption, SMT DEF Ages

LEMMA DrawFanoutKeeps ==
  ASSUME DrawInv, DrawFanout
  PROVE  DrawInv'
  <1>1. PICK age \in Ages : \E p \in Slots(age) :
          fanout' = IF p \in Range(fanout) THEN fanout ELSE Append(fanout, p)
    BY DEF DrawFanout
  <1>2. PICK p \in Slots(age) :
          fanout' = IF p \in Range(fanout) THEN fanout ELSE Append(fanout, p)
    BY <1>1
  <1>3. /\ rg = "fanout" /\ rg' = IF Len(fanout') = Fanout THEN "inf" ELSE "fanout"
        /\ UNCHANGED <<nodi, written, inf>>
        /\ Drawn(fanout) /\ Len(fanout) < Fanout /\ Len(fanout) \in Nat /\ inf = <<>>
    BY LenProperties DEF DrawFanout, message, DrawInv, Drawn
  <1>4. Drawn(fanout') /\ Len(fanout') <= Fanout /\ Len(fanout') \in Nat
    <2>1. CASE p \in Range(fanout)
      BY <1>2, <1>3, <2>1, Sizes, SMT
    <2>2. CASE p \notin Range(fanout)
      <3>1. Drawn(fanout') /\ Len(fanout') = Len(fanout) + 1
        BY <1>2, <1>3, <2>2, SlotFacts, DrawnOneMore DEF DrawInv
      <3> QED BY <1>3, <3>1, Sizes, SMT
    <2> QED BY <2>1, <2>2
  <1>5. rg' = "fanout" => Len(fanout') < Fanout
    BY <1>3, <1>4, Sizes, SMT
  <1> QED BY <1>3, <1>4, <1>5 DEF DrawInv

(* A draw for a message adds an entry with the age of its list, or none.   *)
LEMMA DrawInfAdds ==
  ASSUME DrawInv, DrawInf
  PROVE  /\ Listed(inf') /\ Len(inf') <= Fanout /\ Len(inf') \in Nat
         /\ \A k \in 1 .. Len(inf') :
              \/ k \in 1 .. Len(inf) /\ inf'[k] = inf[k]
              \/ inf'[k].peer = Blank
              \/ inf'[k].age \in Ages /\ HasAge(inf'[k].peer, inf'[k].age)
  <1>1. PICK age \in 0 .. MaxAge - 2 : \E p \in Slots(age) :
          inf' = IF \E k \in DOMAIN inf : inf[k].peer = p THEN inf
                 ELSE Append(inf, [peer |-> p, age |-> age])
    BY DEF DrawInf
  <1>2. PICK p \in Slots(age) :
          inf' = IF \E k \in DOMAIN inf : inf[k].peer = p THEN inf
                 ELSE Append(inf, [peer |-> p, age |-> age])
    BY <1>1
  <1>3. age \in Ages /\ age \in Nat
    BY Sizes
  <1>4. Listed(inf) /\ Len(inf) < Fanout /\ Len(inf) \in Nat
    BY LenProperties DEF DrawInv, DrawInf, Listed
  <1>5. CASE \E k \in DOMAIN inf : inf[k].peer = p
    BY <1>2, <1>4, <1>5, Sizes, SMT
  <1>6. CASE ~ \E k \in DOMAIN inf : inf[k].peer = p
    <2>1. p \in Drawable /\ p # Self /\ (p # Blank => HasAge(p, age))
      BY <1>3, SlotFacts DEF DrawInv
    <2>2. /\ Listed(inf') /\ Len(inf') = Len(inf) + 1
          /\ inf'[Len(inf) + 1].peer = p /\ inf'[Len(inf) + 1].age = age
          /\ \A k \in 1 .. Len(inf) : inf'[k] = inf[k]
          /\ \A k \in 1 .. Len(inf') : k \in 1 .. Len(inf) \/ k = Len(inf) + 1
      <3>1. inf' = Append(inf, [peer |-> p, age |-> age])
        BY <1>2, <1>6
      <3> QED BY <1>3, <1>4, <1>6, <2>1, <3>1, ListedOneMore
    <2>3. Len(inf') <= Fanout /\ Len(inf') \in Nat
      BY <1>4, <2>2, Sizes, SMT
    <2> QED BY <1>3, <2>1, <2>2, <2>3
  <1> QED BY <1>5, <1>6

LEMMA RGKeeps ==
  ASSUME DrawInv, [RGNext]_rgVars
  PROVE  DrawInv'
  <1> USE DEF DrawInv
  <1>1. CASE ResetFanout
    BY <1>1, NothingDrawn, Sizes, SMT DEF ResetFanout
  <1>2. CASE CopyFanout
    <2>1. Drawn(InSequence)
      BY CopyFacts
    <2> QED BY <1>2, <2>1 DEF CopyFanout, message
  <1>3. CASE DrawFanout
    BY <1>3, DrawFanoutKeeps
  <1>4. CASE CopyInf
    <2>1. Listed(inf') /\ Len(inf') <= GossipNodes
      BY <1>4, CopyFacts DEF CopyInf
    <2> QED BY <1>4, <2>1 DEF CopyInf
  <1>5. CASE StartInf
    <2>1. Listed(inf') /\ Len(inf') <= GossipNodes /\ Len(inf') < Fanout
      BY <1>5, NothingDrawn, Sizes DEF StartInf
    <2> QED BY <1>5, <2>1 DEF StartInf
  <1>6. CASE DrawInf
    <2>1. Listed(inf') /\ Len(inf') <= Fanout /\ Len(inf') \in Nat
      BY <1>6, DrawInfAdds
    <2>2. /\ rg = "draw" /\ UNCHANGED <<nodi, fanout>>
          /\ \/ Len(inf') = Fanout /\ rg' = "inf"
             \/ Len(inf') # Fanout /\ rg' = "draw"
      BY <1>6 DEF DrawInf
    <2>3. Len(inf') <= GossipNodes /\ (rg' = "draw" => Len(inf') < Fanout)
      BY <2>1, <2>2, Sizes, SMT
    <2> QED BY <2>1, <2>2, <2>3
  <1>7. CASE Age
    BY <1>7, AgePlusOneSound DEF Age, message
  <1>8. CASE Helper
    BY <1>8, WriterNews DEF Helper, message
  <1>9. CASE UNCHANGED rgVars
    BY <1>9 DEF rgVars
  <1> QED BY <1>1, <1>2, <1>3, <1>4, <1>5, <1>6, <1>7, <1>8, <1>9 DEF RGNext, RG

LEMMA DrawAlways == RGSpec => []DrawInv
  <1>1. DrawInv /\ [RGNext]_rgVars => DrawInv'
    BY RGKeeps
  <1> QED BY <1>1, DrawAtStart, PTL DEF RGSpec

(* Each round talks to different peers and names each peer once in a       *)
(* message, never this one, for a buffer, fanout and message of any size.  *)
THEOREM DrawsDistinct == RGSpec => []DistinctDraws
  <1>1. DrawInv => DistinctDraws
    <2> SUFFICES ASSUME DrawInv PROVE DistinctDraws
      OBVIOUS
    <2>1. IsInjective(fanout) /\ Self \notin Range(fanout) /\ Len(fanout) <= Fanout
      <3>1. fanout \in Seq(Drawable)
        BY DEF DrawInv, Drawn
      <3>2. DOMAIN fanout = 1 .. Len(fanout)
        BY <3>1, LenProperties
      <3> QED BY <3>1, <3>2, RangeOf DEF DrawInv, Drawn, IsInjective
    <2>2. IsInjective(Peers(inf)) /\ Self \notin Range(Peers(inf)) /\ Len(inf) <= GossipNodes
      <3>1. inf \in Seq([peer : Drawable, age : Nat])
        BY DEF DrawInv, Listed
      <3>2. /\ Peers(inf) \in Seq(Drawable) /\ Len(Peers(inf)) = Len(inf)
            /\ DOMAIN Peers(inf) = 1 .. Len(inf)
            /\ \A k \in 1 .. Len(inf) : Peers(inf)[k] = inf[k].peer
        BY <3>1, PeersOf
      <3> QED BY <3>2, RangeOf DEF DrawInv, Listed, IsInjective
    <2> QED BY <2>1, <2>2 DEF DistinctDraws
  <1> QED BY <1>1, DrawAlways, PTL

-----------------------------------------------------------------------------
LEMMA PlacesUpTo ==
  ASSUME NEW n \in Nat
  PROVE  IsFiniteSet(1 .. n) /\ Cardinality(1 .. n) = n
  <1>1. IsFiniteSet(1 .. n) /\ Cardinality(1 .. n) = IF 1 > n THEN 0 ELSE n - 1 + 1
    BY FS_Interval
  <1> QED BY <1>1, SMT

(* A sequence without repetitions has an element that a shorter one lacks. *)
LEMMA OneMissing ==
  ASSUME NEW S, NEW s \in Seq(S), NEW t \in Seq(S), Len(t) < Len(s),
         \A k, l \in 1 .. Len(s) : s[k] = s[l] => k = l
  PROVE  \E k \in 1 .. Len(s) : \A m \in 1 .. Len(t) : t[m] # s[k]
  <1> SUFFICES ASSUME \A k \in 1 .. Len(s) : \E m \in 1 .. Len(t) : t[m] = s[k]
               PROVE  FALSE
    OBVIOUS
  <1> DEFINE f == [k \in 1 .. Len(s) |-> CHOOSE m \in 1 .. Len(t) : t[m] = s[k]]
  <1>1. Len(s) \in Nat /\ Len(t) \in Nat
    BY LenProperties
  <1>2. \A k \in 1 .. Len(s) : f[k] \in 1 .. Len(t) /\ t[f[k]] = s[k]
    OBVIOUS
  <1>3. f \in [1 .. Len(s) -> 1 .. Len(t)]
    BY <1>2
  <1> DEFINE D == 1 .. Len(s)
             R == 1 .. Len(t)
  <1>4. IsFiniteSet(D) /\ IsFiniteSet(R) /\ Cardinality(R) < Cardinality(D)
    BY <1>1, PlacesUpTo, SMT
  <1> HIDE DEF f, D, R
  <1>5. f \in [D -> R]
    BY <1>3 DEF D, R
  <1>6. \E k, l \in D : k # l /\ f[k] = f[l]
    BY <1>4, <1>5, FS_PigeonHole
  <1>7. PICK k \in D, l \in D : k # l /\ f[k] = f[l]
    BY <1>6
  <1>8. s[k] = s[l]
    BY <1>2, <1>7, Zenon DEF D
  <1> QED BY <1>7, <1>8 DEF D

(* One without repetitions has as many elements as it is long.             *)
LEMMA RangeSize ==
  ASSUME NEW S, NEW s \in Seq(S), \A k, l \in 1 .. Len(s) : s[k] = s[l] => k = l
  PROVE  IsFiniteSet(Range(s)) /\ Cardinality(Range(s)) = Len(s) /\ Len(s) \in Nat
  <1>1. DOMAIN s = 1 .. Len(s) /\ Len(s) \in Nat
    BY LenProperties
  <1>2. \A x \in Range(s) : \E k \in 1 .. Len(s) : s[k] = x
    BY RangeOf
  <1>3. \A k \in 1 .. Len(s) : s[k] \in Range(s)
    BY RangeOf
  <1>4. s = [k \in 1 .. Len(s) |-> s[k]]
    BY LenProperties
  <1>5. s \in [1 .. Len(s) -> Range(s)]
    BY <1>3, <1>4, Zenon
  <1>6. IsInjective(s)
    BY <1>1 DEF IsInjective
  <1>7. s \in Surjection(1 .. Len(s), Range(s)) /\ s \in Injection(1 .. Len(s), Range(s))
    BY <1>2, <1>5, <1>6 DEF Surjection, Injection
  <1>8. IsFiniteSet(1 .. Len(s)) /\ Cardinality(1 .. Len(s)) = Len(s)
    BY <1>1, PlacesUpTo
  <1> QED BY <1>1, <1>7, <1>8, FS_Surjection

(* What the loops over the whole buffer copy are all the neighbours.       *)
LEMMA CopyNames ==
  ASSUME Sound(nodi)
  PROVE  \A p : p \in Known <=> \E k \in 1 .. Len(Entries[MaxAge]) : Entries[MaxAge][k].peer = p
  <1> DEFINE e == Entries[MaxAge]
  <1>1. HeldBelow(e, MaxAge) /\ NamesBelow(e, MaxAge)
    BY EntriesHeld, EntriesNamed
  <1>2. e \in Seq([peer : Peer, age : Nat])
    BY <1>1 DEF HeldBelow
  <1>3. \A k \in 1 .. Len(e) : e[k].age \in Nat
    BY <1>2, PeersOf
  <1> HIDE DEF e
  <1>4. ASSUME NEW p, p \in Known
        PROVE  \E k \in 1 .. Len(e) : e[k].peer = p
    <2>1. PICK i \in Ages : p \in Range(nodi[i])
      BY <1>4 DEF Known
    <2>2. nodi[i] \in Seq(Peer)
      BY DEF Sound
    <2>3. PICK m \in 1 .. Len(nodi[i]) : nodi[i][m] = p
      BY <2>1, <2>2, RangeAt
    <2>4. i < MaxAge
      BY AgeAssumption, SMT DEF Ages
    <2> QED BY <1>1, <2>3, <2>4 DEF NamesBelow
  <1>5. ASSUME NEW k \in 1 .. Len(e)
        PROVE  e[k].peer \in Known
    <2>1. PICK m \in 1 .. Len(nodi[e[k].age]) : nodi[e[k].age][m] = e[k].peer
      BY <1>1 DEF HeldBelow
    <2>2. e[k].age \in Ages
      BY <1>1, <1>3, AgeAssumption, SMT DEF HeldBelow, Ages
    <2>3. nodi[e[k].age] \in Seq(Peer)
      BY <2>2 DEF Sound
    <2>4. e[k].peer \in Range(nodi[e[k].age])
      BY <2>1, <2>3, RangeAt
    <2> QED BY <2>2, <2>4 DEF Known
  <1> QED BY <1>4, <1>5 DEF e

LEMMA InSequenceNames ==
  ASSUME Sound(nodi)
  PROVE  Range(InSequence) = Known
  <1> DEFINE e == Entries[MaxAge]
  <1>1. e \in Seq([peer : Peer, age : Nat])
    BY EntriesHeld DEF HeldBelow
  <1>2. \A p : p \in Known <=> \E k \in 1 .. Len(e) : e[k].peer = p
    BY CopyNames
  <1> HIDE DEF e
  <1>3. /\ Peers(e) \in Seq(Peer) /\ Len(Peers(e)) = Len(e)
        /\ \A k \in 1 .. Len(e) : Peers(e)[k] = e[k].peer
    BY <1>1, PeersOf
  <1>4. \A p : p \in Range(Peers(e)) <=> \E k \in 1 .. Len(e) : e[k].peer = p
    BY <1>3, RangeOf
  <1>5. Range(Peers(e)) = Known
    BY <1>2, <1>4
  <1> QED BY <1>5 DEF InSequence, e

(* A draw for the fanout or for a message has something left to draw.      *)
LEMMA FanoutLeft ==
  ASSUME DrawInv, rg = "fanout", Len(InSequence) > Fanout
  PROVE  \E age \in Ages : \E p \in Slots(age) : p \notin Range(fanout)
  <1>1. /\ InSequence \in Seq(Drawable) /\ Len(InSequence) \in Nat
        /\ \A k, l \in 1 .. Len(InSequence) : InSequence[k] = InSequence[l] => k = l
    BY CopyFacts DEF DrawInv, Drawn
  <1>2. fanout \in Seq(Drawable) /\ Len(fanout) \in Nat
    BY LenProperties DEF DrawInv, Drawn
  <1>3. Len(fanout) < Len(InSequence)
    BY <1>1, <1>2, Sizes, SMT DEF DrawInv
  <1>4. PICK k \in 1 .. Len(InSequence) : \A m \in 1 .. Len(fanout) : fanout[m] # InSequence[k]
    BY <1>1, <1>2, <1>3, OneMissing
  <1> DEFINE p == InSequence[k]
  <1>5. p \in Range(InSequence)
    BY <1>1, RangeOf
  <1>6. p \in Known
    BY <1>5, InSequenceNames DEF DrawInv
  <1>7. p \notin Range(fanout)
    BY <1>2, <1>4, RangeOf
  <1> HIDE DEF p
  <1>8. PICK i \in Ages : p \in Range(nodi[i])
    BY <1>6 DEF Known
  <1>9. nodi[i] # <<>>
    <2>1. nodi[i] \in Seq(Peer)
      BY DEF DrawInv, Sound
    <2>2. PICK m \in 1 .. Len(nodi[i]) : nodi[i][m] = p
      BY <1>8, <2>1, RangeAt
    <2> QED BY <2>2, NothingDrawn, SMT
  <1>10. p \in Slots(i)
    BY <1>8, <1>9 DEF Slots
  <1> QED BY <1>7, <1>10

LEMMA MessageLeft ==
  ASSUME DrawInv, rg = "draw", Cardinality(Candidates) >= Fanout
  PROVE  \E p \in Candidates : p \notin Range(Peers(inf))
  <1> SUFFICES ASSUME Candidates \subseteq Range(Peers(inf)) PROVE FALSE
    OBVIOUS
  <1>1. inf \in Seq([peer : Drawable, age : Nat])
    BY DEF DrawInv, Listed
  <1>2. /\ Peers(inf) \in Seq(Drawable) /\ Len(Peers(inf)) = Len(inf) /\ Len(inf) \in Nat
        /\ \A k \in 1 .. Len(inf) : Peers(inf)[k] = inf[k].peer
    BY <1>1, PeersOf
  <1>3. \A k, l \in 1 .. Len(Peers(inf)) : Peers(inf)[k] = Peers(inf)[l] => k = l
    BY <1>2 DEF DrawInv, Listed
  <1>4. IsFiniteSet(Range(Peers(inf))) /\ Cardinality(Range(Peers(inf))) = Len(inf)
    BY <1>2, <1>3, RangeSize
  <1>5. /\ Cardinality(Candidates) <= Cardinality(Range(Peers(inf)))
        /\ Cardinality(Candidates) \in Nat
    <2>1. Candidates \in SUBSET Range(Peers(inf))
      OBVIOUS
    <2> QED BY <1>4, <2>1, FS_Subset, FS_CardinalityType
  <1> QED BY <1>2, <1>4, <1>5, Sizes, SMT DEF DrawInv

(* No draw of a round repeats itself for ever with the lock held, for a    *)
(* buffer, fanout and message of any size: those that hold an address      *)
(* already always leave one that a further draw can bring.                 *)
THEOREM DrawsGoOn == RGSpec => []NeverDrawnOut
  <1>1. DrawInv => NeverDrawnOut
    BY FanoutLeft, MessageLeft DEF NeverDrawnOut
  <1> QED BY <1>1, DrawAlways, PTL

(* What a draw in progress holds are neighbours: they cannot change now.   *)
FromBuffer(x) == x \in Known \cup {Blank}

ReachInv ==
  /\ written \in Nat
  /\ rg = "fanout" => \A k \in 1 .. Len(fanout) : FromBuffer(fanout[k])
  /\ rg = "draw" => \A k \in 1 .. Len(inf) : FromBuffer(inf[k].peer)

LEMMA SlotKnown ==
  ASSUME NEW age \in Ages, NEW p \in Slots(age)
  PROVE  FromBuffer(p)
  BY DEF Slots, Known, FromBuffer

LEMMA FanoutDrawn ==
  ASSUME DrawInv, ReachInv, DrawFanout
  PROVE  \A k \in 1 .. Len(fanout') : FromBuffer(fanout'[k])
  <1>1. PICK age \in Ages : \E p \in Slots(age) :
          fanout' = IF p \in Range(fanout) THEN fanout ELSE Append(fanout, p)
    BY DEF DrawFanout
  <1>2. PICK p \in Slots(age) :
          fanout' = IF p \in Range(fanout) THEN fanout ELSE Append(fanout, p)
    BY <1>1
  <1>3. \A k \in 1 .. Len(fanout) : FromBuffer(fanout[k])
    BY DEF ReachInv, DrawFanout
  <1>4. CASE p \in Range(fanout)
    BY <1>2, <1>3, <1>4
  <1>5. CASE p \notin Range(fanout)
    <2>1. fanout \in Seq(Drawable) /\ p \in Drawable
      BY SlotFacts DEF DrawInv, Drawn
    <2>2. /\ fanout'[Len(fanout) + 1] = p
          /\ \A k \in 1 .. Len(fanout) : fanout'[k] = fanout[k]
          /\ \A k \in 1 .. Len(fanout') : k \in 1 .. Len(fanout) \/ k = Len(fanout) + 1
      BY <1>2, <1>5, <2>1, Appended
    <2> QED BY <1>3, <2>2, SlotKnown
  <1> QED BY <1>4, <1>5

LEMMA MessageDrawn ==
  ASSUME DrawInv, ReachInv, DrawInf
  PROVE  \A k \in 1 .. Len(inf') : FromBuffer(inf'[k].peer)
  <1> SUFFICES ASSUME NEW k \in 1 .. Len(inf') PROVE FromBuffer(inf'[k].peer)
    OBVIOUS
  <1>1. \/ k \in 1 .. Len(inf) /\ inf'[k] = inf[k]
        \/ inf'[k].peer = Blank
        \/ inf'[k].age \in Ages /\ HasAge(inf'[k].peer, inf'[k].age)
    BY DrawInfAdds
  <1> QED BY <1>1 DEF ReachInv, DrawInf, FromBuffer, Known, HasAge

LEMMA ReachKeeps ==
  ASSUME DrawInv, ReachInv, [RGNext]_rgVars
  PROVE  ReachInv'
  <1> USE DEF ReachInv
  <1>1. CASE ResetFanout
    <2>1. fanout' = <<>> /\ rg' = "fanout" /\ written' = 0
      BY <1>1 DEF ResetFanout
    <2>2. Len(fanout') = 0 /\ written' \in Nat
      BY <2>1, NothingDrawn, SMT
    <2> QED BY <2>1, <2>2, SMT
  <1>2. CASE CopyFanout
    BY <1>2 DEF CopyFanout, message
  <1>3. CASE DrawFanout
    <2>1. \A k \in 1 .. Len(fanout') : FromBuffer(fanout'[k])
      BY <1>3, FanoutDrawn
    <2> QED BY <1>3, <2>1 DEF DrawFanout, message, FromBuffer, Known
  <1>4. CASE CopyInf
    BY <1>4 DEF CopyInf
  <1>5. CASE StartInf
    <2>1. inf' = <<>> /\ rg' = "draw" /\ written' = written
      BY <1>5 DEF StartInf
    <2>2. Len(inf') = 0
      BY <2>1, NothingDrawn
    <2> QED BY <2>1, <2>2, SMT
  <1>6. CASE DrawInf
    <2>1. \A k \in 1 .. Len(inf') : FromBuffer(inf'[k].peer)
      BY <1>6, MessageDrawn
    <2>2. written' \in Nat /\ nodi' = nodi /\ rg' # "fanout"
      BY <1>6, SMT DEF DrawInf
    <2> QED BY <2>1, <2>2 DEF FromBuffer, Known
  <1>7. CASE Age
    BY <1>7 DEF Age, message
  <1>8. CASE Helper
    <2>1. UNCHANGED <<rg, fanout, written, inf>> /\ rg \notin {"fanout", "draw"}
      BY <1>8 DEF Helper, message
    <2> QED BY <2>1
  <1>9. CASE UNCHANGED rgVars
    BY <1>9 DEF rgVars, FromBuffer, Known
  <1> QED BY <1>1, <1>2, <1>3, <1>4, <1>5, <1>6, <1>7, <1>8, <1>9 DEF RGNext, RG

LEMMA ReachAlways == RGSpec => []ReachInv
  <1>1. RGInit => ReachInv
    BY DEF RGInit, ReachInv
  <1>2. DrawInv /\ ReachInv /\ [RGNext]_rgVars => ReachInv'
    BY ReachKeeps
  <1> QED BY <1>1, <1>2, DrawAlways, PTL DEF RGSpec

(* A copy of the whole buffer reaches all; a draw that is complete has     *)
(* Fanout different addresses, of which one is the blank.                  *)
LEMMA CopyReaches ==
  ASSUME Sound(nodi), NEW drawn, drawn = Known
  PROVE  Reaches(drawn)
  <1>1. Blank \notin Known
    <2>1. ASSUME NEW i \in Ages PROVE Blank \notin Range(nodi[i])
      <3>1. nodi[i] \in Seq(Peer)
        BY DEF Sound
      <3>2. \A k \in 1 .. Len(nodi[i]) : nodi[i][k] \in Peer
        BY <3>1, ElementOfSeq
      <3> QED BY <3>1, <3>2, RangeAt, BlankAssumption
    <2> QED BY <2>1 DEF Known
  <1> QED BY <1>1 DEF Reaches

LEMMA DrawReaches ==
  ASSUME NEW s \in Seq(Drawable), \A k, l \in 1 .. Len(s) : s[k] = s[l] => k = l,
         Len(s) = Fanout, \A k \in 1 .. Len(s) : FromBuffer(s[k])
  PROVE  Reaches(Range(s))
  <1>1. IsFiniteSet(Range(s)) /\ Cardinality(Range(s)) = Fanout
    BY RangeSize
  <1>2. Range(s) \ {Blank} \subseteq Known
    BY RangeOf DEF FromBuffer
  <1>3. Cardinality(Range(s) \ {Blank}) = IF Blank \in Range(s) THEN Fanout - 1 ELSE Fanout
    BY <1>1, FS_RemoveElement
  <1>4. Cardinality(Range(s) \ {Blank}) >= Fanout - 1
    BY <1>3, Sizes, SMT
  <1> QED BY <1>2, <1>4 DEF Reaches

LEMMA FanoutReaches ==
  ASSUME DrawInv, ReachInv, [RGNext]_rgVars, rg = "fanout", rg' = "inf"
  PROVE  Reaches(Range(fanout'))
  <1>1. CASE CopyFanout
    <2>1. Range(fanout') = Known
      BY <1>1, InSequenceNames DEF CopyFanout, DrawInv
    <2> QED BY <2>1, CopyReaches DEF DrawInv
  <1>2. CASE DrawFanout
    <2>1. Drawn(fanout')
      BY <1>2, DrawFanoutKeeps DEF DrawInv
    <2>2. Len(fanout') = Fanout
      BY <1>2, SMT DEF DrawFanout
    <2> QED BY <1>2, <2>1, <2>2, FanoutDrawn, DrawReaches DEF Drawn
  <1>3. CopyFanout \/ DrawFanout
    BY SMT DEF RGNext, RG, ResetFanout, CopyInf, StartInf, DrawInf, Age, Helper, rgVars
  <1> QED BY <1>1, <1>2, <1>3

LEMMA MessageReaches ==
  ASSUME DrawInv, ReachInv, [RGNext]_rgVars, written' > written
  PROVE  Reaches(Range(Peers(inf')))
  <1>1. CASE CopyInf
    <2>1. Peers(inf') = InSequence
      BY <1>1 DEF CopyInf, InSequence
    <2>2. Range(InSequence) = Known
      BY InSequenceNames DEF DrawInv
    <2> QED BY <2>1, <2>2, CopyReaches DEF DrawInv
  <1>2. CASE DrawInf
    <2>1. Listed(inf') /\ inf' \in Seq([peer : Drawable, age : Nat])
      BY <1>2, DrawInfAdds DEF Listed
    <2>2. /\ Peers(inf') \in Seq(Drawable) /\ Len(Peers(inf')) = Len(inf')
          /\ \A k \in 1 .. Len(inf') : Peers(inf')[k] = inf'[k].peer
      BY <2>1, PeersOf
    <2>3. Len(inf') = Fanout
      BY <1>2, SMT DEF DrawInf, ReachInv
    <2>4. \A k \in 1 .. Len(inf') : FromBuffer(inf'[k].peer)
      BY <1>2, MessageDrawn
    <2>5. /\ \A k, l \in 1 .. Len(Peers(inf')) : Peers(inf')[k] = Peers(inf')[l] => k = l
          /\ \A k \in 1 .. Len(Peers(inf')) : FromBuffer(Peers(inf')[k])
      BY <2>1, <2>2, <2>4 DEF Listed
    <2> QED BY <2>2, <2>3, <2>5, DrawReaches
  <1>3. CopyInf \/ DrawInf
    <2>1. written \in Nat /\ written' # written /\ written' # 0
      BY SMT DEF ReachInv
    <2> QED BY <2>1, SMT DEF RGNext, RG, ResetFanout, CopyFanout, DrawFanout, StartInf, Age,
                             Helper, rgVars, message
  <1> QED BY <1>1, <1>2, <1>3

(* A round talks to every neighbour of the moment or to Fanout - 1 of them *)
(* at least, and each of its messages names as many, for a buffer, fanout  *)
(* and message of any size: the blank slot of the empty lists costs one    *)
(* address and never more, and nobody the buffer does not hold is drawn.   *)
THEOREM RoundsReach == RGSpec => RoundReaches
  <1>1. DrawInv /\ ReachInv /\ [RGNext]_rgVars =>
          [/\ rg = "fanout" /\ rg' = "inf" => Reaches(Range(fanout'))
           /\ written' > written => Reaches(Range(Peers(inf')))]_rgVars
    BY FanoutReaches, MessageReaches
  <1> QED BY <1>1, DrawAlways, ReachAlways, PTL DEF RGSpec, RoundReaches

-----------------------------------------------------------------------------
(* What the RG thread and the helpers do to the neighbour buffer are the   *)
(* operations of its specification.                                        *)
THEOREM GossipUsesNeighbour == RGSpec => Spec
  <1>1. RGInit => Init
    BY DEF RGInit
  <1>2. [RGNext]_rgVars => [Next]_nodi
    BY DEF RGNext, RG, Helper, ResetFanout, CopyFanout, DrawFanout, CopyInf, StartInf,
           DrawInf, Age, Next, rgVars
  <1> QED BY <1>1, <1>2, PTL DEF RGSpec, Spec

-----------------------------------------------------------------------------
(* The entries of a message keep telling no fresher news than there are.   *)
LEMMA EntryTyped ==
  ASSUME Listed(inf), NEW k \in 1 .. Len(inf)
  PROVE  inf[k].peer \in Peer \cup {Blank} /\ inf[k].age \in Nat
  <1>1. inf \in Seq([peer : Drawable, age : Nat])
    BY DEF Listed
  <1> QED BY <1>1, PeersOf DEF Drawable

LEMMA ToldWhileWriting ==
  ASSUME DrawInv, ToldInv, Helper, byes' = byes \cup (Known \ Known')
  PROVE  ToldInv'
  <1>1. UNCHANGED <<rg, inf>>
    BY DEF Helper, message
  <1> SUFFICES ASSUME NEW k \in 1 .. Len(inf), inf[k].peer \notin byes' \cup {Blank}
               PROVE  Held(k)'
    BY <1>1 DEF ToldInv
  <1>2. Held(k)
    BY DEF ToldInv
  <1>3. inf[k].peer \in Peer /\ inf[k].age \in Nat /\ inf[k].age + 1 \in Nat
    BY EntryTyped DEF DrawInv
  <1>4. Fresher(inf[k].peer)
    BY <1>3, WriterNews DEF DrawInv
  <1> QED BY <1>1, <1>2, <1>3, <1>4, StaysFresh DEF Held

LEMMA ToldByRG ==
  ASSUME DrawInv, ToldInv, RG, rg # "fanout" => byes' = byes
  PROVE  ToldInv'
  <1>1. CASE ResetFanout
    <2>1. Len(inf') = 0
      BY <1>1, NothingDrawn DEF ResetFanout
    <2> QED BY <2>1, SMT DEF ToldInv
  <1>2. CASE CopyFanout \/ DrawFanout
    <2>1. inf' = <<>> /\ Len(inf') = 0
      BY <1>2, NothingDrawn DEF CopyFanout, DrawFanout, message, DrawInv
    <2> QED BY <2>1, SMT DEF ToldInv
  <1>3. CASE CopyInf
    <2>1. inf' = Entries[MaxAge] /\ UNCHANGED <<nodi, rg>> /\ rg = "inf"
      BY <1>3 DEF CopyInf
    <2>2. \A k \in 1 .. Len(inf') : Fresh(inf'[k].peer, inf'[k].age)
      BY <2>1, CopyFacts DEF DrawInv
    <2> QED BY <2>1, <2>2 DEF ToldInv, Held, Fresh, HasAge
  <1>4. CASE StartInf
    <2>1. Len(inf') = 0
      BY <1>4, NothingDrawn DEF StartInf
    <2> QED BY <2>1, SMT DEF ToldInv
  <1>5. CASE DrawInf
    <2>1. rg = "draw" /\ rg' # "round" /\ nodi' = nodi /\ byes' = byes
      BY <1>5 DEF DrawInf
    <2> SUFFICES ASSUME NEW k \in 1 .. Len(inf'), inf'[k].peer \notin byes \cup {Blank}
                 PROVE  Fresh(inf'[k].peer, inf'[k].age)
      BY <2>1 DEF ToldInv, Held, Fresh, HasAge
    <2>2. CASE k \in 1 .. Len(inf) /\ inf'[k] = inf[k]
      BY <2>1, <2>2 DEF ToldInv, Held
    <2>3. CASE inf'[k].age \in Ages /\ HasAge(inf'[k].peer, inf'[k].age)
      <3>1. inf'[k].age <= inf'[k].age
        BY <2>3, Sizes
      <3> QED BY <2>3, <3>1 DEF Fresh
    <2> QED BY <1>5, <2>2, <2>3, DrawInfAdds
  <1>6. CASE Age
    <2>1. rg = "inf" /\ rg' = "round" /\ inf' = inf /\ byes' = byes /\ AgePlusOne
      BY <1>6 DEF Age, message
    <2> SUFFICES ASSUME NEW k \in 1 .. Len(inf), inf[k].peer \notin byes \cup {Blank}
                 PROVE  Fresh(inf[k].peer, inf[k].age + 1)'
      BY <2>1 DEF ToldInv, Held
    <2>2. Fresh(inf[k].peer, inf[k].age) /\ inf[k].age \in Nat
      BY <2>1, EntryTyped DEF DrawInv, ToldInv, Held
    <2> QED BY <2>1, <2>2, OneOlder
  <1> QED BY <1>1, <1>2, <1>3, <1>4, <1>5, <1>6 DEF RG

LEMMA ToldStep ==
  ASSUME DrawInv, ToldInv, [MCNext]_mcVars
  PROVE  ToldInv'
  <1>1. CASE MCNext /\ Helper
    <2>1. byes' = byes \cup (Known \ Known')
      BY <1>1 DEF MCNext, Helper
    <2> QED BY <1>1, <2>1, ToldWhileWriting
  <1>2. CASE MCNext /\ ~ Helper
    <2>1. RG /\ (rg # "fanout" => byes' = byes)
      BY <1>2 DEF MCNext, RGNext
    <2> QED BY <2>1, ToldByRG
  <1>3. CASE UNCHANGED mcVars
    BY <1>3 DEF mcVars, rgVars, ToldInv, Held, Fresh, HasAge
  <1> QED BY <1>1, <1>2, <1>3

(* A peer never tells others fresher news than it has itself, whatever its *)
(* helpers do to the neighbour buffer between the messages of a round, and *)
(* between the last of them and the round's ageing.                        *)
THEOREM NeverFresher == MCSpec => []ToldNotFresher
  <1>1. MCInit => DrawInv /\ ToldInv
    <2>1. RGInit => Len(inf) = 0
      BY NothingDrawn DEF RGInit
    <2>2. RGInit => ToldInv
      BY <2>1, SMT DEF ToldInv
    <2> QED BY <2>2, DrawAtStart DEF MCInit
  <1>2. DrawInv /\ ToldInv /\ [MCNext]_mcVars => DrawInv' /\ ToldInv'
    <2>1. [MCNext]_mcVars => [RGNext]_rgVars
      BY DEF MCNext, mcVars
    <2> QED BY <2>1, RGKeeps, ToldStep
  <1>3. DrawInv /\ ToldInv => ToldNotFresher
    <2> SUFFICES ASSUME DrawInv, ToldInv, rg = "round", NEW k \in DOMAIN inf,
                        inf[k].peer \notin byes \cup {Blank}
                 PROVE  AgeOf(inf[k].peer) <= inf[k].age + 1
      BY DEF ToldNotFresher
    <2> DEFINE p == inf[k].peer
               a == inf[k].age + 1
    <2>1. inf \in Seq([peer : Drawable, age : Nat])
      BY DEF DrawInv, Listed
    <2>2. k \in 1 .. Len(inf)
      BY <2>1, LenProperties
    <2>3. Fresh(p, a) /\ a \in Nat
      BY <2>2, EntryTyped DEF ToldInv, Held, DrawInv
    <2>4. \A i, j \in Ages : HasAge(p, i) /\ HasAge(p, j) => i = j
      <3>1. \A i \in Ages : HasAge(p, i) <=> \E m \in 1 .. Len(nodi[i]) : nodi[i][m] = p
        BY RangeAt DEF HasAge, DrawInv, Sound
      <3> QED BY <3>1 DEF DrawInv, Sound
    <2> SUFFICES AgeOf(p) <= a
      OBVIOUS
    <2> HIDE DEF p, a
    <2>5. CASE \E i \in Ages : HasAge(p, i)
      <3>1. AgeOf(p) \in Ages /\ HasAge(p, AgeOf(p))
        BY <2>5 DEF AgeOf
      <3>2. CASE a >= MaxAge
        BY <2>3, <3>1, <3>2, AgeAssumption, SMT DEF Ages
      <3>3. CASE \E j \in Ages : j <= a /\ HasAge(p, j)
        BY <2>4, <3>1, <3>3
      <3> QED BY <2>3, <3>2, <3>3 DEF Fresh
    <2>6. CASE ~ \E i \in Ages : HasAge(p, i)
      <3>1. AgeOf(p) = MaxAge /\ a >= MaxAge
        BY <2>3, <2>6 DEF AgeOf, Fresh
      <3> QED BY <2>3, <3>1, AgeAssumption, SMT
    <2> QED BY <2>5, <2>6
  <1> QED BY <1>1, <1>2, <1>3, PTL DEF MCSpec
=============================================================================
