-------------------------- MODULE SimulatorProofs ---------------------------
(***************************************************************************)
(* Proofs about the simulator, for any number of nodes, ages and rounds:   *)
(* its random variable draws the ages as meant, a draw of a fanout or of   *)
(* gossip always has somebody to draw, and what the statistics count is    *)
(* what the graphs of the nodes say.                                       *)
(*                                                                         *)
(* Recursive functions are reasoned about by sets: a set of numbers that   *)
(* holds 0 and the successor of all it holds has all numbers in it.        *)
(***************************************************************************)
EXTENDS MCSimulator, FiniteSetTheorems, WellFoundedInduction, TLAPS

(* The random variable.                                                    *)
LEMMA Least ==
  ASSUME NEW T, T \subseteq Nat, T # {}
  PROVE  \E m \in T : \A x \in T : m <= x
  <1>1. \E m \in T : \A x \in T : ~ (<<x, m>> \in OpToRel(<, Nat))
    BY WFMin, NatLessThanWellFounded, Zenon
  <1>2. PICK m \in T : \A x \in T : ~ (<<x, m>> \in OpToRel(<, Nat))
    BY <1>1
  <1>3. ASSUME NEW x \in T PROVE ~ (x < m)
    <2>1. <<x, m>> \in Nat \X Nat /\ <<x, m>>[1] = x /\ <<x, m>>[2] = m
      OBVIOUS
    <2> QED BY <1>2, <2>1 DEF OpToRel
  <1> QED BY <1>3, SMT

(* Induction over a set of numbers.                                        *)
LEMMA AllInside ==
  ASSUME NEW S, 0 \in S, \A n \in Nat : n \in S => n + 1 \in S
  PROVE  Nat \subseteq S
  <1> SUFFICES ASSUME Nat \ S # {} PROVE FALSE
    OBVIOUS
  <1>1. PICK m \in Nat \ S : \A x \in Nat \ S : m <= x
    BY Least
  <1>2. m # 0 /\ m - 1 \in Nat /\ m - 1 < m /\ (m - 1) + 1 = m
    BY <1>1, SMT
  <1>3. m - 1 \in S
    BY <1>1, <1>2, SMT
  <1> QED BY <1>1, <1>2, <1>3

(* A recursion over 0 .. N, its steps given by G, defines a function.      *)
Computes(f, N, z, G) == f[0] = z /\ \A i \in 1 .. N : f[i] = G[i][f[i - 1]]

LEMMA Recursion ==
  ASSUME NEW N \in Nat, NEW T, NEW z \in T, NEW G \in [Nat -> [T -> T]]
  PROVE  \E f \in [0 .. N -> T] : Computes(f, N, z, G)
  <1> DEFINE Upto(f, n) == /\ f \in [0 .. n -> T]
                           /\ f[0] = z
                           /\ \A i \in 1 .. n : f[i] = G[i][f[i - 1]]
             S == {n \in Nat : \E f : Upto(f, n)}
  <1>1. 0 \in S
    <2>1. Upto([i \in 0 .. 0 |-> z], 0)
      BY SMT
    <2> QED BY <2>1
  <1>2. ASSUME NEW n \in Nat, n \in S PROVE n + 1 \in S
    <2>1. PICK f : Upto(f, n)
      BY <1>2
    <2> DEFINE y == G[n + 1][f[n]]
               g == [i \in 0 .. n + 1 |-> IF i = n + 1 THEN y ELSE f[i]]
    <2>2. n \in 0 .. n /\ f[n] \in T /\ n + 1 \in Nat /\ y \in T
      BY <2>1, SMT
    <2>3. \A i \in 0 .. n : g[i] = f[i]
      BY SMT
    <2>4. g[n + 1] = y
      BY SMT
    <2>5. ASSUME NEW i \in 0 .. n + 1 PROVE (IF i = n + 1 THEN y ELSE f[i]) \in T
      <3>1. i # n + 1 => i \in 0 .. n
        BY SMT
      <3> QED BY <2>1, <2>2, <3>1
    <2>6. g \in [0 .. n + 1 -> T]
      BY <2>5
    <2>7. ASSUME NEW i \in 1 .. n + 1 PROVE g[i] = G[i][g[i - 1]]
      <3>1. CASE i \in 1 .. n
        <4>1. i - 1 \in 0 .. n /\ i \in 0 .. n
          BY <3>1, SMT
        <4> HIDE DEF g
        <4> QED BY <2>1, <2>3, <3>1, <4>1
      <3>2. CASE i = n + 1
        <4>1. i - 1 = n
          BY <3>2, SMT
        <4>2. g[i - 1] = f[n]
          BY <2>2, <2>3, <4>1
        <4> HIDE DEF g
        <4> QED BY <2>4, <3>2, <4>2
      <3> QED BY <3>1, <3>2, SMT
    <2>8. g[0] = z
      BY <2>1, <2>3, SMT
    <2> HIDE DEF g
    <2>9. Upto(g, n + 1)
      BY <2>6, <2>7, <2>8
    <2> QED BY <2>2, <2>9
  <1>3. N \in S
    <2> HIDE DEF S
    <2> QED BY <1>1, <1>2, AllInside
  <1>4. \E f : Upto(f, N)
    BY <1>3
  <1> QED BY <1>4 DEF Computes

-----------------------------------------------------------------------------
LEMMA Shares ==
  ASSUME NEW i \in Ages
  PROVE  Share(i) \in Nat /\ Share(i) >= 2
  <1>1. /\ MaxAge \in Nat /\ i \in Nat /\ i < MaxAge
        /\ BigNum \in Nat /\ BigNum >= 4 * MaxAge /\ BigNum >= 2
    BY RandomAgeAssumption, SMT DEF Ages
  <1>2. CASE i \in {0, 1, 2}
    BY <1>1, <1>2, RandomAgeAssumption, SMT DEF Share
  <1>3. CASE i \notin {0, 1, 2}
    <2> DEFINE d == 2 * (i + 1)
    <2>1. d \in Nat /\ d > 0 /\ 2 * d <= BigNum
      BY <1>1, SMT
    <2> HIDE DEF d
    <2>2. BigNum \div d \in Nat /\ BigNum \div d >= 2
      BY <1>1, <2>1, SMT
    <2>3. Share(i) = BigNum \div d
      BY <1>3 DEF Share, d
    <2> QED BY <2>2, <2>3
  <1> QED BY <1>2, <1>3

LEMMA IntornoDefined ==
  /\ \A i \in Ages : intorno[i] \in Nat
  /\ intorno[0] = Share(0)
  /\ \A i \in 1 .. MaxAge - 1 : intorno[i] = Share(i) + intorno[i - 1]
  <1>1. MaxAge - 1 \in Nat /\ Ages = 0 .. MaxAge - 1
    BY RandomAgeAssumption, SMT DEF Ages
  <1> DEFINE G == [i \in Nat |-> [x \in Nat |-> (IF i \in Ages THEN Share(i) ELSE 0) + x]]
  <1>2. G \in [Nat -> [Nat -> Nat]]
    BY Shares, SMT
  <1>3. 0 \in Ages /\ Share(0) \in Nat
    BY <1>1, Shares, SMT
  <1> HIDE DEF G
  <1>4. PICK f \in [0 .. MaxAge - 1 -> Nat] :
          f[0] = Share(0) /\ \A i \in 1 .. MaxAge - 1 : f[i] = G[i][f[i - 1]]
    <2>1. \E f \in [0 .. MaxAge - 1 -> Nat] : Computes(f, MaxAge - 1, Share(0), G)
      BY <1>1, <1>2, <1>3, Recursion, Zenon
    <2> QED BY <2>1 DEF Computes
  <1>5. ASSUME NEW i \in Ages
        PROVE  f[i] = Share(i) + (IF i = 0 THEN 0 ELSE f[i - 1])
    <2>1. CASE i = 0
      BY <1>3, <1>4, <2>1, SMT
    <2>2. CASE i # 0
      <3>1. i \in 1 .. MaxAge - 1 /\ i - 1 \in 0 .. MaxAge - 1 /\ i \in Nat
        BY <1>1, <2>2, SMT
      <3>2. f[i] = G[i][f[i - 1]] /\ f[i - 1] \in Nat
        BY <1>4, <3>1
      <3> QED BY <2>2, <3>1, <3>2 DEF G
    <2> QED BY <2>1, <2>2
  <1>6. f = [i \in Ages |-> f[i]]
    BY <1>1, Zenon
  <1>7. f = [i \in Ages |-> Share(i) + (IF i = 0 THEN 0 ELSE f[i - 1])]
    BY <1>5, <1>6, Zenon
  <1>8. intorno = [i \in Ages |-> Share(i) + (IF i = 0 THEN 0 ELSE intorno[i - 1])]
    BY <1>7, Zenon DEF intorno
  <1>9. \A i \in Ages : intorno[i] = Share(i) + (IF i = 0 THEN 0 ELSE intorno[i - 1])
    BY <1>8, Zenon
  <1>10. \A i \in 1 .. MaxAge - 1 : i \in Ages /\ i # 0 /\ i \in Nat
    BY <1>1, SMT
  <1>11. intorno[0] = Share(0)
    BY <1>3, <1>9, SMT
  <1>12. \A i \in 1 .. MaxAge - 1 : intorno[i] = Share(i) + intorno[i - 1]
    BY <1>9, <1>10
  <1> DEFINE S == {n \in Nat : n \in Ages => intorno[n] \in Nat}
  <1>13. 0 \in S
    BY <1>3, <1>11
  <1>14. ASSUME NEW n \in Nat, n \in S PROVE n + 1 \in S
    <2>1. n + 1 \in Ages => n + 1 \in 1 .. MaxAge - 1 /\ n \in Ages /\ (n + 1) - 1 = n
      BY <1>1, SMT
    <2>2. n + 1 \in Ages => Share(n + 1) \in Nat
      BY Shares
    <2> QED BY <1>12, <1>14, <2>1, <2>2, SMT
  <1>15. Nat \subseteq S
    <2> HIDE DEF S
    <2> QED BY <1>13, <1>14, AllInside
  <1>16. \A i \in Ages : intorno[i] \in Nat
    BY <1>1, <1>15, SMT
  <1> QED BY <1>11, <1>12, <1>16

(* The numbers of an age are those behind the bound of the age before.     *)
Before(i) == IF i = 0 THEN 0 ELSE intorno[i - 1]

LEMMA Bounds ==
  ASSUME NEW i \in Ages
  PROVE  /\ intorno[i] \in Nat /\ Before(i) \in Nat
         /\ intorno[i] = Before(i) + Share(i) /\ Share(i) \in Nat
         /\ Before(i) + 2 <= intorno[i]
  <1>1. Share(i) \in Nat /\ Share(i) >= 2
    BY Shares
  <1>2. CASE i = 0
    BY <1>1, <1>2, IntornoDefined, SMT DEF Before
  <1>3. CASE i # 0
    <2>1. i \in 1 .. MaxAge - 1 /\ i - 1 \in Ages
      BY <1>3, RandomAgeAssumption, SMT DEF Ages
    <2>2. intorno[i] = Share(i) + intorno[i - 1] /\ intorno[i - 1] \in Nat
      BY <2>1, IntornoDefined
    <2> QED BY <1>1, <1>3, <2>2, SMT DEF Before
  <1> QED BY <1>2, <1>3

LEMMA Growing ==
  ASSUME NEW i \in Ages, NEW j \in Ages, i < j
  PROVE  intorno[i] <= Before(j) /\ intorno[i] < intorno[j]
  <1> DEFINE S == {n \in Nat : i + n + 1 \in Ages => intorno[i] <= Before(i + n + 1)}
  <1>1. i \in Nat /\ j \in Nat /\ intorno[i] \in Nat
    BY Bounds, SMT DEF Ages
  <1>2. 0 \in S
    <2>1. i + 0 + 1 # 0 /\ (i + 0 + 1) - 1 = i
      BY <1>1, SMT
    <2>2. Before(i + 0 + 1) = intorno[i]
      BY <2>1 DEF Before
    <2> QED BY <1>1, <2>2, SMT
  <1>3. ASSUME NEW n \in Nat, n \in S PROVE n + 1 \in S
    <2>1. SUFFICES ASSUME i + (n + 1) + 1 \in Ages
                   PROVE  intorno[i] <= Before(i + (n + 1) + 1)
      BY SMT
    <2>2. i + n + 1 \in Ages /\ (i + (n + 1) + 1) - 1 = i + n + 1 /\ i + (n + 1) + 1 # 0
      BY <1>1, <2>1, RandomAgeAssumption, SMT DEF Ages
    <2> DEFINE k == i + n + 1
    <2>3. k \in Ages /\ intorno[i] <= Before(k) /\ Before(i + (n + 1) + 1) = intorno[k]
      BY <1>3, <2>2 DEF Before
    <2> HIDE DEF k
    <2>4. Before(k) \in Nat /\ intorno[k] \in Nat /\ Before(k) + 2 <= intorno[k]
      BY <2>3, Bounds
    <2> QED BY <1>1, <2>3, <2>4, SMT
  <1>4. (j - i) - 1 \in Nat /\ i + ((j - i) - 1) + 1 = j
    BY <1>1, SMT
  <1>5. (j - i) - 1 \in S
    <2> HIDE DEF S
    <2> QED BY <1>2, <1>3, <1>4, AllInside
  <1>6. intorno[i] <= Before(j)
    BY <1>4, <1>5
  <1>7. Before(j) \in Nat /\ intorno[j] \in Nat /\ Before(j) + 2 <= intorno[j]
    BY Bounds
  <1> QED BY <1>1, <1>6, <1>7, SMT

(* The loop over intorno finds the age whose number it is.                 *)
LEMMA Found ==
  ASSUME NEW number \in 1 .. estremo
  PROVE  /\ AgeOf(number) \in Ages
         /\ Before(AgeOf(number)) < number /\ number <= intorno[AgeOf(number)]
  <1>1. MaxAge - 1 \in Ages /\ number \in Nat /\ number > 0
    BY RandomAgeAssumption, Bounds, SMT DEF Ages, estremo
  <1>2. number <= intorno[MaxAge - 1]
    BY <1>1, Bounds, SMT DEF estremo
  <1> DEFINE T == {i \in Ages : number <= intorno[i]}
  <1>3. T \subseteq Nat /\ T # {}
    BY <1>1, <1>2, SMT DEF Ages
  <1>4. PICK m \in T : \A x \in T : m <= x
    <2> HIDE DEF T
    <2> QED BY <1>3, Least
  <1>5. m \in Ages /\ number <= intorno[m]
    BY <1>4
  <1>6. ASSUME NEW j \in 0 .. m - 1 PROVE number > intorno[j]
    <2>1. j \in Ages /\ ~ (m <= j)
      BY <1>5, RandomAgeAssumption, SMT DEF Ages
    <2>2. ~ (number <= intorno[j])
      BY <1>4, <2>1
    <2>3. intorno[j] \in Nat
      BY <2>1, Bounds
    <2> QED BY <1>1, <2>2, <2>3, SMT
  <1>7. /\ AgeOf(number) \in Ages
        /\ number <= intorno[AgeOf(number)]
        /\ \A j \in 0 .. AgeOf(number) - 1 : number > intorno[j]
    BY <1>5, <1>6, Zenon DEF AgeOf
  <1> DEFINE a == AgeOf(number)
  <1>8. a \in Ages /\ \A j \in 0 .. a - 1 : number > intorno[j]
    BY <1>7
  <1> HIDE DEF a
  <1>9. Before(a) < number
    <2>1. CASE a = 0
      BY <1>1, <2>1, SMT DEF Before
    <2>2. CASE a # 0
      <3>1. a - 1 \in 0 .. a - 1 /\ a - 1 \in Ages
        BY <1>8, <2>2, RandomAgeAssumption, SMT DEF Ages
      <3>2. intorno[a - 1] \in Nat /\ number > intorno[a - 1]
        BY <1>8, <3>1, Bounds
      <3> QED BY <1>1, <2>2, <3>2, SMT DEF Before
    <2> QED BY <2>1, <2>2
  <1> QED BY <1>7, <1>9 DEF a

LEMMA AgeOfIs ==
  ASSUME NEW number \in 1 .. estremo, NEW i \in Ages
  PROVE  AgeOf(number) = i <=> Before(i) < number /\ number <= intorno[i]
  <1> DEFINE a == AgeOf(number)
  <1>1. a \in Ages /\ Before(a) < number /\ number <= intorno[a]
    BY Found
  <1> HIDE DEF a
  <1>2. /\ intorno[a] \in Nat /\ Before(a) \in Nat
        /\ intorno[i] \in Nat /\ Before(i) \in Nat /\ number \in Nat
    BY <1>1, Bounds, SMT DEF estremo
  <1>3. ASSUME Before(i) < number, number <= intorno[i] PROVE a = i
    <2>1. ~ (a < i)
      <3>1. SUFFICES ASSUME a < i PROVE FALSE
        OBVIOUS
      <3>2. intorno[a] <= Before(i)
        BY <1>1, <3>1, Growing
      <3> QED BY <1>1, <1>2, <1>3, <3>2, SMT
    <2>2. ~ (i < a)
      <3>1. SUFFICES ASSUME i < a PROVE FALSE
        OBVIOUS
      <3>2. intorno[i] <= Before(a)
        BY <1>1, <3>1, Growing
      <3> QED BY <1>1, <1>2, <1>3, <3>2, SMT
    <2> QED BY <1>1, <2>1, <2>2, SMT DEF Ages
  <1> QED BY <1>1, <1>3 DEF a

LEMMA NumbersOf ==
  ASSUME NEW i \in Ages
  PROVE  {number \in 1 .. estremo : AgeOf(number) = i} = Before(i) + 1 .. intorno[i]
  <1>1. /\ intorno[i] \in Nat /\ Before(i) \in Nat /\ estremo \in Nat
        /\ MaxAge - 1 \in Ages /\ i <= MaxAge - 1
    BY RandomAgeAssumption, Bounds, SMT DEF Ages, estremo
  <1>2. intorno[i] <= estremo
    <2>1. i = MaxAge - 1 \/ i < MaxAge - 1
      BY <1>1, RandomAgeAssumption, SMT DEF Ages
    <2>2. CASE i < MaxAge - 1
      <3>1. intorno[i] < intorno[MaxAge - 1]
        BY <1>1, <2>2, Growing
      <3> QED BY <1>1, <3>1, SMT DEF estremo
    <2> QED BY <1>1, <2>1, <2>2, SMT DEF estremo
  <1>3. ASSUME NEW n \in Before(i) + 1 .. intorno[i]
        PROVE  n \in 1 .. estremo /\ Before(i) < n /\ n <= intorno[i]
    BY <1>1, <1>2, SMT
  <1>4. ASSUME NEW n \in 1 .. estremo, Before(i) < n, n <= intorno[i]
        PROVE  n \in Before(i) + 1 .. intorno[i]
    BY <1>1, <1>4, SMT
  <1> QED BY <1>3, <1>4, AgeOfIs

(* X does what it is for, for any number of ages and any numbers: the      *)
(* three statements of AgesDrawn.                                          *)
LEMMA SharesDrawn ==
  ASSUME NEW age \in Ages
  PROVE  Cardinality(RandomAge(0)[age]) = Share(age)
  <1>1. \A number \in 1 .. estremo : AgeOf(number) + 0 = AgeOf(number) /\ AgeOf(number) < MaxAge
    BY Found, RandomAgeAssumption, SMT DEF Ages
  <1>2. RandomAge(0)[age] = {number \in 1 .. estremo : age = AgeOf(number)}
    BY <1>1 DEF RandomAge
  <1>3. RandomAge(0)[age] = Before(age) + 1 .. intorno[age]
    BY <1>2, NumbersOf
  <1>4. /\ Before(age) + 1 \in Int /\ intorno[age] \in Int
        /\ ~ (Before(age) + 1 > intorno[age])
        /\ intorno[age] - (Before(age) + 1) + 1 = Share(age)
    BY Bounds, SMT
  <1> QED BY <1>3, <1>4, FS_Interval

LEMMA EveryAgeDrawn == Possible(RandomAge(0)) = Ages
  <1>1. ASSUME NEW age \in Ages PROVE RandomAge(0)[age] # {}
    <2>1. Cardinality({}) = 0 /\ Share(age) >= 2
      BY FS_EmptySet, Shares
    <2>2. Cardinality(RandomAge(0)[age]) # 0
      BY <2>1, SharesDrawn, SMT
    <2> QED BY <2>1, <2>2
  <1> QED BY <1>1 DEF Possible

(* A number of each age.                                                   *)
LEMMA Witness ==
  ASSUME NEW i \in Ages
  PROVE  Before(i) + 1 \in 1 .. estremo /\ AgeOf(Before(i) + 1) = i
  <1>1. Before(i) + 1 \in Before(i) + 1 .. intorno[i]
    BY Bounds, SMT
  <1> QED BY <1>1, NumbersOf

LEMMA ShiftedDrawn == Possible(RandomAge(1)) = 1 .. MaxAge - 1
  <1>1. MaxAge \in Nat /\ MaxAge >= 2 /\ Ages = 0 .. MaxAge - 1
    BY RandomAgeAssumption DEF Ages
  <1> DEFINE Shifted(i) == IF i + 1 < MaxAge THEN i + 1 ELSE i
  <1>2. \A age \in Ages :
          RandomAge(1)[age] = {number \in 1 .. estremo : age = Shifted(AgeOf(number))}
    BY DEF RandomAge
  <1>3. ASSUME NEW age \in Ages, RandomAge(1)[age] # {} PROVE age \in 1 .. MaxAge - 1
    <2>1. PICK number \in 1 .. estremo : age = Shifted(AgeOf(number))
      BY <1>2, <1>3
    <2>2. AgeOf(number) \in Ages
      BY Found
    <2> QED BY <1>1, <2>1, <2>2, SMT
  <1>4. ASSUME NEW age \in 1 .. MaxAge - 1 PROVE age \in Ages /\ RandomAge(1)[age] # {}
    <2>1. age - 1 \in Ages /\ age \in Ages /\ Shifted(age - 1) = age
      BY <1>1, SMT
    <2> DEFINE n == Before(age - 1) + 1
    <2>2. n \in 1 .. estremo /\ AgeOf(n) = age - 1
      BY <2>1, Witness
    <2> HIDE DEF n
    <2> QED BY <1>2, <2>1, <2>2
  <1> QED BY <1>3, <1>4 DEF Possible

LEMMA GossipDrawn == Possible(RandomAgeBufferRG) = 0 .. MaxAge - 2
  <1>1. MaxAge \in Nat /\ MaxAge >= 2 /\ Ages = 0 .. MaxAge - 1
    BY RandomAgeAssumption DEF Ages
  <1> DEFINE last == MaxAge - 2
  <1>2. last \in Ages
    BY <1>1, SMT
  <1>3. \A age \in Ages : RandomAgeBufferRG[age] =
          {number \in 1 .. estremo : number < intorno[last] /\ age = AgeOf(number)}
    BY DEF RandomAgeBufferRG
  <1>4. ASSUME NEW age \in Ages, RandomAgeBufferRG[age] # {} PROVE age \in 0 .. MaxAge - 2
    <2>1. PICK number \in 1 .. estremo : number < intorno[last] /\ age = AgeOf(number)
      BY <1>3, <1>4
    <2>2. Before(age) < number /\ number \in Int
      BY <2>1, Found, Bounds, SMT DEF estremo
    <2>3. ~ (last < age)
      <3>1. SUFFICES ASSUME last < age PROVE FALSE
        OBVIOUS
      <3>2. intorno[last] <= Before(age)
        BY <1>2, <3>1, Growing
      <3>3. intorno[last] \in Nat /\ Before(age) \in Nat
        BY <1>2, Bounds
      <3> QED BY <2>1, <2>2, <3>2, <3>3, SMT
    <2> QED BY <1>1, <2>3, SMT
  <1>5. ASSUME NEW age \in 0 .. MaxAge - 2 PROVE age \in Ages /\ RandomAgeBufferRG[age] # {}
    <2>1. age \in Ages /\ (age = last \/ age < last)
      BY <1>1, SMT
    <2> DEFINE n == Before(age) + 1
    <2>2. n \in 1 .. estremo /\ AgeOf(n) = age
      BY <2>1, Witness
    <2>3. /\ Before(age) \in Nat /\ intorno[age] \in Nat /\ intorno[last] \in Nat
          /\ Before(age) + 2 <= intorno[age]
      BY <1>2, <2>1, Bounds
    <2>4. intorno[age] <= intorno[last]
      <3>1. CASE age < last
        <4>1. intorno[age] < intorno[last]
          BY <1>2, <2>1, <3>1, Growing
        <4> QED BY <2>3, <4>1, SMT
      <3> QED BY <2>1, <2>3, <3>1, SMT
    <2>5. n < intorno[last]
      BY <2>3, <2>4, SMT
    <2> HIDE DEF n
    <2> QED BY <1>3, <2>1, <2>2, <2>5
  <1> QED BY <1>4, <1>5 DEF Possible

(* random_age draws each age as often as it has a share, shifted by one    *)
(* all but the first, and random_age_buffer_rg all but the last, for any   *)
(* number of ages and any fixed shares from 2 on (initX).                  *)
THEOREM DrawnAsMeant == AgesDrawn
  BY SharesDrawn, ShiftedDrawn, GossipDrawn DEF AgesDrawn

(* And so wherever the simulator draws an age (random_neighbour,           *)
(* random_vicini_gossip).                                                  *)
THEOREM AgesAlwaysDrawn == Spec => []AgesDrawnWhenAsked
  <1>1. Init => AgesDrawnWhenAsked
    BY DrawnAsMeant DEF AgesDrawnWhenAsked
  <1>2. AgesDrawnWhenAsked /\ [Next]_vars => AgesDrawnWhenAsked'
    BY DrawnAsMeant DEF AgesDrawnWhenAsked
  <1> QED BY <1>1, <1>2, PTL DEF Spec

-----------------------------------------------------------------------------
(* Somebody to draw.                                                       *)

(* The lists are there for every node, and every age.                      *)
Lists ==
  /\ neighbour = [p \in Node |-> neighbour[p]]
  /\ \A p \in Node : neighbour[p] = [i \in Ages |-> neighbour[p][i]]
  /\ buffer_arrivi = [p \in Node |-> buffer_arrivi[p]]

(* Each node knows the ones it started with, at the age of the last round. *)
FirstKnown == \A p \in Node : BagToSet(neighbour[p][round - 1]) # {}

(* The inductive invariant: that there is somebody to draw says nothing of *)
(* the next round.                                                         *)
IInv ==
  /\ Lists
  /\ round \in 0 .. RoundG
  /\ turn \in Nat
  /\ at \in {"bootstrap", "age", "fanout", "gossip"}
  /\ at = "bootstrap" =>
       round = 0 /\ \A p \in Node : p < turn => BagToSet(buffer_arrivi[p]) # {}
  /\ at = "age" /\ round = 0 /\ round < RoundG =>
       \A p \in Node : BagToSet(buffer_arrivi[p]) # {}
  /\ at \in {"fanout", "gossip"} => round > 0 /\ FirstKnown
  /\ at = "age" /\ 0 < round /\ round < RoundG => FirstKnown

LEMMA Sizes ==
  /\ NumNodi \in Nat /\ Fanout \in Nat /\ Fanout > 0 /\ RoundG \in Nat
  /\ MaxAge \in Nat /\ RoundG <= MaxAge /\ NumNodi > 0
  BY SimulatorAssumption, RandomAgeAssumption, SMT

LEMMA InitIInv == Init => IInv
  <1> SUFFICES ASSUME Init PROVE IInv
    OBVIOUS
  <1>1. Lists
    BY DEF Init, Lists
  <1>2. \A p \in Node : ~(p < turn)
    BY Sizes, SMT DEF Init, Node
  <1> QED BY <1>1, <1>2, Sizes, SMT DEF Init, IInv

(* Whoever is put in a list is in it, whatever it takes the place of.      *)
LEMMA PutFills ==
  ASSUME NEW list, NEW p, NEW size, NEW filled \in Put(list, p, size)
  PROVE  BagToSet(filled) # {}
  <1>1. ASSUME NEW B PROVE p \in DOMAIN (B (+) SetToBag({p}))
    BY DEF (+), SetToBag
  <1>2. \E B : filled = B (+) SetToBag({p})
    BY DEF Put
  <1> QED BY <1>1, <1>2 DEF BagToSet

(* After the last node's turn the turn of each was before.                 *)
LEMMA TurnStep ==
  ASSUME IInv, NEW then, Turn(then)
  PROVE  \/ turn' = turn + 1 /\ at' = at
         \/ turn' = 0 /\ at' = then /\ \A p \in Node : p < turn \/ p = turn
  BY Sizes, SMT DEF IInv, Turn, Node

LEMMA BootstrapInv ==
  ASSUME IInv, Bootstrap
  PROVE  IInv'
  <1>1. PICK arrivals \in SUBSET (Node \ {turn}) :
          /\ Cardinality(arrivals) = Fanout
          /\ buffer_arrivi' = [buffer_arrivi EXCEPT ![turn] = SetToBag(arrivals)]
    BY DEF Bootstrap
  <1>2. arrivals # {}
    <2>1. Cardinality({}) = 0
      BY FS_EmptySet
    <2>2. Cardinality(arrivals) # 0
      BY <1>1, Sizes, SMT
    <2> QED BY <2>1, <2>2
  <1>3. BagToSet(SetToBag(arrivals)) # {}
    BY <1>2 DEF BagToSet, SetToBag
  <1>4. \A p \in Node : BagToSet(buffer_arrivi'[p]) =
          IF p = turn THEN BagToSet(SetToBag(arrivals)) ELSE BagToSet(buffer_arrivi[p])
    BY <1>1 DEF IInv, Lists
  <1>5. Lists'
    BY <1>1 DEF IInv, Lists, Bootstrap
  <1>6. /\ at = "bootstrap" /\ round = 0 /\ round' = 0 /\ turn \in Nat
        /\ \A p \in Node : p < turn => BagToSet(buffer_arrivi[p]) # {}
    BY DEF IInv, Bootstrap
  <1>7. CASE turn' = turn + 1 /\ at' = at
    <2>1. \A p \in Node : p < turn + 1 => p < turn \/ p = turn
      BY <1>6, Sizes, SMT DEF Node
    <2> QED BY <1>3, <1>4, <1>5, <1>6, <1>7, <2>1, Sizes, SMT DEF IInv
  <1>8. CASE turn' = 0 /\ at' = "age" /\ \A p \in Node : p < turn \/ p = turn
    <2>1. \A p \in Node : BagToSet(buffer_arrivi'[p]) # {}
      BY <1>3, <1>4, <1>6, <1>8
    <2> QED BY <1>5, <1>6, <1>8, <2>1, Sizes, SMT DEF IInv
  <1> QED BY <1>7, <1>8, TurnStep DEF Bootstrap

(* The lists of a round younger become those of the round.                 *)
LEMMA StartRoundInv ==
  ASSUME IInv, StartRound
  PROVE  IInv'
  <1>1. /\ round \in Nat /\ round < RoundG /\ round' = round + 1
        /\ at = "age" /\ at' = "fanout" /\ turn' = turn
    BY Sizes, SMT DEF IInv, StartRound
  <1>2. /\ neighbour' = [p \in Node |-> [i \in Ages |->
             IF i = 0 THEN buffer_arrivi[p] ELSE neighbour[p][i - 1]]]
        /\ buffer_arrivi' = [p \in Node |-> EmptyBag]
    BY DEF StartRound, AgePlusOne
  <1>3. Lists'
    BY <1>2 DEF Lists
  <1>4. round \in Ages
    BY <1>1, Sizes, SMT DEF Ages
  <1>5. ASSUME NEW p \in Node PROVE BagToSet(neighbour'[p][round]) # {}
    <2>1. neighbour'[p][round] = IF round = 0 THEN buffer_arrivi[p] ELSE neighbour[p][round - 1]
      BY <1>2, <1>4
    <2>2. CASE round = 0
      BY <1>1, <2>1, <2>2 DEF IInv
    <2>3. CASE round # 0
      <3>1. 0 < round
        BY <1>1, <2>3, SMT
      <3> QED BY <1>1, <2>1, <2>3, <3>1 DEF IInv, FirstKnown
    <2> QED BY <2>2, <2>3
  <1>6. round' - 1 = round /\ round' > 0 /\ round' \in 0 .. RoundG
    BY <1>1, Sizes, SMT
  <1>7. FirstKnown'
    BY <1>5, <1>6 DEF FirstKnown
  <1> QED BY <1>1, <1>3, <1>6, <1>7 DEF IInv

(* Within a round the turns go on, and no list is emptied.                 *)
LEMMA RoundInv ==
  ASSUME IInv, at \in {"fanout", "gossip"}, UNCHANGED round, Lists', FirstKnown',
         turn' \in Nat, at' \in {"fanout", "gossip", "age"}
  PROVE  IInv'
  <1>1. round' > 0 /\ round' # 0
    BY SMT DEF IInv
  <1> QED BY <1>1 DEF IInv

LEMMA TurnInv ==
  ASSUME IInv, NEW then \in {"fanout", "gossip", "age"}, Turn(then),
         at \in {"fanout", "gossip"}
  PROVE  turn' \in Nat /\ at' \in {"fanout", "gossip", "age"}
  <1>1. turn \in Nat
    BY DEF IInv
  <1> QED BY <1>1, SMT DEF Turn

LEMMA CreateFanoutInv ==
  ASSUME IInv, CreateFanout
  PROVE  IInv'
  <1>1. Lists' /\ FirstKnown'
    BY DEF IInv, CreateFanout, Lists, FirstKnown
  <1> QED BY <1>1, RoundInv, TurnInv DEF CreateFanout

LEMMA SentStep ==
  ASSUME IInv, Sent, at = "gossip"
  PROVE  UNCHANGED round /\ turn' \in Nat /\ at' \in {"fanout", "gossip", "age"}
  <1>1. CASE Turn("age")
    BY <1>1, TurnInv DEF Sent
  <1>2. CASE UNCHANGED <<at, turn>>
    BY <1>2 DEF Sent, IInv
  <1> QED BY <1>1, <1>2 DEF Sent

LEMMA GossipInv ==
  ASSUME IInv, GossipInformations
  PROVE  IInv'
  <1>1. CASE InsBufferArrivi
    <2>1. Lists' /\ FirstKnown'
      BY <1>1 DEF InsBufferArrivi, IInv, Lists, FirstKnown, Sent
    <2> QED BY <1>1, <2>1, RoundInv, SentStep DEF InsBufferArrivi
  <1>2. CASE RandomViciniGossip
    <2>1. PICK age \in Drawable : \E p \in RandomNeighbour(turn, age) :
            \E list \in Put(neighbour[Ric][age], p, VistaAge) :
              neighbour' = [neighbour EXCEPT ![Ric][age] = list]
      BY <1>2 DEF RandomViciniGossip
    <2>2. PICK p \in RandomNeighbour(turn, age) :
            \E list \in Put(neighbour[Ric][age], p, VistaAge) :
              neighbour' = [neighbour EXCEPT ![Ric][age] = list]
      BY <2>1
    <2>3. PICK list \in Put(neighbour[Ric][age], p, VistaAge) :
            neighbour' = [neighbour EXCEPT ![Ric][age] = list]
      BY <2>2
    <2>4. BagToSet(list) # {}
      BY PutFills
    <2>5. Lists /\ FirstKnown /\ round \in Nat /\ round > 0 /\ round - 1 \in Ages
      BY <1>2, Sizes, SMT DEF RandomViciniGossip, IInv, Ages
    <2>6. Lists'
      BY <1>2, <2>3, <2>5 DEF Lists, RandomViciniGossip
    <2>7. ASSUME NEW r \in Node
          PROVE  neighbour'[r][round - 1] \in {neighbour[r][round - 1], list}
      BY <2>3, <2>5 DEF Lists
    <2>8. FirstKnown'
      BY <1>2, <2>4, <2>5, <2>7 DEF FirstKnown, RandomViciniGossip, Sent
    <2> QED BY <1>2, <2>6, <2>8, RoundInv, SentStep DEF RandomViciniGossip
  <1> QED BY <1>1, <1>2 DEF GossipInformations

LEMMA StatisticheInv ==
  ASSUME IInv, Statistiche
  PROVE  IInv'
  <1>1. Lists'
    BY DEF Statistiche, DisseminationNodo, DisseminationQuery, TestCoperturaRete,
           AgePlusOne, nodes, IInv, Lists
  <1>2. /\ at' = "age" /\ turn' = turn /\ round' = RoundG /\ round = RoundG
        /\ ~(RoundG < RoundG)
    BY Sizes, SMT DEF Statistiche
  <1>3. round' \in 0 .. RoundG /\ ~(round' < RoundG)
    BY <1>2, Sizes, SMT
  <1> QED BY <1>1, <1>2, <1>3 DEF IInv

LEMMA NextInv == IInv /\ [Next]_vars => IInv'
  <1>1. IInv /\ UNCHANGED vars => IInv'
    BY DEF vars, nodes, IInv, Lists, FirstKnown
  <1> QED BY <1>1, BootstrapInv, StartRoundInv, CreateFanoutInv, GossipInv, StatisticheInv
          DEF Next

(* The inductive invariant, for any number of nodes, ages and rounds.      *)
THEOREM Invariant == Spec => []IInv
  BY InitIInv, NextInv, PTL DEF Spec

(* Every draw of a fanout or of gossip has somebody to draw, for any       *)
(* number of nodes, ages and rounds (createFanout, random_vicini_gossip).  *)
THEOREM AlwaysPossible == Spec => []DrawsPossible
  <1>1. IInv => DrawsPossible
    <2> SUFFICES ASSUME IInv, at \in {"fanout", "gossip"}, NEW p \in Node
                 PROVE  Neighbours(p) # {}
      BY DEF DrawsPossible
    <2>1. round - 1 \in Ages /\ FirstKnown
      BY Sizes, SMT DEF IInv, Ages
    <2>2. BagToSet(neighbour[p][round - 1]) # {}
      BY <2>1 DEF FirstKnown
    <2>3. round - 1 \in Drawable
      BY <2>1, EveryAgeDrawn DEF Drawable
    <2> QED BY <2>2, <2>3 DEF Neighbours, RandomNeighbour
  <1> QED BY Invariant, <1>1, PTL

-----------------------------------------------------------------------------
(* The graphs of the nodes.                                                *)

(* The nodes that a node sends its gossip to.                              *)
Fan(n) == {buffer_fanout[n][i] : i \in Slots}

AllDrawn == \A n \in Node : \A i \in Slots : buffer_fanout[n][i] \in Node

LEMMA FanOf ==
  ASSUME AllDrawn, NEW n \in Node
  PROVE  Fan(n) \subseteq Node /\ Successors({n}) = Fan(n)
  BY DEF AllDrawn, Fan, Successors

LEMMA SuccessorsIn ==
  ASSUME AllDrawn, NEW S \in SUBSET Node
  PROVE  Successors(S) \in SUBSET Node /\ Successors(S) = UNION {Fan(p) : p \in S}
  BY DEF AllDrawn, Fan, Successors

LEMMA AfterDefined ==
  ASSUME AllDrawn
  PROVE  /\ \A S \in SUBSET Node : After[0][S] = S
         /\ \A r \in 1 .. Hops : \A S \in SUBSET Node : After[r][S] = After[r - 1][Successors(S)]
         /\ \A r \in 0 .. Hops : \A S \in SUBSET Node : After[r][S] \in SUBSET Node
  <1>1. Hops \in Nat
    BY SimulatorAssumption, SMT DEF Hops
  <1> DEFINE T == [SUBSET Node -> SUBSET Node]
             z == [S \in SUBSET Node |-> S]
             G == [i \in Nat |-> [x \in T |-> [S \in SUBSET Node |-> x[Successors(S)]]]]
  <1>2. z \in T
    OBVIOUS
  <1>3. G \in [Nat -> [T -> T]]
    <2>1. ASSUME NEW x \in T, NEW S \in SUBSET Node PROVE x[Successors(S)] \in SUBSET Node
      BY SuccessorsIn
    <2> QED BY <2>1
  <1>4. \A i \in Nat : \A x \in T : \A S \in SUBSET Node : G[i][x][S] = x[Successors(S)]
    OBVIOUS
  <1>5. \A S \in SUBSET Node : z[S] = S
    OBVIOUS
  <1> HIDE DEF G, z
  <1>6. PICK f \in [0 .. Hops -> T] : f[0] = z /\ \A i \in 1 .. Hops : f[i] = G[i][f[i - 1]]
    <2> HIDE DEF T
    <2>1. \E f \in [0 .. Hops -> T] : Computes(f, Hops, z, G)
      BY <1>1, <1>2, <1>3, Recursion, Zenon
    <2> QED BY <2>1 DEF Computes
  <1>7. ASSUME NEW r \in 0 .. Hops
        PROVE  f[r] = [S \in SUBSET Node |-> IF r = 0 THEN S ELSE f[r - 1][Successors(S)]]
    <2>1. f[r] \in T
      BY <1>6
    <2>2. f[r] = [S \in SUBSET Node |-> f[r][S]]
      BY <2>1, Zenon
    <2>3. ASSUME NEW S \in SUBSET Node
          PROVE  f[r][S] = IF r = 0 THEN S ELSE f[r - 1][Successors(S)]
      <3>1. CASE r = 0
        BY <1>5, <1>6, <3>1
      <3>2. CASE r # 0
        <4>1. r \in 1 .. Hops /\ r - 1 \in 0 .. Hops /\ r \in Nat
          BY <1>1, <3>2, SMT
        <4>2. f[r] = G[r][f[r - 1]] /\ f[r - 1] \in T
          BY <1>6, <4>1
        <4> HIDE DEF T
        <4> QED BY <1>4, <3>2, <4>1, <4>2
      <3> QED BY <3>1, <3>2
    <2> QED BY <2>2, <2>3, Zenon
  <1>8. f = [r \in 0 .. Hops |-> f[r]]
    BY <1>6, Zenon
  <1>9. f = [r \in 0 .. Hops |->
              [S \in SUBSET Node |-> IF r = 0 THEN S ELSE f[r - 1][Successors(S)]]]
    BY <1>7, <1>8, Zenon
  <1>10. After = [r \in 0 .. Hops |->
              [S \in SUBSET Node |-> IF r = 0 THEN S ELSE After[r - 1][Successors(S)]]]
    BY <1>9, Zenon DEF After
  <1>11. ASSUME NEW r \in 0 .. Hops, NEW S \in SUBSET Node
         PROVE  After[r][S] = IF r = 0 THEN S ELSE After[r - 1][Successors(S)]
    <2>1. After[r] = [Q \in SUBSET Node |-> IF r = 0 THEN Q ELSE After[r - 1][Successors(Q)]]
      BY <1>10, Zenon
    <2> QED BY <2>1, Zenon
  <1>12. 0 \in 0 .. Hops /\ \A r \in 1 .. Hops : r \in 0 .. Hops /\ r # 0
    BY <1>1, SMT
  <1> DEFINE A == {r \in Nat : r \in 0 .. Hops =>
                     \A S \in SUBSET Node : After[r][S] \in SUBSET Node}
  <1>13. 0 \in A
    BY <1>11, <1>12, Zenon
  <1>14. ASSUME NEW n \in Nat, n \in A PROVE n + 1 \in A
    <2>1. n + 1 \in 0 .. Hops => n \in 0 .. Hops /\ n + 1 # 0 /\ (n + 1) - 1 = n
      BY <1>1, SMT
    <2>2. ASSUME n + 1 \in 0 .. Hops, NEW S \in SUBSET Node PROVE After[n + 1][S] \in SUBSET Node
      <3>1. After[n + 1][S] = After[n][Successors(S)]
        BY <1>11, <2>1, <2>2
      <3>2. Successors(S) \in SUBSET Node
        BY SuccessorsIn
      <3> QED BY <1>14, <2>1, <2>2, <3>1, <3>2
    <2>3. n + 1 \in Nat
      BY SMT
    <2> QED BY <2>2, <2>3
  <1>15. Nat \subseteq A
    <2> HIDE DEF A
    <2> QED BY <1>13, <1>14, AllInside
  <1>16. \A r \in 0 .. Hops : r \in Nat
    BY <1>1, SMT
  <1>17. \A r \in 0 .. Hops : \A S \in SUBSET Node : After[r][S] \in SUBSET Node
    BY <1>15, <1>16
  <1> QED BY <1>11, <1>12, <1>17

(* Steps from a set of nodes are the steps from each of them.              *)
LEMMA AfterEach ==
  ASSUME AllDrawn, NEW r \in 0 .. Hops, NEW S \in SUBSET Node
  PROVE  After[r][S] = UNION {After[r][{p}] : p \in S}
  <1>1. Hops \in Nat
    BY SimulatorAssumption, SMT DEF Hops
  <1> DEFINE Each(n) == \A Q \in SUBSET Node : After[n][Q] = UNION {After[n][{p}] : p \in Q}
             A == {n \in Nat : n \in 0 .. Hops => Each(n)}
  <1>2. \A Q \in SUBSET Node : \A p \in Q : {p} \in SUBSET Node
    OBVIOUS
  <1>3. 0 \in A
    <2>1. ASSUME NEW Q \in SUBSET Node PROVE After[0][Q] = UNION {After[0][{p}] : p \in Q}
      <3>1. After[0][Q] = Q /\ \A p \in Q : After[0][{p}] = {p}
        BY <1>2, AfterDefined
      <3>2. {After[0][{p}] : p \in Q} = {{p} : p \in Q}
        BY <3>1, Zenon
      <3>3. UNION {{p} : p \in Q} = Q
        OBVIOUS
      <3> QED BY <3>1, <3>2, <3>3, Zenon
    <2> QED BY <2>1
  <1>4. ASSUME NEW n \in Nat, n \in A PROVE n + 1 \in A
    <2> HIDE DEF Each
    <2>1. SUFFICES ASSUME n + 1 \in 0 .. Hops PROVE Each(n + 1)
      <3>1. n + 1 \in Nat
        BY SMT
      <3> QED BY <3>1
    <2> USE DEF Each
    <2>2. n \in 0 .. Hops /\ n + 1 \in 1 .. Hops /\ (n + 1) - 1 = n
      BY <1>1, <2>1, SMT
    <2>3. Each(n)
      BY <1>4, <2>2
    <2>4. \A Q \in SUBSET Node : After[n + 1][Q] = After[n][Successors(Q)]
      BY <2>2, AfterDefined
    <2>5. ASSUME NEW Q \in SUBSET Node
          PROVE  After[n + 1][Q] = UNION {After[n + 1][{p}] : p \in Q}
      <3>1. Successors(Q) \in SUBSET Node /\ Successors(Q) = UNION {Fan(p) : p \in Q}
        BY SuccessorsIn
      <3>2. After[n][Successors(Q)] = UNION {After[n][{m}] : m \in Successors(Q)}
        BY <2>3, <3>1
      <3>3. ASSUME NEW p \in Q
            PROVE  After[n + 1][{p}] = UNION {After[n][{m}] : m \in Fan(p)}
        <4>1. {p} \in SUBSET Node /\ Fan(p) \in SUBSET Node /\ Successors({p}) = Fan(p)
          BY FanOf
        <4>2. After[n + 1][{p}] = After[n][Fan(p)]
          BY <2>4, <4>1
        <4> QED BY <2>3, <4>1, <4>2
      <3>4. UNION {After[n][{m}] : m \in Successors(Q)} =
            UNION {UNION {After[n][{m}] : m \in Fan(p)} : p \in Q}
        <4> DEFINE a(m) == After[n][{m}]
        <4> HIDE DEF a
        <4>1. UNION {a(m) : m \in Successors(Q)} = UNION {UNION {a(m) : m \in Fan(p)} : p \in Q}
          BY <3>1
        <4> QED BY <4>1 DEF a
      <3>5. {UNION {After[n][{m}] : m \in Fan(p)} : p \in Q} = {After[n + 1][{p}] : p \in Q}
        BY <3>3, Zenon
      <3> QED BY <2>4, <3>2, <3>4, <3>5
    <2> QED BY <2>5
  <1>5. r \in Nat
    BY <1>1, SMT
  <1>6. r \in A
    <2> HIDE DEF A
    <2> QED BY <1>3, <1>4, <1>5, AllInside
  <1> QED BY <1>6

(* The last step of the way, instead of the first.                         *)
LEMMA AfterLast ==
  ASSUME AllDrawn, NEW r \in 1 .. Hops, NEW S \in SUBSET Node
  PROVE  After[r][S] = Successors(After[r - 1][S])
  <1>1. Hops \in Nat
    BY SimulatorAssumption, SMT DEF Hops
  <1> DEFINE A == {n \in Nat : n + 1 \in 0 .. Hops =>
                     \A Q \in SUBSET Node : After[n + 1][Q] = Successors(After[n][Q])}
  <1>2. 0 \in A
    <2>1. ASSUME 0 + 1 \in 0 .. Hops, NEW Q \in SUBSET Node
          PROVE  After[0 + 1][Q] = Successors(After[0][Q])
      <3>1. 0 + 1 = 1 /\ 1 \in 1 .. Hops /\ 1 - 1 = 0
        BY <1>1, <2>1, SMT
      <3>2. After[1][Q] = After[0][Successors(Q)]
        BY <3>1, AfterDefined
      <3>3. Successors(Q) \in SUBSET Node
        BY SuccessorsIn
      <3> QED BY <3>1, <3>2, <3>3, AfterDefined
    <2> QED BY <2>1
  <1>3. ASSUME NEW n \in Nat, n \in A PROVE n + 1 \in A
    <2>1. SUFFICES ASSUME (n + 1) + 1 \in 0 .. Hops, NEW Q \in SUBSET Node
                   PROVE  After[(n + 1) + 1][Q] = Successors(After[n + 1][Q])
      BY SMT
    <2>2. /\ n + 1 \in 1 .. Hops /\ n + 1 \in 0 .. Hops /\ (n + 1) + 1 \in 1 .. Hops
          /\ ((n + 1) + 1) - 1 = n + 1 /\ (n + 1) - 1 = n
      BY <1>1, <2>1, SMT
    <2>3. Successors(Q) \in SUBSET Node
      BY SuccessorsIn
    <2>4. After[(n + 1) + 1][Q] = After[n + 1][Successors(Q)]
      BY <2>2, AfterDefined
    <2>5. After[n + 1][Successors(Q)] = Successors(After[n][Successors(Q)])
      BY <1>3, <2>2, <2>3
    <2>6. After[n][Successors(Q)] = After[n + 1][Q]
      BY <2>2, AfterDefined
    <2> QED BY <2>4, <2>5, <2>6
  <1>4. r - 1 \in Nat /\ (r - 1) + 1 = r /\ r \in 0 .. Hops
    BY <1>1, SMT
  <1>5. r - 1 \in A
    <2> HIDE DEF A
    <2> QED BY <1>2, <1>3, <1>4, AllInside
  <1> QED BY <1>4, <1>5

-----------------------------------------------------------------------------
(* What the recursions of the statistics gather: in K hops from a node     *)
(* what is own to the nodes fewer than K steps from it.                    *)
Gathers(f, K, own) ==
  /\ \A n \in Node : f[0][n] = {}
  /\ \A i \in 1 .. K : \A n \in Node :
       f[i][n] = own[n] \cup UNION {f[i - 1][m] : m \in Fan(n)}

Near(n, K) == UNION {After[r][{n}] : r \in 0 .. K - 1}

LEMMA GathersDefined ==
  ASSUME AllDrawn, NEW K \in Nat, NEW U, NEW own \in [Node -> SUBSET U]
  PROVE  \E f \in [0 .. K -> [Node -> SUBSET U]] : Gathers(f, K, own)
  <1> DEFINE T == [Node -> SUBSET U]
             z == [n \in Node |-> {}]
             G == [i \in Nat |-> [x \in T |->
                    [n \in Node |-> own[n] \cup UNION {x[m] : m \in Fan(n)}]]]
  <1>1. z \in T
    OBVIOUS
  <1>2. G \in [Nat -> [T -> T]]
    <2>1. ASSUME NEW x \in T, NEW n \in Node
          PROVE  own[n] \cup UNION {x[m] : m \in Fan(n)} \in SUBSET U
      BY FanOf
    <2> QED BY <2>1
  <1>3. \A i \in Nat : \A x \in T : \A n \in Node :
          G[i][x][n] = own[n] \cup UNION {x[m] : m \in Fan(n)}
    OBVIOUS
  <1>4. \A n \in Node : z[n] = {}
    OBVIOUS
  <1> HIDE DEF G, z
  <1>5. PICK f \in [0 .. K -> T] : f[0] = z /\ \A i \in 1 .. K : f[i] = G[i][f[i - 1]]
    <2> HIDE DEF T
    <2>1. \E f \in [0 .. K -> T] : Computes(f, K, z, G)
      BY <1>1, <1>2, Recursion, Zenon
    <2> QED BY <2>1 DEF Computes
  <1>6. ASSUME NEW i \in 1 .. K, NEW n \in Node
        PROVE  f[i][n] = own[n] \cup UNION {f[i - 1][m] : m \in Fan(n)}
    <2>1. i \in Nat /\ i - 1 \in 0 .. K
      BY SMT
    <2>2. f[i] = G[i][f[i - 1]] /\ f[i - 1] \in T
      BY <1>5, <2>1
    <2> HIDE DEF T
    <2> QED BY <1>3, <2>1, <2>2
  <1>7. \A n \in Node : f[0][n] = {}
    BY <1>4, <1>5
  <1>8. Gathers(f, K, own)
    BY <1>6, <1>7 DEF Gathers
  <1> QED BY <1>5, <1>8

(* One hop more reaches the nodes one step further.                        *)
LEMMA NearMore ==
  ASSUME AllDrawn, NEW n \in Node, NEW k \in Nat, k < Hops
  PROVE  Near(n, k + 1) = {n} \cup UNION {Near(m, k) : m \in Fan(n)}
  <1>1. Hops \in Nat
    BY SimulatorAssumption, SMT DEF Hops
  <1>2. {n} \in SUBSET Node /\ Fan(n) \in SUBSET Node /\ Successors({n}) = Fan(n)
    BY FanOf
  <1>3. After[0][{n}] = {n}
    BY <1>2, AfterDefined
  <1>4. ASSUME NEW r \in 0 .. k - 1
        PROVE  After[r + 1][{n}] = UNION {After[r][{m}] : m \in Fan(n)}
    <2>1. r + 1 \in 1 .. Hops /\ r \in 0 .. Hops /\ (r + 1) - 1 = r
      BY <1>1, SMT
    <2>2. After[r + 1][{n}] = After[r][Fan(n)]
      BY <1>2, <2>1, AfterDefined
    <2> QED BY <1>2, <2>1, <2>2, AfterEach
  <1>5. ASSUME NEW x PROVE x \in Near(n, k + 1) <=>
                             x = n \/ \E m \in Fan(n) : x \in Near(m, k)
    <2>1. x \in Near(n, k + 1) <=> \E r \in 0 .. k : x \in After[r][{n}]
      <3>1. (k + 1) - 1 = k
        BY SMT
      <3> QED BY <3>1 DEF Near
    <2>2. (\E r \in 0 .. k : x \in After[r][{n}]) <=>
            x \in After[0][{n}] \/ \E r \in 0 .. k - 1 : x \in After[r + 1][{n}]
      <3>1. ASSUME NEW r \in 0 .. k, x \in After[r][{n}]
            PROVE  x \in After[0][{n}] \/ \E s \in 0 .. k - 1 : x \in After[s + 1][{n}]
        <4>1. r = 0 \/ (r - 1 \in 0 .. k - 1 /\ (r - 1) + 1 = r)
          BY SMT
        <4> QED BY <3>1, <4>1
      <3>2. 0 \in 0 .. k /\ \A r \in 0 .. k - 1 : r + 1 \in 0 .. k
        BY SMT
      <3> QED BY <3>1, <3>2
    <2>3. (\E r \in 0 .. k - 1 : x \in After[r + 1][{n}]) <=>
            \E m \in Fan(n) : x \in Near(m, k)
      <3>1. \A m : x \in Near(m, k) <=> \E r \in 0 .. k - 1 : x \in After[r][{m}]
        BY DEF Near
      <3>2. ASSUME NEW r \in 0 .. k - 1
            PROVE  x \in After[r + 1][{n}] <=> \E m \in Fan(n) : x \in After[r][{m}]
        <4>1. After[r + 1][{n}] = UNION {After[r][{m}] : m \in Fan(n)}
          BY <1>4, Zenon
        <4> QED BY <4>1, Zenon
      <3> QED BY <3>1, <3>2, Zenon
    <2> QED BY <1>3, <2>1, <2>2, <2>3
  <1> QED BY <1>5

LEMMA GathersNear ==
  ASSUME AllDrawn, NEW K \in 0 .. Hops, NEW f, NEW own, Gathers(f, K, own), NEW n \in Node
  PROVE  f[K][n] = UNION {own[m] : m \in Near(n, K)}
  <1>1. Hops \in Nat /\ K \in Nat
    BY SimulatorAssumption, SMT DEF Hops
  <1> DEFINE Done(k) == \A p \in Node : f[k][p] = UNION {own[m] : m \in Near(p, k)}
             A == {k \in Nat : k \in 0 .. K => Done(k)}
  <1>2. 0 \in A
    <2>1. ASSUME NEW p \in Node PROVE Near(p, 0) = {}
      <3>1. 0 .. 0 - 1 = {}
        BY SMT
      <3> QED BY <3>1 DEF Near
    <2>2. ASSUME NEW p \in Node PROVE f[0][p] = UNION {own[m] : m \in Near(p, 0)}
      <3>1. f[0][p] = {}
        BY DEF Gathers
      <3> QED BY <2>1, <3>1
    <2> QED BY <2>2
  <1>3. ASSUME NEW k \in Nat, k \in A PROVE k + 1 \in A
    <2> HIDE DEF Done
    <2>1. SUFFICES ASSUME k + 1 \in 0 .. K PROVE Done(k + 1)
      <3>1. k + 1 \in Nat
        BY SMT
      <3> QED BY <3>1
    <2> USE DEF Done
    <2>2. k \in 0 .. K /\ k + 1 \in 1 .. K /\ (k + 1) - 1 = k /\ k < Hops
      BY <1>1, <2>1, SMT
    <2>3. Done(k)
      BY <1>3, <2>2
    <2>4. ASSUME NEW p \in Node PROVE f[k + 1][p] = UNION {own[m] : m \in Near(p, k + 1)}
      <3>1. f[k + 1][p] = own[p] \cup UNION {f[k][m] : m \in Fan(p)}
        BY <2>2 DEF Gathers
      <3>2. \A m \in Fan(p) : f[k][m] = UNION {own[x] : x \in Near(m, k)}
        BY <2>3, FanOf
      <3>3. Near(p, k + 1) = {p} \cup UNION {Near(m, k) : m \in Fan(p)}
        BY <2>2, NearMore
      <3>4. ASSUME NEW y PROVE y \in UNION {f[k][m] : m \in Fan(p)} <=>
                                 \E m \in Fan(p) : \E x \in Near(m, k) : y \in own[x]
        BY <3>2
      <3>5. ASSUME NEW y PROVE y \in UNION {own[x] : x \in Near(p, k + 1)} <=>
                                 y \in own[p] \/ \E m \in Fan(p) : \E x \in Near(m, k) : y \in own[x]
        BY <3>3
      <3> QED BY <3>1, <3>4, <3>5
    <2> QED BY <2>4
  <1>4. K \in A
    <2> HIDE DEF A
    <2> QED BY <1>1, <1>2, <1>3, AllInside
  <1>5. K \in 0 .. K
    BY <1>1, SMT
  <1> QED BY <1>4, <1>5

LEMMA NearIn ==
  ASSUME AllDrawn, NEW n \in Node, NEW K \in 0 .. Hops
  PROVE  Near(n, K) \subseteq Node
  <1>1. \A r \in 0 .. K - 1 : r \in 0 .. Hops
    BY SimulatorAssumption, SMT DEF Hops
  <1>2. {n} \in SUBSET Node
    OBVIOUS
  <1> QED BY <1>1, <1>2, AfterDefined DEF Near

Follow == [n \in Node |-> Fan(n)]
Know == [n \in Node |-> UNION {RandomNeighbour(n, age) : age \in Ages}]

(* The recursion of the query, hop by hop.                                 *)
LEMMA QueryDefined ==
  ASSUME AllDrawn
  PROVE  \A hop \in 0 .. RaggioQuery : \A n \in Node :
           RicorsiveQuery[hop][n] =
             IF hop < RaggioQuery
             THEN UNION {{buffer_fanout[n][i]} \cup
                         RicorsiveQuery[hop + 1][buffer_fanout[n][i]] : i \in Slots}
             ELSE {}
  <1> DEFINE K == RaggioQuery
  <1>1. K \in Nat
    BY SimulatorAssumption
  <1>2. Follow \in [Node -> SUBSET Node]
    BY FanOf DEF Follow
  <1>3. \E f \in [0 .. K -> [Node -> SUBSET Node]] : Gathers(f, K, Follow)
    <2> HIDE DEF K
    <2> QED BY <1>1, <1>2, GathersDefined, Zenon
  <1>4. PICK f \in [0 .. K -> [Node -> SUBSET Node]] : Gathers(f, K, Follow)
    BY <1>3
  <1> DEFINE g == [hop \in 0 .. K |-> f[K - hop]]
             Hop(q, hop, n) == IF hop < K
                               THEN UNION {{buffer_fanout[n][i]} \cup
                                           q[hop + 1][buffer_fanout[n][i]] : i \in Slots}
                               ELSE {}
  <1>5. \A hop \in 0 .. K : g[hop] = f[K - hop]
    OBVIOUS
  <1>6. g = [hop \in 0 .. K |-> g[hop]]
    BY Zenon
  <1> HIDE DEF g
  <1>7. ASSUME NEW hop \in 0 .. K, NEW n \in Node PROVE g[hop][n] = Hop(g, hop, n)
    <2>1. CASE hop < K
      <3>1. /\ K - hop \in 1 .. K /\ hop + 1 \in 0 .. K /\ (K - hop) - 1 = K - (hop + 1)
        BY <1>1, <2>1, SMT
      <3>2. g[hop][n] = Follow[n] \cup UNION {f[(K - hop) - 1][m] : m \in Fan(n)}
        BY <1>4, <1>5, <3>1 DEF Gathers
      <3>3. f[(K - hop) - 1] = g[hop + 1]
        BY <1>5, <3>1
      <3> DEFINE x == g[hop + 1]
      <3> HIDE DEF x
      <3>4. Follow[n] \cup UNION {x[m] : m \in Fan(n)} =
            UNION {{buffer_fanout[n][i]} \cup x[buffer_fanout[n][i]] : i \in Slots}
        BY DEF Follow, Fan
      <3> QED BY <2>1, <3>2, <3>3, <3>4 DEF x
    <2>2. CASE ~ (hop < K)
      <3>1. K - hop = 0
        BY <1>1, <2>2, SMT
      <3> QED BY <1>4, <1>5, <2>2, <3>1 DEF Gathers
    <2> QED BY <2>1, <2>2
  <1>8. ASSUME NEW hop \in 0 .. K PROVE g[hop] = [n \in Node |-> Hop(g, hop, n)]
    <2>1. K - hop \in 0 .. K
      BY <1>1, SMT
    <2>2. g[hop] \in [Node -> SUBSET Node]
      BY <1>4, <1>5, <2>1
    <2>3. g[hop] = [n \in Node |-> g[hop][n]]
      BY <2>2, Zenon
    <2> QED BY <1>7, <2>3, Zenon
  <1>9. g = [hop \in 0 .. K |-> [n \in Node |-> Hop(g, hop, n)]]
    BY <1>6, <1>8, Zenon
  <1>10. RicorsiveQuery = [hop \in 0 .. K |-> [n \in Node |-> Hop(RicorsiveQuery, hop, n)]]
    BY <1>9, Zenon DEF RicorsiveQuery
  <1>11. ASSUME NEW hop \in 0 .. K, NEW n \in Node
         PROVE  RicorsiveQuery[hop][n] = Hop(RicorsiveQuery, hop, n)
    <2>1. RicorsiveQuery[hop] = [p \in Node |-> Hop(RicorsiveQuery, hop, p)]
      BY <1>10, Zenon
    <2> QED BY <2>1, Zenon
  <1> QED BY <1>11

LEMMA QueryNear ==
  ASSUME AllDrawn, NEW n \in Node
  PROVE  RicorsiveQuery[0][n] = UNION {Fan(m) : m \in Near(n, RaggioQuery)}
  <1> DEFINE K == RaggioQuery
             f == [k \in 0 .. K |-> RicorsiveQuery[K - k]]
  <1>1. K \in Nat /\ K \in 0 .. Hops /\ K \in 0 .. K /\ 0 \in 0 .. K /\ K - K = 0
    BY SimulatorAssumption, SMT DEF Hops
  <1>2. \A k \in 0 .. K : f[k] = RicorsiveQuery[K - k]
    OBVIOUS
  <1> HIDE DEF f
  <1>3. ASSUME NEW k \in 1 .. K, NEW p \in Node
        PROVE  f[k][p] = Follow[p] \cup UNION {f[k - 1][m] : m \in Fan(p)}
    <2>1. /\ K - k \in 0 .. K /\ K - k < K /\ k \in 0 .. K /\ k - 1 \in 0 .. K
          /\ (K - k) + 1 = K - (k - 1)
      BY <1>1, SMT
    <2> DEFINE x == RicorsiveQuery[(K - k) + 1]
    <2>2. f[k] = RicorsiveQuery[K - k] /\ f[k - 1] = x
      BY <1>2, <2>1
    <2>3. RicorsiveQuery[K - k][p] =
            UNION {{buffer_fanout[p][i]} \cup x[buffer_fanout[p][i]] : i \in Slots}
      BY <2>1, QueryDefined
    <2> HIDE DEF x
    <2>4. UNION {{buffer_fanout[p][i]} \cup x[buffer_fanout[p][i]] : i \in Slots} =
          Follow[p] \cup UNION {x[m] : m \in Fan(p)}
      BY DEF Follow, Fan
    <2> QED BY <2>2, <2>3, <2>4
  <1>4. ASSUME NEW p \in Node PROVE f[0][p] = {}
    <2>1. K - 0 = K /\ ~ (K < K)
      BY <1>1, SMT
    <2>2. f[0] = RicorsiveQuery[K]
      BY <1>1, <1>2, <2>1
    <2> QED BY <1>1, <2>1, <2>2, QueryDefined
  <1>5. Gathers(f, K, Follow)
    BY <1>3, <1>4 DEF Gathers
  <1>6. f[K][n] = UNION {Follow[m] : m \in Near(n, K)}
    BY <1>1, <1>5, GathersNear
  <1>7. Near(n, K) \subseteq Node
    BY <1>1, NearIn
  <1>8. \A m \in Near(n, K) : Follow[m] = Fan(m)
    BY <1>7 DEF Follow
  <1>9. {Follow[m] : m \in Near(n, K)} = {Fan(m) : m \in Near(n, K)}
    BY <1>8, Zenon
  <1> QED BY <1>1, <1>2, <1>6, <1>9

LEMMA StepFrom ==
  ASSUME AllDrawn, NEW n \in Node, NEW r \in 0 .. Hops, r + 1 \in 1 .. Hops
  PROVE  /\ After[r + 1][{n}] = Successors(After[r][{n}])
         /\ After[r][{n}] \in SUBSET Node
  <1>1. (r + 1) - 1 = r
    BY SimulatorAssumption, SMT DEF Hops
  <1>2. {n} \in SUBSET Node
    OBVIOUS
  <1>3. After[r + 1][{n}] = Successors(After[(r + 1) - 1][{n}])
    BY <1>2, AfterLast, Zenon
  <1> QED BY <1>1, <1>2, <1>3, AfterDefined

LEMMA QueryReach ==
  ASSUME AllDrawn, NEW n \in Node
  PROVE  RicorsiveQuery[0][n] = UNION {After[r][{n}] : r \in 1 .. RaggioQuery}
  <1>1. RaggioQuery \in Nat /\ Hops \in Nat /\ RaggioQuery <= Hops
    BY SimulatorAssumption, SMT DEF Hops
  <1>2. ASSUME NEW x, x \in RicorsiveQuery[0][n]
        PROVE  \E r \in 1 .. RaggioQuery : x \in After[r][{n}]
    <2>1. PICK m \in Near(n, RaggioQuery) : x \in Fan(m)
      BY <1>2, QueryNear
    <2>2. PICK r \in 0 .. RaggioQuery - 1 : m \in After[r][{n}]
      BY <2>1 DEF Near
    <2>3. r + 1 \in 1 .. RaggioQuery /\ r + 1 \in 1 .. Hops /\ r \in 0 .. Hops /\ (r + 1) - 1 = r
      BY <1>1, SMT
    <2>4. After[r + 1][{n}] = Successors(After[r][{n}]) /\ After[r][{n}] \in SUBSET Node
      BY <1>1, <2>3, StepFrom
    <2>5. Successors(After[r][{n}]) = UNION {Fan(p) : p \in After[r][{n}]}
      BY <2>4, SuccessorsIn, Zenon
    <2>6. x \in After[r + 1][{n}]
      BY <2>1, <2>2, <2>4, <2>5
    <2> QED BY <2>3, <2>6
  <1>3. ASSUME NEW r \in 1 .. RaggioQuery, NEW x \in After[r][{n}]
        PROVE  x \in RicorsiveQuery[0][n]
    <2>1. r \in 1 .. Hops /\ r - 1 \in 0 .. Hops /\ r - 1 \in 0 .. RaggioQuery - 1
      BY <1>1, SMT
    <2>2. /\ After[r][{n}] = Successors(After[r - 1][{n}])
          /\ After[r - 1][{n}] \in SUBSET Node
      <3>1. (r - 1) + 1 = r
        BY <1>1, SMT
      <3> DEFINE s == r - 1
      <3>2. s \in 0 .. Hops /\ s + 1 \in 1 .. Hops /\ s + 1 = r
        BY <2>1, <3>1
      <3> HIDE DEF s
      <3>3. After[s + 1][{n}] = Successors(After[s][{n}]) /\ After[s][{n}] \in SUBSET Node
        BY <3>2, StepFrom, Zenon
      <3> QED BY <3>2, <3>3 DEF s
    <2>3. Successors(After[r - 1][{n}]) = UNION {Fan(p) : p \in After[r - 1][{n}]}
      BY <2>2, SuccessorsIn, Zenon
    <2>4. PICK m \in After[r - 1][{n}] : x \in Fan(m)
      BY <2>2, <2>3
    <2>5. m \in Near(n, RaggioQuery)
      BY <2>1, <2>4 DEF Near
    <2> QED BY <2>4, <2>5, QueryNear
  <1> QED BY <1>2, <1>3

(* The recursion of the membership, hop by hop.                            *)
LEMMA MembershipDefined ==
  ASSUME AllDrawn
  PROVE  \A hop \in 0 .. HopsCopertura : \A n \in Node :
           RicorsiveMembership[hop][n] =
             IF hop < HopsCopertura
             THEN Know[n] \cup
                  UNION {RicorsiveMembership[hop + 1][buffer_fanout[n][i]] : i \in Slots}
             ELSE {}
  <1> DEFINE K == HopsCopertura
             U == UNION {Know[n] : n \in Node}
  <1>1. K \in Nat
    BY SimulatorAssumption
  <1>2. Know \in [Node -> SUBSET U]
    BY DEF Know
  <1> HIDE DEF U
  <1>3. \E f \in [0 .. K -> [Node -> SUBSET U]] : Gathers(f, K, Know)
    <2> HIDE DEF K
    <2> QED BY <1>1, <1>2, GathersDefined, Zenon
  <1>4. PICK f \in [0 .. K -> [Node -> SUBSET U]] : Gathers(f, K, Know)
    BY <1>3
  <1> DEFINE g == [hop \in 0 .. K |-> f[K - hop]]
             Hop(q, hop, n) == IF hop < K
                               THEN (UNION {RandomNeighbour(n, age) : age \in Ages}) \cup
                                    UNION {q[hop + 1][buffer_fanout[n][i]] : i \in Slots}
                               ELSE {}
  <1>5. \A hop \in 0 .. K : g[hop] = f[K - hop]
    OBVIOUS
  <1>6. g = [hop \in 0 .. K |-> g[hop]]
    BY Zenon
  <1> HIDE DEF g
  <1>7. ASSUME NEW hop \in 0 .. K, NEW n \in Node PROVE g[hop][n] = Hop(g, hop, n)
    <2>1. CASE hop < K
      <3>1. /\ K - hop \in 1 .. K /\ hop + 1 \in 0 .. K /\ (K - hop) - 1 = K - (hop + 1)
        BY <1>1, <2>1, SMT
      <3>2. g[hop][n] = Know[n] \cup UNION {f[(K - hop) - 1][m] : m \in Fan(n)}
        BY <1>4, <1>5, <3>1 DEF Gathers
      <3>3. f[(K - hop) - 1] = g[hop + 1]
        BY <1>5, <3>1
      <3> DEFINE x == g[hop + 1]
      <3> HIDE DEF x
      <3>4. UNION {x[m] : m \in Fan(n)} = UNION {x[buffer_fanout[n][i]] : i \in Slots}
        BY DEF Fan
      <3>5. Know[n] = UNION {RandomNeighbour(n, age) : age \in Ages}
        BY DEF Know
      <3>6. g[hop][n] = (UNION {RandomNeighbour(n, age) : age \in Ages}) \cup
                        UNION {g[hop + 1][buffer_fanout[n][i]] : i \in Slots}
        BY <3>2, <3>3, <3>4, <3>5, Zenon DEF x
      <3> QED BY <2>1, <3>6, Zenon
    <2>2. CASE ~ (hop < K)
      <3>1. K - hop = 0
        BY <1>1, <2>2, SMT
      <3> QED BY <1>4, <1>5, <2>2, <3>1 DEF Gathers
    <2> QED BY <2>1, <2>2
  <1>8. ASSUME NEW hop \in 0 .. K PROVE g[hop] = [n \in Node |-> Hop(g, hop, n)]
    <2>1. K - hop \in 0 .. K
      BY <1>1, SMT
    <2>2. g[hop] \in [Node -> SUBSET U]
      BY <1>4, <1>5, <2>1
    <2>3. g[hop] = [n \in Node |-> g[hop][n]]
      BY <2>2, Zenon
    <2> QED BY <1>7, <2>3, Zenon
  <1>9. g = [hop \in 0 .. K |-> [n \in Node |-> Hop(g, hop, n)]]
    BY <1>6, <1>8, Zenon
  <1>10. RicorsiveMembership =
           [hop \in 0 .. K |-> [n \in Node |-> Hop(RicorsiveMembership, hop, n)]]
    BY <1>9, Zenon DEF RicorsiveMembership
  <1>11. ASSUME NEW hop \in 0 .. K, NEW n \in Node
         PROVE  RicorsiveMembership[hop][n] = Hop(RicorsiveMembership, hop, n)
    <2>1. RicorsiveMembership[hop] = [p \in Node |-> Hop(RicorsiveMembership, hop, p)]
      BY <1>10, Zenon
    <2> QED BY <2>1, Zenon
  <1>12. ASSUME NEW hop \in 0 .. K, NEW n \in Node
         PROVE  Hop(RicorsiveMembership, hop, n) =
             IF hop < K
             THEN Know[n] \cup
                  UNION {RicorsiveMembership[hop + 1][buffer_fanout[n][i]] : i \in Slots}
             ELSE {}
    <2>1. Know[n] = UNION {RandomNeighbour(n, age) : age \in Ages}
      BY DEF Know
    <2> QED BY <2>1, Zenon
  <1> HIDE DEF Hop
  <1> QED BY <1>11, <1>12, Zenon

LEMMA MembershipReach ==
  ASSUME AllDrawn, NEW n \in Node
  PROVE  RicorsiveMembership[0][n] = KnownTo(Near(n, HopsCopertura))
  <1> DEFINE K == HopsCopertura
             f == [k \in 0 .. K |-> RicorsiveMembership[K - k]]
  <1>1. K \in Nat /\ K \in 0 .. Hops /\ K \in 0 .. K /\ 0 \in 0 .. K /\ K - K = 0
    BY SimulatorAssumption, SMT DEF Hops
  <1>2. \A k \in 0 .. K : f[k] = RicorsiveMembership[K - k]
    OBVIOUS
  <1> HIDE DEF f
  <1>3. ASSUME NEW k \in 1 .. K, NEW p \in Node
        PROVE  f[k][p] = Know[p] \cup UNION {f[k - 1][m] : m \in Fan(p)}
    <2>1. /\ K - k \in 0 .. K /\ K - k < K /\ k \in 0 .. K /\ k - 1 \in 0 .. K
          /\ (K - k) + 1 = K - (k - 1)
      BY <1>1, SMT
    <2> DEFINE x == RicorsiveMembership[(K - k) + 1]
    <2>2. f[k] = RicorsiveMembership[K - k] /\ f[k - 1] = x
      BY <1>2, <2>1
    <2>3. RicorsiveMembership[K - k][p] =
            Know[p] \cup UNION {x[buffer_fanout[p][i]] : i \in Slots}
      BY <2>1, MembershipDefined
    <2> HIDE DEF x
    <2>4. UNION {x[buffer_fanout[p][i]] : i \in Slots} = UNION {x[m] : m \in Fan(p)}
      BY DEF Fan
    <2> QED BY <2>2, <2>3, <2>4
  <1>4. ASSUME NEW p \in Node PROVE f[0][p] = {}
    <2>1. K - 0 = K /\ ~ (K < K)
      BY <1>1, SMT
    <2>2. f[0] = RicorsiveMembership[K]
      BY <1>1, <1>2, <2>1
    <2> QED BY <1>1, <2>1, <2>2, MembershipDefined
  <1>5. Gathers(f, K, Know)
    BY <1>3, <1>4 DEF Gathers
  <1>6. f[K][n] = UNION {Know[m] : m \in Near(n, K)}
    BY <1>1, <1>5, GathersNear
  <1>7. Near(n, K) \subseteq Node
    BY <1>1, NearIn
  <1>8. \A m \in Near(n, K) : Know[m] = UNION {RandomNeighbour(m, age) : age \in Ages}
    BY <1>7 DEF Know
  <1>9. {Know[m] : m \in Near(n, K)} =
        {UNION {RandomNeighbour(m, age) : age \in Ages} : m \in Near(n, K)}
    BY <1>8, Zenon
  <1> QED BY <1>1, <1>2, <1>6, <1>9 DEF KnownTo

(* What the lists hold are nodes, and from the first round on fanouts of   *)
(* nodes are drawn; the statistics come after everything else.             *)
ListsHoldNodes ==
  /\ \A p \in Node : \A i \in Ages : BagToSet(neighbour[p][i]) \subseteq Node
  /\ \A p \in Node : BagToSet(buffer_arrivi[p]) \subseteq Node

Gossips == Fanout * (GossipNodi + 1)

Fanouts ==
  /\ buffer_fanout = [p \in Node |-> buffer_fanout[p]]
  /\ sent \in 0 .. Gossips - 1
  /\ at = "age" => turn = 0
  /\ at = "fanout" =>
       \A n \in Node : n < turn => \A i \in Slots : buffer_fanout[n][i] \in Node
  /\ at = "gossip" => AllDrawn
  /\ at = "age" /\ round > 0 => AllDrawn

Asked ==
  /\ result.of \in {"query", "membership"} => at = "age" /\ round = RoundG
  /\ StatisticsReach

ReachInv == IInv /\ turn \in Node /\ ListsHoldNodes /\ Fanouts /\ Asked

LEMMA SentPlace ==
  /\ Gossips \in Nat /\ 0 \in 0 .. Gossips - 1
  /\ \A s \in 0 .. Gossips - 1 : 1 + s \div (GossipNodi + 1) \in Slots
  <1> DEFINE g == GossipNodi + 1
  <1>1. g \in Nat /\ g > 0 /\ Fanout \in Nat /\ Fanout > 0
    BY SimulatorAssumption, SMT
  <1> HIDE DEF g
  <1>2. Fanout * g \in Nat /\ Fanout * g > 0
    BY <1>1, SMT
  <1>3. ASSUME NEW s \in 0 .. Fanout * g - 1
        PROVE  1 + s \div g \in 1 .. Fanout
    <2> DEFINE q == s \div g
    <2>1. q \in Int /\ q >= 0 /\ q * g <= s /\ s < Fanout * g
      BY <1>1, <1>2, SMT
    <2> HIDE DEF q
    <2>2. q < Fanout
      BY <1>1, <2>1, SMT
    <2> QED BY <1>1, <2>1, <2>2, SMT DEF q
  <1> QED BY <1>2, <1>3, SMT DEF g, Gossips, Slots

LEMMA InitReachInv == Init => ReachInv
  <1> SUFFICES ASSUME Init PROVE ReachInv
    OBVIOUS
  <1>1. turn \in Node
    BY Sizes, SMT DEF Init, Node
  <1>2. BagToSet(EmptyBag) = {}
    BY DEF EmptyBag, BagToSet, SetToBag
  <1>3. ListsHoldNodes
    BY <1>2 DEF Init, ListsHoldNodes
  <1>4. Fanouts /\ Asked
    BY SentPlace DEF Init, Fanouts, Asked, StatisticsReach, NoResult
  <1> QED BY <1>1, <1>3, <1>4, InitIInv DEF ReachInv

LEMMA PutIn ==
  ASSUME NEW list, BagToSet(list) \subseteq Node, NEW p \in Node, NEW size,
         NEW filled \in Put(list, p, size)
  PROVE  BagToSet(filled) \subseteq Node
  <1>1. ASSUME NEW B, DOMAIN B \subseteq Node PROVE DOMAIN (B (+) SetToBag({p})) \subseteq Node
    BY <1>1 DEF (+), SetToBag
  <1>2. ASSUME NEW q PROVE DOMAIN (list (-) SetToBag({q})) \subseteq DOMAIN list
    BY DEF (-)
  <1>3. DOMAIN list \subseteq Node
    BY DEF BagToSet
  <1>4. \/ filled = list (+) SetToBag({p})
        \/ \E q \in BagToSet(list) : filled = (list (-) SetToBag({q})) (+) SetToBag({p})
    BY DEF Put
  <1>5. CASE filled = list (+) SetToBag({p})
    BY <1>1, <1>3, <1>5 DEF BagToSet
  <1>6. ASSUME NEW q, filled = (list (-) SetToBag({q})) (+) SetToBag({p})
        PROVE  BagToSet(filled) \subseteq Node
    <2> DEFINE B == list (-) SetToBag({q})
    <2>1. DOMAIN B \subseteq Node
      BY <1>2, <1>3
    <2> HIDE DEF B
    <2>2. DOMAIN (B (+) SetToBag({p})) \subseteq Node
      BY <1>1, <2>1
    <2> QED BY <1>6, <2>2 DEF BagToSet, B
  <1> QED BY <1>4, <1>5, <1>6

LEMMA TurnIn ==
  ASSUME turn \in Node, NEW then, Turn(then)
  PROVE  turn' \in Node
  BY Sizes, SMT DEF Turn, Node

(* Outside the statistics no result is there, or it stays as it is.        *)
LEMMA NotAsked ==
  ASSUME Asked, UNCHANGED result, at # "age" \/ round < RoundG
  PROVE  Asked'
  <1>1. result.of \notin {"query", "membership"}
    BY Sizes, SMT DEF Asked
  <1> QED BY <1>1 DEF Asked, StatisticsReach

LEMMA BootstrapReach ==
  ASSUME ReachInv, Bootstrap
  PROVE  ReachInv'
  <1>1. IInv'
    BY BootstrapInv DEF ReachInv
  <1>2. turn' \in Node
    BY TurnIn DEF Bootstrap, ReachInv
  <1>3. PICK arrivals \in SUBSET (Node \ {turn}) :
          buffer_arrivi' = [buffer_arrivi EXCEPT ![turn] = SetToBag(arrivals)]
    BY DEF Bootstrap
  <1>4. BagToSet(SetToBag(arrivals)) = arrivals
    BY DEF BagToSet, SetToBag
  <1>5. \A p \in Node : buffer_arrivi'[p] \in {buffer_arrivi[p], SetToBag(arrivals)}
    BY <1>3 DEF ReachInv, IInv, Lists
  <1>6. ListsHoldNodes'
    BY <1>4, <1>5 DEF ReachInv, ListsHoldNodes, Bootstrap
  <1>7. at' \in {"bootstrap", "age"} /\ round' = 0 /\ ~ (0 > 0)
    BY SMT DEF Bootstrap, Turn, ReachInv, IInv
  <1>10. at' = "age" => turn' = 0
    BY SMT DEF Bootstrap, Turn
  <1>8. Fanouts'
    BY <1>7, <1>10 DEF ReachInv, Fanouts, Bootstrap
  <1>9. Asked'
    BY NotAsked DEF ReachInv, Bootstrap
  <1> QED BY <1>1, <1>2, <1>6, <1>8, <1>9 DEF ReachInv

LEMMA AgePlusOneHolds ==
  ASSUME ListsHoldNodes, AgePlusOne
  PROVE  ListsHoldNodes'
  <1>1. BagToSet(EmptyBag) = {}
    BY DEF EmptyBag, BagToSet, SetToBag
  <1>2. ASSUME NEW p \in Node, NEW i \in Ages PROVE BagToSet(neighbour'[p][i]) \subseteq Node
    <2>1. neighbour'[p][i] = IF i = 0 THEN buffer_arrivi[p] ELSE neighbour[p][i - 1]
      BY DEF AgePlusOne
    <2>2. i # 0 => i - 1 \in Ages
      BY RandomAgeAssumption, SMT DEF Ages
    <2> QED BY <2>1, <2>2 DEF ListsHoldNodes
  <1>3. \A p \in Node : buffer_arrivi'[p] = EmptyBag
    BY DEF AgePlusOne
  <1> QED BY <1>1, <1>2, <1>3 DEF ListsHoldNodes

LEMMA StartRoundReach ==
  ASSUME ReachInv, StartRound
  PROVE  ReachInv'
  <1>1. IInv'
    BY StartRoundInv DEF ReachInv
  <1>2. turn' \in Node /\ ListsHoldNodes'
    BY AgePlusOneHolds DEF ReachInv, StartRound
  <1>3. at' = "fanout" /\ at = "age" /\ UNCHANGED <<buffer_fanout, turn, sent>>
    BY DEF StartRound, AgePlusOne
  <1>5. ASSUME NEW n \in Node PROVE ~ (n < turn)
    BY <1>3, Sizes, SMT DEF ReachInv, Fanouts, Node
  <1>6. Fanouts'
    BY <1>3, <1>5 DEF ReachInv, Fanouts
  <1>7. Asked'
    BY NotAsked DEF ReachInv, StartRound
  <1> QED BY <1>1, <1>2, <1>6, <1>7 DEF ReachInv

LEMMA CreateFanoutReach ==
  ASSUME ReachInv, CreateFanout
  PROVE  ReachInv'
  <1>1. IInv'
    BY CreateFanoutInv DEF ReachInv
  <1>2. turn' \in Node
    BY TurnIn DEF CreateFanout, ReachInv
  <1>3. PICK fanout \in [Slots -> Neighbours(turn)] :
          buffer_fanout' = [buffer_fanout EXCEPT ![turn] = fanout]
    BY DEF CreateFanout
  <1>4. Neighbours(turn) \subseteq Node
    <2>1. Drawable \subseteq Ages
      BY EveryAgeDrawn DEF Drawable
    <2> QED BY <2>1 DEF ReachInv, ListsHoldNodes, Neighbours, RandomNeighbour
  <1>5. ListsHoldNodes'
    BY DEF ReachInv, ListsHoldNodes, CreateFanout
  <1>6. /\ buffer_fanout' = [p \in Node |-> buffer_fanout'[p]]
        /\ \A p \in Node : p # turn => buffer_fanout'[p] = buffer_fanout[p]
        /\ \A i \in Slots : buffer_fanout'[turn][i] \in Node
    BY <1>3, <1>4 DEF ReachInv, Fanouts
  <1>7. at = "fanout" /\ UNCHANGED <<round, sent>> /\ Turn("gossip")
    BY DEF CreateFanout
  <1>8. \A n \in Node : n < turn => \A i \in Slots : buffer_fanout[n][i] \in Node
    BY <1>7 DEF ReachInv, Fanouts
  <1>13. sent' \in 0 .. Gossips - 1
    BY <1>7 DEF ReachInv, Fanouts
  <1>9. ASSUME turn' = turn + 1, at' = at PROVE Fanouts'
    <2>1. \A n \in Node : n < turn + 1 => n < turn \/ n = turn
      BY SMT DEF ReachInv, Node
    <2>2. \A n \in Node : n < turn' => \A i \in Slots : buffer_fanout'[n][i] \in Node
      BY <1>6, <1>8, <1>9, <2>1
    <2> QED BY <1>6, <1>7, <1>9, <1>13, <2>2 DEF Fanouts
  <1>10. ASSUME turn' = 0, at' = "gossip", \A p \in Node : p < turn \/ p = turn PROVE Fanouts'
    <2>1. AllDrawn'
      BY <1>6, <1>8, <1>10 DEF AllDrawn
    <2> QED BY <1>6, <1>7, <1>10, <1>13, <2>1 DEF Fanouts
  <1>11. Fanouts'
    BY <1>7, <1>9, <1>10, TurnStep DEF ReachInv
  <1>12. Asked'
    BY <1>7, NotAsked DEF ReachInv, CreateFanout
  <1> QED BY <1>1, <1>2, <1>5, <1>11, <1>12 DEF ReachInv

LEMMA SentReach ==
  ASSUME ReachInv, Sent, at = "gossip"
  PROVE  turn' \in Node /\ Fanouts' /\ Asked'
  <1>1. turn' \in Node
    BY TurnIn DEF Sent, ReachInv
  <1>2. /\ at' \in {"gossip", "age"} /\ (at' = "age" => turn' = 0)
        /\ UNCHANGED <<buffer_fanout, round, result>>
    BY SMT DEF Sent, Turn
  <1>3. AllDrawn /\ AllDrawn'
    BY <1>2 DEF ReachInv, Fanouts, AllDrawn
  <1>6. sent' \in 0 .. Gossips - 1
    BY SentPlace, SMT DEF ReachInv, Fanouts, Sent, Gossips
  <1>4. Fanouts'
    BY <1>2, <1>3, <1>6 DEF ReachInv, Fanouts
  <1>5. Asked'
    BY <1>2, NotAsked DEF ReachInv
  <1> QED BY <1>1, <1>4, <1>5

LEMMA GossipReach ==
  ASSUME ReachInv, GossipInformations
  PROVE  ReachInv'
  <1>1. IInv' /\ at = "gossip" /\ Sent
    BY GossipInv DEF ReachInv, GossipInformations, InsBufferArrivi, RandomViciniGossip
  <1>2. turn' \in Node /\ Fanouts' /\ Asked'
    BY <1>1, SentReach
  <1>3. Ric \in Node
    <2>1. AllDrawn /\ turn \in Node
      BY <1>1 DEF ReachInv, Fanouts
    <2>2. 1 + sent \div (GossipNodi + 1) \in Slots
      BY SentPlace DEF ReachInv, Fanouts
    <2> QED BY <2>1, <2>2 DEF AllDrawn, Ric
  <1>4. CASE InsBufferArrivi
    <2>1. PICK list \in Put(buffer_arrivi[Ric], turn, Fanout) :
            buffer_arrivi' = [buffer_arrivi EXCEPT ![Ric] = list]
      BY <1>4 DEF InsBufferArrivi
    <2>2. BagToSet(buffer_arrivi[Ric]) \subseteq Node
      BY <1>3 DEF ReachInv, ListsHoldNodes
    <2>3. BagToSet(list) \subseteq Node
      BY <2>2, PutIn DEF ReachInv
    <2>4. \A p \in Node : buffer_arrivi'[p] \in {buffer_arrivi[p], list}
      BY <2>1 DEF ReachInv, IInv, Lists
    <2>5. ListsHoldNodes'
      BY <1>4, <2>3, <2>4 DEF ReachInv, ListsHoldNodes, InsBufferArrivi
    <2> QED BY <1>1, <1>2, <2>5 DEF ReachInv
  <1>5. CASE RandomViciniGossip
    <2>1. PICK age \in Drawable : \E p \in RandomNeighbour(turn, age) :
            \E list \in Put(neighbour[Ric][age], p, VistaAge) :
              neighbour' = [neighbour EXCEPT ![Ric][age] = list]
      BY <1>5 DEF RandomViciniGossip
    <2>2. PICK p \in RandomNeighbour(turn, age) :
            \E list \in Put(neighbour[Ric][age], p, VistaAge) :
              neighbour' = [neighbour EXCEPT ![Ric][age] = list]
      BY <2>1
    <2>3. PICK list \in Put(neighbour[Ric][age], p, VistaAge) :
            neighbour' = [neighbour EXCEPT ![Ric][age] = list]
      BY <2>2
    <2>4. age \in Ages
      BY EveryAgeDrawn DEF Drawable
    <2>5. p \in Node /\ BagToSet(neighbour[Ric][age]) \subseteq Node
      BY <1>3, <2>4 DEF ReachInv, ListsHoldNodes, RandomNeighbour
    <2>6. BagToSet(list) \subseteq Node
      BY <2>5, PutIn
    <2>7. ASSUME NEW r \in Node, NEW i \in Ages
          PROVE  neighbour'[r][i] \in {neighbour[r][i], list}
      BY <2>3 DEF ReachInv, IInv, Lists
    <2>8. ListsHoldNodes'
      BY <1>5, <2>6, <2>7 DEF ReachInv, ListsHoldNodes, RandomViciniGossip
    <2> QED BY <1>1, <1>2, <2>8 DEF ReachInv
  <1> QED BY <1>4, <1>5 DEF GossipInformations

MembershipCovers ==
  AllDrawn => \A n \in Node : RicorsiveMembership[0][n] = KnownTo(Near(n, HopsCopertura))

LEMMA MembershipIs == MembershipCovers
  BY MembershipReach DEF MembershipCovers

LEMMA AfterStill ==
  ASSUME UNCHANGED buffer_fanout
  PROVE  After' = After
  BY SMT DEF After, Successors

LEMMA StatisticheReach ==
  ASSUME ReachInv, Statistiche
  PROVE  ReachInv'
  <1>1. IInv' /\ at = "age" /\ round = RoundG /\ UNCHANGED <<at, turn, sent, round, buffer_fanout>>
    BY StatisticheInv DEF ReachInv, Statistiche, DisseminationNodo, DisseminationQuery,
          TestCoperturaRete, AgePlusOne, nodes
  <1>2. turn' \in Node /\ Fanouts'
    BY <1>1 DEF ReachInv, Fanouts, AllDrawn
  <1>3. AllDrawn /\ AllDrawn'
    <2>1. round > 0
      BY <1>1, SimulatorAssumption, SMT
    <2> QED BY <1>1, <2>1 DEF ReachInv, Fanouts, AllDrawn
  <1>4. ListsHoldNodes'
    BY AgePlusOneHolds DEF ReachInv, Statistiche, DisseminationNodo, DisseminationQuery,
          TestCoperturaRete, nodes, ListsHoldNodes
  <1>5. PICK n \in Node :
          DisseminationNodo(n) \/ DisseminationQuery(n) \/ TestCoperturaRete(n)
    BY DEF Statistiche
  <1>6. ASSUME DisseminationNodo(n) PROVE Asked'
    <2>1. result'.of = "nodo"
      BY <1>6 DEF DisseminationNodo, Report
    <2> QED BY <2>1 DEF Asked, StatisticsReach
  <1>7. ASSUME DisseminationQuery(n) PROVE Asked'
    <2>1. result'.of = "query" /\ result'.nodo = n /\ result'.nodi = RicorsiveQuery[0][n]
      BY <1>7 DEF DisseminationQuery, Report
    <2>2. After' = After
      <3>1. buffer_fanout' = buffer_fanout
        BY <1>1
      <3> QED BY <3>1, AfterStill
    <2>3. RicorsiveQuery[0][n] = UNION {After[r][{n}] : r \in 1 .. RaggioQuery}
      BY <1>3, QueryReach
    <2> QED BY <1>1, <2>1, <2>2, <2>3 DEF Asked, StatisticsReach
  <1>8. ASSUME TestCoperturaRete(n) PROVE Asked'
    <2>1. /\ result'.of = "membership" /\ result'.nodo = n
          /\ result'.nodi = RicorsiveMembership[0][n]'
      BY <1>8 DEF TestCoperturaRete, Report
    <2>2. MembershipCovers'
      BY MembershipIs, PTL
    <2>3. RicorsiveMembership[0][n]' = KnownTo(Near(n, HopsCopertura))'
      BY <1>3, <2>2 DEF MembershipCovers
    <2> QED BY <1>1, <2>1, <2>3 DEF Asked, StatisticsReach, Near
  <1>9. Asked'
    BY <1>5, <1>6, <1>7, <1>8
  <1> QED BY <1>1, <1>2, <1>4, <1>9 DEF ReachInv

LEMMA AskedStill ==
  ASSUME Asked, UNCHANGED <<nodes, at, round, result>>
  PROVE  Asked'
  <1>1. After' = After
    BY AfterStill DEF nodes
  <1>2. neighbour' = neighbour
    BY DEF nodes
  <1>3. ASSUME NEW S PROVE KnownTo(S)' = KnownTo(S)
    BY <1>2, SMT DEF KnownTo, RandomNeighbour
  <1> QED BY <1>1, <1>3 DEF Asked, StatisticsReach

LEMMA NextReach == ReachInv /\ [Next]_vars => ReachInv'
  <1>1. ASSUME ReachInv, UNCHANGED vars PROVE ReachInv'
    <2>1. IInv' /\ turn' \in Node
      BY <1>1, NextInv DEF ReachInv, vars
    <2>2. ListsHoldNodes' /\ Fanouts'
      BY <1>1 DEF ReachInv, ListsHoldNodes, Fanouts, AllDrawn, vars, nodes
    <2>3. Asked'
      BY <1>1, AskedStill DEF ReachInv, vars, nodes
    <2> QED BY <2>1, <2>2, <2>3 DEF ReachInv
  <1> QED BY <1>1, BootstrapReach, StartRoundReach, CreateFanoutReach, GossipReach,
             StatisticheReach DEF Next

(* The dissemination counts the nodes that a query reaches, and the        *)
(* coverage those known within HopsCopertura hops, of the nodes as they    *)
(* are after it aged them, for any network (dissemination_query,           *)
(* test_copertura_rete, ricorsive_query, ricorsive_membership).            *)
THEOREM StatisticsCount == Spec => []StatisticsReach
  <1>1. ReachInv => StatisticsReach
    BY DEF ReachInv, Asked
  <1> QED BY InitReachInv, NextReach, <1>1, PTL DEF Spec
=============================================================================
