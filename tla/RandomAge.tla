----------------------------- MODULE RandomAge ------------------------------
(***************************************************************************)
(* The random variable X that says at which age a neighbour is drawn: age  *)
(* i has the numbers up to intorno[i] that no younger age has, out of      *)
(* 1 .. estremo.  Age 0 has BigNum numbers, the next two fixed shares of   *)
(* it and age i the 2(i+1)th part.  The simulators have a copy of it.      *)
(***************************************************************************)
EXTENDS Naturals, FiniteSets

CONSTANTS
  MaxAge,   \* _MAX_AGE
  BigNum,   \* _BIG_NUM
  P1, P2    \* _P1 and _P2 times BigNum; _P0 is 1

ASSUME RandomAgeAssumption ==
  /\ MaxAge \in Nat /\ MaxAge >= 2
  /\ BigNum \in Nat /\ BigNum >= 4 * MaxAge
  /\ P1 \in Nat \ {0, 1} /\ P2 \in Nat \ {0, 1}

Ages == 0 .. MaxAge - 1

Share(i) ==
  CASE i = 0 -> BigNum [] i = 1 -> P1 [] i = 2 -> P2
    [] OTHER -> BigNum \div (2 * (i + 1))

(* initX *)
intorno[i \in Ages] == Share(i) + (IF i = 0 THEN 0 ELSE intorno[i - 1])

estremo == intorno[MaxAge - 1]

(* Mutant: the loop does not stop there.                                   *)
AgeOfLast(number) ==
  CHOOSE i \in Ages :
    /\ number <= intorno[i]
    /\ \A j \in i + 1 .. MaxAge - 1 : number > intorno[j]

(* The first age whose bound the number does not exceed.                   *)
AgeOf(number) ==
  CHOOSE i \in Ages :
    /\ number <= intorno[i]
    /\ \A j \in 0 .. i - 1 : number > intorno[j]

(* The ages that random_age returns, traslazione added where it fits: for  *)
(* each the numbers that lead to it.                                       *)
RandomAge(traslazione) ==
  [age \in Ages |->
    {number \in 1 .. estremo :
      LET i == AgeOf(number)
      IN  age = IF i + traslazione < MaxAge THEN i + traslazione ELSE i}]

(* random_age_buffer_rg draws again until the number is below the bound of *)
(* the last but one age.                                                   *)
RandomAgeBufferRG ==
  [age \in Ages |->
    {number \in 1 .. estremo :
      number < intorno[MaxAge - 2] /\ age = AgeOf(number)}]

Possible(draw) == {age \in Ages : draw[age] # {}}

-----------------------------------------------------------------------------
(* The draws do what the X of initX is for: without a shift each age comes *)
(* with its share of the numbers, with the shift by one that decides if a  *)
(* ping is answered every age but 0 comes, and a gossip information takes  *)
(* news of every age but the last.                                         *)
AgesDrawn ==
  /\ \A age \in Ages : Cardinality(RandomAge(0)[age]) = Share(age)
  /\ Possible(RandomAge(1)) = 1 .. MaxAge - 1
  /\ Possible(RandomAgeBufferRG) = 0 .. MaxAge - 2
=============================================================================
