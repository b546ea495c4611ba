------------------------- MODULE WritersReaderProofs -------------------------
(***************************************************************************)
(* Proofs about the readers-writers lock, for every set of threads and for *)
(* both behaviours of sem_post.                                            *)
(***************************************************************************)
EXTENDS WritersReader, FiniteSetTheorems, TLAPS

(* The threads at some of the statements.                                  *)
In(L) == {p \in Thread : pc[p] \in L}

Locations == WriterWaits \cup ReaderWaits \cup
  {"out", "writing", "uw_post", "uw_switch", "uw_count", "uw_last", "uw_release",
   "reading", "ur_switch", "ur_count", "ur_last", "ur_release"}

(* Nobody is blocked on a semaphore that has a unit.                       *)
TypeOK ==
  /\ pc \in [Thread -> Locations]
  /\ sem \in [Sems -> {0, 1}]
  /\ waiting \in [Sems -> SUBSET Thread]
  /\ counter \in [Lights -> Int]
  /\ \A s \in Sems : waiting[s] = {} \/ sem[s] = 0
  /\ \A s \in Sems : \A p \in waiting[s] : pc[p] \in WaitsAt(s)

(* The statements executed with a switch, by one thread at a time.         *)
WithWriteSwitch ==
  {"w_count", "w_first", "w_release", "uw_count", "uw_last", "uw_release"}
WithReadSwitch ==
  {"r_count", "r_first", "r_release", "ur_count", "ur_last", "ur_release"}

(* The statements of the threads that are counted in.                      *)
CountedW == {"w_first", "w_release", "w_wait", "writing", "uw_post",
             "uw_switch", "uw_count"}
CountedR == {"r_first", "r_release", "r_open", "reading", "ur_switch", "ur_count"}

(* The statements of the group for which one of it took a semaphore, and   *)
(* those of the single thread that may have it instead.                    *)
Shutting == {"w_release", "w_wait", "writing", "uw_post", "uw_switch",
             "uw_count", "uw_last"}
Passing == {"r_switch", "r_count", "r_first", "r_release", "r_open"}
Sharing == {"r_release", "r_open", "reading", "ur_switch", "ur_count", "ur_last"}

(* The unit of s is in s, with one thread at a statement of L, or with     *)
(* those at a statement of G.                                              *)
Held(s, L, G) ==
  /\ sem[s] = 1 <=> \A p \in Thread : pc[p] \notin L \cup G
  /\ \A p, q \in Thread : pc[p] \in L /\ pc[q] \in L => p = q
  /\ \A p, q \in Thread : ~(pc[p] \in L /\ pc[q] \in G)

SwitchesHeld ==
  /\ Held("writeSwitch", WithWriteSwitch, {})
  /\ Held("readSwitch", WithReadSwitch, {})

GroupsHeld ==
  /\ Held("noReaders", Passing, Shutting)
  /\ Held("noWriters", Writing, Sharing)

Counted ==
  /\ IsFiniteSet(In(CountedW)) /\ counter["writeSwitch"] = Cardinality(In(CountedW))
  /\ IsFiniteSet(In(CountedR)) /\ counter["readSwitch"] = Cardinality(In(CountedR))

(* The first one in is the only one counted, and behind the last one out   *)
(* nobody is.                                                              *)
Alone ==
  \A p, q \in Thread :
    /\ pc[p] = "w_first" /\ pc[q] \in CountedW => p = q
    /\ pc[p] = "r_first" /\ pc[q] \in CountedR => p = q
    /\ pc[p] = "uw_last" => pc[q] \notin CountedW
    /\ pc[p] = "ur_last" => pc[q] \notin CountedR

(* The inductive invariant: who has each of the four semaphores, and how   *)
(* many threads each switch has counted in.                                *)
IInv == TypeOK /\ SwitchesHeld /\ GroupsHeld /\ Counted /\ Alone

LEMMA InitIInv == Init => IInv
  <1> SUFFICES ASSUME Init PROVE IInv
    OBVIOUS
  <1>1. TypeOK
    BY SMT DEF Init, TypeOK, Sems, Lights, Locations, WriterWaits, ReaderWaits
  <1>2. \A L : "out" \notin L => In(L) = {}
    BY DEF Init, In
  <1>3. SwitchesHeld /\ GroupsHeld
    BY SMT DEF Init, SwitchesHeld, GroupsHeld, Held, Sems, Lights, WithWriteSwitch,
               WithReadSwitch, Passing, Shutting, Writing, Sharing
  <1>4. Counted
    <2>1. In(CountedW) = {} /\ In(CountedR) = {}
      BY <1>2 DEF CountedW, CountedR
    <2> QED BY <2>1, FS_EmptySet, SMT DEF Init, Counted, Lights
  <1>5. Alone
    BY SMT DEF Init, Alone
  <1> QED BY <1>1, <1>3, <1>4, <1>5 DEF IInv

-----------------------------------------------------------------------------
(* What a semaphore operation keeps of the types, wherever it is called.   *)

LEMMA WaitTypes ==
  ASSUME TypeOK, NEW p \in Thread, NEW s \in Sems, NEW from \in WaitsAt(s), Wait(p, s, from)
  PROVE  TypeOK'
  <1> USE DEF Wait
  <1>1. Resume[from] \in Locations
    BY SMT DEF Sems, Lights, WaitsAt, Resume, Locations, WriterWaits, ReaderWaits
  <1>2. CASE SemTake(p, s, from, Resume[from])
    <2>1. waiting[s] = {}
      BY <1>2, SMT DEF SemTake, TypeOK
    <2>2. \A r \in Sems : p \in waiting[r] => r = s
      BY <1>2, SMT DEF SemTake, Goto, TypeOK, WaitsAt, Sems, Lights
    <2> QED BY <1>1, <1>2, <2>1, <2>2, SMT DEF SemTake, Goto, TypeOK
  <1>3. CASE SemBlock(p, s, from)
    BY <1>3, SMT DEF SemBlock, TypeOK
  <1> QED BY <1>2, <1>3 DEF SemWait

LEMMA PostTypes ==
  ASSUME TypeOK, NEW p \in Thread, NEW s \in Sems, NEW from, NEW to \in Locations,
         \A r \in Sems : from \notin WaitsAt(r),
         sem[s] = 0, Post(p, s, from, to)
  PROVE  TypeOK'
  <1> USE DEF Post
  <1>1. \A r \in Sems : p \notin waiting[r]
    BY SMT DEF SemPost, SemGive, SemWake, Goto, TypeOK
  <1>2. CASE SemGive(p, s, from, to)
    BY <1>1, <1>2, SMT DEF SemGive, Goto, TypeOK
  <1>3. CASE SemWake(p, s, from, to, Resume)
    <2>1. PICK q \in waiting[s] :
            /\ waiting' = [waiting EXCEPT ![s] = @ \ {q}]
            /\ pc' = [pc EXCEPT ![p] = to, ![q] = Resume[pc[q]]]
      BY <1>3 DEF SemWake
    <2>2. q \in Thread /\ Resume[pc[q]] \in Locations
      BY SMT DEF TypeOK, Sems, Lights, WaitsAt, Resume, Locations, WriterWaits, ReaderWaits
    <2>3. \A r \in Sems : q \in waiting[r] => r = s
      BY SMT DEF TypeOK, Sems, Lights, WaitsAt
    <2> QED BY <1>1, <1>3, <2>1, <2>2, <2>3, SMT DEF SemWake, TypeOK
  <1> QED BY <1>2, <1>3 DEF SemPost

-----------------------------------------------------------------------------
(* A post finds its semaphore without a unit.                              *)
LEMMA UnitOut ==
  ASSUME SwitchesHeld, GroupsHeld, TypeOK, NEW p \in Thread
  PROVE  /\ pc[p] \in WithWriteSwitch => sem["writeSwitch"] = 0
         /\ pc[p] \in WithReadSwitch => sem["readSwitch"] = 0
         /\ pc[p] \in Passing \cup Shutting => sem["noReaders"] = 0
         /\ pc[p] \in Writing \cup Sharing => sem["noWriters"] = 0
  BY SMT DEF SwitchesHeld, GroupsHeld, Held, TypeOK, Sems, Lights

(* Where a thread is that posts.                                           *)
LEMMA PostAt ==
  ASSUME NEW p, NEW s, NEW from, NEW to, Post(p, s, from, to)
  PROVE  pc[p] = from
  BY DEF Post, SemPost, SemGive, SemWake, Goto

(* The types, and the discipline of the wait queues, after each step.      *)
LEMMA StepTypes ==
  ASSUME IInv, NEW p \in Thread, CallWriter(p) \/ CallReader(p) \/ Run(p)
  PROVE  TypeOK'
  <1> USE DEF IInv, Locations, WriterWaits, ReaderWaits, WaitsAt, Sems, Lights,
              WithWriteSwitch, WithReadSwitch, Passing, Shutting, Sharing, Writing
  <1>1. CASE CallWriter(p)
    BY <1>1, SMT DEF CallWriter, CallReader, Step, Goto, TypeOK, sems
  <1>2. CASE CallReader(p)
    BY <1>2, SMT DEF CallWriter, CallReader, Step, Goto, TypeOK, sems
  <1>3. CASE Wait(p, "writeSwitch", "w_switch")
    BY <1>3, WaitTypes, SMT
  <1>4. CASE CountIn(p, "writeSwitch", "w_count", "w_first", "w_release")
    BY <1>4, SMT DEF CountIn, Goto, TypeOK, sems
  <1>5. CASE Wait(p, "noReaders", "w_first")
    BY <1>5, WaitTypes, SMT
  <1>6. CASE Post(p, "writeSwitch", "w_release", "w_wait")
    BY <1>6, PostAt, UnitOut, PostTypes, SMT
  <1>7. CASE Wait(p, "noWriters", "w_wait")
    BY <1>7, WaitTypes, SMT
  <1>8. CASE Step(p, "writing", "uw_post")
    BY <1>8, SMT DEF Step, Goto, TypeOK, sems
  <1>9. CASE Post(p, "noWriters", "uw_post", "uw_switch")
    BY <1>9, PostAt, UnitOut, PostTypes, SMT
  <1>10. CASE Wait(p, "writeSwitch", "uw_switch")
    BY <1>10, WaitTypes, SMT
  <1>11. CASE CountOut(p, "writeSwitch", "uw_count", "uw_last", "uw_release")
    BY <1>11, SMT DEF CountOut, Goto, TypeOK, sems
  <1>12. CASE Post(p, "noReaders", "uw_last", "uw_release")
    BY <1>12, PostAt, UnitOut, PostTypes, SMT
  <1>13. CASE Post(p, "writeSwitch", "uw_release", "out")
    BY <1>13, PostAt, UnitOut, PostTypes, SMT
  <1>14. CASE Wait(p, "noReaders", "r_gate")
    BY <1>14, WaitTypes, SMT
  <1>15. CASE Wait(p, "readSwitch", "r_switch")
    BY <1>15, WaitTypes, SMT
  <1>16. CASE CountIn(p, "readSwitch", "r_count", "r_first", "r_release")
    BY <1>16, SMT DEF CountIn, Goto, TypeOK, sems
  <1>17. CASE Wait(p, "noWriters", "r_first")
    BY <1>17, WaitTypes, SMT
  <1>18. CASE Post(p, "readSwitch", "r_release", "r_open")
    BY <1>18, PostAt, UnitOut, PostTypes, SMT
  <1>19. CASE Post(p, "noReaders", "r_open", "reading")
    BY <1>19, PostAt, UnitOut, PostTypes, SMT
  <1>20. CASE Step(p, "reading", "ur_switch")
    BY <1>20, SMT DEF Step, Goto, TypeOK, sems
  <1>21. CASE Wait(p, "readSwitch", "ur_switch")
    BY <1>21, WaitTypes, SMT
  <1>22. CASE CountOut(p, "readSwitch", "ur_count", "ur_last", "ur_release")
    BY <1>22, SMT DEF CountOut, Goto, TypeOK, sems
  <1>23. CASE Post(p, "noWriters", "ur_last", "ur_release")
    BY <1>23, PostAt, UnitOut, PostTypes, SMT
  <1>24. CASE Post(p, "readSwitch", "ur_release", "out")
    BY <1>24, PostAt, UnitOut, PostTypes, SMT
  <1> QED BY <1>1, <1>2, <1>3, <1>4, <1>5, <1>6, <1>7, <1>8, <1>9, <1>10,
             <1>11, <1>12, <1>13, <1>14, <1>15, <1>16, <1>17, <1>18, <1>19,
             <1>20, <1>21, <1>22, <1>23, <1>24
         DEF LockWriter, UnlockWriter, LockReader, UnlockReader, Run

(* Who has the switches after each step.                                   *)
LEMMA StepSwitches ==
  ASSUME IInv, NEW p \in Thread, CallWriter(p) \/ CallReader(p) \/ Run(p)
  PROVE  SwitchesHeld'
  <1> USE DEF IInv, TypeOK, Locations, WaitsAt, Sems, Lights, WithWriteSwitch,
              WithReadSwitch, SwitchesHeld, Held, Goto, sems
  <1>1. CASE CallWriter(p)
    BY <1>1, SMT DEF CallWriter, CallReader, Step
  <1>2. CASE CallReader(p)
    BY <1>2, SMT DEF CallWriter, CallReader, Step
  <1>3. CASE Wait(p, "writeSwitch", "w_switch")
    BY <1>3, SMT DEF Wait, SemWait, SemTake, SemBlock, Resume
  <1>4. CASE CountIn(p, "writeSwitch", "w_count", "w_first", "w_release")
    BY <1>4, SMT DEF CountIn
  <1>5. CASE Wait(p, "noReaders", "w_first")
    BY <1>5, SMT DEF Wait, SemWait, SemTake, SemBlock, Resume
  <1>6. CASE Post(p, "writeSwitch", "w_release", "w_wait")
    BY <1>6, SMT DEF Post, SemPost, SemGive, SemWake, Resume
  <1>7. CASE Wait(p, "noWriters", "w_wait")
    BY <1>7, SMT DEF Wait, SemWait, SemTake, SemBlock, Resume
  <1>8. CASE Step(p, "writing", "uw_post")
    BY <1>8, SMT DEF Step
  <1>9. CASE Post(p, "noWriters", "uw_post", "uw_switch")
    BY <1>9, SMT DEF Post, SemPost, SemGive, SemWake, Resume
  <1>10. CASE Wait(p, "writeSwitch", "uw_switch")
    BY <1>10, SMT DEF Wait, SemWait, SemTake, SemBlock, Resume
  <1>11. CASE CountOut(p, "writeSwitch", "uw_count", "uw_last", "uw_release")
    BY <1>11, SMT DEF CountOut
  <1>12. CASE Post(p, "noReaders", "uw_last", "uw_release")
    BY <1>12, SMT DEF Post, SemPost, SemGive, SemWake, Resume
  <1>13. CASE Post(p, "writeSwitch", "uw_release", "out")
    BY <1>13, SMT DEF Post, SemPost, SemGive, SemWake, Resume
  <1>14. CASE Wait(p, "noReaders", "r_gate")
    BY <1>14, SMT DEF Wait, SemWait, SemTake, SemBlock, Resume
  <1>15. CASE Wait(p, "readSwitch", "r_switch")
    BY <1>15, SMT DEF Wait, SemWait, SemTake, SemBlock, Resume
  <1>16. CASE CountIn(p, "readSwitch", "r_count", "r_first", "r_release")
    BY <1>16, SMT DEF CountIn
  <1>17. CASE Wait(p, "noWriters", "r_first")
    BY <1>17, SMT DEF Wait, SemWait, SemTake, SemBlock, Resume
  <1>18. CASE Post(p, "readSwitch", "r_release", "r_open")
    BY <1>18, SMT DEF Post, SemPost, SemGive, SemWake, Resume
  <1>19. CASE Post(p, "noReaders", "r_open", "reading")
    BY <1>19, SMT DEF Post, SemPost, SemGive, SemWake, Resume
  <1>20. CASE Step(p, "reading", "ur_switch")
    BY <1>20, SMT DEF Step
  <1>21. CASE Wait(p, "readSwitch", "ur_switch")
    BY <1>21, SMT DEF Wait, SemWait, SemTake, SemBlock, Resume
  <1>22. CASE CountOut(p, "readSwitch", "ur_count", "ur_last", "ur_release")
    BY <1>22, SMT DEF CountOut
  <1>23. CASE Post(p, "noWriters", "ur_last", "ur_release")
    BY <1>23, SMT DEF Post, SemPost, SemGive, SemWake, Resume
  <1>24. CASE Post(p, "readSwitch", "ur_release", "out")
    BY <1>24, SMT DEF Post, SemPost, SemGive, SemWake, Resume
  <1> QED BY <1>1, <1>2, <1>3, <1>4, <1>5, <1>6, <1>7, <1>8, <1>9, <1>10,
             <1>11, <1>12, <1>13, <1>14, <1>15, <1>16, <1>17, <1>18, <1>19,
             <1>20, <1>21, <1>22, <1>23, <1>24
         DEF LockWriter, UnlockWriter, LockReader, UnlockReader, Run

-----------------------------------------------------------------------------
(* What the counters say of the threads that are counted.                  *)
LEMMA CountMeans ==
  ASSUME NEW S, IsFiniteSet(S)
  PROVE  /\ Cardinality(S) \in Nat
         /\ Cardinality(S) = 0 => S = {}
         /\ Cardinality(S) # 0 => S # {}
         /\ Cardinality(S) = 1 => \A p, q \in S : p = q
         /\ Cardinality(S) # 1 => \A p \in S : \E q \in S : q # p
  <1>1. Cardinality(S) \in Nat /\ (Cardinality(S) = 0 <=> S = {})
    BY FS_CardinalityType, FS_EmptySet
  <1>2. Cardinality(S) = 1 <=> \E x : S = {x}
    BY FS_Singleton
  <1> QED BY <1>1, <1>2

LEMMA CountersMean ==
  ASSUME Counted, NEW p \in Thread
  PROVE  /\ counter["writeSwitch"] = 0 <=> \A q \in Thread : pc[q] \notin CountedW
         /\ counter["readSwitch"] = 0 <=> \A q \in Thread : pc[q] \notin CountedR
         /\ pc[p] \in CountedW => (counter["writeSwitch"] = 1
              <=> \A q \in Thread : pc[q] \in CountedW => q = p)
         /\ pc[p] \in CountedR => (counter["readSwitch"] = 1
              <=> \A q \in Thread : pc[q] \in CountedR => q = p)
  <1> HIDE DEF CountedW, CountedR
  <1>1. ASSUME NEW L, NEW n, IsFiniteSet(In(L)), n = Cardinality(In(L))
        PROVE  /\ n = 0 <=> \A q \in Thread : pc[q] \notin L
               /\ pc[p] \in L => (n = 1 <=> \A q \in Thread : pc[q] \in L => q = p)
    <2>1. /\ n = 0 => In(L) = {}
          /\ n # 0 => In(L) # {}
          /\ n = 1 => \A x, y \in In(L) : x = y
          /\ n # 1 => \A x \in In(L) : \E y \in In(L) : y # x
      BY <1>1, CountMeans
    <2> QED BY <2>1 DEF In
  <1> QED BY <1>1 DEF Counted

(* Who has noReaders and noWriters after each step; it is the counters     *)
(* that tell the first and the last one of a group.                        *)
LEMMA StepGroups ==
  ASSUME IInv, NEW p \in Thread, CallWriter(p) \/ CallReader(p) \/ Run(p)
  PROVE  GroupsHeld' /\ Alone'
  <1> USE DEF IInv, TypeOK, Locations, WaitsAt, Sems, Lights, WithWriteSwitch,
              WithReadSwitch, SwitchesHeld, GroupsHeld, Held, Goto, sems,
              Passing, Shutting, Sharing, Writing, CountedW, CountedR, Alone
  <1>1. CASE CallWriter(p)
    BY <1>1, SMT DEF CallWriter, CallReader, Step
  <1>2. CASE CallReader(p)
    BY <1>2, SMT DEF CallWriter, CallReader, Step
  <1>3. CASE Wait(p, "writeSwitch", "w_switch")
    BY <1>3, SMT DEF Wait, SemWait, SemTake, SemBlock, Resume
  <1>4. CASE CountIn(p, "writeSwitch", "w_count", "w_first", "w_release")
    BY <1>4, CountersMean, SMT DEF CountIn
  <1>5. CASE Wait(p, "noReaders", "w_first")
    BY <1>5, SMT DEF Wait, SemWait, SemTake, SemBlock, Resume
  <1>6. CASE Post(p, "writeSwitch", "w_release", "w_wait")
    BY <1>6, SMT DEF Post, SemPost, SemGive, SemWake, Resume
  <1>7. CASE Wait(p, "noWriters", "w_wait")
    BY <1>7, SMT DEF Wait, SemWait, SemTake, SemBlock, Resume
  <1>8. CASE Step(p, "writing", "uw_post")
    BY <1>8, SMT DEF Step
  <1>9. CASE Post(p, "noWriters", "uw_post", "uw_switch")
    BY <1>9, SMT DEF Post, SemPost, SemGive, SemWake, Resume
  <1>10. CASE Wait(p, "writeSwitch", "uw_switch")
    BY <1>10, SMT DEF Wait, SemWait, SemTake, SemBlock, Resume
  <1>11. CASE CountOut(p, "writeSwitch", "uw_count", "uw_last", "uw_release")
    BY <1>11, CountersMean, SMT DEF CountOut
  <1>12. CASE Post(p, "noReaders", "uw_last", "uw_release")
    BY <1>12, SMT DEF Post, SemPost, SemGive, SemWake, Resume
  <1>13. CASE Post(p, "writeSwitch", "uw_release", "out")
    BY <1>13, SMT DEF Post, SemPost, SemGive, SemWake, Resume
  <1>14. CASE Wait(p, "noReaders", "r_gate")
    BY <1>14, SMT DEF Wait, SemWait, SemTake, SemBlock, Resume
  <1>15. CASE Wait(p, "readSwitch", "r_switch")
    BY <1>15, SMT DEF Wait, SemWait, SemTake, SemBlock, Resume
  <1>16. CASE CountIn(p, "readSwitch", "r_count", "r_first", "r_release")
    BY <1>16, CountersMean, SMT DEF CountIn
  <1>17. CASE Wait(p, "noWriters", "r_first")
    BY <1>17, SMT DEF Wait, SemWait, SemTake, SemBlock, Resume
  <1>18. CASE Post(p, "readSwitch", "r_release", "r_open")
    BY <1>18, SMT DEF Post, SemPost, SemGive, SemWake, Resume
  <1>19. CASE Post(p, "noReaders", "r_open", "reading")
    BY <1>19, SMT DEF Post, SemPost, SemGive, SemWake, Resume
  <1>20. CASE Step(p, "reading", "ur_switch")
    BY <1>20, SMT DEF Step
  <1>21. CASE Wait(p, "readSwitch", "ur_switch")
    BY <1>21, SMT DEF Wait, SemWait, SemTake, SemBlock, Resume
  <1>22. CASE CountOut(p, "readSwitch", "ur_count", "ur_last", "ur_release")
    BY <1>22, CountersMean, SMT DEF CountOut
  <1>23. CASE Post(p, "noWriters", "ur_last", "ur_release")
    BY <1>23, SMT DEF Post, SemPost, SemGive, SemWake, Resume
  <1>24. CASE Post(p, "readSwitch", "ur_release", "out")
    BY <1>24, SMT DEF Post, SemPost, SemGive, SemWake, Resume
  <1> QED BY <1>1, <1>2, <1>3, <1>4, <1>5, <1>6, <1>7, <1>8, <1>9, <1>10,
             <1>11, <1>12, <1>13, <1>14, <1>15, <1>16, <1>17, <1>18, <1>19,
             <1>20, <1>21, <1>22, <1>23, <1>24
         DEF LockWriter, UnlockWriter, LockReader, UnlockReader, Run

(* Who is counted, after a step that leaves the counters alone.            *)
LEMMA StepCountsNobody ==
  ASSUME IInv, NEW p \in Thread, CallWriter(p) \/ CallReader(p) \/ Run(p)
  PROVE  \/ /\ UNCHANGED counter
            /\ \A q \in Thread : pc'[q] \in CountedW <=> pc[q] \in CountedW
            /\ \A q \in Thread : pc'[q] \in CountedR <=> pc[q] \in CountedR
         \/ CountIn(p, "writeSwitch", "w_count", "w_first", "w_release")
         \/ CountOut(p, "writeSwitch", "uw_count", "uw_last", "uw_release")
         \/ CountIn(p, "readSwitch", "r_count", "r_first", "r_release")
         \/ CountOut(p, "readSwitch", "ur_count", "ur_last", "ur_release")
  <1> USE DEF IInv, TypeOK, Locations, WaitsAt, Sems, Lights, Goto, sems, CountedW, CountedR
  <1>1. CASE CallWriter(p)
    BY <1>1, SMT DEF CallWriter, CallReader, Step
  <1>2. CASE CallReader(p)
    BY <1>2, SMT DEF CallWriter, CallReader, Step
  <1>3. CASE Wait(p, "writeSwitch", "w_switch")
    BY <1>3, SMT DEF Wait, SemWait, SemTake, SemBlock, Resume
  <1>4. CASE CountIn(p, "writeSwitch", "w_count", "w_first", "w_release")
    BY <1>4
  <1>5. CASE Wait(p, "noReaders", "w_first")
    BY <1>5, SMT DEF Wait, SemWait, SemTake, SemBlock, Resume
  <1>6. CASE Post(p, "writeSwitch", "w_release", "w_wait")
    BY <1>6, SMT DEF Post, SemPost, SemGive, SemWake, Resume
  <1>7. CASE Wait(p, "noWriters", "w_wait")
    BY <1>7, SMT DEF Wait, SemWait, SemTake, SemBlock, Resume
  <1>8. CASE Step(p, "writing", "uw_post")
    BY <1>8, SMT DEF Step
  <1>9. CASE Post(p, "noWriters", "uw_post", "uw_switch")
    BY <1>9, SMT DEF Post, SemPost, SemGive, SemWake, Resume
  <1>10. CASE Wait(p, "writeSwitch", "uw_switch")
    BY <1>10, SMT DEF Wait, SemWait, SemTake, SemBlock, Resume
  <1>11. CASE CountOut(p, "writeSwitch", "uw_count", "uw_last", "uw_release")
    BY <1>11
  <1>12. CASE Post(p, "noReaders", "uw_last", "uw_release")
    BY <1>12, SMT DEF Post, SemPost, SemGive, SemWake, Resume
  <1>13. CASE Post(p, "writeSwitch", "uw_release", "out")
    BY <1>13, SMT DEF Post, SemPost, SemGive, SemWake, Resume
  <1>14. CASE Wait(p, "noReaders", "r_gate")
    BY <1>14, SMT DEF Wait, SemWait, SemTake, SemBlock, Resume
  <1>15. CASE Wait(p, "readSwitch", "r_switch")
    BY <1>15, SMT DEF Wait, SemWait, SemTake, SemBlock, Resume
  <1>16. CASE CountIn(p, "readSwitch", "r_count", "r_first", "r_release")
    BY <1>16
  <1>17. CASE Wait(p, "noWriters", "r_first")
    BY <1>17, SMT DEF Wait, SemWait, SemTake, SemBlock, Resume
  <1>18. CASE Post(p, "readSwitch", "r_release", "r_open")
    BY <1>18, SMT DEF Post, SemPost, SemGive, SemWake, Resume
  <1>19. CASE Post(p, "noReaders", "r_open", "reading")
    BY <1>19, SMT DEF Post, SemPost, SemGive, SemWake, Resume
  <1>20. CASE Step(p, "reading", "ur_switch")
    BY <1>20, SMT DEF Step
  <1>21. CASE Wait(p, "readSwitch", "ur_switch")
    BY <1>21, SMT DEF Wait, SemWait, SemTake, SemBlock, Resume
  <1>22. CASE CountOut(p, "readSwitch", "ur_count", "ur_last", "ur_release")
    BY <1>22
  <1>23. CASE Post(p, "noWriters", "ur_last", "ur_release")
    BY <1>23, SMT DEF Post, SemPost, SemGive, SemWake, Resume
  <1>24. CASE Post(p, "readSwitch", "ur_release", "out")
    BY <1>24, SMT DEF Post, SemPost, SemGive, SemWake, Resume
  <1> QED BY <1>1, <1>2, <1>3, <1>4, <1>5, <1>6, <1>7, <1>8, <1>9, <1>10,
             <1>11, <1>12, <1>13, <1>14, <1>15, <1>16, <1>17, <1>18, <1>19,
             <1>20, <1>21, <1>22, <1>23, <1>24
         DEF LockWriter, UnlockWriter, LockReader, UnlockReader, Run

(* One thread moves, into or out of those counted.                         *)
LEMMA CountsOne ==
  ASSUME NEW L, IsFiniteSet(In(L)), NEW p \in Thread,
         pc \in [Thread -> Locations], NEW to, pc' = [pc EXCEPT ![p] = to]
  PROVE  /\ (pc[p] \in L <=> to \in L) =>
              In(L)' = In(L)
         /\ pc[p] \notin L /\ to \in L =>
              IsFiniteSet(In(L)') /\ Cardinality(In(L)') = Cardinality(In(L)) + 1
         /\ pc[p] \in L /\ to \notin L =>
              IsFiniteSet(In(L)') /\ Cardinality(In(L)') = Cardinality(In(L)) - 1
  <1>1. pc[p] \notin L /\ to \in L => In(L)' = In(L) \cup {p} /\ p \notin In(L)
    BY DEF In
  <1>2. pc[p] \in L /\ to \notin L => In(L)' = In(L) \ {p} /\ p \in In(L)
    BY DEF In
  <1>3. (pc[p] \in L <=> to \in L) => In(L)' = In(L)
    BY DEF In
  <1> QED BY <1>1, <1>2, <1>3, FS_AddElement, FS_RemoveElement

LEMMA StepCounted ==
  ASSUME IInv, NEW p \in Thread, CallWriter(p) \/ CallReader(p) \/ Run(p)
  PROVE  Counted'
  <1> USE DEF IInv, Counted
  <1>1. CASE /\ UNCHANGED counter
             /\ \A q \in Thread : pc'[q] \in CountedW <=> pc[q] \in CountedW
             /\ \A q \in Thread : pc'[q] \in CountedR <=> pc[q] \in CountedR
    <2>1. In(CountedW)' = In(CountedW) /\ In(CountedR)' = In(CountedR)
      BY <1>1 DEF In, CountedW, CountedR
    <2> QED BY <1>1, <2>1
  <1>2. CASE CountIn(p, "writeSwitch", "w_count", "w_first", "w_release")
    <2>1. PICK to \in {"w_first", "w_release"} : pc' = [pc EXCEPT ![p] = to]
      BY <1>2 DEF CountIn, Goto
    <2>2. pc[p] \notin CountedW /\ to \in CountedW /\ (pc[p] \in CountedR <=> to \in CountedR)
      BY <1>2, <2>1 DEF CountIn, Goto, CountedW, CountedR
    <2>3. /\ IsFiniteSet(In(CountedW)')
          /\ Cardinality(In(CountedW)') = Cardinality(In(CountedW)) + 1
          /\ In(CountedR)' = In(CountedR)
      BY <2>1, <2>2, CountsOne DEF TypeOK
    <2>4. counter'["writeSwitch"] = counter["writeSwitch"] + 1
          /\ counter'["readSwitch"] = counter["readSwitch"]
      BY <1>2, SMT DEF CountIn, TypeOK, Lights
    <2> QED BY <2>3, <2>4
  <1>3. CASE CountOut(p, "writeSwitch", "uw_count", "uw_last", "uw_release")
    <2>1. PICK to \in {"uw_last", "uw_release"} : pc' = [pc EXCEPT ![p] = to]
      BY <1>3 DEF CountOut, Goto
    <2>2. pc[p] \in CountedW /\ to \notin CountedW /\ (pc[p] \in CountedR <=> to \in CountedR)
      BY <1>3, <2>1 DEF CountOut, Goto, CountedW, CountedR
    <2>3. /\ IsFiniteSet(In(CountedW)')
          /\ Cardinality(In(CountedW)') = Cardinality(In(CountedW)) - 1
          /\ In(CountedR)' = In(CountedR)
      BY <2>1, <2>2, CountsOne DEF TypeOK
    <2>4. counter'["writeSwitch"] = counter["writeSwitch"] - 1
          /\ counter'["readSwitch"] = counter["readSwitch"]
      BY <1>3, SMT DEF CountOut, TypeOK, Lights
    <2> QED BY <2>3, <2>4
  <1>4. CASE CountIn(p, "readSwitch", "r_count", "r_first", "r_release")
    <2>1. PICK to \in {"r_first", "r_release"} : pc' = [pc EXCEPT ![p] = to]
      BY <1>4 DEF CountIn, Goto
    <2>2. pc[p] \notin CountedR /\ to \in CountedR /\ (pc[p] \in CountedW <=> to \in CountedW)
      BY <1>4, <2>1 DEF CountIn, Goto, CountedW, CountedR
    <2>3. /\ IsFiniteSet(In(CountedR)')
          /\ Cardinality(In(CountedR)') = Cardinality(In(CountedR)) + 1
          /\ In(CountedW)' = In(CountedW)
      BY <2>1, <2>2, CountsOne DEF TypeOK
    <2>4. counter'["readSwitch"] = counter["readSwitch"] + 1
          /\ counter'["writeSwitch"] = counter["writeSwitch"]
      BY <1>4, SMT DEF CountIn, TypeOK, Lights
    <2> QED BY <2>3, <2>4
  <1>5. CASE CountOut(p, "readSwitch", "ur_count", "ur_last", "ur_release")
    <2>1. PICK to \in {"ur_last", "ur_release"} : pc' = [pc EXCEPT ![p] = to]
      BY <1>5 DEF CountOut, Goto
    <2>2. pc[p] \in CountedR /\ to \notin CountedR /\ (pc[p] \in CountedW <=> to \in CountedW)
      BY <1>5, <2>1 DEF CountOut, Goto, CountedW, CountedR
    <2>3. /\ IsFiniteSet(In(CountedR)')
          /\ Cardinality(In(CountedR)') = Cardinality(In(CountedR)) - 1
          /\ In(CountedW)' = In(CountedW)
      BY <2>1, <2>2, CountsOne DEF TypeOK
    <2>4. counter'["readSwitch"] = counter["readSwitch"] - 1
          /\ counter'["writeSwitch"] = counter["writeSwitch"]
      BY <1>5, SMT DEF CountOut, TypeOK, Lights
    <2> QED BY <2>3, <2>4
  <1> QED BY <1>1, <1>2, <1>3, <1>4, <1>5, StepCountsNobody

(* Every statement of every thread keeps the invariant.                    *)
THEOREM Inductive == IInv /\ [Next]_vars => IInv'
  <1> SUFFICES ASSUME IInv, [Next]_vars PROVE IInv'
    OBVIOUS
  <1>1. CASE UNCHANGED vars
    BY <1>1, SMT DEF vars, IInv, TypeOK, SwitchesHeld, GroupsHeld, Held, Counted, Alone, In
  <1>2. CASE Next
    BY <1>2, StepTypes, StepSwitches, StepGroups, StepCounted DEF Next, IInv
  <1> QED BY <1>1, <1>2

(* The variables keep their types, the semaphores are binary, and the      *)
(* counters are those of the threads that were let in and not out.         *)
THEOREM Invariant == Spec => []IInv
  BY InitIInv, Inductive, PTL DEF Spec


-----------------------------------------------------------------------------
(* Refinement: each step of the lock is a step of the abstract lock, or    *)
(* leaves it alone.  Only a writer at noWriters and a reader that opens    *)
(* noReaders again get the lock.                                           *)

Idle == Locations \ (WriterWaits \cup ReaderWaits \cup {"writing", "reading"})

Phase == {WriterWaits, ReaderWaits, {"writing"}, {"reading"}, Idle}

(* q is seen as before.                                                    *)
Same(q) == \E L \in Phase : pc[q] \in L /\ pc'[q] \in L

Moves(r, from, to) ==
  /\ pc[r] \in from /\ pc'[r] \in to
  /\ \A q \in Thread \ {r} : Same(q)

(* Who has the lock while somebody is about to give or to share it.        *)
LEMMA Holding ==
  ASSUME IInv, NEW p \in Thread, NEW q \in Thread
  PROVE  /\ sem["noWriters"] = 1 => pc[q] \notin {"writing", "reading"}
         /\ pc[p] = "r_open" => pc[q] # "writing"
         /\ pc[p] \in {"uw_post", "ur_last"} => pc[q] \notin {"writing", "reading"}
  BY SMT DEF IInv, TypeOK, GroupsHeld, Held, Alone, Sharing, Writing, CountedR

(* How the callers see each step.                                          *)
LEMMA StepMoves ==
  ASSUME IInv, NEW p \in Thread, CallWriter(p) \/ CallReader(p) \/ Run(p)
  PROVE  \/ \A q \in Thread : Same(q)
         \/ \E r \in Thread :
              \/ Moves(r, Idle, WriterWaits) \/ Moves(r, Idle, ReaderWaits)
              \/ Moves(r, {"writing"}, Idle) \/ Moves(r, {"reading"}, Idle)
              \/ /\ Moves(r, WriterWaits, {"writing"})
                 /\ \A q \in Thread : pc[q] \notin {"writing", "reading"}
              \/ /\ Moves(r, {"r_open"}, {"reading"})
                 /\ \A q \in Thread : pc[q] # "writing"
  <1> USE DEF IInv, TypeOK, Locations, WaitsAt, Sems, Lights, Goto, sems, Idle,
              Phase, Same, Moves, WriterWaits, ReaderWaits
  <1>1. CASE CallWriter(p)
    BY <1>1, SMT DEF CallWriter, CallReader, Step
  <1>2. CASE CallReader(p)
    BY <1>2, SMT DEF CallWriter, CallReader, Step
  <1>3. CASE Wait(p, "writeSwitch", "w_switch")
    BY <1>3, SMT DEF Wait, SemWait, SemTake, SemBlock, Resume
  <1>4. CASE CountIn(p, "writeSwitch", "w_count", "w_first", "w_release")
    BY <1>4, SMT DEF CountIn
  <1>5. CASE Wait(p, "noReaders", "w_first")
    BY <1>5, SMT DEF Wait, SemWait, SemTake, SemBlock, Resume
  <1>6. CASE Post(p, "writeSwitch", "w_release", "w_wait")
    BY <1>6, SMT DEF Post, SemPost, SemGive, SemWake, Resume
  <1>7. CASE Wait(p, "noWriters", "w_wait")
    BY <1>7, Holding, SMT DEF Wait, SemWait, SemTake, SemBlock, Resume
  <1>8. CASE Step(p, "writing", "uw_post")
    BY <1>8, SMT DEF Step
  <1>9. CASE Post(p, "noWriters", "uw_post", "uw_switch")
    BY <1>9, Holding, SMT DEF Post, SemPost, SemGive, SemWake, Resume
  <1>10. CASE Wait(p, "writeSwitch", "uw_switch")
    BY <1>10, SMT DEF Wait, SemWait, SemTake, SemBlock, Resume
  <1>11. CASE CountOut(p, "writeSwitch", "uw_count", "uw_last", "uw_release")
    BY <1>11, SMT DEF CountOut
  <1>12. CASE Post(p, "noReaders", "uw_last", "uw_release")
    BY <1>12, SMT DEF Post, SemPost, SemGive, SemWake, Resume
  <1>13. CASE Post(p, "writeSwitch", "uw_release", "out")
    BY <1>13, SMT DEF Post, SemPost, SemGive, SemWake, Resume
  <1>14. CASE Wait(p, "noReaders", "r_gate")
    BY <1>14, SMT DEF Wait, SemWait, SemTake, SemBlock, Resume
  <1>15. CASE Wait(p, "readSwitch", "r_switch")
    BY <1>15, SMT DEF Wait, SemWait, SemTake, SemBlock, Resume
  <1>16. CASE CountIn(p, "readSwitch", "r_count", "r_first", "r_release")
    BY <1>16, SMT DEF CountIn
  <1>17. CASE Wait(p, "noWriters", "r_first")
    BY <1>17, SMT DEF Wait, SemWait, SemTake, SemBlock, Resume
  <1>18. CASE Post(p, "readSwitch", "r_release", "r_open")
    BY <1>18, SMT DEF Post, SemPost, SemGive, SemWake, Resume
  <1>19. CASE Post(p, "noReaders", "r_open", "reading")
    BY <1>19, Holding, SMT DEF Post, SemPost, SemGive, SemWake, Resume
  <1>20. CASE Step(p, "reading", "ur_switch")
    BY <1>20, SMT DEF Step
  <1>21. CASE Wait(p, "readSwitch", "ur_switch")
    BY <1>21, SMT DEF Wait, SemWait, SemTake, SemBlock, Resume
  <1>22. CASE CountOut(p, "readSwitch", "ur_count", "ur_last", "ur_release")
    BY <1>22, SMT DEF CountOut
  <1>23. CASE Post(p, "noWriters", "ur_last", "ur_release")
    BY <1>23, Holding, SMT DEF Post, SemPost, SemGive, SemWake, Resume
  <1>24. CASE Post(p, "readSwitch", "ur_release", "out")
    BY <1>24, SMT DEF Post, SemPost, SemGive, SemWake, Resume
  <1> QED BY <1>1, <1>2, <1>3, <1>4, <1>5, <1>6, <1>7, <1>8, <1>9, <1>10,
             <1>11, <1>12, <1>13, <1>14, <1>15, <1>16, <1>17, <1>18, <1>19,
             <1>20, <1>21, <1>22, <1>23, <1>24
         DEF LockWriter, UnlockWriter, LockReader, UnlockReader, Run

LEMMA PhaseOf ==
  /\ \A l \in WriterWaits : PhaseAt(l) = <<"wants", "write">>
  /\ \A l \in ReaderWaits : PhaseAt(l) = <<"wants", "read">>
  /\ PhaseAt("writing") = <<"has", "write">>
  /\ PhaseAt("reading") = <<"has", "read">>
  /\ \A l \in Idle : PhaseAt(l) = <<"idle">>
  <1>1. WriterWaits \cap ReaderWaits = {}
    BY DEF WriterWaits, ReaderWaits
  <1>2. {"writing", "reading"} \cap (WriterWaits \cup ReaderWaits) = {}
    BY DEF WriterWaits, ReaderWaits
  <1> QED BY <1>1, <1>2 DEF PhaseAt, Idle

LEMMA SamePhase ==
  ASSUME NEW q, Same(q)
  PROVE  PhaseAt(pc'[q]) = PhaseAt(pc[q])
  BY PhaseOf DEF Same, Phase

LEMMA MovesOne ==
  ASSUME NEW r \in Thread, NEW from, NEW to, Moves(r, from, to)
  PROVE  /\ phaseBar[r] = PhaseAt(pc[r])
         /\ phaseBar' = [phaseBar EXCEPT ![r] = PhaseAt(pc'[r])]
         /\ pc[r] \in from /\ pc'[r] \in to
  <1>1. \A q \in Thread \ {r} : PhaseAt(pc'[q]) = PhaseAt(pc[q])
    BY SamePhase DEF Moves
  <1>2. phaseBar' = [q \in Thread |-> PhaseAt(pc'[q])]
    BY DEF phaseBar
  <1> QED BY <1>1, <1>2 DEF phaseBar, Moves

(* Who has the lock, as the abstract lock sees it.                         *)
LEMMA HasIt ==
  ASSUME IInv, NEW q \in Thread
  PROVE  /\ phaseBar[q] = <<"has", "write">> <=> pc[q] = "writing"
         /\ phaseBar[q] = <<"has", "read">> <=> pc[q] = "reading"
  <1>1. \/ pc[q] \in WriterWaits \/ pc[q] \in ReaderWaits \/ pc[q] = "writing"
        \/ pc[q] = "reading" \/ pc[q] \in Idle
    BY DEF IInv, TypeOK, Idle
  <1>2. <<"has", "write">> \notin
          {<<"wants", "write">>, <<"wants", "read">>, <<"has", "read">>, <<"idle">>}
    BY SMT
  <1>3. <<"has", "read">> \notin
          {<<"wants", "write">>, <<"wants", "read">>, <<"has", "write">>, <<"idle">>}
    BY SMT
  <1> QED BY <1>1, <1>2, <1>3, PhaseOf DEF phaseBar, Idle, WriterWaits, ReaderWaits

LEMMA StepRefines ==
  ASSUME IInv, [Next]_vars
  PROVE  [Shared!Next]_phaseBar
  <1> USE PhaseOf DEF Shared!Next
  <1>1. CASE UNCHANGED vars
    BY <1>1 DEF vars, phaseBar
  <1>2. CASE \A q \in Thread : Same(q)
    BY <1>2, SamePhase DEF phaseBar
  <1>3. ASSUME NEW r \in Thread, Moves(r, Idle, WriterWaits)
        PROVE  Shared!Next
    <2>1. phaseBar[r] = <<"idle">>
          /\ phaseBar' = [phaseBar EXCEPT ![r] = <<"wants", "write">>]
      BY <1>3, MovesOne
    <2>2. Shared!Request(r, "write")
      BY <2>1 DEF Shared!Request
    <2> QED BY <2>2
  <1>4. ASSUME NEW r \in Thread, Moves(r, Idle, ReaderWaits)
        PROVE  Shared!Next
    <2>1. phaseBar[r] = <<"idle">>
          /\ phaseBar' = [phaseBar EXCEPT ![r] = <<"wants", "read">>]
      BY <1>4, MovesOne
    <2>2. Shared!Request(r, "read")
      BY <2>1 DEF Shared!Request
    <2> QED BY <2>2
  <1>5. ASSUME NEW r \in Thread, Moves(r, {"writing"}, Idle)
        PROVE  Shared!Next
    <2>1. phaseBar[r] = <<"has", "write">>
          /\ phaseBar' = [phaseBar EXCEPT ![r] = <<"idle">>]
      BY <1>5, MovesOne
    <2>2. Shared!Release(r, "write")
      BY <2>1 DEF Shared!Release
    <2> QED BY <2>2
  <1>6. ASSUME NEW r \in Thread, Moves(r, {"reading"}, Idle)
        PROVE  Shared!Next
    <2>1. phaseBar[r] = <<"has", "read">>
          /\ phaseBar' = [phaseBar EXCEPT ![r] = <<"idle">>]
      BY <1>6, MovesOne
    <2>2. Shared!Release(r, "read")
      BY <2>1 DEF Shared!Release
    <2> QED BY <2>2
  <1>7. ASSUME NEW r \in Thread, Moves(r, WriterWaits, {"writing"}),
               \A q \in Thread : pc[q] \notin {"writing", "reading"}
        PROVE  Shared!Next
    <2>1. \A q \in Thread, n \in {"read", "write"} : phaseBar[q] # <<"has", n>>
      BY <1>7, HasIt
    <2>2. phaseBar[r] = <<"wants", "write">>
          /\ phaseBar' = [phaseBar EXCEPT ![r] = <<"has", "write">>]
      BY <1>7, MovesOne
    <2> QED BY <2>1, <2>2 DEF Shared!Acquire
  <1>8. ASSUME NEW r \in Thread, Moves(r, {"r_open"}, {"reading"}),
               \A q \in Thread : pc[q] # "writing"
        PROVE  Shared!Next
    <2>1. \A q \in Thread, n \in {"read", "write"} :
            phaseBar[q] = <<"has", n>> => Shared!Compatible("read", n)
      BY <1>8, HasIt DEF Shared!Compatible
    <2>2. phaseBar[r] = <<"wants", "read">>
          /\ phaseBar' = [phaseBar EXCEPT ![r] = <<"has", "read">>]
      BY <1>8, MovesOne DEF ReaderWaits
    <2> QED BY <2>1, <2>2 DEF Shared!Acquire
  <1>9. CASE Next
    BY <1>9, <1>2, <1>3, <1>4, <1>5, <1>6, <1>7, <1>8, StepMoves DEF Next
  <1> QED BY <1>1, <1>9

(* The lock implements the abstract readers-writers lock: whatever callers *)
(* and semaphores do, readers share it and a writer has it alone.          *)
THEOREM Refinement == Spec => ImplementsRWLock
  <1>1. Init => Shared!Init
    BY DEF Init, Shared!Init, phaseBar, PhaseAt, WriterWaits, ReaderWaits
  <1> QED BY <1>1, StepRefines, Invariant, PTL
          DEF Spec, ImplementsRWLock, Shared!Spec

(* From a writer's shutting noReaders until it is done no reader gets in.  *)
THEOREM WritersFirst == Spec => NoReaderPassesWriter
  <1>1. ASSUME IInv, [Next]_vars, NEW w \in Thread, NEW r \in Thread,
               pc[w] \in {"w_release", "w_wait"} \cup Writing,
               pc[r] # "reading", pc'[r] = "reading"
        PROVE  FALSE
    <2>1. Next
      BY <1>1 DEF vars
    <2>2. ~ Same(r)
      BY <1>1 DEF Same, Phase, Idle, WriterWaits, ReaderWaits
    <2>3. pc[r] = "r_open"
      BY <1>1, <2>1, <2>2, StepMoves DEF Next, Moves, Idle, WriterWaits, ReaderWaits
    <2>4. pc[w] \in Shutting /\ pc[r] \in Passing
      BY <1>1, <2>3 DEF Shutting, Passing, Writing
    <2> QED BY <1>1, <2>4 DEF IInv, GroupsHeld, Held
  <1>2. ASSUME IInv, [Next]_vars
        PROVE  [\A w, r \in Thread :
                  pc[w] \in {"w_release", "w_wait"} \cup Writing =>
                    ~ (pc[r] # "reading" /\ pc'[r] = "reading")]_vars
    BY <1>1, <1>2
  <1> QED BY <1>2, Invariant, PTL DEF Spec, NoReaderPassesWriter
-----------------------------------------------------------------------------
(* No deadlock.                                                            *)

(* Where a blocked thread is, and what it waits for.                       *)
LEMMA BlockedAt ==
  ASSUME NEW p, Blocked(p)
  PROVE  \/ pc[p] \in {"w_switch", "uw_switch"} /\ sem["writeSwitch"] = 0
         \/ pc[p] \in {"r_switch", "ur_switch"} /\ sem["readSwitch"] = 0
         \/ pc[p] \in {"w_first", "r_gate"} /\ sem["noReaders"] = 0
         \/ pc[p] \in {"w_wait", "r_first"} /\ sem["noWriters"] = 0
  BY DEF Blocked, WaitsAt, Sems, Lights

(* A semaphore without a unit is held by a thread at one of its statements. *)
LEMMA SomebodyHolds ==
  ASSUME TypeOK, NEW s \in Sems, NEW L, NEW G, Held(s, L, G), sem[s] = 0
  PROVE  \E p \in Thread : pc[p] \in L \cup G
  <1>1. sem[s] # 1
    OBVIOUS
  <1> QED BY <1>1 DEF Held

(* If everybody in the lock waited, nobody would hold any of the four      *)
(* semaphores: the waits go from noReaders to readSwitch to noWriters, and *)
(* from writeSwitch to noReaders, and never back.                          *)
LEMMA SomebodyGoesOn == IInv => NoDeadlock
  <1> SUFFICES ASSUME IInv, NEW t \in Thread, pc[t] # "out",
                      \A p \in Thread : pc[p] = "out" \/ Blocked(p)
               PROVE  FALSE
    BY DEF NoDeadlock
  <1>1. TypeOK /\ SwitchesHeld /\ GroupsHeld /\ Alone
    BY DEF IInv
  <1>2. \A p \in Thread :
          pc[p] \in {"out", "w_switch", "uw_switch", "r_switch", "ur_switch",
                    "w_first", "r_gate", "w_wait", "r_first"}
    BY BlockedAt
  <1>3. \A p \in Thread : pc[p] # "r_first"
    <2> SUFFICES ASSUME NEW r \in Thread, pc[r] = "r_first" PROVE FALSE
      OBVIOUS
    <2>1. sem["noWriters"] = 0
      BY BlockedAt
    <2>2. PICK p \in Thread : pc[p] \in Writing \cup Sharing
      BY <1>1, <2>1, SomebodyHolds DEF GroupsHeld, Sems
    <2>3. pc[p] = "ur_switch"
      BY <1>2, <2>2 DEF Writing, Sharing
    <2> QED BY <1>1, <2>3 DEF Alone, CountedR
  <1>4. \A p \in Thread : pc[p] \notin {"r_switch", "ur_switch"}
    <2> SUFFICES ASSUME NEW r \in Thread, pc[r] \in {"r_switch", "ur_switch"} PROVE FALSE
      OBVIOUS
    <2>1. sem["readSwitch"] = 0
      BY BlockedAt
    <2>2. PICK p \in Thread : pc[p] \in WithReadSwitch \cup {}
      BY <1>1, <2>1, SomebodyHolds DEF SwitchesHeld, Sems, Lights
    <2> QED BY <1>2, <1>3, <2>2 DEF WithReadSwitch
  <1>5. \A p \in Thread : pc[p] # "w_wait"
    <2> SUFFICES ASSUME NEW w \in Thread, pc[w] = "w_wait" PROVE FALSE
      OBVIOUS
    <2>1. sem["noWriters"] = 0
      BY BlockedAt
    <2>2. PICK p \in Thread : pc[p] \in Writing \cup Sharing
      BY <1>1, <2>1, SomebodyHolds DEF GroupsHeld, Sems
    <2> QED BY <1>2, <1>4, <2>2 DEF Writing, Sharing
  <1>6. \A p \in Thread : pc[p] # "w_first"
    <2> SUFFICES ASSUME NEW w \in Thread, pc[w] = "w_first" PROVE FALSE
      OBVIOUS
    <2>1. sem["noReaders"] = 0
      BY BlockedAt
    <2>2. PICK p \in Thread : pc[p] \in Passing \cup Shutting
      BY <1>1, <2>1, SomebodyHolds DEF GroupsHeld, Sems
    <2>3. pc[p] = "uw_switch"
      BY <1>2, <1>3, <1>4, <1>5, <2>2 DEF Passing, Shutting
    <2> QED BY <1>1, <2>3 DEF Alone, CountedW
  <1>7. \A p \in Thread : pc[p] \notin {"w_switch", "uw_switch"}
    <2> SUFFICES ASSUME NEW w \in Thread, pc[w] \in {"w_switch", "uw_switch"} PROVE FALSE
      OBVIOUS
    <2>1. sem["writeSwitch"] = 0
      BY BlockedAt
    <2>2. PICK p \in Thread : pc[p] \in WithWriteSwitch \cup {}
      BY <1>1, <2>1, SomebodyHolds DEF SwitchesHeld, Sems, Lights
    <2> QED BY <1>2, <1>6, <2>2 DEF WithWriteSwitch
  <1>8. pc[t] = "r_gate"
    BY <1>2, <1>3, <1>4, <1>5, <1>6, <1>7
  <1>9. sem["noReaders"] = 0
    BY <1>8, BlockedAt
  <1>10. PICK p \in Thread : pc[p] \in Passing \cup Shutting
    BY <1>1, <1>9, SomebodyHolds DEF GroupsHeld, Sems
  <1> QED BY <1>2, <1>3, <1>4, <1>5, <1>7, <1>10 DEF Passing, Shutting

(* However many threads read and write, those in the lock never all wait   *)
(* for each other (lockLightswitch, lock_WR_Reader, lock_WR_Writers).      *)
THEOREM DeadlockFree == Spec => []NoDeadlock
  BY Invariant, SomebodyGoesOn, PTL
=============================================================================
