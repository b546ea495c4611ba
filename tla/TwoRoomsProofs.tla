--------------------------- MODULE TwoRoomsProofs ---------------------------
(***************************************************************************)
(* Proofs about the Two_rooms lock, for every set of threads and for both  *)
(* behaviours of sem_post: its safety, its refinement of the abstract      *)
(* exclusive lock and the bound on overtaking.                             *)
(***************************************************************************)
EXTENDS MCTwoRooms, FiniteSetTheorems, TLAPS

(* The mutex has one unit: in the semaphore, or with the only thread       *)
(* between the sem_wait and the sem_post.                                  *)
MutexHeld ==
  /\ sem["mutex"] \in {0, 1}
  /\ (\A p \in Thread : pc[p] \notin WithMutex) <=> sem["mutex"] = 1
  /\ \A p, q \in Thread : pc[p] \in WithMutex /\ pc[q] \in WithMutex => p = q

BatonHeld ==
  /\ OneBaton
  /\ \A p, q \in Thread : pc[p] \in WithBaton /\ pc[q] \in WithBaton => p = q

(* The inductive invariant: mutual exclusion alone says nothing of the     *)
(* threads on their way from t1 or t2 to the critical section.             *)
IInv == TypeOK /\ MutexHeld /\ BatonHeld

LEMMA InitIInv == Init => IInv
  BY SMT DEF Init, IInv, TypeOK, MutexHeld, BatonHeld, OneBaton, Sems, Locations,
             WithMutex, WithBaton, Resume

-----------------------------------------------------------------------------
(* What a semaphore operation keeps of the types, wherever it is called.   *)

LEMMA WaitTypes ==
  ASSUME TypeOK, NEW p \in Thread, NEW s \in Sems, NEW from \in WaitsAt(s),
         SemWait(p, s, from, Resume[from]), UNCHANGED rooms
  PROVE  TypeOK'
  <1>1. Resume[from] \in Locations
    BY SMT DEF Sems, WaitsAt, Resume, Locations, WithMutex, WithBaton
  <1>2. CASE SemTake(p, s, from, Resume[from])
    <2>1. waiting[s] = {}
      BY <1>2, SMT DEF SemTake, TypeOK
    <2>2. \A r \in Sems : p \in waiting[r] => r = s
      BY <1>2, SMT DEF SemTake, Goto, TypeOK, WaitsAt, Sems
    <2> QED BY <1>1, <1>2, <2>1, <2>2, SMT DEF SemTake, Goto, TypeOK, rooms
  <1>3. CASE SemBlock(p, s, from)
    BY <1>3, SMT DEF SemBlock, TypeOK, rooms
  <1> QED BY <1>2, <1>3 DEF SemWait

LEMMA PostTypes ==
  ASSUME TypeOK, NEW p \in Thread, NEW s \in Sems, NEW from, NEW to \in Locations,
         \A r \in Sems : from \notin WaitsAt(r),
         SemPost(p, s, from, to, Resume), UNCHANGED rooms
  PROVE  TypeOK'
  <1>1. \A r \in Sems : p \notin waiting[r]
    BY SMT DEF SemPost, SemGive, SemWake, Goto, TypeOK
  <1>2. CASE SemGive(p, s, from, to)
    BY <1>1, <1>2, SMT DEF SemGive, Goto, TypeOK, rooms
  <1>3. CASE SemWake(p, s, from, to, Resume)
    <2>1. PICK q \in waiting[s] :
            /\ waiting' = [waiting EXCEPT ![s] = @ \ {q}]
            /\ pc' = [pc EXCEPT ![p] = to, ![q] = Resume[pc[q]]]
      BY <1>3 DEF SemWake
    <2>2. q \in Thread /\ Resume[pc[q]] \in Locations
      BY SMT DEF TypeOK, Sems, WaitsAt, Resume, Locations, WithMutex, WithBaton
    <2>3. \A r \in Sems : q \in waiting[r] => r = s
      BY SMT DEF TypeOK, Sems, WaitsAt
    <2> QED BY <1>1, <1>3, <2>1, <2>2, <2>3, SMT DEF SemWake, TypeOK, rooms
  <1> QED BY <1>2, <1>3 DEF SemPost

LEMMA StepTypes ==
  ASSUME TypeOK, NEW p \in Thread, Call(p) \/ Lock(p) \/ Critical(p) \/ Unlock(p)
  PROVE  TypeOK'
  <1> USE DEF Locations, WithMutex, WithBaton, WaitsAt, Sems
  <1>1. CASE Call(p)
    BY <1>1, SMT DEF Call, Goto, TypeOK, sems, rooms
  <1>2. CASE EnterMutex(p)
    BY <1>2, WaitTypes, SMT DEF EnterMutex
  <1>3. CASE EnterRoom1(p)
    BY <1>3, SMT DEF EnterRoom1, Goto, TypeOK, sems, rooms
  <1>4. CASE EnterRelease(p)
    BY <1>4, PostTypes, SMT DEF EnterRelease
  <1>5. CASE WaitT1(p)
    BY <1>5, WaitTypes, SMT DEF WaitT1
  <1>6. CASE EnterRoom2(p)
    BY <1>6, SMT DEF EnterRoom2, Goto, TypeOK, sems, rooms
  <1>7. CASE LeaveMutex(p)
    BY <1>7, WaitTypes, SMT DEF LeaveMutex
  <1>8. CASE LeaveRoom1(p)
    BY <1>8, SMT DEF LeaveRoom1, Goto, TypeOK, sems, rooms
  <1>9. CASE LeaveTest(p)
    BY <1>9, SMT DEF LeaveTest, Goto, TypeOK, sems, rooms
  <1>10. CASE LastRelease(p)
    BY <1>10, PostTypes, SMT DEF LastRelease
  <1>11. CASE OpenT2(p)
    BY <1>11, PostTypes, SMT DEF OpenT2
  <1>12. CASE MoreRelease(p)
    BY <1>12, PostTypes, SMT DEF MoreRelease
  <1>13. CASE OpenT1(p)
    BY <1>13, PostTypes, SMT DEF OpenT1
  <1>14. CASE WaitT2(p)
    BY <1>14, WaitTypes, SMT DEF WaitT2
  <1>15. CASE LeaveRoom2(p)
    BY <1>15, SMT DEF LeaveRoom2, Goto, TypeOK, sems, rooms
  <1>16. CASE Critical(p)
    BY <1>16, SMT DEF Critical, Goto, TypeOK, sems, rooms
  <1>17. CASE Unlock(p)
    BY <1>17, PostTypes, SMT DEF Unlock
  <1> QED BY <1>1, <1>2, <1>3, <1>4, <1>5, <1>6, <1>7, <1>8, <1>9, <1>10, <1>11, <1>12, <1>13, <1>14, <1>15, <1>16, <1>17 DEF Lock

(* Which thread holds the mutex and the baton after each step.             *)
LEMMA StepHeld ==
  ASSUME IInv, NEW p \in Thread, Call(p) \/ Lock(p) \/ Critical(p) \/ Unlock(p)
  PROVE  MutexHeld' /\ BatonHeld'
  <1> USE DEF IInv, MutexHeld, BatonHeld, OneBaton, WithMutex, WithBaton, WaitsAt,
              Resume, Sems, TypeOK, Goto, sems, rooms, SemWait, SemTake, SemBlock,
              SemPost, SemGive, SemWake
  <1>1. CASE Call(p)
    BY <1>1, SMT DEF Call
  <1>2. CASE EnterMutex(p)
    BY <1>2, SMT DEF EnterMutex
  <1>3. CASE EnterRoom1(p)
    BY <1>3, SMT DEF EnterRoom1
  <1>4. CASE EnterRelease(p)
    BY <1>4, SMT DEF EnterRelease
  <1>5. CASE WaitT1(p)
    <2>1. CASE SemTake(p, "t1", "wait_t1", "enter_room2")
      <3>1. sem["t1"] + sem["t2"] = 1 /\ sem'["t1"] + sem'["t2"] = 0
        BY <2>1, SMT
      <3>2. pc'[p] \in WithBaton /\ \A q \in Thread : q # p => pc'[q] = pc[q]
        BY <2>1, SMT
      <3>3. MutexHeld'
        <4>1. pc[p] \notin WithMutex /\ pc'[p] \notin WithMutex
          BY <2>1, SMT
        <4>2. sem'["mutex"] = sem["mutex"]
          BY <2>1, SMT
        <4> HIDE DEF WithMutex
        <4> QED BY <3>2, <4>1, <4>2, SMT
      <3>4. \A q \in Thread : pc[q] \notin WithBaton
        BY <3>1
      <3>5. \A q \in Thread : pc'[q] \in WithBaton <=> q = p
        BY <3>2, <3>4
      <3>6. BatonHeld'
        <4> HIDE DEF WithBaton
        <4> QED BY <3>1, <3>5, SMT
      <3> QED BY <3>3, <3>6
    <2>2. CASE SemBlock(p, "t1", "wait_t1")
      BY <2>2, SMT
    <2> QED BY <1>5, <2>1, <2>2, SMT DEF WaitT1
  <1>6. CASE EnterRoom2(p)
    BY <1>6, SMT DEF EnterRoom2
  <1>7. CASE LeaveMutex(p)
    BY <1>7, SMT DEF LeaveMutex
  <1>8. CASE LeaveRoom1(p)
    BY <1>8, SMT DEF LeaveRoom1
  <1>9. CASE LeaveTest(p)
    BY <1>9, SMT DEF LeaveTest
  <1>10. CASE LastRelease(p)
    BY <1>10, SMT DEF LastRelease
  <1>11. CASE OpenT2(p)
    BY <1>11, SMT DEF OpenT2
  <1>12. CASE MoreRelease(p)
    BY <1>12, SMT DEF MoreRelease
  <1>13. CASE OpenT1(p)
    BY <1>13, SMT DEF OpenT1
  <1>14. CASE WaitT2(p)
    <2>1. CASE SemTake(p, "t2", "wait_t2", "leave_room2")
      <3>1. sem["t1"] + sem["t2"] = 1 /\ sem'["t1"] + sem'["t2"] = 0
        BY <2>1, SMT
      <3>2. pc'[p] \in WithBaton /\ \A q \in Thread : q # p => pc'[q] = pc[q]
        BY <2>1, SMT
      <3>3. MutexHeld'
        <4>1. pc[p] \notin WithMutex /\ pc'[p] \notin WithMutex
          BY <2>1, SMT
        <4>2. sem'["mutex"] = sem["mutex"]
          BY <2>1, SMT
        <4> HIDE DEF WithMutex
        <4> QED BY <3>2, <4>1, <4>2, SMT
      <3>4. \A q \in Thread : pc[q] \notin WithBaton
        BY <3>1
      <3>5. \A q \in Thread : pc'[q] \in WithBaton <=> q = p
        BY <3>2, <3>4
      <3>6. BatonHeld'
        <4> HIDE DEF WithBaton
        <4> QED BY <3>1, <3>5, SMT
      <3> QED BY <3>3, <3>6
    <2>2. CASE SemBlock(p, "t2", "wait_t2")
      BY <2>2, SMT
    <2> QED BY <1>14, <2>1, <2>2, SMT DEF WaitT2
  <1>15. CASE LeaveRoom2(p)
    BY <1>15, SMT DEF LeaveRoom2
  <1>16. CASE Critical(p)
    BY <1>16, SMT DEF Critical
  <1>17. CASE Unlock(p)
    BY <1>17, SMT DEF Unlock
  <1> QED BY <1>1, <1>2, <1>3, <1>4, <1>5, <1>6, <1>7, <1>8, <1>9, <1>10, <1>11, <1>12, <1>13, <1>14, <1>15, <1>16, <1>17 DEF Lock

THEOREM Inductive == IInv /\ [Next]_vars => IInv'
  <1> SUFFICES ASSUME IInv, [Next]_vars PROVE IInv'
    OBVIOUS
  <1>1. CASE UNCHANGED vars
    BY <1>1, SMT DEF vars, IInv, TypeOK, MutexHeld, BatonHeld, OneBaton
  <1>2. CASE Next
    BY <1>2, StepTypes, StepHeld DEF Next, IInv
  <1> QED BY <1>1, <1>2

THEOREM InvariantHolds == Spec => []IInv
  BY InitIInv, Inductive, PTL DEF Spec

(* Type correctness, with the discipline of the wait queues.               *)
THEOREM TypeCorrect == Spec => []TypeOK
  <1>1. IInv => TypeOK
    BY DEF IInv
  <1> QED BY <1>1, InvariantHolds, PTL

(* lock_Two_rooms ... unlock_Two_rooms is a mutual exclusion lock for any  *)
(* number of threads.                                                      *)
THEOREM MutuallyExclusive == Spec => []MutualExclusion
  <1>1. IInv => MutualExclusion
    BY SMT DEF IInv, BatonHeld, MutualExclusion, Inside, WithBaton
  <1> QED BY <1>1, InvariantHolds, PTL

(* The lock's own counters are never accessed by two threads at once.      *)
THEOREM RaceFree == Spec => []CounterRaceFree
  <1>1. IInv => CounterRaceFree
    BY SMT DEF IInv, MutexHeld, BatonHeld, CounterRaceFree, WithMutex, WithBaton
  <1> QED BY <1>1, InvariantHolds, PTL

(* The turnstiles never lose or duplicate their unit.                      *)
THEOREM BatonKept == Spec => []OneBaton
  <1>1. IInv => OneBaton
    BY DEF IInv, BatonHeld
  <1> QED BY <1>1, InvariantHolds, PTL

-----------------------------------------------------------------------------
(* Refinement: each step of the lock is a step of the abstract lock, or    *)
(* leaves it alone.                                                        *)

(* The statements of lock_Two_rooms.                                       *)
Locking == Locations \ ({"out"} \cup Inside)

LEMMA LockingPhase == \A l \in Locking : PhaseAt(l) = <<"wants", "write">>
  BY DEF Locking, PhaseAt

(* Every other statement of lock_Two_rooms leaves all phases as they are,  *)
(* those of the threads it wakes included.                                 *)
LEMMA StepKeepsPhase ==
  ASSUME IInv, NEW p \in Thread, Lock(p), ~ LeaveRoom2(p)
  PROVE  UNCHANGED phaseBar
  <1> DEFINE Keeps(q) == pc'[q] = pc[q] \/ (pc[q] \in Locking /\ pc'[q] \in Locking)
  <1> SUFFICES \A q \in Thread : Keeps(q)
    BY LockingPhase DEF phaseBar
  <1> USE DEF Locking, Locations, WithMutex, WithBaton, Inside, WaitsAt, Resume, Sems,
              IInv, TypeOK, Goto, SemWait, SemTake, SemBlock, SemPost, SemGive, SemWake
  <1>1. CASE EnterMutex(p)
    BY <1>1, SMT DEF EnterMutex
  <1>2. CASE EnterRoom1(p)
    BY <1>2, SMT DEF EnterRoom1
  <1>3. CASE EnterRelease(p)
    BY <1>3, SMT DEF EnterRelease
  <1>4. CASE WaitT1(p)
    BY <1>4, SMT DEF WaitT1
  <1>5. CASE EnterRoom2(p)
    BY <1>5, SMT DEF EnterRoom2
  <1>6. CASE LeaveMutex(p)
    BY <1>6, SMT DEF LeaveMutex
  <1>7. CASE LeaveRoom1(p)
    BY <1>7, SMT DEF LeaveRoom1
  <1>8. CASE LeaveTest(p)
    BY <1>8, SMT DEF LeaveTest
  <1>9. CASE LastRelease(p)
    BY <1>9, SMT DEF LastRelease
  <1>10. CASE OpenT2(p)
    BY <1>10, SMT DEF OpenT2
  <1>11. CASE MoreRelease(p)
    BY <1>11, SMT DEF MoreRelease
  <1>12. CASE OpenT1(p)
    BY <1>12, SMT DEF OpenT1
  <1>13. CASE WaitT2(p)
    BY <1>13, SMT DEF WaitT2
  <1> QED BY <1>1, <1>2, <1>3, <1>4, <1>5, <1>6, <1>7, <1>8, <1>9, <1>10, <1>11, <1>12, <1>13 DEF Lock

(* LeaveRoom2 gives the lock to a thread, and nobody has it then.          *)
LEMMA LeaveRoom2Acquires ==
  ASSUME IInv, NEW p \in Thread, LeaveRoom2(p)
  PROVE  Exclusive!Acquire(p, "write")
  <1>1. pc' = [pc EXCEPT ![p] = "critical"] /\ pc[p] = "leave_room2"
    BY DEF LeaveRoom2, Goto
  <1>2. \A q \in Thread : pc[q] \notin Inside
    BY <1>1, SMT DEF IInv, BatonHeld, WithBaton, Inside
  <1>3. \A q \in Thread : phaseBar[q] # <<"has", "write">>
    BY <1>2 DEF phaseBar, PhaseAt
  <1>4. phaseBar[p] = <<"wants", "write">>
    BY <1>1 DEF phaseBar, PhaseAt, Inside
  <1>5. phaseBar' = [phaseBar EXCEPT ![p] = <<"has", "write">>]
    <2>1. pc'[p] = "critical" /\ \A q \in Thread \ {p} : pc'[q] = pc[q]
      BY <1>1, SMT DEF IInv, TypeOK
    <2> QED BY <2>1 DEF phaseBar, PhaseAt, Inside
  <1> QED BY <1>3, <1>4, <1>5 DEF Exclusive!Acquire

LEMMA UnlockReleases ==
  ASSUME IInv, NEW p \in Thread, Unlock(p)
  PROVE  Exclusive!Release(p, "write")
  <1>1. pc[p] = "unlock" /\ pc'[p] = "out"
    BY SMT DEF Unlock, SemPost, SemGive, SemWake, Goto, IInv, TypeOK, Sems, WaitsAt
  <1>2. \A q \in Thread \ {p} : PhaseAt(pc'[q]) = PhaseAt(pc[q])
    BY SMT DEF Unlock, SemPost, SemGive, SemWake, Goto, IInv, TypeOK, Sems, WaitsAt,
               Resume, PhaseAt, Inside
  <1>3. phaseBar[p] = <<"has", "write">>
    BY <1>1 DEF phaseBar, PhaseAt, Inside
  <1>4. phaseBar' = [phaseBar EXCEPT ![p] = <<"idle">>]
    BY <1>1, <1>2 DEF phaseBar, PhaseAt
  <1> QED BY <1>3, <1>4 DEF Exclusive!Release

LEMMA CallRequests ==
  ASSUME IInv, NEW p \in Thread, Call(p)
  PROVE  Exclusive!Request(p, "write")
  <1>1. pc[p] = "out" /\ pc' = [pc EXCEPT ![p] = "enter_mutex"]
    BY DEF Call, Goto
  <1>2. phaseBar' = [phaseBar EXCEPT ![p] = <<"wants", "write">>]
    <2>1. pc'[p] = "enter_mutex" /\ \A q \in Thread \ {p} : pc'[q] = pc[q]
      BY <1>1, SMT DEF IInv, TypeOK
    <2> QED BY <2>1 DEF phaseBar, PhaseAt, Inside
  <1>3. phaseBar[p] = <<"idle">>
    BY <1>1 DEF phaseBar, PhaseAt
  <1> QED BY <1>2, <1>3 DEF Exclusive!Request

LEMMA CriticalStutters ==
  ASSUME IInv, NEW p \in Thread, Critical(p)
  PROVE  UNCHANGED phaseBar
  BY SMT DEF Critical, Goto, phaseBar, PhaseAt, Inside, IInv, TypeOK

LEMMA StepRefines ==
  ASSUME IInv, [Next]_vars
  PROVE  [Exclusive!Next]_phaseBar
  <1>1. CASE UNCHANGED vars
    BY <1>1 DEF vars, phaseBar
  <1>2. ASSUME NEW p \in Thread, Call(p) \/ Lock(p) \/ Critical(p) \/ Unlock(p)
        PROVE  Exclusive!Next \/ UNCHANGED phaseBar
    BY <1>2, CallRequests, StepKeepsPhase, LeaveRoom2Acquires, CriticalStutters,
       UnlockReleases DEF Exclusive!Next
  <1> QED BY <1>1, <1>2 DEF Next

(* The lock implements the abstract exclusive lock.                        *)
THEOREM Refinement == Spec => ImplementsExclusiveLock
  <1>1. Init => Exclusive!Init
    BY DEF Init, Exclusive!Init, phaseBar, PhaseAt
  <1> QED BY <1>1, StepRefines, InvariantHolds, PTL
          DEF Spec, ImplementsExclusiveLock, Exclusive!Spec
-----------------------------------------------------------------------------
(* Bounded waiting.  A thread is in room 1 from its increment of room1 to  *)
(* its decrement, and in room 2 likewise.  The baton fills room 2 from     *)
(* room 1, or lets the threads of room 2 take the lock: it drains it.      *)

InRoom1 == {"enter_release", "wait_t1", "enter_room2", "leave_mutex", "leave_room1"}
InRoom2 == {"leave_mutex", "leave_room1", "leave_test", "last_release", "open_t2",
            "more_release", "open_t1", "wait_t2", "leave_room2"}
DrainsAt == {"last_release", "open_t2", "leave_room2", "critical", "unlock"}
FillsAt == WithBaton \ DrainsAt

Room1 == {p \in Thread : pc[p] \in InRoom1}
Room2 == {p \in Thread : pc[p] \in InRoom2}
Draining == sem["t2"] = 1 \/ \E p \in Thread : pc[p] \in DrainsAt

LEMMA WhoFills ==
  ASSUME IInv, NEW p \in Thread, pc[p] \in FillsAt
  PROVE  ~ Draining
  BY SMT DEF IInv, TypeOK, BatonHeld, OneBaton, Draining, FillsAt, DrainsAt, WithBaton, Sems

LEMMA WhoFillsNext ==
  ASSUME IInv', NEW p \in Thread, pc'[p] \in FillsAt
  PROVE  ~ Draining'
  BY SMT DEF IInv, TypeOK, BatonHeld, OneBaton, Draining, FillsAt, DrainsAt, WithBaton, Sems

(* Which threads go where, and what the baton does, in each step.          *)
SameRooms == UNCHANGED <<Room1, Room2, rooms>>
NobodyTakes == \A q \in Thread : ~ Takes(q)

StepOf(p) ==
  \/ /\ SameRooms /\ NobodyTakes /\ Draining' = Draining
  \/ /\ Room1' = Room1 \cup {p} /\ p \notin Room1 \cup Room2 /\ room1' = room1 + 1
     /\ UNCHANGED <<Room2, room2>> /\ NobodyTakes /\ Draining' = Draining
  \/ /\ Room2' = Room2 \cup {p} /\ p \notin Room2 /\ p \in Room1 /\ room2' = room2 + 1
     /\ UNCHANGED <<Room1, room1>> /\ NobodyTakes /\ ~ Draining /\ ~ Draining'
  \/ /\ Room1' = Room1 \ {p} /\ p \in Room1 \cap Room2 /\ room1' = room1 - 1
     /\ UNCHANGED <<Room2, room2>> /\ NobodyTakes /\ ~ Draining /\ ~ Draining'
  \/ /\ SameRooms /\ NobodyTakes /\ ~ Draining /\ Draining' /\ room1 = 0
  \/ /\ SameRooms /\ NobodyTakes /\ Draining /\ ~ Draining' /\ room2 = 0
  \/ /\ Room2' = Room2 \ {p} /\ p \in Room2 /\ room2' = room2 - 1
     /\ UNCHANGED <<Room1, room1>> /\ Draining /\ Draining'
     /\ \A q \in Thread : Takes(q) <=> q = p

LEMMA StayingStep ==
  ASSUME NEW p, SameRooms, NobodyTakes, Draining' = Draining
  PROVE  StepOf(p)
  BY DEF StepOf

LEMMA FillingStep ==
  ASSUME NEW p, SameRooms, NobodyTakes, ~ Draining, ~ Draining'
  PROVE  StepOf(p)
  <1>1. Draining' = Draining
    BY SMT DEF Draining
  <1> QED BY <1>1, StayingStep

LEMMA DrainingStep ==
  ASSUME NEW p, SameRooms, NobodyTakes, Draining, Draining'
  PROVE  StepOf(p)
  <1>1. Draining' = Draining
    BY SMT DEF Draining
  <1> QED BY <1>1, StayingStep

LEMMA StepIsOne ==
  ASSUME IInv, IInv', NEW p \in Thread, Call(p) \/ Lock(p) \/ Critical(p) \/ Unlock(p)
  PROVE  StepOf(p)
  <1> USE DEF SameRooms, NobodyTakes, Takes, Room1, Room2, InRoom1, InRoom2,
              WaitsAt, Resume, Sems, Goto, sems, rooms, IInv, TypeOK,
              SemWait, SemTake, SemBlock, SemPost, SemGive, SemWake
  <1>1. CASE Call(p)
    <2>1. Draining' = Draining
      BY <1>1 DEF Call, Draining, DrainsAt
    <2>2. SameRooms /\ NobodyTakes
      BY <1>1 DEF Call
    <2> QED BY <2>1, <2>2 DEF StepOf
  <1>2. CASE EnterMutex(p)
    <2>1. Draining' = Draining
      BY <1>2 DEF EnterMutex, Draining, DrainsAt
    <2>2. SameRooms /\ NobodyTakes
      BY <1>2 DEF EnterMutex
    <2> QED BY <2>1, <2>2 DEF StepOf
  <1>3. CASE EnterRoom1(p)
    <2>1. Draining' = Draining
      BY <1>3 DEF EnterRoom1, Draining, DrainsAt
    <2>2. /\ Room1' = Room1 \cup {p} /\ p \notin Room1 \cup Room2 /\ room1' = room1 + 1
          /\ UNCHANGED <<Room2, room2>> /\ NobodyTakes
      BY <1>3 DEF EnterRoom1
    <2> QED BY <2>1, <2>2 DEF StepOf
  <1>4. CASE EnterRelease(p)
    <2>1. Draining' = Draining
      BY <1>4 DEF EnterRelease, Draining, DrainsAt
    <2>2. SameRooms /\ NobodyTakes
      BY <1>4 DEF EnterRelease
    <2> QED BY <2>1, <2>2 DEF StepOf
  <1>5. CASE WaitT1(p)
    <2>1. SameRooms /\ NobodyTakes
      BY <1>5 DEF WaitT1
    <2>2. Draining' = Draining
      BY <1>5 DEF WaitT1, Draining, DrainsAt
    <2> QED BY <2>1, <2>2 DEF StepOf
  <1>6. CASE EnterRoom2(p)
    <2>1. pc[p] \in FillsAt /\ pc'[p] \in FillsAt
      BY <1>6 DEF EnterRoom2, FillsAt, DrainsAt, WithBaton
    <2>2. ~ Draining /\ ~ Draining'
      BY <2>1, WhoFills, WhoFillsNext
    <2>3. /\ Room2' = Room2 \cup {p} /\ p \notin Room2 /\ p \in Room1 /\ room2' = room2 + 1
          /\ UNCHANGED <<Room1, room1>> /\ NobodyTakes
      BY <1>6 DEF EnterRoom2
    <2> QED BY <2>2, <2>3 DEF StepOf
  <1>7. CASE LeaveMutex(p)
    <2>1. Draining' = Draining
      BY <1>7 DEF LeaveMutex, Draining, DrainsAt
    <2>2. SameRooms /\ NobodyTakes
      BY <1>7 DEF LeaveMutex
    <2> QED BY <2>1, <2>2 DEF StepOf
  <1>8. CASE LeaveRoom1(p)
    <2>1. pc[p] \in FillsAt /\ pc'[p] \in FillsAt
      BY <1>8 DEF LeaveRoom1, FillsAt, DrainsAt, WithBaton
    <2>2. ~ Draining /\ ~ Draining'
      BY <2>1, WhoFills, WhoFillsNext
    <2>3. /\ Room1' = Room1 \ {p} /\ p \in Room1 \cap Room2 /\ room1' = room1 - 1
          /\ UNCHANGED <<Room2, room2>> /\ NobodyTakes
      BY <1>8 DEF LeaveRoom1
    <2> QED BY <2>2, <2>3 DEF StepOf
  <1>9. CASE LeaveTest(p)
    <2>1. SameRooms /\ NobodyTakes
      BY <1>9 DEF LeaveTest
    <2>2. ~ Draining
      <3>1. pc[p] \in FillsAt
        BY <1>9 DEF LeaveTest, FillsAt, DrainsAt, WithBaton
      <3> QED BY <3>1, WhoFills
    <2>3. CASE room1 = 0
      <3>1. Draining'
        BY <1>9, <2>3 DEF LeaveTest, Draining, DrainsAt
      <3> QED BY <2>1, <2>2, <2>3, <3>1 DEF StepOf
    <2>4. CASE room1 # 0
      <3>1. pc'[p] \in FillsAt
        BY <1>9, <2>4 DEF LeaveTest, FillsAt, DrainsAt, WithBaton
      <3>2. ~ Draining'
        BY <3>1, WhoFillsNext
      <3> QED BY <2>1, <2>2, <3>2, FillingStep
    <2> QED BY <2>3, <2>4
  <1>10. CASE LastRelease(p)
    <2>1. Draining /\ Draining'
      BY <1>10 DEF LastRelease, Draining, DrainsAt
    <2>2. SameRooms /\ NobodyTakes
      BY <1>10 DEF LastRelease
    <2> QED BY <2>1, <2>2, DrainingStep
  <1>11. CASE OpenT2(p)
    <2>1. Draining /\ Draining'
      BY <1>11 DEF OpenT2, Draining, DrainsAt, BatonHeld, OneBaton, WithBaton
    <2>2. SameRooms /\ NobodyTakes
      BY <1>11 DEF OpenT2
    <2> QED BY <2>1, <2>2, DrainingStep
  <1>12. CASE MoreRelease(p)
    <2>1. pc[p] \in FillsAt /\ \E q \in Thread : pc'[q] \in FillsAt
      BY <1>12 DEF MoreRelease, FillsAt, DrainsAt, WithBaton
    <2>2. ~ Draining /\ ~ Draining'
      BY <2>1, WhoFills, WhoFillsNext
    <2>3. SameRooms /\ NobodyTakes
      BY <1>12 DEF MoreRelease
    <2> QED BY <2>2, <2>3, FillingStep
  <1>13. CASE OpenT1(p)
    <2>1. SameRooms /\ NobodyTakes
      BY <1>13 DEF OpenT1
    <2>2. ~ Draining
      <3>1. pc[p] \in FillsAt
        BY <1>13 DEF OpenT1, FillsAt, DrainsAt, WithBaton
      <3> QED BY <3>1, WhoFills
    <2>3. ~ Draining'
      BY <1>13, <2>2 DEF OpenT1, Draining, DrainsAt
    <2> QED BY <2>1, <2>2, <2>3, FillingStep
  <1>14. CASE WaitT2(p)
    <2>1. SameRooms /\ NobodyTakes
      BY <1>14 DEF WaitT2
    <2>2. Draining' = Draining
      BY <1>14 DEF WaitT2, Draining, DrainsAt, BatonHeld, OneBaton
    <2> QED BY <2>1, <2>2 DEF StepOf
  <1>15. CASE LeaveRoom2(p)
    <2>1. Draining /\ Draining'
      BY <1>15 DEF LeaveRoom2, Draining, DrainsAt
    <2>2. /\ Room2' = Room2 \ {p} /\ p \in Room2 /\ room2' = room2 - 1
          /\ UNCHANGED <<Room1, room1>>
          /\ \A q \in Thread : Takes(q) <=> q = p
      BY <1>15 DEF LeaveRoom2
    <2> QED BY <2>1, <2>2 DEF StepOf
  <1>16. CASE Critical(p)
    <2>1. Draining /\ Draining'
      BY <1>16 DEF Critical, Draining, DrainsAt
    <2>2. SameRooms /\ NobodyTakes
      BY <1>16 DEF Critical
    <2> QED BY <2>1, <2>2, DrainingStep
  <1>17. CASE Unlock(p)
    <2>1. SameRooms /\ NobodyTakes
      BY <1>17 DEF Unlock
    <2>2. Draining
      BY <1>17 DEF Unlock, SemPost, SemGive, SemWake, Draining, DrainsAt
    <2>3. CASE room2 = 0
      <3>1. CASE Draining'
        BY <2>1, <2>2, <3>1 DEF StepOf
      <3>2. CASE ~ Draining'
        BY <2>1, <2>2, <2>3, <3>2 DEF StepOf
      <3> QED BY <3>1, <3>2
    <2>4. CASE room2 # 0
      <3>1. Draining'
        BY <1>17, <2>4 DEF Unlock, Draining, DrainsAt, BatonHeld, OneBaton
      <3> QED BY <2>1, <2>2, <3>1 DEF StepOf
    <2> QED BY <2>3, <2>4
  <1> QED BY <1>1, <1>2, <1>3, <1>4, <1>5, <1>6, <1>7, <1>8, <1>9, <1>10, <1>11, <1>12, <1>13, <1>14, <1>15, <1>16, <1>17 DEF Lock

-----------------------------------------------------------------------------
(* room1 and room2 count the threads of their rooms, so that the thread    *)
(* that reads 0 in one of them knows it empty.                             *)
Counts ==
  /\ IsFiniteSet(Room1) /\ room1 = Cardinality(Room1)
  /\ IsFiniteSet(Room2) /\ room2 = Cardinality(Room2)

LEMMA InitCounts == Init => Counts
  <1> SUFFICES ASSUME Init PROVE Counts
    OBVIOUS
  <1>1. Room1 = {} /\ Room2 = {}
    BY DEF Init, Room1, Room2, InRoom1, InRoom2
  <1>2. room1 = 0 /\ room2 = 0
    BY DEF Init
  <1> QED BY <1>1, <1>2, FS_EmptySet DEF Counts

LEMMA StepCounts ==
  ASSUME Counts, NEW p \in Thread, StepOf(p)
  PROVE  Counts'
  <1>1. CASE SameRooms
    BY <1>1 DEF SameRooms, Counts, rooms
  <1>2. CASE /\ Room1' = Room1 \cup {p} /\ p \notin Room1 \cup Room2 /\ room1' = room1 + 1
             /\ UNCHANGED <<Room2, room2>>
    BY <1>2, FS_AddElement DEF Counts
  <1>3. CASE /\ Room2' = Room2 \cup {p} /\ p \notin Room2 /\ room2' = room2 + 1
             /\ UNCHANGED <<Room1, room1>>
    BY <1>3, FS_AddElement DEF Counts
  <1>4. CASE /\ Room1' = Room1 \ {p} /\ p \in Room1 \cap Room2 /\ room1' = room1 - 1
             /\ UNCHANGED <<Room2, room2>>
    BY <1>4, FS_RemoveElement DEF Counts
  <1>5. CASE /\ Room2' = Room2 \ {p} /\ p \in Room2 /\ room2' = room2 - 1
             /\ UNCHANGED <<Room1, room1>>
    BY <1>5, FS_RemoveElement DEF Counts
  <1> QED BY <1>1, <1>2, <1>3, <1>4, <1>5 DEF StepOf

LEMMA EmptyRooms ==
  ASSUME Counts
  PROVE  /\ room1 = 0 => Room1 = {}
         /\ room2 = 0 => Room2 = {}
  BY FS_EmptySet DEF Counts

LEMMA CountedInRooms ==
  ASSUME IInv, NEW p \in Thread
  PROVE  Counted(p) <=> p \in Room1 \cup Room2
  <1>1. pc[p] \in Locations
    BY DEF IInv, TypeOK
  <1> QED BY <1>1 DEF Counted, Room1, Room2, InRoom1, InRoom2, Locations, WithMutex, WithBaton

(* How often q may have taken the lock since p counted itself into room1:  *)
(* twice in all, once while room 2 fills, as often again from the batch    *)
(* that is draining, which q leaves by taking the lock and cannot rejoin   *)
(* before p has been let into room 2.                                      *)
Overtakes(p, q) ==
  /\ bypass[p][q] \in 0..2
  /\ p = q => bypass[p][q] = 0
  /\ p \in Room1 => bypass[p][q] <= 1
  /\ p \in Room1 \cup Room2 /\ ~ Draining => bypass[p][q] <= 1
  /\ p \in Room1 \cup Room2 /\ q \in Room2 => bypass[p][q] <= 1
  /\ p \in Room1 /\ q \in Room2 /\ Draining => bypass[p][q] = 0

BypassInv == IInv /\ Counts /\ \A p, q \in Thread : Overtakes(p, q)

(* The history of one pair of threads in one step.                         *)
LEMMA BypassStep ==
  ASSUME MCNext, NEW p \in Thread, NEW q \in Thread
  PROVE  /\ ~ Counted(p) => bypass'[p][q] = 0
         /\ Counted(p) /\ (~ Takes(q) \/ p = q) => bypass'[p][q] = bypass[p][q]
         /\ Counted(p) /\ Takes(q) /\ p # q => bypass'[p][q] = bypass[p][q] + 1
  BY DEF MCNext

LEMMA StepOvertakes ==
  ASSUME BypassInv, IInv', MCNext, NEW t \in Thread, StepOf(t),
         NEW p \in Thread, NEW q \in Thread
  PROVE  Overtakes(p, q)'
  <1>1. Overtakes(p, q)
    BY DEF BypassInv
  <1>2. Counted(p) <=> p \in Room1 \cup Room2
    BY CountedInRooms DEF BypassInv
  <1>3. /\ room1 = 0 => Room1 = {}
        /\ room2 = 0 => Room2 = {}
    BY EmptyRooms DEF BypassInv
  <1>4. CASE NobodyTakes
    <2>1. \/ bypass'[p][q] = bypass[p][q] /\ p \in Room1 \cup Room2
          \/ bypass'[p][q] = 0
      BY <1>2, <1>4, BypassStep DEF NobodyTakes
    <2>2. CASE bypass'[p][q] = 0
      BY <2>2 DEF Overtakes
    <2>3. CASE bypass'[p][q] = bypass[p][q] /\ p \in Room1 \cup Room2
      <3>1. CASE SameRooms /\ Draining' = Draining
        BY <1>1, <2>3, <3>1 DEF SameRooms, Overtakes
      <3>2. CASE /\ Room1' = Room1 \cup {t} /\ t \notin Room1 \cup Room2
                 /\ Room2' = Room2 /\ Draining' = Draining
        BY <1>1, <2>3, <3>2 DEF Overtakes
      <3>3. CASE ~ Draining /\ ~ Draining'
        BY <1>1, <2>3, <3>3 DEF Overtakes
      <3>4. CASE SameRooms /\ ~ Draining /\ Draining' /\ room1 = 0
        BY <1>1, <1>3, <2>3, <3>4 DEF SameRooms, Overtakes
      <3>5. CASE SameRooms /\ Draining /\ ~ Draining' /\ room2 = 0
        BY <1>1, <1>3, <2>3, <3>5 DEF SameRooms, Overtakes
      <3> QED BY <1>4, <3>1, <3>2, <3>3, <3>4, <3>5 DEF StepOf, NobodyTakes
    <2> QED BY <2>1, <2>2, <2>3
  <1>5. CASE /\ Room2' = Room2 \ {t} /\ t \in Room2 /\ Room1' = Room1
             /\ Draining /\ Draining' /\ \A r \in Thread : Takes(r) <=> r = t
    <2>1. CASE ~ Counted(p)
      <3>1. bypass'[p][q] = 0
        BY <2>1, BypassStep
      <3> QED BY <3>1 DEF Overtakes
    <2>2. CASE Counted(p) /\ (q # t \/ p = q)
      <3>1. bypass'[p][q] = bypass[p][q]
        BY <1>5, <2>2, BypassStep
      <3> QED BY <1>1, <1>5, <3>1 DEF Overtakes
    <2>3. CASE Counted(p) /\ q = t /\ p # q
      <3>1. bypass'[p][q] = bypass[p][q] + 1
        BY <1>5, <2>3, BypassStep
      <3> QED BY <1>1, <1>2, <1>5, <2>3, <3>1 DEF Overtakes
    <2> QED BY <2>1, <2>2, <2>3
  <1> QED BY <1>4, <1>5 DEF StepOf

LEMMA InitBypassInv == MCInit => BypassInv
  BY InitIInv, InitCounts DEF MCInit, BypassInv, Overtakes

LEMMA BypassInductive == BypassInv /\ [MCNext]_mcVars => BypassInv'
  <1> SUFFICES ASSUME BypassInv, [MCNext]_mcVars PROVE BypassInv'
    OBVIOUS
  <1>1. IInv'
    BY Inductive DEF BypassInv, MCNext, mcVars
  <1>2. CASE UNCHANGED mcVars
    BY <1>1, <1>2 DEF mcVars, vars, BypassInv, Counts, Overtakes, Room1, Room2, Draining
  <1>3. CASE MCNext
    <2>1. PICK t \in Thread : Call(t) \/ Lock(t) \/ Critical(t) \/ Unlock(t)
      BY <1>3 DEF MCNext, Next
    <2>2. StepOf(t)
      BY <1>1, <2>1, StepIsOne DEF BypassInv
    <2>3. Counts'
      BY <2>2, StepCounts DEF BypassInv
    <2>4. \A p, q \in Thread : Overtakes(p, q)'
      BY <1>1, <1>3, <2>2, StepOvertakes
    <2> QED BY <1>1, <2>3, <2>4 DEF BypassInv
  <1> QED BY <1>2, <1>3

(* No thread that has counted itself into room1 sees another one take the  *)
(* lock three times before it does.                                        *)
THEOREM BypassBounded == MCSpec => []BoundedBypass
  <1>1. BypassInv => BoundedBypass
    BY DEF BypassInv, Overtakes, BoundedBypass
  <1> QED BY <1>1, InitBypassInv, BypassInductive, PTL DEF MCSpec
-----------------------------------------------------------------------------
(* No deadlock.                                                            *)

(* What an open turnstile says of the rooms, and a thread that is going to *)
(* open t1 because it was not the last one in room 1.                      *)
Turnstiles ==
  /\ sem["t2"] = 1 => Room2 # {}
  /\ sem["t1"] = 1 => Room2 = {} \/ Room1 # {}
  /\ \A p \in Thread : pc[p] \in {"more_release", "open_t1"} => Room1 # {}

(* The inductive invariant: the tokens say that somebody waits at an open  *)
(* turnstile only together with who is in which room.                      *)
RoomsInv == IInv /\ Counts /\ Turnstiles

LEMMA InitRooms == Init => RoomsInv
  <1> SUFFICES ASSUME Init PROVE RoomsInv
    OBVIOUS
  <1>1. Room2 = {}
    BY DEF Init, Room2, InRoom2
  <1> QED BY <1>1, InitIInv, InitCounts DEF Init, RoomsInv, Turnstiles

(* How a step opens a turnstile, and which steps empty a room: those that  *)
(* hold the baton before and after.                                        *)
Opens(p) ==
  /\ sem'["t2"] = 1 => \/ sem["t2"] = 1 \/ pc[p] = "open_t2"
                       \/ (pc[p] = "unlock" /\ room2 # 0)
  /\ sem'["t1"] = 1 => \/ sem["t1"] = 1 \/ pc[p] = "open_t1"
                       \/ (pc[p] = "unlock" /\ room2 = 0)
  /\ \A q \in Thread : pc'[q] \in {"more_release", "open_t1"} =>
       pc[q] \in {"more_release", "open_t1"} \/ (pc[q] = "leave_test" /\ room1 # 0)

Moves(p) ==
  \/ Room1 \subseteq Room1' /\ Room2' = Room2
  \/ pc'[p] \in {"leave_mutex", "leave_test", "critical"}

LEMMA StepOpens ==
  ASSUME IInv, NEW p \in Thread, Call(p) \/ Lock(p) \/ Critical(p) \/ Unlock(p)
  PROVE  Opens(p) /\ Moves(p)
  <1> USE DEF Opens, Moves, Room1, Room2, InRoom1, InRoom2, WaitsAt, Resume, Sems,
              Goto, sems, rooms, IInv, TypeOK, BatonHeld, OneBaton, WithBaton,
              SemWait, SemTake, SemBlock, SemPost, SemGive, SemWake
  <1>1. CASE Call(p)
    BY <1>1 DEF Call
  <1>2. CASE EnterMutex(p)
    BY <1>2 DEF EnterMutex
  <1>3. CASE EnterRoom1(p)
    BY <1>3 DEF EnterRoom1
  <1>4. CASE EnterRelease(p)
    BY <1>4 DEF EnterRelease
  <1>5. CASE WaitT1(p)
    BY <1>5 DEF WaitT1
  <1>6. CASE EnterRoom2(p)
    BY <1>6 DEF EnterRoom2
  <1>7. CASE LeaveMutex(p)
    BY <1>7 DEF LeaveMutex
  <1>8. CASE LeaveRoom1(p)
    BY <1>8 DEF LeaveRoom1
  <1>9. CASE LeaveTest(p)
    BY <1>9 DEF LeaveTest
  <1>10. CASE LastRelease(p)
    BY <1>10 DEF LastRelease
  <1>11. CASE OpenT2(p)
    BY <1>11 DEF OpenT2
  <1>12. CASE MoreRelease(p)
    BY <1>12 DEF MoreRelease
  <1>13. CASE OpenT1(p)
    BY <1>13 DEF OpenT1
  <1>14. CASE WaitT2(p)
    BY <1>14 DEF WaitT2
  <1>15. CASE LeaveRoom2(p)
    BY <1>15 DEF LeaveRoom2
  <1>16. CASE Critical(p)
    BY <1>16 DEF Critical
  <1>17. CASE Unlock(p)
    BY <1>17 DEF Unlock
  <1> QED BY <1>1, <1>2, <1>3, <1>4, <1>5, <1>6, <1>7, <1>8, <1>9, <1>10, <1>11, <1>12, <1>13, <1>14, <1>15, <1>16, <1>17 DEF Lock

LEMMA StepTurnstiles ==
  ASSUME RoomsInv, NEW p \in Thread, Opens(p), Moves(p), IInv', Counts'
  PROVE  Turnstiles'
  <1>1. room2 # 0 => Room2 # {}
    BY FS_EmptySet DEF RoomsInv, Counts
  <1>2. room1 # 0 => Room1 # {}
    BY FS_EmptySet DEF RoomsInv, Counts
  <1>3. room2 = 0 => Room2 = {}
    BY EmptyRooms DEF RoomsInv
  <1>4. CASE Room1 \subseteq Room1' /\ Room2' = Room2
    <2>1. sem'["t2"] = 1 => Room2' # {}
      <3>1. pc[p] = "open_t2" => p \in Room2
        BY DEF Room2, InRoom2
      <3> QED BY <1>1, <1>4, <3>1 DEF Opens, RoomsInv, Turnstiles
    <2>2. sem'["t1"] = 1 => Room2' = {} \/ Room1' # {}
      BY <1>3, <1>4 DEF Opens, RoomsInv, Turnstiles
    <2>3. \A q \in Thread : pc'[q] \in {"more_release", "open_t1"} => Room1' # {}
      BY <1>2, <1>4 DEF Opens, RoomsInv, Turnstiles
    <2> QED BY <2>1, <2>2, <2>3 DEF Turnstiles
  <1>5. CASE pc'[p] \in {"leave_mutex", "leave_test", "critical"}
    <2>1. pc'[p] \in WithBaton
      BY <1>5 DEF WithBaton
    <2>2. sem'["t1"] # 1 /\ sem'["t2"] # 1
      BY <2>1 DEF IInv, TypeOK, BatonHeld, OneBaton, Sems
    <2>3. \A q \in Thread : pc'[q] \notin {"more_release", "open_t1"}
      BY <1>5, <2>1 DEF IInv, BatonHeld, WithBaton
    <2> QED BY <2>2, <2>3 DEF Turnstiles
  <1> QED BY <1>4, <1>5 DEF Moves

LEMMA RoomsInductive == RoomsInv /\ [Next]_vars => RoomsInv'
  <1> SUFFICES ASSUME RoomsInv, [Next]_vars PROVE RoomsInv'
    OBVIOUS
  <1>1. IInv'
    BY Inductive DEF RoomsInv
  <1>2. CASE UNCHANGED vars
    BY <1>1, <1>2 DEF vars, RoomsInv, Counts, Turnstiles, Room1, Room2
  <1>3. CASE Next
    <2>1. PICK p \in Thread : Call(p) \/ Lock(p) \/ Critical(p) \/ Unlock(p)
      BY <1>3 DEF Next
    <2>2. Counts'
      BY <1>1, <2>1, StepIsOne, StepCounts DEF RoomsInv
    <2>3. Turnstiles'
      BY <1>1, <2>1, <2>2, StepOpens, StepTurnstiles DEF RoomsInv
    <2> QED BY <1>1, <2>2, <2>3 DEF RoomsInv
  <1> QED BY <1>2, <1>3, SMT DEF Sems

LEMMA SomebodyGoesOn == RoomsInv => NoDeadlock
  <1> SUFFICES ASSUME RoomsInv, NEW t \in Thread, pc[t] # "out",
                      \A p \in Thread : pc[p] = "out" \/ Blocked(p)
               PROVE  FALSE
    BY DEF NoDeadlock
  <1>1. /\ MutexHeld /\ BatonHeld /\ Turnstiles
        /\ sem["t1"] \in Nat /\ sem["t2"] \in Nat
    BY DEF RoomsInv, IInv, TypeOK, Sems
  <1>2. \A p \in Thread :
          \/ pc[p] = "out"
          \/ pc[p] \in {"enter_mutex", "leave_mutex"} /\ sem["mutex"] = 0
          \/ pc[p] = "wait_t1" /\ sem["t1"] = 0
          \/ pc[p] = "wait_t2" /\ sem["t2"] = 0
    BY DEF Blocked, WaitsAt, Sems
  <1>3. sem["mutex"] # 0
    BY <1>1, <1>2 DEF MutexHeld, WithMutex
  <1>4. \A p \in Thread : pc[p] \in {"out", "wait_t1", "wait_t2"}
    <2>1. ASSUME NEW p \in Thread PROVE pc[p] \in {"out", "wait_t1", "wait_t2"}
      <3>1. \/ pc[p] = "out" \/ sem["mutex"] = 0 \/ pc[p] = "wait_t1" \/ pc[p] = "wait_t2"
        BY <1>2
      <3> QED BY <1>3, <3>1
    <2> QED BY <2>1
  <1>5. sem["t1"] + sem["t2"] = 1
    BY <1>1, <1>4 DEF BatonHeld, OneBaton, WithBaton
  <1>6. CASE sem["t2"] = 1
    <2>1. PICK p \in Thread : pc[p] \in InRoom2
      BY <1>1, <1>6 DEF Turnstiles, Room2
    <2>2. pc[p] = "wait_t2"
      BY <1>4, <2>1 DEF InRoom2
    <2> QED BY <1>2, <1>6, <2>2
  <1>7. CASE sem["t1"] = 1
    <2>1. \A p \in Thread : pc[p] # "wait_t1"
      <3>1. sem["t1"] # 0
        BY <1>7
      <3> QED BY <1>2, <3>1
    <2>2. t \in Room2
      BY <1>4, <2>1 DEF Room2, InRoom2
    <2>3. PICK p \in Thread : pc[p] \in InRoom1
      BY <1>1, <1>7, <2>2 DEF Turnstiles, Room1
    <2> QED BY <1>4, <2>1, <2>3 DEF InRoom1
  <1> QED BY <1>1, <1>5, <1>6, <1>7

(* Whatever the number of threads, and whoever a post wakes, those in the  *)
(* lock never all wait (lock_Two_rooms, unlock_Two_rooms).                 *)
THEOREM DeadlockFree == Spec => []NoDeadlock
  BY InitRooms, RoomsInductive, SomebodyGoesOn, PTL DEF Spec
=============================================================================
