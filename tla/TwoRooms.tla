------------------------------ MODULE TwoRooms ------------------------------
(***************************************************************************)
(* lock_Two_rooms / unlock_Two_rooms of sincronization.c, one action per   *)
(* statement.  The program protects with such a lock the message-id        *)
(* counter (sem_id), the seen-message buffer (sem_message), the receiving  *)
(* list of the round-speed buffer (sem_rs), the search events (sem_event)  *)
(* and the table of output threads (sem_th_out).                           *)
(*                                                                         *)
(* A thread first counts itself into room1, then passes the turnstile t1   *)
(* into room2; the last one to leave room1 closes t1 and opens t2, through *)
(* which the threads of room2 take the lock one at a time.                 *)
(***************************************************************************)
EXTENDS Semaphores

VARIABLES room1, room2

vars == <<pc, sem, waiting, room1, room2>>

Sems == {"mutex", "t1", "t2"}

(* make_Two_rooms *)
Init ==
  /\ pc = [p \in Thread |-> "out"]
  /\ sem = [mutex |-> 1, t1 |-> 1, t2 |-> 0]
  /\ waiting = [s \in Sems |-> {}]
  /\ room1 = 0
  /\ room2 = 0

rooms == <<room1, room2>>
sems == <<sem, waiting>>

(* The statement after each sem_wait.                                      *)
Resume == [enter_mutex |-> "enter_room1", leave_mutex |-> "leave_room1",
           wait_t1 |-> "enter_room2", wait_t2 |-> "leave_room2"]

-----------------------------------------------------------------------------
(* lock_Two_rooms: enter room 1 *)

Call(p) ==
  /\ Goto(p, "out", "enter_mutex")
  /\ UNCHANGED <<sems, rooms>>

EnterMutex(p) ==
  /\ SemWait(p, "mutex", "enter_mutex", Resume["enter_mutex"])
  /\ UNCHANGED rooms

EnterRoom1(p) ==
  /\ Goto(p, "enter_room1", "enter_release")
  /\ room1' = room1 + 1
  /\ UNCHANGED <<sems, room2>>

EnterRelease(p) ==
  /\ SemPost(p, "mutex", "enter_release", "wait_t1", Resume)
  /\ UNCHANGED rooms

(* lock_Two_rooms: move from room 1 to room 2 *)

WaitT1(p) ==
  /\ SemWait(p, "t1", "wait_t1", Resume["wait_t1"])
  /\ UNCHANGED rooms

EnterRoom2(p) ==
  /\ Goto(p, "enter_room2", "leave_mutex")
  /\ room2' = room2 + 1
  /\ UNCHANGED <<sems, room1>>

(* Mutant: room1 is decremented without the mutex.                         *)
LeaveMutexSkipped(p) ==
  /\ Goto(p, "leave_mutex", "leave_room1")
  /\ UNCHANGED <<sems, rooms>>

LeaveMutex(p) ==
  /\ SemWait(p, "mutex", "leave_mutex", Resume["leave_mutex"])
  /\ UNCHANGED rooms

LeaveRoom1(p) ==
  /\ Goto(p, "leave_room1", "leave_test")
  /\ room1' = room1 - 1
  /\ UNCHANGED <<sems, room2>>

LeaveTest(p) ==
  /\ Goto(p, "leave_test", IF room1 = 0 THEN "last_release" ELSE "more_release")
  /\ UNCHANGED <<sems, rooms>>

LastRelease(p) ==
  /\ SemPost(p, "mutex", "last_release", "open_t2", Resume)
  /\ UNCHANGED rooms

OpenT2(p) ==
  /\ SemPost(p, "t2", "open_t2", "wait_t2", Resume)
  /\ UNCHANGED rooms

MoreRelease(p) ==
  /\ SemPost(p, "mutex", "more_release", "open_t1", Resume)
  /\ UNCHANGED rooms

OpenT1(p) ==
  /\ SemPost(p, "t1", "open_t1", "wait_t2", Resume)
  /\ UNCHANGED rooms

(* lock_Two_rooms: take the lock *)

(* Mutant: the second turnstile is not waited for.                         *)
WaitT2Skipped(p) ==
  /\ Goto(p, "wait_t2", "leave_room2")
  /\ UNCHANGED <<sems, rooms>>

WaitT2(p) ==
  /\ SemWait(p, "t2", "wait_t2", Resume["wait_t2"])
  /\ UNCHANGED rooms

LeaveRoom2(p) ==
  /\ Goto(p, "leave_room2", "critical")
  /\ room2' = room2 - 1
  /\ UNCHANGED <<sems, room1>>

(* the caller's critical section, and unlock_Two_rooms *)

Critical(p) ==
  /\ Goto(p, "critical", "unlock")
  /\ UNCHANGED <<sems, rooms>>

(* Mutants: the turnstiles swapped; the first one reopened every time.     *)
UnlockSwapped(p) ==
  /\ IF room2 = 0
     THEN SemPost(p, "t2", "unlock", "out", Resume)
     ELSE SemPost(p, "t1", "unlock", "out", Resume)
  /\ UNCHANGED rooms

UnlockOpensT1(p) ==
  /\ SemPost(p, "t1", "unlock", "out", Resume)
  /\ UNCHANGED rooms

Unlock(p) ==
  /\ IF room2 = 0
     THEN SemPost(p, "t1", "unlock", "out", Resume)
     ELSE SemPost(p, "t2", "unlock", "out", Resume)
  /\ UNCHANGED rooms

Lock(p) ==
  \/ EnterMutex(p) \/ EnterRoom1(p) \/ EnterRelease(p)
  \/ WaitT1(p) \/ EnterRoom2(p)
  \/ LeaveMutex(p) \/ LeaveRoom1(p) \/ LeaveTest(p)
  \/ LastRelease(p) \/ OpenT2(p) \/ MoreRelease(p) \/ OpenT1(p)
  \/ WaitT2(p) \/ LeaveRoom2(p)

Next == \E p \in Thread : Call(p) \/ Lock(p) \/ Critical(p) \/ Unlock(p)

Spec == Init /\ [][Next]_vars

(* A thread inside the lock code or in its critical section keeps running; *)
(* whether a thread calls the lock again is left open.                     *)
FairSpec == Spec /\ \A p \in Thread : WF_vars(Lock(p) \/ Critical(p) \/ Unlock(p))

-----------------------------------------------------------------------------
(* Statements executed while holding the mutex, and while holding the      *)
(* baton: the single unit that t1, t2 and the threads share.               *)
WithMutex == {"enter_room1", "enter_release", "leave_room1", "leave_test",
              "last_release", "more_release"}
WithBaton == {"enter_room2", "leave_mutex", "leave_room1", "leave_test",
              "last_release", "open_t2", "more_release", "open_t1",
              "leave_room2", "critical", "unlock"}
Inside    == {"critical", "unlock"}
Locations == WithMutex \cup WithBaton \cup
             {"out", "enter_mutex", "wait_t1", "wait_t2"}

-----------------------------------------------------------------------------
(* The sem_wait statements of each semaphore.                               *)
WaitsAt(s) == CASE s = "mutex" -> {"enter_mutex", "leave_mutex"}
                [] s = "t1"    -> {"wait_t1"}
                [] s = "t2"    -> {"wait_t2"}

(* Every variable has its type; a thread is only blocked in the sem_wait   *)
(* it is at, and nobody is blocked on a semaphore that has a unit.         *)
TypeOK ==
  /\ pc \in [Thread -> Locations]
  /\ sem \in [Sems -> Nat]
  /\ waiting \in [Sems -> SUBSET Thread]
  /\ room1 \in Int
  /\ room2 \in Int
  /\ \A s \in Sems : waiting[s] = {} \/ sem[s] = 0
  /\ \A s \in Sems : \A p \in waiting[s] : pc[p] \in WaitsAt(s)

(* Two threads are never together between lock_Two_rooms and               *)
(* unlock_Two_rooms.                                                       *)
MutualExclusion ==
  \A p, q \in Thread : pc[p] \in Inside /\ pc[q] \in Inside => p = q

(* The lock's own counters are free of data races although room2 is read   *)
(* and written without holding the mutex (lines 154, 171, 177): no thread  *)
(* is about to access a counter while another one is.                      *)
CounterRaceFree ==
  \A p, q \in Thread :
    \/ p = q
    \/ ~ \E S \in {{"enter_room1", "leave_room1", "leave_test"},
                   {"enter_room2", "leave_room2", "unlock"}} :
           pc[p] \in S /\ pc[q] \in S

(* t1 and t2 are never open together and neither is lost: exactly one unit *)
(* is in a turnstile or carried by a thread that went through one.         *)
OneBaton ==
  /\ sem["t1"] + sem["t2"] \in {0, 1}
  /\ (\A p \in Thread : pc[p] \notin WithBaton) <=> sem["t1"] + sem["t2"] = 1

(* A thread at a sem_wait on a semaphore without a unit.                   *)
Blocked(p) == \E s \in Sems : pc[p] \in WaitsAt(s) /\ sem[s] = 0

(* The threads in the lock never all wait for each other: as long as one   *)
(* is in lock_Two_rooms or in its critical section some such thread can go *)
(* on.  That others call the lock does not count, as they would only join  *)
(* those that wait.                                                        *)
NoDeadlock ==
  (\E p \in Thread : pc[p] # "out") =>
    \E p \in Thread : pc[p] # "out" /\ ~ Blocked(p)

(* No thread waits forever for the lock, however often the others take it. *)
NoStarvation ==
  \A p \in Thread : pc[p] = "enter_mutex" ~> pc[p] = "critical"

(* Seen by its callers, the lock is the abstract exclusive one.            *)
PhaseAt(l) == IF l = "out" THEN <<"idle">>
              ELSE IF l \in Inside THEN <<"has", "write">>
              ELSE <<"wants", "write">>

phaseBar == [p \in Thread |-> PhaseAt(pc[p])]

Exclusive == INSTANCE RWLock WITH phase <- phaseBar, Mode <- {"write"}

ImplementsExclusiveLock == Exclusive!Spec
=============================================================================
