---------------------------- MODULE WritersReader ----------------------------
(***************************************************************************)
(* Writers_Reader of sincronization.c: the lock of the neighbour buffer    *)
(* (sem_neighbour), the buffer of departed peers (sem_bye_peer) and the    *)
(* node list of the bootstrap server.  Built on two lightswitches: the     *)
(* first thread in takes a semaphore for its whole group, the last one out *)
(* gives it back.  writeSwitch holds noReaders while any writer waits or   *)
(* writes; readSwitch holds noWriters while anyone reads.                  *)
(***************************************************************************)
EXTENDS Semaphores

VARIABLE counter    \* counter[l]: the counter of lightswitch l

vars == <<pc, sem, waiting, counter>>

sems == <<sem, waiting>>

Lights == {"readSwitch", "writeSwitch"}

Sems == Lights \cup {"noReaders", "noWriters"}

(* The statement after each sem_wait.                                      *)
Resume == [w_switch  |-> "w_count",  w_first |-> "w_release", w_wait |-> "writing",
           uw_switch |-> "uw_count", r_gate  |-> "r_switch",
           r_switch  |-> "r_count",  r_first |-> "r_release", ur_switch |-> "ur_count"]

(* make_Writers_Reader: its field mutex is created and never used.         *)
Init ==
  /\ pc = [p \in Thread |-> "out"]
  /\ sem = [s \in Sems |-> 1]
  /\ waiting = [s \in Sems |-> {}]
  /\ counter = [l \in Lights |-> 0]

-----------------------------------------------------------------------------
Wait(p, s, from) == SemWait(p, s, from, Resume[from]) /\ UNCHANGED counter

Post(p, s, from, to) == SemPost(p, s, from, to, Resume) /\ UNCHANGED counter

(* Mutants: the second thread in, or the one after the last out, acts for  *)
(* the group.                                                              *)
CountInLate(p, l, from, first, other) ==
  /\ Goto(p, from, IF counter[l] = 1 THEN first ELSE other)
  /\ counter' = [counter EXCEPT ![l] = @ + 1]
  /\ UNCHANGED sems

CountOutLate(p, l, from, last, other) ==
  /\ Goto(p, from, IF counter[l] = 0 THEN last ELSE other)
  /\ counter' = [counter EXCEPT ![l] = @ - 1]
  /\ UNCHANGED sems

(* lockLightswitch counts a thread in; the first one then waits for the    *)
(* group's semaphore, still holding the switch.                            *)
CountIn(p, l, from, first, other) ==
  /\ Goto(p, from, IF counter[l] = 0 THEN first ELSE other)
  /\ counter' = [counter EXCEPT ![l] = @ + 1]
  /\ UNCHANGED sems

(* unlockLightswitch counts it out; the last one posts the semaphore.      *)
CountOut(p, l, from, last, other) ==
  /\ Goto(p, from, IF counter[l] = 1 THEN last ELSE other)
  /\ counter' = [counter EXCEPT ![l] = @ - 1]
  /\ UNCHANGED sems

Step(p, from, to) == Goto(p, from, to) /\ UNCHANGED <<sems, counter>>

(* Mutant: the reader does not wait for noReaders.                         *)
CallReaderUngated(p) == Step(p, "out", "r_switch")

CallWriter(p) == Step(p, "out", "w_switch")
CallReader(p) == Step(p, "out", "r_gate")

(* lock_WR_Writers *)
LockWriter(p) ==
  \/ Wait(p, "writeSwitch", "w_switch")
  \/ CountIn(p, "writeSwitch", "w_count", "w_first", "w_release")
  \/ Wait(p, "noReaders", "w_first")
  \/ Post(p, "writeSwitch", "w_release", "w_wait")
  \/ Wait(p, "noWriters", "w_wait")

(* the writer's critical section, and unlock_WR_Writers *)
UnlockWriter(p) ==
  \/ Step(p, "writing", "uw_post")
  \/ Post(p, "noWriters", "uw_post", "uw_switch")
  \/ Wait(p, "writeSwitch", "uw_switch")
  \/ CountOut(p, "writeSwitch", "uw_count", "uw_last", "uw_release")
  \/ Post(p, "noReaders", "uw_last", "uw_release")
  \/ Post(p, "writeSwitch", "uw_release", "out")

(* lock_WR_Reader *)
LockReader(p) ==
  \/ Wait(p, "noReaders", "r_gate")
  \/ Wait(p, "readSwitch", "r_switch")
  \/ CountIn(p, "readSwitch", "r_count", "r_first", "r_release")
  \/ Wait(p, "noWriters", "r_first")
  \/ Post(p, "readSwitch", "r_release", "r_open")
  \/ Post(p, "noReaders", "r_open", "reading")

(* the reader's critical section, and unlock_WR_Reader *)
UnlockReader(p) ==
  \/ Step(p, "reading", "ur_switch")
  \/ Wait(p, "readSwitch", "ur_switch")
  \/ CountOut(p, "readSwitch", "ur_count", "ur_last", "ur_release")
  \/ Post(p, "noWriters", "ur_last", "ur_release")
  \/ Post(p, "readSwitch", "ur_release", "out")

Run(p) == LockWriter(p) \/ UnlockWriter(p) \/ LockReader(p) \/ UnlockReader(p)

Next == \E p \in Thread : CallWriter(p) \/ CallReader(p) \/ Run(p)

Spec == Init /\ [][Next]_vars

(* A thread inside the lock code or its critical section keeps running.    *)
FairSpec == Spec /\ \A p \in Thread : WF_vars(Run(p))

-----------------------------------------------------------------------------
Writing == {"writing", "uw_post"}

WriterWaits == {"w_switch", "w_count", "w_first", "w_release", "w_wait"}
ReaderWaits == {"r_gate", "r_switch", "r_count", "r_first", "r_release", "r_open"}

(* The sem_wait statements of each semaphore.                              *)
WaitsAt(s) == CASE s = "writeSwitch" -> {"w_switch", "uw_switch"}
                [] s = "readSwitch"  -> {"r_switch", "ur_switch"}
                [] s = "noReaders"   -> {"w_first", "r_gate"}
                [] s = "noWriters"   -> {"w_wait", "r_first"}

(* A thread at a sem_wait on a semaphore without a unit.                   *)
Blocked(p) == \E s \in Sems : pc[p] \in WaitsAt(s) /\ sem[s] = 0

(* A reader holds noReaders while it waits for readSwitch and noWriters, a *)
(* writer writeSwitch while it waits for noReaders: they never all wait    *)
(* for each other.  As long as a thread is in the lock code or reads or    *)
(* writes, some such thread can go on.                                     *)
NoDeadlock ==
  (\E p \in Thread : pc[p] # "out") =>
    \E p \in Thread : pc[p] # "out" /\ ~ Blocked(p)

(* Writers come first: from the moment a writer has shut noReaders until   *)
(* it is done, no further reader gets in.                                  *)
NoReaderPassesWriter ==
  [][\A w, r \in Thread :
       pc[w] \in {"w_release", "w_wait"} \cup Writing =>
         ~ (pc[r] # "reading" /\ pc'[r] = "reading")]_vars

(* Once a writer has shut noReaders some writer gets the lock.  Before     *)
(* that nothing is owed to a single thread: readers that keep coming can   *)
(* pass noReaders among themselves, and writers the lock.                  *)
AnnouncedWriterServed ==
  (\E p \in Thread : pc[p] \in {"w_release", "w_wait"}) ~>
    (\E p \in Thread : pc[p] = "writing")

(* Seen by its callers, the lock is the abstract readers-writers lock; it  *)
(* is released where the unlock is called, before the next one is woken.   *)
PhaseAt(l) == IF l \in WriterWaits THEN <<"wants", "write">>
              ELSE IF l \in ReaderWaits THEN <<"wants", "read">>
              ELSE IF l = "writing" THEN <<"has", "write">>
              ELSE IF l = "reading" THEN <<"has", "read">>
              ELSE <<"idle">>

phaseBar == [p \in Thread |-> PhaseAt(pc[p])]

Shared == INSTANCE RWLock WITH phase <- phaseBar, Mode <- {"read", "write"}

ImplementsRWLock == Shared!Spec
=============================================================================
