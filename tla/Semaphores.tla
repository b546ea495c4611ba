----------------------------- MODULE Semaphores -----------------------------
(***************************************************************************)
(* The POSIX counting semaphores every lock of the program is built from   *)
(* (sem_wait, sem_post of libpthread: external code, modelled from how     *)
(* sincronization.c calls it).  A module that extends this one declares    *)
(* which semaphores it has and what a thread executes between two calls.   *)
(*                                                                         *)
(* HandOff chooses between the two behaviours a build can have.            *)
(*   TRUE   what POSIX asks of sem_post: when threads are blocked, one of  *)
(*          them, any one, returns from its sem_wait.                      *)
(*   FALSE  what a futex implementation does: sem_post only increments the *)
(*          value, and whichever thread calls sem_wait first takes it.     *)
(* Safety has to hold under both.                                          *)
(***************************************************************************)
EXTENDS Integers

CONSTANTS Thread,   \* the threads of one peer
          HandOff   \* does sem_post hand its unit to a blocked thread?

ASSUME HandOffAssumption == HandOff \in BOOLEAN

VARIABLES pc,       \* pc[p]: the next statement of thread p
          sem,      \* sem[s]: the value of semaphore s
          waiting   \* waiting[s]: the threads blocked in sem_wait(s)

Goto(p, from, to) ==
  /\ pc[p] = from
  /\ pc' = [pc EXCEPT ![p] = to]

(* sem_wait(s): take a unit, or block until a post hands one over.         *)
SemTake(p, s, from, to) ==
  /\ sem[s] > 0
  /\ Goto(p, from, to)
  /\ sem' = [sem EXCEPT ![s] = @ - 1]
  /\ UNCHANGED waiting

SemBlock(p, s, from) ==
  /\ HandOff
  /\ pc[p] = from
  /\ sem[s] = 0
  /\ p \notin waiting[s]
  /\ waiting' = [waiting EXCEPT ![s] = @ \cup {p}]
  /\ UNCHANGED <<pc, sem>>

SemWait(p, s, from, to) ==
  \/ SemTake(p, s, from, to)
  \/ SemBlock(p, s, from)

(* sem_post(s): wake one blocked thread, or add a unit when there is none. *)
(* resume[l] is the statement after the sem_wait at statement l.           *)
SemGive(p, s, from, to) ==
  /\ waiting[s] = {}
  /\ Goto(p, from, to)
  /\ sem' = [sem EXCEPT ![s] = @ + 1]
  /\ UNCHANGED waiting

SemWake(p, s, from, to, resume) ==
  /\ pc[p] = from
  /\ \E q \in waiting[s] :
       /\ waiting' = [waiting EXCEPT ![s] = @ \ {q}]
       /\ pc' = [pc EXCEPT ![p] = to, ![q] = resume[pc[q]]]
  /\ UNCHANGED sem

SemPost(p, s, from, to, resume) ==
  \/ SemGive(p, s, from, to)
  \/ SemWake(p, s, from, to, resume)
=============================================================================
