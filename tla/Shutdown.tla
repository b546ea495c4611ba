------------------------------ MODULE Shutdown ------------------------------
(***************************************************************************)
(* How a peer ends (exit.c): the user types ?exit?, and the exit thread    *)
(* hands a bye to round speed, sleeps, asks the RG thread and the          *)
(* dispatchers to end, joins them, and frees every buffer.  The RG thread  *)
(* looks at exit_rg in three places and joins an RS thread in one of them; *)
(* the dispatchers cancel their helpers and join none.  The rest is        *)
(* RoundSpeed.                                                             *)
(***************************************************************************)
EXTENDS RoundSpeed

CONSTANTS
  Bye,        \* the message of gossip_bye
  Dispatcher  \* the dispatchers

ASSUME ShutdownAssumption == Bye \in Message

VARIABLES
  exit,     \* where proc_exit_all is
  closed,   \* the dispatchers that ended
  stuck,    \* was a helper cancelled inside a section of a lock?
  rgEnded,  \* did the RG thread end?
  relay     \* was an RS thread launched since the bye was handed over?

exitVars == <<exit, closed, stuck, rgEnded, relay>>

allVars == <<vars, exitVars>>

ExitInit ==
  /\ Init
  /\ exit = "off"
  /\ closed = {}
  /\ stuck = FALSE
  /\ rgEnded = FALSE
  /\ relay = FALSE

ExitAt(from, to) == exit = from /\ exit' = to

(* exit_rg, and the sem_exit_* of the dispatchers.                         *)
Asked == exit = "asked"

-----------------------------------------------------------------------------
(* process_in reads ?exit?, creates the exit thread and ends.              *)
Type ==
  /\ ExitAt("off", "bye")
  /\ UNCHANGED <<vars, closed, stuck, rgEnded, relay>>

SendBye ==
  /\ ExitAt("bye", "sleep")
  /\ Insert(Bye)
  /\ UNCHANGED <<closed, stuck, rgEnded, relay>>

(* sleep(_TIME_SLEEP_BY), exit_rg = 1, and a post for each dispatcher.     *)
Ask ==
  /\ ExitAt("sleep", "asked")
  /\ UNCHANGED <<vars, closed, stuck, rgEnded, relay>>

(* Mutant: the dispatchers wait for one post between them.                 *)
CloseOne(d) ==
  /\ Asked
  /\ closed = {}
  /\ closed' = {d}
  /\ stuck' \in {stuck, TRUE}
  /\ UNCHANGED <<vars, exit, rgEnded, relay>>

(* A dispatcher sets the flag of its helpers, sleeps _TIME_HELPER, cancels *)
(* them wherever they wait, and ends.  What one of them held stays taken.  *)
Close(d) ==
  /\ Asked
  /\ closed' = closed \cup {d}
  /\ stuck' \in {stuck, TRUE}
  /\ UNCHANGED <<vars, exit, rgEnded, relay>>

(* The four joins, and free_all.                                           *)
FreeAll ==
  /\ ExitAt("asked", "freed")
  /\ closed = Dispatcher
  /\ rgEnded
  /\ IF AllEnded /\ ~ overtaken
     THEN /\ freed' = freed \cup Stored
          /\ rcv' = Empty /\ snd' = Empty
          /\ UNCHANGED <<helper, senders, handled, overtaken>>
     ELSE Overtake
  /\ UNCHANGED <<rg, th_rs, launched, fanout, rs, late, closed, stuck, rgEnded, relay>>

(* sem_exit_main is posted, and main ends the process.                     *)
MainEnd ==
  /\ ExitAt("freed", "ended")
  /\ UNCHANGED <<vars, closed, stuck, rgEnded, relay>>

ExitThread == SendBye \/ Ask \/ FreeAll \/ MainEnd

-----------------------------------------------------------------------------
(* The helpers of the dispatchers, and process_in before, hand messages    *)
(* over until they are cancelled.                                          *)
Receive(m) ==
  /\ m # Bye
  /\ closed # Dispatcher
  /\ Insert(m)
  /\ UNCHANGED exitVars

(* What the RG thread does while it was not asked to end.                  *)
GoOn ==
  /\ ~ rgEnded
  /\ \/ ~ Asked /\ NewFanout
     \/ LaunchFirst
     \/ JoinFirst
     \/ ~ Asked /\ LaunchNext
     \/ Wake
     \/ RoundDone
  /\ relay' = (relay \/ (exit \in {"sleep", "asked"} /\ launched' > launched))
  /\ UNCHANGED <<exit, closed, stuck, rgEnded>>

EndRG == ~ rgEnded /\ Asked /\ rgEnded' = TRUE /\ UNCHANGED <<vars, exit, closed, stuck, relay>>

(* procedura_exit1, after the last sleep of a round.                       *)
Exit1 == rg = "new" /\ EndRG

(* Mutant: the RS thread is not joined.                                    *)
Exit2NoJoin == rg = "join" /\ EndRG

(* procedura_exit2, after new_buffer_rg: the first RS thread is joined.    *)
Exit2 == rg = "join" /\ rs[th_rs] = "ended" /\ EndRG

(* Mutant: it looks before the sleep, once the RS thread is launched.      *)
Exit3Early == rg = "sleep" /\ EndRG

(* procedura_exit3, after a sleep: the RS thread is not joined.            *)
Exit3 == rg = "pause" /\ launched < Launches /\ EndRG

RGThread == GoOn \/ Exit1 \/ Exit2 \/ Exit3

ExitNext ==
  \/ Type \/ ExitThread \/ RGThread
  \/ \E d \in Dispatcher \ closed : Close(d)
  \/ \E m \in Message : Receive(m)
  \/ /\ \/ \E r \in RSThread : RS(r)
        \/ \E r \in RSThread, h \in Helper : HelperRS(r, h)
        \/ \E r \in RSThread, h \in Helper, p \in Peer : Send(r, h, p)
     /\ UNCHANGED exitVars

ExitSpec == ExitInit /\ [][ExitNext]_allVars

(* Every thread that was started runs on, unless it waits for a lock that  *)
(* a cancelled helper left taken; the user need not type anything.         *)
ExitFairSpec ==
  /\ ExitSpec
  /\ WF_allVars(ExitThread)
  /\ WF_allVars(~ stuck /\ RGThread)
  /\ \A d \in Dispatcher : WF_allVars(d \notin closed /\ Close(d))
  /\ \A r \in RSThread : WF_allVars(~ stuck /\ RS(r) /\ UNCHANGED exitVars)
  /\ \A r \in RSThread, h \in Helper :
       /\ WF_allVars(~ stuck /\ HelperRS(r, h) /\ UNCHANGED exitVars)
       /\ \A p \in Peer : WF_allVars(~ stuck /\ Send(r, h, p) /\ UNCHANGED exitVars)

-----------------------------------------------------------------------------
(* When the buffers are freed the only RS threads left are those that were *)
(* still at work when the RG thread woke from its sleep: it ends in three  *)
(* places, and joins in one, but neither the thread it launched last nor a *)
(* sender of it can be left in another way.                                *)
FreedAlone ==
  exit \in {"freed", "ended"} => Running \cup {s.rs : s \in senders} \subseteq late

(* The neighbours are told of the departure.  When the process frees the   *)
(* lists, and no RS thread outlasted a sleep, a bye that was accepted is   *)
(* not waiting to be sent unless no RS thread was launched after it; and   *)
(* if it is in the sending list it was sent to the whole fanout, however   *)
(* the RG thread ended.                                                    *)
ByeTold ==
  [][exit' = "freed" /\ exit # "freed" /\ late = {} /\ ~ overtaken =>
       /\ Bye \in Range(rcv.msgs) => ~ relay
       /\ Bye \in Range(snd.msgs) => handled[Bye] = Range(fanout)]_allVars

(* Once the user asked, the process ends, unless a helper was cancelled    *)
(* while it held a lock or an RS thread was overtaken.                     *)
MainEnds == exit = "bye" ~> exit = "ended" \/ stuck \/ overtaken
=============================================================================
