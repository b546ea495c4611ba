----------------------------- MODULE RoundSpeed -----------------------------
(***************************************************************************)
(* The round-speed part of process_RG_RS.c and its double buffer: messages *)
(* to forward are put in the receiving list; each RS thread recycles the   *)
(* messages of the sending list, swaps the two lists and has its helpers   *)
(* send every message of the new sending list to every peer of the fanout, *)
(* one sender thread per peer.  The RG thread launches Launches of them    *)
(* per round: it joins the first, and sleeps _SEC_SLEEP_RS seconds after   *)
(* each of the others without joining it: an RS thread may outlast this    *)
(* sleep, and the next fanout and the next RS thread do not wait for it.   *)
(*                                                                         *)
(* The swap and the insertions exclude each other (sem_rs, see TwoRooms)   *)
(* and so do the helpers' draws of an index (sem_rs_bis); nothing protects *)
(* the fanout and the sending list of an RS thread against the next round  *)
(* and the next RS thread.  Once one of these overtook it, the code may    *)
(* read freed memory: overtaken remembers it, and from there on the module *)
(* follows the threads, but not the lists, of which it promises nothing.   *)
(***************************************************************************)
EXTENDS Integers, SequencesExt

CONSTANTS
  Message,   \* the messages handed over, each one once
  Null,      \* the content of an unused slot
  Peer,      \* the peers a fanout can hold
  MaxRS,     \* _MAX_RS: the slots of a list
  RSThread,  \* the RS threads that can be alive together
  Helper,    \* the helpers of each, 1 .. THREADS_RS
  Launches   \* _MAX_COUNT_RG_RS

ASSUME RoundSpeedAssumption ==
  /\ Null \notin Message
  /\ IsFiniteSet(Peer)
  /\ MaxRS \in Nat
  /\ Helper # {}
  /\ Launches \in Nat \ {0}

VARIABLES
  rcv, snd,   \* buffer[_RCV_], buffer[_SND_]
  freed,      \* the messages whose memory was given back
  fanout,     \* buffer_fanout
  rg,         \* where the RG thread is
  th_rs,      \* the RS thread it launched last
  launched,   \* how many it launched in this round
  rs,         \* where each RS thread is
  helper,     \* where each helper is, its index and its position in fanout
  senders,    \* the func_snd_rs threads alive
  handled,    \* handled[m]: the peers a func_snd_rs is done with m for
  late,       \* the RS threads that outlasted the sleep after their launch
  overtaken   \* did the next of these come while an RS thread ran: a launch, a
              \* fanout, the end of the process?

vars == <<rcv, snd, freed, fanout, rg, th_rs, launched, rs, helper, senders, handled,
          late, overtaken>>

rounds == <<rg, th_rs, launched, fanout, overtaken>>

Empty == [msgs |-> <<>>, send |-> 0]
Resting == [at |-> "done", index |-> 0, t |-> 0]

(* init_buffer_rs *)
Init ==
  /\ rcv = Empty /\ snd = Empty
  /\ freed = {}
  /\ fanout = <<>>
  /\ rg = "new"
  /\ th_rs \in RSThread
  /\ launched = 0
  /\ rs = [r \in RSThread |-> "ended"]
  /\ helper = [r \in RSThread |-> [h \in Helper |-> Resting]]
  /\ senders = {}
  /\ handled = [m \in Message |-> {}]
  /\ late = {}
  /\ overtaken = FALSE

lists == <<rcv, snd, freed, helper, senders, handled>>

Stored == Range(rcv.msgs) \cup Range(snd.msgs)

(* list_msg[i] of the sending list: slots past the limit are NULL.         *)
Slot(i) == IF i <= Len(snd.msgs) THEN snd.msgs[i] ELSE Null

-----------------------------------------------------------------------------
(* insert_messageRS, insert_mymessageRS, by any dispatcher helper or by    *)
(* process_in: a message that finds the list full is thrown away.          *)
Insert(m) ==
  /\ m \notin Stored \cup freed
  /\ CASE overtaken -> UNCHANGED <<rcv, freed>>
       [] ~ overtaken /\ Len(rcv.msgs) < MaxRS ->
            rcv' = [rcv EXCEPT !.msgs = Append(@, m)] /\ UNCHANGED freed
       [] OTHER -> freed' = freed \cup {m} /\ UNCHANGED rcv
  /\ UNCHANGED <<snd, rounds, rs, helper, senders, handled, late>>

(* rotation_buffer_rs: reset_buffer_rs of the sending list, without a lock *)
(* (one step here), then the swap.                                         *)
Reset(r) ==
  /\ rs[r] = "reset"
  /\ freed' = freed \cup Range(snd.msgs)
  /\ snd' = Empty
  /\ rs' = [rs EXCEPT ![r] = "rotate"]
  /\ UNCHANGED <<rcv, rounds, helper, senders, handled, late>>

Rotate(r) ==
  /\ rs[r] = "rotate"
  /\ rcv' = snd
  /\ snd' = rcv
  /\ rs' = [rs EXCEPT ![r] = "send"]
  /\ helper' = [helper EXCEPT ![r] = [h \in Helper |-> [Resting EXCEPT !.at = "get"]]]
  /\ UNCHANGED <<freed, rounds, senders, handled, late>>

(* process_RS joins its helpers and ends.                                  *)
End(r) ==
  /\ rs[r] = "send"
  /\ \A h \in Helper : helper[r][h].at = "done"
  /\ rs' = [rs EXCEPT ![r] = "ended"]
  /\ late' = late \ {r}
  /\ UNCHANGED <<rcv, snd, freed, rounds, helper, senders, handled>>

-----------------------------------------------------------------------------
(* func_helper_rs: get_message_buffer_rs, under sem_rs_bis.                *)

(* Mutants: the last message is left out; the index is not advanced.       *)
TakeShort(r, h) ==
  /\ helper[r][h].at = "get"
  /\ IF snd.send + 1 < Len(snd.msgs)
     THEN /\ snd' = [snd EXCEPT !.send = @ + 1]
          /\ helper' = [helper EXCEPT ![r][h] =
                         [at |-> "spawn", index |-> snd.send + 1, t |-> 0]]
     ELSE /\ helper' = [helper EXCEPT ![r][h] = Resting]
          /\ UNCHANGED snd
  /\ UNCHANGED <<rcv, freed, rounds, rs, senders, handled, late>>

TakeAgain(r, h) ==
  /\ helper[r][h].at = "get"
  /\ helper' = [helper EXCEPT ![r][h] =
                 IF snd.send < Len(snd.msgs)
                 THEN [at |-> "spawn", index |-> snd.send + 1, t |-> 0] ELSE Resting]
  /\ UNCHANGED <<rcv, snd, freed, rounds, rs, senders, handled, late>>

Take(r, h) ==
  /\ helper[r][h].at = "get"
  /\ IF snd.send < Len(snd.msgs)
     THEN /\ snd' = [snd EXCEPT !.send = @ + 1]
          /\ helper' = [helper EXCEPT ![r][h] =
                         [at |-> "spawn", index |-> snd.send + 1, t |-> 0]]
     ELSE /\ helper' = [helper EXCEPT ![r][h] = Resting]
          /\ UNCHANGED snd
  /\ UNCHANGED <<rcv, freed, rounds, rs, senders, handled, late>>

(* It creates a sender for the next peer of the fanout, with whatever the  *)
(* slot holds by now.                                                      *)
Spawn(r, h) ==
  /\ helper[r][h].at = "spawn"
  /\ helper[r][h].t < Len(fanout)
  /\ senders' = senders \cup
       {[rs |-> r, helper |-> h, peer |-> fanout[helper[r][h].t + 1],
         msg |-> Slot(helper[r][h].index)]}
  /\ helper' = [helper EXCEPT ![r][h].t = @ + 1]
  /\ UNCHANGED <<rcv, snd, freed, rounds, rs, handled, late>>

Mine(r, h) == {s \in senders : s.rs = r /\ s.helper = h}

(* Mutant: the senders are not joined.                                     *)
JoinNot(r, h) ==
  /\ helper[r][h].at = "spawn"
  /\ helper[r][h].t = Len(fanout)
  /\ helper' = [helper EXCEPT ![r][h] = [Resting EXCEPT !.at = "get"]]
  /\ UNCHANGED <<rcv, snd, freed, rounds, rs, senders, handled, late>>

(* It joins its senders and goes for another message.                      *)
Join(r, h) ==
  /\ helper[r][h].at = "spawn"
  /\ helper[r][h].t = Len(fanout)
  /\ Mine(r, h) = {}
  /\ helper' = [helper EXCEPT ![r][h] = [Resting EXCEPT !.at = "get"]]
  /\ UNCHANGED <<rcv, snd, freed, rounds, rs, senders, handled, late>>

(* func_snd_rs reads its message and sends it, unless the peer left or is  *)
(* the message's origin: handled does not tell these outcomes apart.       *)
Send(r, h, p) ==
  \E s \in Mine(r, h) :
    /\ s.peer = p
    /\ senders' = senders \ {s}
    /\ handled' = [m \in Message |->
                     IF m = s.msg THEN handled[m] \cup {p} ELSE handled[m]]
    /\ UNCHANGED <<rcv, snd, freed, rounds, rs, helper, late>>

-----------------------------------------------------------------------------
AllEnded == \A r \in RSThread : rs[r] = "ended"

Running == {r \in RSThread : rs[r] # "ended"}

(* What follows an RS thread comes while none runs, or gives the lists up. *)
Overtake ==
  IF overtaken \/ AllEnded
  THEN UNCHANGED <<lists, overtaken>>
  ELSE /\ overtaken' = TRUE
       /\ rcv' = Empty /\ snd' = Empty
       /\ freed' = {}
       /\ helper' = [r \in RSThread |-> [h \in Helper |-> Resting]]
       /\ senders' = {}
       /\ handled' = [m \in Message |-> {}]

(* process_RG: new_fanout, for what concerns the RS threads.  Nothing      *)
(* waits for the last one of the round before but the sleep.               *)
NewFanout ==
  /\ rg = "new"
  /\ \E S \in SUBSET Peer : fanout' = SetToSeq(S)
  /\ rg' = "first"
  /\ Overtake
  /\ UNCHANGED <<th_rs, launched, rs, late>>

Launch(r) ==
  /\ rs[r] = "ended"
  /\ rs' = [rs EXCEPT ![r] = "reset"]
  /\ th_rs' = r
  /\ launched' = launched + 1
  /\ Overtake
  /\ UNCHANGED <<fanout, late>>

LaunchFirst ==
  /\ rg = "first"
  /\ \E r \in RSThread : Launch(r)
  /\ rg' = "join"

JoinFirst ==
  /\ rg = "join"
  /\ rs[th_rs] = "ended"
  /\ rg' = "pause"
  /\ UNCHANGED <<th_rs, launched, fanout, rs, late, lists, overtaken>>

LaunchNext ==
  /\ rg = "pause"
  /\ launched < Launches
  /\ \E r \in RSThread : Launch(r)
  /\ rg' = "sleep"

(* The sleep ends, whatever the RS threads are at.                         *)
Wake ==
  /\ rg = "sleep"
  /\ rg' = "pause"
  /\ late' = Running
  /\ UNCHANGED <<th_rs, launched, fanout, rs, lists, overtaken>>

RoundDone ==
  /\ rg = "pause"
  /\ launched = Launches
  /\ rg' = "new"
  /\ launched' = 0
  /\ UNCHANGED <<th_rs, fanout, rs, late, lists, overtaken>>

RG == NewFanout \/ LaunchFirst \/ JoinFirst \/ LaunchNext \/ Wake \/ RoundDone

RS(r) == Reset(r) \/ Rotate(r) \/ End(r)

HelperRS(r, h) == Take(r, h) \/ Spawn(r, h) \/ Join(r, h)

Next ==
  \/ \E m \in Message : Insert(m)
  \/ RG
  \/ \E r \in RSThread : RS(r)
  \/ \E r \in RSThread, h \in Helper : HelperRS(r, h)
  \/ \E r \in RSThread, h \in Helper, p \in Peer : Send(r, h, p)

Spec == Init /\ [][Next]_vars

-----------------------------------------------------------------------------
List == [msgs : Seq(Message), send : 0 .. MaxRS]

(* Every variable has its type, and a list fits in its slots.              *)
TypeOK ==
  /\ {rcv, snd} \subseteq List
  /\ \A l \in {rcv, snd} : l.send <= Len(l.msgs) /\ Len(l.msgs) <= MaxRS
  /\ freed \subseteq Message
  /\ fanout \in Seq(Peer)
  /\ rg \in {"new", "first", "join", "pause", "sleep"}
  /\ th_rs \in RSThread
  /\ launched \in 0 .. Launches
  /\ rs \in [RSThread -> {"ended", "reset", "rotate", "send"}]
  /\ helper \in [RSThread -> [Helper -> [at : {"done", "get", "spawn"},
                                         index : 0 .. MaxRS, t : Nat]]]
  /\ senders \subseteq [rs : RSThread, helper : Helper, peer : Peer,
                        msg : Message \cup {Null}]
  /\ handled \in [Message -> SUBSET Peer]
  /\ late \subseteq RSThread
  /\ overtaken \in BOOLEAN

(* A message is in one slot of one list, and its memory is not given back  *)
(* while it is there.                                                      *)
StoredAlive ==
  /\ IsInjective(rcv.msgs) /\ IsInjective(snd.msgs)
  /\ Range(rcv.msgs) \cap Range(snd.msgs) = {}
  /\ Stored \cap freed = {}

(* While no RS thread was overtaken by the next fanout or the next RS      *)
(* thread, the lists fit in their slots and hold live messages, and no     *)
(* sender works on a message that was recycled under it, or on none: not   *)
(* even one of an RS thread that the RG thread does not wait for.          *)
SendersHoldMessages ==
  overtaken \/ /\ TypeOK /\ StoredAlive
               /\ \A s \in senders : s.msg \in Message \ freed

(* However the helpers share the work, no message goes twice to a peer in  *)
(* the rotation that sends it, as long as no RS thread was overtaken.      *)
SentOnce ==
  [][\A s \in senders' \ senders :
       \/ overtaken
       \/ /\ s.msg \in Message => s.peer \notin handled[s.msg]
          /\ \A o \in senders : o.peer = s.peer => o.msg # s.msg]_vars

(* When an RS thread that was not overtaken ends, every message of the     *)
(* sending list was dealt with for the whole fanout: recycling it loses    *)
(* nothing.                                                                *)
RotationComplete ==
  [][\A r \in RSThread : ~ overtaken /\ rs[r] = "send" /\ rs'[r] = "ended" =>
       \A m \in Range(snd.msgs) : handled[m] = Range(fanout)]_vars
=============================================================================
