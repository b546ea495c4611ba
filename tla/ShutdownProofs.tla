--------------------------- MODULE ShutdownProofs ---------------------------
(***************************************************************************)
(* Proofs about round speed and the end of a peer, for lists, fanouts and  *)
(* numbers of helpers of any size, in every behaviour: RS threads may      *)
(* outlast the sleep of the RG thread, and it may end at any of its exits. *)
(*                                                                         *)
(* The inductive invariant has two parts.  Threads, which always holds,    *)
(* says which RS threads may be alive where the RG thread is.  RSInv,      *)
(* which holds until an RS thread is overtaken, says that one runs at a    *)
(* time, that a helper that sends has a slot of the sending list of its    *)
(* own, what each sender works on, and for whom each message was dealt     *)
(* with already; Ending adds what the exit thread relies on.               *)
(***************************************************************************)
EXTENDS Shutdown, TLAPS, SequenceTheorems, FiniteSetTheorems

-----------------------------------------------------------------------------
Sends(r, h) == helper[r][h].at = "spawn"

(* The message a helper works on.                                          *)
Current(r, h) == snd.msgs[helper[r][h].index]

(* One RS thread runs at a time, between its launch and the next fanout.   *)
OneRuns ==
  /\ ~ overtaken
  /\ rg = "first" => AllEnded
  /\ \A r \in RSThread : rs[r] # "ended" =>
       /\ \A o \in RSThread \ {r} : rs[o] = "ended"
       /\ rg = "join" => r = th_rs

(* Its helpers run while it sends, and end with the list.                  *)
Places ==
  /\ rcv.send = 0
  /\ rg \in {"new", "first"} => launched = 0
  /\ \A r \in RSThread : rs[r] = "rotate" => snd = Empty
  /\ \A r \in RSThread, h \in Helper :
       /\ rs[r] # "send" => helper[r][h].at = "done"
       /\ rs[r] = "send" /\ helper[r][h].at = "done" => snd.send = Len(snd.msgs)

(* A helper that sends has a slot of its own.                              *)
OwnSlot(r, h) ==
  Sends(r, h) =>
    /\ 1 <= helper[r][h].index /\ helper[r][h].index <= snd.send
    /\ helper[r][h].t <= Len(fanout)
    /\ \A g \in Helper \ {h} : Sends(r, g) => helper[r][g].index # helper[r][h].index

(* A sender has the message of its helper, and a peer the helper passed.   *)
Employed(s) ==
  /\ Sends(s.rs, s.helper)
  /\ s.msg = Current(s.rs, s.helper)
  /\ \E k \in 1 .. helper[s.rs][s.helper].t : s.peer = fanout[k]

Shared ==
  /\ IsInjective(fanout)
  /\ \A r \in RSThread, h \in Helper : OwnSlot(r, h)
  /\ \A s \in senders : Employed(s)

(* Nothing is sent before its turn.                                        *)
Unsent ==
  /\ \A m \in Message : m \notin Range(snd.msgs) \cup freed => handled[m] = {}
  /\ \A k \in 1 .. Len(snd.msgs) : snd.send < k => handled[snd.msgs[k]] = {}

(* A message was dealt with for the peers its helper passed, but for those *)
(* that still have a sender ...                                            *)
PartSent(r, h) ==
  Sends(r, h) =>
    \A p \in Peer : p \in handled[Current(r, h)] <=>
      /\ \E k \in 1 .. helper[r][h].t : p = fanout[k]
      /\ \A s \in senders : s.rs = r /\ s.helper = h => s.peer # p

WhollySent(k) == handled[snd.msgs[k]] = Range(fanout)

(* ... and wholly once the helper left it.                                 *)
Left ==
  \A r \in RSThread : rs[r] = "send" =>
    \A k \in 1 .. Len(snd.msgs) : k <= snd.send =>
      \/ \E h \in Helper : Sends(r, h) /\ helper[r][h].index = k
      \/ WhollySent(k)

AllSent ==
  AllEnded /\ rg # "first" => \A k \in 1 .. Len(snd.msgs) : WhollySent(k)

Progress ==
  /\ Unsent /\ Left /\ AllSent
  /\ \A r \in RSThread, h \in Helper : PartSent(r, h)

RSInv == TypeOK /\ StoredAlive /\ OneRuns /\ Places /\ Shared /\ Progress

(* The end of the process: a bye that waits to be sent, after an RS thread *)
(* was launched, has one to send it.                                       *)
Ending ==
  /\ relay \in BOOLEAN
  /\ exit \in {"off", "bye"} => ~ relay
  /\ rgEnded => rg # "first"
  /\ relay /\ Bye \in Range(rcv.msgs) => \E r \in RSThread : rs[r] \in {"reset", "rotate"}

(* The RG thread leaves no RS thread behind but those that outlasted a     *)
(* sleep: it joins the first of a round, and sleeps after each other.      *)
Threads ==
  /\ th_rs \in RSThread
  /\ rs \in [RSThread -> {"ended", "reset", "rotate", "send"}]
  /\ overtaken \in BOOLEAN
  /\ rg \in {"new", "first", "pause"} \/ rgEnded => Running \subseteq late
  /\ rg = "join" => Running \subseteq late \cup {th_rs}
  /\ exit \in {"freed", "ended"} => rgEnded

(* Once an RS thread was overtaken the lists are left alone.               *)
GivenUp ==
  overtaken => /\ rcv = Empty /\ snd = Empty
               /\ senders = {}
               /\ helper \in [RSThread -> [Helper -> {Resting, [Resting EXCEPT !.at = "get"]}]]

IInv ==
  /\ Threads /\ GivenUp
  /\ ~ overtaken => RSInv /\ Ending

-----------------------------------------------------------------------------
LEMMA ListFacts ==
  ASSUME TypeOK
  PROVE  /\ rcv.msgs \in Seq(Message) /\ snd.msgs \in Seq(Message)
         /\ Len(rcv.msgs) \in Nat /\ Len(snd.msgs) \in Nat /\ MaxRS \in Nat
         /\ Len(rcv.msgs) <= MaxRS /\ Len(snd.msgs) <= MaxRS
         /\ rcv.send \in Nat /\ snd.send \in Nat
         /\ rcv.send <= Len(rcv.msgs) /\ snd.send <= Len(snd.msgs)
         /\ rcv \in List /\ snd \in List
         /\ DOMAIN rcv.msgs = 1 .. Len(rcv.msgs) /\ DOMAIN snd.msgs = 1 .. Len(snd.msgs)
  BY RoundSpeedAssumption, SMT DEF TypeOK, List

(* An RS thread moves on; while it runs no other one does.                 *)
LEMMA Moved ==
  ASSUME TypeOK, NEW r \in RSThread, NEW to, rs' = [rs EXCEPT ![r] = to]
  PROVE  rs'[r] = to /\ \A o \in RSThread \ {r} : rs'[o] = rs[o]
  BY DEF TypeOK

LEMMA HelpersMoved ==
  ASSUME TypeOK, NEW r \in RSThread, NEW to, helper' = [helper EXCEPT ![r] = to]
  PROVE  helper'[r] = to /\ \A o \in RSThread \ {r} : helper'[o] = helper[o]
  BY DEF TypeOK

LEMMA HelperMoved ==
  ASSUME TypeOK, NEW r \in RSThread, NEW h \in Helper, NEW to,
         helper' = [helper EXCEPT ![r][h] = to]
  PROVE  /\ helper'[r][h] = to
         /\ \A o \in RSThread, g \in Helper :
              o # r \/ g # h => helper'[o][g] = helper[o][g]
  BY DEF TypeOK

LEMMA Idle ==
  ASSUME RSInv, NEW r \in RSThread, rs[r] \notin {"send", "ended"}
  PROVE  /\ \A o \in RSThread \ {r} : rs[o] = "ended"
         /\ \A o \in RSThread, h \in Helper : helper[o][h].at = "done"
         /\ senders = {}
  <1> USE DEF RSInv
  <1>1. \A o \in RSThread \ {r} : rs[o] = "ended"
    BY DEF OneRuns
  <1>2. \A o \in RSThread, h \in Helper : helper[o][h].at = "done"
    <2>1. \A o \in RSThread : rs[o] # "send"
      BY <1>1
    <2> QED BY <2>1 DEF Places
  <1>3. senders = {}
    <2>1. \A s \in senders : s.rs \in RSThread /\ s.helper \in Helper
      BY DEF TypeOK
    <2> QED BY <1>2, <2>1 DEF Shared, Employed, Sends
  <1> QED BY <1>1, <1>2, <1>3

(* When its helpers are done an RS thread sent its whole list.             *)
LEMMA SentWhenDone ==
  ASSUME RSInv, NEW r \in RSThread, rs[r] = "send", \A h \in Helper : helper[r][h].at = "done"
  PROVE  \A k \in 1 .. Len(snd.msgs) : WhollySent(k)
  <1> USE DEF RSInv
  <1>1. PICK h \in Helper : TRUE
    BY RoundSpeedAssumption
  <1>2. snd.send = Len(snd.msgs)
    BY <1>1 DEF Places
  <1>3. \A k \in 1 .. Len(snd.msgs) : k <= snd.send
    BY <1>2, ListFacts, SMT
  <1>4. \A g \in Helper : ~ Sends(r, g)
    BY DEF Sends
  <1> QED BY <1>3, <1>4, Zenon DEF Progress, Left

(* Each operation of round speed keeps its invariant.                      *)
LEMMA InitRSInv == Init => RSInv
  <1> SUFFICES ASSUME Init PROVE RSInv
    OBVIOUS
  <1>1. TypeOK
    <2>1. Empty \in List /\ Empty.send <= Len(Empty.msgs) /\ Len(Empty.msgs) <= MaxRS
      BY RoundSpeedAssumption, SMT DEF Empty, List
    <2>2. Resting \in [at : {"done", "get", "spawn"}, index : 0 .. MaxRS, t : Nat]
      BY RoundSpeedAssumption, SMT DEF Resting
    <2>3. fanout \in Seq(Peer) /\ launched \in 0 .. Launches
      BY RoundSpeedAssumption, SMT DEF Init
    <2> QED BY <2>1, <2>2, <2>3, Zenon DEF Init, TypeOK
  <1>2. StoredAlive
    BY DEF Init, StoredAlive, Stored, Empty, IsInjective, Range
  <1>3. OneRuns /\ Places
    BY SMT DEF Init, OneRuns, Places, AllEnded, Empty, Resting
  <1>4. \A r \in RSThread, h \in Helper : ~ Sends(r, h)
    BY SMT DEF Init, Sends, Resting
  <1>5. Shared
    BY <1>4, SMT DEF Init, Shared, OwnSlot, IsInjective
  <1>6. Progress
    <2>1. snd.msgs = <<>> /\ Len(snd.msgs) = 0
      BY SMT DEF Init, Empty
    <2> QED BY <1>4, <2>1, SMT DEF Init, Progress, Unsent, Left, AllSent, PartSent, Range
  <1> QED BY <1>1, <1>2, <1>3, <1>5, <1>6 DEF RSInv

LEMMA RangeAppended ==
  ASSUME NEW S, NEW s \in Seq(S), NEW x \in S
  PROVE  Range(Append(s, x)) = Range(s) \cup {x}
  <1>1. /\ DOMAIN Append(s, x) = 1 .. Len(s) + 1 /\ DOMAIN s = 1 .. Len(s) /\ Len(s) \in Nat
        /\ Append(s, x)[Len(s) + 1] = x
        /\ \A k \in 1 .. Len(s) : Append(s, x)[k] = s[k]
    BY SMT
  <1>2. \A k \in 1 .. Len(s) + 1 : k \in 1 .. Len(s) \/ k = Len(s) + 1
    BY <1>1, SMT
  <1>3. ASSUME NEW y PROVE y \in Range(Append(s, x)) <=> y \in Range(s) \cup {x}
    <2>1. CASE y \in Range(Append(s, x))
      BY <1>1, <1>2, <2>1, Zenon DEF Range
    <2>2. CASE y \in Range(s)
      <3>1. PICK k \in 1 .. Len(s) : y = s[k]
        BY <1>1, <2>2 DEF Range
      <3> QED BY <1>1, <3>1, SMT DEF Range
    <2>3. CASE y = x
      BY <1>1, <2>3, SMT DEF Range
    <2> QED BY <2>1, <2>2, <2>3
  <1> QED BY <1>3

LEMMA Stored1 ==
  ASSUME TypeOK, ~ overtaken, NEW m \in Message, Insert(m), Len(rcv.msgs) < MaxRS
  PROVE  /\ rcv' \in List /\ rcv'.send = rcv.send
         /\ rcv'.msgs = Append(rcv.msgs, m)
  <1> DEFINE longer == Append(rcv.msgs, m)
  <1>1. rcv' = [rcv EXCEPT !.msgs = longer] /\ longer \in Seq(Message)
    BY ListFacts DEF Insert
  <1> HIDE DEF longer
  <1>2. rcv' \in List /\ rcv'.send = rcv.send /\ rcv'.msgs = longer
    BY <1>1, SMT DEF TypeOK, List
  <1> QED BY <1>2 DEF longer

LEMMA InsertRSInv ==
  ASSUME RSInv, NEW m \in Message, Insert(m)
  PROVE  RSInv'
  <1> USE DEF RSInv, OneRuns
  <1>1. TypeOK'
    <2>1. CASE Len(rcv.msgs) < MaxRS
      <3>1. Len(rcv'.msgs) = Len(rcv.msgs) + 1
        BY <2>1, Stored1, ListFacts, SMT
      <3>2. rcv'.send <= Len(rcv'.msgs) /\ Len(rcv'.msgs) <= MaxRS /\ rcv' \in List
        BY <2>1, <3>1, Stored1, ListFacts, SMT
      <3>3. UNCHANGED <<snd, freed, fanout, rg, th_rs, launched, rs, helper, senders, handled,
                        late, overtaken>>
        BY <2>1 DEF Insert, rounds
      <3> QED BY <3>2, <3>3 DEF TypeOK
    <2>2. CASE ~ (Len(rcv.msgs) < MaxRS)
      BY <2>2, Zenon DEF Insert, TypeOK, rounds
    <2> QED BY <2>1, <2>2
  <1>2. StoredAlive'
    <2>1. CASE Len(rcv.msgs) < MaxRS
      <3>1. /\ rcv'.msgs = Append(rcv.msgs, m) /\ freed' = freed /\ snd' = snd
            /\ m \notin Stored \cup freed
        BY <2>1, Stored1 DEF Insert
      <3>2. Range(rcv'.msgs) = Range(rcv.msgs) \cup {m}
        BY <3>1, ListFacts, RangeAppended
      <3>3. IsInjective(rcv'.msgs)
        BY <3>1, ListFacts, SMT DEF StoredAlive, IsInjective, Stored, Range
      <3> QED BY <3>1, <3>2, <3>3 DEF StoredAlive, Stored
    <2>2. CASE ~ (Len(rcv.msgs) < MaxRS)
      BY <2>2 DEF Insert, StoredAlive, Stored
    <2> QED BY <2>1, <2>2
  <1>3. /\ UNCHANGED <<snd, rg, launched, th_rs, rs, helper, fanout, senders, handled, late, overtaken>>
        /\ freed \subseteq freed'
    BY DEF Insert, rounds
  <1>4. OneRuns' /\ Places'
    <2>1. rcv'.send = rcv.send
      BY Stored1 DEF Insert
    <2> QED BY <1>3, <2>1 DEF Places, AllEnded
  <1>5. Shared'
    BY <1>3 DEF Shared, OwnSlot, Employed, Sends, Current
  <1>6. Progress'
    <2>1. Unsent'
      BY <1>3 DEF Progress, Unsent
    <2>2. Left' /\ AllSent'
      BY <1>3 DEF Progress, Left, AllSent, WhollySent, AllEnded, Sends
    <2>3. \A r \in RSThread, h \in Helper : PartSent(r, h)'
      BY <1>3 DEF Progress, PartSent, Sends, Current
    <2> QED BY <2>1, <2>2, <2>3 DEF Progress
  <1> QED BY <1>1, <1>2, <1>4, <1>5, <1>6

LEMMA ResetRSInv ==
  ASSUME RSInv, NEW r \in RSThread, Reset(r)
  PROVE  RSInv'
  <1> USE DEF RSInv
  <1>1. /\ rs[r] = "reset" /\ rs' = [rs EXCEPT ![r] = "rotate"]
        /\ freed' = freed \cup Range(snd.msgs) /\ snd' = Empty
        /\ UNCHANGED <<rcv, rg, th_rs, launched, fanout, helper, senders, handled, late, overtaken>>
    BY DEF Reset, rounds
  <1>2. rs'[r] = "rotate" /\ \A o \in RSThread \ {r} : rs'[o] = "ended"
    BY <1>1, Moved, Idle
  <1>3. /\ \A o \in RSThread, h \in Helper : helper'[o][h].at = "done" /\ ~ Sends(o, h)'
        /\ senders' = {}
    BY <1>1, Idle DEF Sends
  <1>4. TypeOK'
    BY <1>1, ListFacts, SMT DEF TypeOK, List, Empty, Range
  <1>5. StoredAlive'
    BY <1>1 DEF StoredAlive, Stored, Range, IsInjective, Empty
  <1>6. OneRuns' /\ Places'
    BY <1>1, <1>2, <1>3, Zenon DEF OneRuns, Places, AllEnded
  <1>7. Shared'
    BY <1>1, <1>3, Zenon DEF Shared, OwnSlot
  <1>8. Progress'
    <2>1. snd'.msgs = <<>> /\ Len(snd'.msgs) = 0
      BY <1>1, SMT DEF Empty
    <2>2. Unsent'
      BY <1>1, <2>1, SMT DEF Progress, Unsent, Range
    <2>3. Left' /\ AllSent'
      BY <1>2, <2>1, SMT DEF Left, AllSent
    <2> QED BY <1>3, <2>2, <2>3 DEF Progress, PartSent
  <1> QED BY <1>4, <1>5, <1>6, <1>7, <1>8

LEMMA Started ==
  [Resting EXCEPT !.at = "get"] = [at |-> "get", index |-> 0, t |-> 0]
  BY DEF Resting

LEMMA RotateRSInv ==
  ASSUME RSInv, NEW r \in RSThread, Rotate(r)
  PROVE  RSInv'
  <1> USE DEF RSInv
  <1>1. /\ rs[r] = "rotate" /\ rcv' = snd /\ snd' = rcv
        /\ rs' = [rs EXCEPT ![r] = "send"]
        /\ helper' = [helper EXCEPT ![r] = [h \in Helper |-> [at |-> "get", index |-> 0, t |-> 0]]]
        /\ UNCHANGED <<freed, rg, th_rs, launched, fanout, senders, handled, late, overtaken>>
    BY Started, Zenon DEF Rotate, rounds
  <1>2. TypeOK'
    <2>1. [h \in Helper |-> [at |-> "get", index |-> 0, t |-> 0]] \in
            [Helper -> [at : {"done", "get", "spawn"}, index : 0 .. MaxRS, t : Nat]]
      BY RoundSpeedAssumption, SMT
    <2>2. helper' \in [RSThread -> [Helper -> [at : {"done", "get", "spawn"},
                                           index : 0 .. MaxRS, t : Nat]]]
      BY <1>1, <2>1 DEF TypeOK
    <2>3. rs' \in [RSThread -> {"ended", "reset", "rotate", "send"}]
      BY <1>1 DEF TypeOK
    <2> QED BY <1>1, <2>2, <2>3, Zenon DEF TypeOK
  <1>3. StoredAlive'
    BY <1>1 DEF StoredAlive, Stored
  <1>4. rs'[r] = "send" /\ \A o \in RSThread \ {r} : rs'[o] = "ended"
    BY <1>1, Moved, Idle
  <1>5. /\ \A h \in Helper : helper'[r][h].at = "get"
        /\ \A o \in RSThread \ {r}, h \in Helper : helper'[o][h].at = "done"
    <2>1. /\ helper'[r] = [h \in Helper |-> [at |-> "get", index |-> 0, t |-> 0]]
          /\ \A o \in RSThread \ {r} : helper'[o] = helper[o]
      BY <1>1, HelpersMoved, Zenon
    <2>2. \A h \in Helper : helper'[r][h].at = "get"
      BY <2>1
    <2> QED BY <1>1, <2>1, <2>2, Idle
  <1>6. senders' = {} /\ \A o \in RSThread, h \in Helper : ~ Sends(o, h)'
    BY <1>1, <1>5, Idle DEF Sends
  <1>7. snd.msgs = <<>> /\ snd'.msgs = rcv.msgs /\ snd'.send = 0 /\ rcv'.send = 0
    BY <1>1 DEF Places, Empty
  <1>8. OneRuns' /\ Places'
    <2>1. \A o \in RSThread, h \in Helper : rs'[o] = "send" => helper'[o][h].at # "done"
      BY <1>4, <1>5
    <2>2. \A o \in RSThread, h \in Helper : rs'[o] # "send" => helper'[o][h].at = "done"
      BY <1>4, <1>5
    <2>3. rg # "first" /\ rs'[r] # "ended"
      BY <1>1, <1>4 DEF OneRuns, AllEnded
    <2> QED BY <1>1, <1>4, <1>7, <2>1, <2>2, <2>3 DEF OneRuns, Places, AllEnded
  <1>9. Shared'
    BY <1>1, <1>6, Zenon DEF Shared, OwnSlot
  <1>10. Progress'
    <2>1. \A m \in Message : m \notin freed => handled[m] = {}
      BY <1>7 DEF Progress, Unsent, Range
    <2>2. \A k \in 1 .. Len(rcv.msgs) : handled[rcv.msgs[k]] = {}
      <3>1. \A k \in 1 .. Len(rcv.msgs) : rcv.msgs[k] \in Stored /\ rcv.msgs[k] \in Message
        BY ListFacts, SMT DEF Stored, Range
      <3> QED BY <2>1, <3>1 DEF StoredAlive
    <2>3. Unsent'
      BY <1>1, <1>7, <2>1, <2>2 DEF Unsent
    <2>4. Left'
      BY <1>7, ListFacts, SMT DEF Left
    <2>5. AllSent'
      BY <1>4 DEF AllSent, AllEnded
    <2> QED BY <1>6, <2>3, <2>4, <2>5 DEF Progress, PartSent
  <1> QED BY <1>2, <1>3, <1>8, <1>9, <1>10

LEMMA EndRSInv ==
  ASSUME RSInv, NEW r \in RSThread, End(r)
  PROVE  RSInv'
  <1> USE DEF RSInv
  <1>1. /\ rs[r] = "send" /\ \A h \in Helper : helper[r][h].at = "done"
        /\ rs' = [rs EXCEPT ![r] = "ended"]
        /\ UNCHANGED <<rcv, snd, freed, rg, th_rs, launched, fanout, helper, senders, handled, overtaken>>
        /\ late' = late \ {r}
    BY DEF End, rounds
  <1>2. rs'[r] = "ended" /\ \A o \in RSThread \ {r} : rs'[o] = rs[o] /\ rs[o] = "ended"
    BY <1>1, Moved DEF OneRuns
  <1>3. \A o \in RSThread, h \in Helper : helper[o][h].at = "done"
    BY <1>1, <1>2 DEF Places
  <1>4. TypeOK'
    BY <1>1, SMT DEF TypeOK
  <1>5. StoredAlive'
    BY <1>1 DEF StoredAlive, Stored
  <1>6. OneRuns' /\ Places'
    BY <1>1, <1>2, <1>3 DEF OneRuns, Places, AllEnded
  <1>7. Shared'
    BY <1>1 DEF Shared, OwnSlot, Employed, Sends, Current
  <1>8. \A k \in 1 .. Len(snd.msgs) : WhollySent(k)
    BY <1>1, SentWhenDone
  <1>9. Progress'
    <2>1. Unsent'
      BY <1>1 DEF Progress, Unsent
    <2>2. Left'
      BY <1>1, <1>2 DEF Left
    <2>3. AllSent'
      BY <1>1, <1>8 DEF AllSent, WhollySent
    <2>4. \A o \in RSThread, h \in Helper : PartSent(o, h)'
      BY <1>1 DEF Progress, PartSent, Sends, Current
    <2> QED BY <2>1, <2>2, <2>3, <2>4 DEF Progress
  <1> QED BY <1>4, <1>5, <1>6, <1>7, <1>9

-----------------------------------------------------------------------------
(* A helper that works does so for the only RS thread that runs.           *)
LEMMA Busy ==
  ASSUME RSInv, NEW r \in RSThread, NEW h \in Helper, helper[r][h].at # "done"
  PROVE  /\ rs[r] = "send" /\ ~ AllEnded
         /\ \A o \in RSThread \ {r} : rs[o] = "ended"
         /\ \A o \in RSThread \ {r}, g \in Helper : helper[o][g].at = "done"
         /\ \A s \in senders : s.rs = r /\ s.helper \in Helper /\ Sends(r, s.helper)
  <1> USE DEF RSInv
  <1>1. rs[r] = "send"
    BY DEF Places
  <1>2. \A o \in RSThread \ {r} : rs[o] = "ended"
    BY <1>1 DEF OneRuns
  <1>3. \A o \in RSThread \ {r}, g \in Helper : helper[o][g].at = "done"
    BY <1>2 DEF Places
  <1>4. ASSUME NEW s \in senders
        PROVE  s.rs = r /\ s.helper \in Helper /\ Sends(r, s.helper)
    <2>1. s.rs \in RSThread /\ s.helper \in Helper
      BY DEF TypeOK
    <2>2. Sends(s.rs, s.helper)
      BY DEF Shared, Employed
    <2>3. s.rs = r
      BY <1>3, <2>1, <2>2 DEF Sends
    <2> QED BY <2>1, <2>2, <2>3
  <1> QED BY <1>1, <1>2, <1>3, <1>4 DEF AllEnded

LEMMA HelperTyped ==
  ASSUME TypeOK, NEW r \in RSThread, NEW h \in Helper
  PROVE  /\ helper[r][h].at \in {"done", "get", "spawn"}
         /\ helper[r][h].index \in 0 .. MaxRS /\ helper[r][h].t \in Nat
  BY DEF TypeOK

LEMMA CurrentHeld ==
  ASSUME RSInv, NEW r \in RSThread, NEW h \in Helper, Sends(r, h)
  PROVE  /\ helper[r][h].index \in 1 .. Len(snd.msgs)
         /\ Current(r, h) \in Message /\ Current(r, h) \in Range(snd.msgs)
         /\ Current(r, h) \notin freed
  <1> USE DEF RSInv
  <1>1. helper[r][h].index \in 1 .. Len(snd.msgs)
    BY HelperTyped, ListFacts, SMT DEF Shared, OwnSlot
  <1>2. Current(r, h) \in Message /\ Current(r, h) \in Range(snd.msgs)
    BY <1>1, ListFacts, ElementOfSeq DEF Current, Range
  <1> QED BY <1>1, <1>2 DEF StoredAlive, Stored

LEMMA SlotsDiffer ==
  ASSUME RSInv, NEW i \in 1 .. Len(snd.msgs), NEW k \in 1 .. Len(snd.msgs), i # k
  PROVE  snd.msgs[i] # snd.msgs[k]
  BY ListFacts DEF RSInv, StoredAlive, IsInjective

(* A step of one helper keeps what the RG and RS threads rely on.          *)
LEMMA HelperPlaces ==
  ASSUME RSInv, NEW r \in RSThread, NEW h \in Helper, helper[r][h].at # "done",
         UNCHANGED <<rcv, rg, th_rs, launched, rs, late, overtaken>>,
         \A o \in RSThread, g \in Helper : o # r \/ g # h => helper'[o][g] = helper[o][g],
         Len(snd'.msgs) = Len(snd.msgs),
         \/ helper'[r][h].at # "done" /\ (snd'.send = snd.send \/ snd.send # Len(snd.msgs))
         \/ snd'.send = Len(snd.msgs)
  PROVE  OneRuns' /\ Places'
  <1> USE DEF RSInv
  <1>1. OneRuns'
    BY DEF OneRuns, AllEnded
  <1>2. \A o \in RSThread : rs'[o] # "rotate"
    BY Busy
  <1>3. \A o \in RSThread, g \in Helper : rs'[o] # "send" => helper'[o][g].at = "done"
    BY Busy DEF Places
  <1>4. \A o \in RSThread, g \in Helper :
          rs'[o] = "send" /\ helper'[o][g].at = "done" => snd'.send = Len(snd'.msgs)
    BY DEF Places
  <1> QED BY <1>1, <1>2, <1>3, <1>4 DEF Places

(* A helper that has no sender takes no part in the sending any more: it   *)
(* looks for a message, or found none.                                     *)
LEMMA RestingPlace ==
  /\ Resting.at # "spawn"
  /\ Resting \in [at : {"done", "get", "spawn"}, index : 0 .. MaxRS, t : Nat]
  BY RoundSpeedAssumption, SMT DEF Resting

LEMMA HelperStops ==
  ASSUME RSInv, NEW r \in RSThread, NEW h \in Helper, helper[r][h].at # "done",
         NEW to \in [at : {"done", "get", "spawn"}, index : 0 .. MaxRS, t : Nat],
         to.at # "spawn", to.at # "get" => snd.send = Len(snd.msgs),
         helper' = [helper EXCEPT ![r][h] = to],
         UNCHANGED <<rcv, snd, freed, rg, th_rs, launched, fanout, rs, senders, handled, late, overtaken>>,
         \A s \in senders : s.helper # h,
         Sends(r, h) => handled[Current(r, h)] = Range(fanout)
  PROVE  RSInv'
  <1> USE DEF RSInv
  <1>1. /\ helper'[r][h] = to
        /\ \A o \in RSThread, g \in Helper : o # r \/ g # h => helper'[o][g] = helper[o][g]
    BY HelperMoved
  <1>2. ~ Sends(r, h)' /\ \A o \in RSThread, g \in Helper :
          Sends(o, g)' => Sends(o, g) /\ helper'[o][g] = helper[o][g]
    BY <1>1, Zenon DEF Sends
  <1>3. TypeOK'
    BY DEF TypeOK
  <1>4. StoredAlive'
    BY DEF StoredAlive, Stored
  <1>5. OneRuns' /\ Places'
    BY <1>1, HelperPlaces, HelperTyped
  <1>6. Shared'
    <2>1. ASSUME NEW s \in senders PROVE Employed(s)'
      <3>1. Employed(s) /\ s.rs \in RSThread /\ s.helper \in Helper
        BY DEF Shared, TypeOK
      <3>2. helper'[s.rs][s.helper] = helper[s.rs][s.helper]
        BY <1>1, <3>1
      <3> QED BY <3>1, <3>2 DEF Employed, Sends, Current
    <2>2. ASSUME NEW o \in RSThread, NEW g \in Helper PROVE OwnSlot(o, g)'
      BY <1>2 DEF Shared, OwnSlot
    <2> QED BY <2>1, <2>2 DEF Shared
  <1>7. Progress'
    <2>1. Unsent'
      BY DEF Progress, Unsent
    <2>2. Left'
      <3>1. ASSUME NEW k \in 1 .. Len(snd.msgs), k <= snd.send
            PROVE  \/ \E g \in Helper : Sends(r, g)' /\ helper'[r][g].index = k
                   \/ WhollySent(k)'
        <4>1. CASE WhollySent(k)
          BY <4>1 DEF WhollySent
        <4>2. ASSUME NEW g \in Helper, Sends(r, g), helper[r][g].index = k
              PROVE  \/ \E f \in Helper : Sends(r, f)' /\ helper'[r][f].index = k
                     \/ WhollySent(k)'
          <5>1. CASE g = h
            BY <4>2, <5>1 DEF WhollySent, Current
          <5>2. CASE g # h
            BY <1>1, <4>2, <5>2 DEF Sends
          <5> QED BY <5>1, <5>2
        <4>3. rs[r] = "send"
          BY Busy
        <4> QED BY <3>1, <4>1, <4>2, <4>3 DEF Progress, Left
      <3>2. \A o \in RSThread : rs'[o] = "send" => o = r
        BY Busy
      <3> QED BY <3>1, <3>2 DEF Left
    <2>3. AllSent'
      BY Busy DEF AllSent, AllEnded
    <2>4. ASSUME NEW o \in RSThread, NEW g \in Helper PROVE PartSent(o, g)'
      <3>1. CASE Sends(o, g)'
        <4>1. Sends(o, g) /\ helper'[o][g] = helper[o][g]
          BY <1>2, <3>1
        <4>2. Current(o, g)' = Current(o, g)
          BY <4>1 DEF Current
        <4> QED BY <4>1, <4>2 DEF Progress, PartSent
      <3> QED BY <3>1 DEF PartSent
    <2> QED BY <2>1, <2>2, <2>3, <2>4 DEF Progress
  <1> QED BY <1>3, <1>4, <1>5, <1>6, <1>7

LEMMA TakeRSInv ==
  ASSUME RSInv, NEW r \in RSThread, NEW h \in Helper, Take(r, h)
  PROVE  RSInv'
  <1> USE DEF RSInv
  <1>1. /\ helper[r][h].at = "get"
        /\ UNCHANGED <<rcv, freed, rg, th_rs, launched, fanout, rs, senders, handled, late, overtaken>>
    BY DEF Take, rounds
  <1>2. /\ \A o \in RSThread \ {r}, g \in Helper : helper[o][g].at = "done"
        /\ \A s \in senders : s.rs = r /\ s.helper \in Helper /\ s.helper # h
        /\ ~ AllEnded /\ rs[r] = "send" /\ \A o \in RSThread \ {r} : rs[o] = "ended"
    BY <1>1, Busy DEF Sends
  <1>3. CASE snd.send < Len(snd.msgs)
    <2> DEFINE to == [at |-> "spawn", index |-> snd.send + 1, t |-> 0]
    <2>1. helper' = [helper EXCEPT ![r][h] = to]
      BY <1>3 DEF Take
    <2>2. snd' \in List /\ snd'.msgs = snd.msgs /\ snd'.send = snd.send + 1
      <3> DEFINE n == snd.send + 1
      <3>1. n \in 0 .. MaxRS /\ snd' = [snd EXCEPT !.send = n]
        BY <1>3, ListFacts, SMT DEF Take
      <3> HIDE DEF n
      <3>2. snd' \in List /\ snd'.msgs = snd.msgs /\ snd'.send = n
        BY <3>1, ListFacts DEF List
      <3> QED BY <3>2 DEF n
    <2>3. /\ helper'[r][h].at = "spawn" /\ helper'[r][h].index = snd.send + 1
          /\ helper'[r][h].t = 0
          /\ \A o \in RSThread, g \in Helper : o # r \/ g # h => helper'[o][g] = helper[o][g]
      <3> HIDE DEF to
      <3>1. helper'[r][h] = to
            /\ \A o \in RSThread, g \in Helper : o # r \/ g # h => helper'[o][g] = helper[o][g]
        BY <2>1 DEF TypeOK
      <3> QED BY <3>1 DEF to
    <2>4. TypeOK'
      <3>1. to \in [at : {"done", "get", "spawn"}, index : 0 .. MaxRS, t : Nat]
        BY <1>3, ListFacts, SMT
      <3>2. helper' \in [RSThread -> [Helper -> [at : {"done", "get", "spawn"},
                                             index : 0 .. MaxRS, t : Nat]]]
        BY <2>1, <3>1 DEF TypeOK
      <3>3. snd'.send <= Len(snd'.msgs) /\ Len(snd'.msgs) <= MaxRS
        BY <1>3, <2>2, ListFacts, SMT
      <3> QED BY <1>1, <2>2, <3>2, <3>3 DEF TypeOK
    <2>5. StoredAlive'
      BY <1>1, <2>2 DEF StoredAlive, Stored
    <2>6. OneRuns' /\ Places'
      BY <1>1, <1>3, <2>2, <2>3, ListFacts, HelperPlaces, SMT
    <2>7. /\ Sends(r, h)'
          /\ \A o \in RSThread, g \in Helper :
               o # r \/ g # h => (Sends(o, g)' <=> Sends(o, g))
      BY <2>3, Zenon DEF Sends
    <2>8. \A g \in Helper \ {h} : Sends(r, g) =>
            helper[r][g].index \in Nat /\ helper[r][g].index < snd.send + 1
      BY HelperTyped, ListFacts, SMT DEF Shared, OwnSlot
    <2>9. Shared'
      <3>1. ASSUME NEW o \in RSThread, NEW g \in Helper, Sends(o, g)'
            PROVE  OwnSlot(o, g)'
        <4>1. o = r
          BY <1>2, <2>3, <3>1 DEF Sends
        <4>2. CASE g = h
          <5>1. 1 <= helper'[r][h].index /\ helper'[r][h].index <= snd'.send
            BY <2>2, <2>3, ListFacts, SMT
          <5>2. helper'[r][h].t <= Len(fanout)
            BY <2>3, SMT DEF TypeOK
          <5>3. \A f \in Helper \ {h} : Sends(r, f)' => helper'[r][f].index # snd.send + 1
            BY <2>3, <2>7, <2>8, ListFacts, SMT
          <5> QED BY <1>1, <2>3, <4>1, <4>2, <5>1, <5>2, <5>3 DEF OwnSlot
        <4>3. CASE g # h
          <5>1. helper'[r][g] = helper[r][g] /\ Sends(r, g)
            BY <2>3, <2>7, <3>1, <4>1, <4>3
          <5>2. OwnSlot(r, g)
            BY DEF Shared
          <5>3. helper[r][g].index # snd.send + 1
            BY <2>8, <4>3, <5>1, ListFacts, SMT
          <5>4. \A f \in Helper \ {g} : Sends(r, f)' => helper'[r][f].index # helper'[r][g].index
            BY <2>3, <2>7, <5>1, <5>2, <5>3 DEF OwnSlot
          <5>5. /\ 1 <= helper[r][g].index /\ helper[r][g].index <= snd'.send
                /\ helper[r][g].t <= Len(fanout)
            BY <2>2, <5>1, <5>2, HelperTyped, ListFacts, SMT DEF OwnSlot
          <5> QED BY <1>1, <4>1, <5>1, <5>4, <5>5 DEF OwnSlot
        <4> QED BY <4>2, <4>3
      <3>2. ASSUME NEW s \in senders
            PROVE  Employed(s)'
        <4>1. helper'[s.rs][s.helper] = helper[s.rs][s.helper]
          BY <1>2, <2>3
        <4>2. Employed(s)
          BY DEF Shared
        <4> QED BY <1>1, <2>2, <4>1, <4>2 DEF Employed, Sends, Current
      <3> QED BY <1>1, <3>1, <3>2 DEF Shared, OwnSlot
    <2>10. Progress'
      <3>1. Unsent'
        <4>1. snd'.msgs = snd.msgs /\ snd'.send = snd.send + 1 /\ handled' = handled /\ freed' = freed
          BY <1>1, <2>2
        <4>2. \A k \in 1 .. Len(snd.msgs) : snd.send + 1 < k => snd.send < k
          BY ListFacts, SMT
        <4> QED BY <4>1, <4>2, Zenon DEF Progress, Unsent
      <3>2. Left'
        <4>1. ASSUME NEW k \in 1 .. Len(snd.msgs), k <= snd.send + 1
              PROVE  \/ \E g \in Helper : Sends(r, g)' /\ helper'[r][g].index = k
                     \/ WhollySent(k)'
          <5>1. CASE k = snd.send + 1
            BY <2>3, <2>7, <5>1
          <5>2. CASE k <= snd.send /\ WhollySent(k)
            BY <1>1, <2>2, <5>2 DEF WhollySent
          <5>3. CASE \E g \in Helper : Sends(r, g) /\ helper[r][g].index = k
            <6>1. PICK g \in Helper : Sends(r, g) /\ helper[r][g].index = k
              BY <5>3
            <6>2. g # h
              BY <1>1, <6>1 DEF Sends
            <6> QED BY <2>3, <2>7, <6>1, <6>2
          <5>4. k <= snd.send \/ k = snd.send + 1
            BY <4>1, ListFacts, SMT
          <5> QED BY <1>2, <5>1, <5>2, <5>3, <5>4 DEF Progress, Left
        <4>2. \A o \in RSThread : rs'[o] = "send" => o = r
          BY <1>1, <1>2
        <4> QED BY <2>2, <4>1, <4>2 DEF Left
      <3>3. AllSent'
        BY <1>1, <1>2 DEF AllSent, AllEnded
      <3>4. ASSUME NEW o \in RSThread, NEW g \in Helper, Sends(o, g)'
            PROVE  PartSent(o, g)'
        <4>1. o = r
          BY <1>2, <2>3, <3>4 DEF Sends
        <4>2. CASE g = h
          <5>1. handled[snd.msgs[snd.send + 1]] = {}
            <6>1. snd.send + 1 \in 1 .. Len(snd.msgs) /\ snd.send < snd.send + 1
              BY <1>3, ListFacts, SMT
            <6> QED BY <6>1 DEF Progress, Unsent
          <5>2. Current(r, h)' = snd.msgs[snd.send + 1]
            BY <2>2, <2>3 DEF Current
          <5>3. ~ \E k \in 1 .. helper'[r][h].t : TRUE
            BY <2>3, SMT
          <5> QED BY <1>1, <4>1, <4>2, <5>1, <5>2, <5>3 DEF PartSent
        <4>3. CASE g # h
          <5>1. helper'[r][g] = helper[r][g] /\ Sends(r, g)
            BY <2>3, <2>7, <3>4, <4>1, <4>3
          <5>2. Current(r, g)' = Current(r, g)
            BY <2>2, <5>1 DEF Current
          <5> QED BY <1>1, <4>1, <5>1, <5>2 DEF Progress, PartSent
        <4> QED BY <4>2, <4>3
      <3> QED BY <3>1, <3>2, <3>3, <3>4 DEF Progress, PartSent
    <2> QED BY <2>4, <2>5, <2>6, <2>9, <2>10
  <1>4. CASE ~ (snd.send < Len(snd.msgs))
    <2>1. helper' = [helper EXCEPT ![r][h] = Resting] /\ snd' = snd
      BY <1>4 DEF Take
    <2>2. snd.send = Len(snd.msgs)
      BY <1>4, ListFacts, SMT
    <2>3. ~ Sends(r, h) /\ helper[r][h].at # "done"
      BY <1>1 DEF Sends
    <2> QED BY <1>1, <1>2, <2>1, <2>2, <2>3, HelperStops, RestingPlace
  <1> QED BY <1>3, <1>4

(* It joins them after the last peer: its message went to all.             *)
LEMMA JoinRSInv ==
  ASSUME RSInv, NEW r \in RSThread, NEW h \in Helper, Join(r, h)
  PROVE  RSInv'
  <1> USE DEF RSInv
  <1> DEFINE to == [at |-> "get", index |-> 0, t |-> 0]
  <1>1. /\ Sends(r, h) /\ helper[r][h].t = Len(fanout) /\ Mine(r, h) = {}
        /\ helper' = [helper EXCEPT ![r][h] = to]
        /\ UNCHANGED <<rcv, snd, freed, rg, th_rs, launched, fanout, rs, senders, handled, late, overtaken>>
    BY Started DEF Join, rounds, Sends
  <1>2. helper[r][h].at # "done"
    BY <1>1 DEF Sends
  <1>3. \A s \in senders : s.rs = r /\ s.helper # h
    BY <1>1, <1>2, Busy DEF Mine
  <1>4. handled[Current(r, h)] = Range(fanout)
    <2>1. \A p \in Peer : p \in handled[Current(r, h)] <=> \E k \in 1 .. Len(fanout) : p = fanout[k]
      BY <1>1, <1>3 DEF Progress, PartSent
    <2>2. DOMAIN fanout = 1 .. Len(fanout) /\ \A k \in 1 .. Len(fanout) : fanout[k] \in Peer
      BY SMT DEF TypeOK
    <2>3. Current(r, h) \in Message
      BY <1>1, CurrentHeld
    <2>4. handled[Current(r, h)] \subseteq Peer
      BY <2>3 DEF TypeOK
    <2> QED BY <2>1, <2>2, <2>4 DEF Range
  <1>5. to \in [at : {"done", "get", "spawn"}, index : 0 .. MaxRS, t : Nat] /\ to.at = "get"
    BY RoundSpeedAssumption, SMT
  <1> HIDE DEF to
  <1> QED BY <1>1, <1>2, <1>3, <1>4, <1>5, HelperStops

(* Senders come and go for the message of one helper; the rest stays.      *)
LEMMA SenderProgress ==
  ASSUME RSInv, NEW r \in RSThread, NEW h \in Helper, Sends(r, h),
         UNCHANGED <<snd, freed, rg, fanout, rs, late, overtaken>>,
         \A o \in RSThread, g \in Helper :
           /\ o # r \/ g # h => helper'[o][g] = helper[o][g]
           /\ helper'[o][g].at = helper[o][g].at /\ helper'[o][g].index = helper[o][g].index,
         \A m \in Message : m # Current(r, h) => handled'[m] = handled[m],
         \A s : s.rs # r \/ s.helper # h => (s \in senders' <=> s \in senders),
         PartSent(r, h)'
  PROVE  Progress'
  <1> USE DEF RSInv
  <1>1. \A o \in RSThread \ {r} : rs[o] = "ended" /\ \A g \in Helper : ~ Sends(o, g)
    BY Busy DEF Sends
  <1>2. \A o \in RSThread, g \in Helper :
          (Sends(o, g)' <=> Sends(o, g)) /\ Current(o, g)' = Current(o, g)
    BY DEF Sends, Current
  <1>3. \A k \in 1 .. Len(snd.msgs) : k # helper[r][h].index => snd.msgs[k] # Current(r, h)
    BY CurrentHeld, SlotsDiffer DEF Current
  <1>4. \A k \in 1 .. Len(snd.msgs) : snd.msgs[k] \in Message
    BY ListFacts, ElementOfSeq
  <1>5. Unsent'
    <2>1. /\ helper[r][h].index <= snd.send /\ helper[r][h].index \in Nat
          /\ Current(r, h) \in Range(snd.msgs)
      BY CurrentHeld, HelperTyped, SMT DEF Shared, OwnSlot
    <2>2. \A k \in 1 .. Len(snd.msgs) : snd.send < k => k # helper[r][h].index
      BY <2>1, ListFacts, SMT
    <2>3. \A m \in Message : m \notin Range(snd.msgs) \cup freed => handled'[m] = {}
      BY <2>1 DEF Progress, Unsent
    <2>4. \A k \in 1 .. Len(snd.msgs) : snd.send < k => handled'[snd.msgs[k]] = {}
      BY <1>3, <1>4, <2>2 DEF Progress, Unsent
    <2> QED BY <2>3, <2>4 DEF Unsent
  <1>6. Left'
    <2>1. ASSUME NEW k \in 1 .. Len(snd.msgs), k <= snd.send
          PROVE  \/ \E g \in Helper : Sends(r, g)' /\ helper'[r][g].index = k
                 \/ WhollySent(k)'
      <3>1. CASE k = helper[r][h].index
        BY <1>2, <3>1
      <3>2. CASE k # helper[r][h].index /\ WhollySent(k)
        BY <1>3, <1>4, <3>2 DEF WhollySent
      <3>3. CASE \E g \in Helper : Sends(r, g) /\ helper[r][g].index = k
        BY <1>2, <3>3
      <3>4. rs[r] = "send"
        BY Busy DEF Sends
      <3> QED BY <2>1, <3>1, <3>2, <3>3, <3>4 DEF Progress, Left
    <2> QED BY <1>1, <2>1 DEF Left
  <1>7. AllSent'
    BY Busy DEF AllSent, AllEnded, Sends
  <1>8. ASSUME NEW o \in RSThread, NEW g \in Helper, Sends(o, g), o # r \/ g # h
        PROVE  PartSent(o, g)'
    <2>1. o = r
      BY <1>1, <1>8
    <2>2. Current(o, g) # Current(r, h) /\ Current(o, g) \in Message
      <3>1. helper[r][g].index # helper[r][h].index
        BY <1>8, <2>1 DEF Shared, OwnSlot
      <3>2. helper[r][g].index \in 1 .. Len(snd.msgs) /\ Current(r, g) \in Message
        BY <1>8, <2>1, CurrentHeld
      <3> QED BY <1>3, <2>1, <3>1, <3>2 DEF Current
    <2>3. handled'[Current(o, g)'] = handled[Current(o, g)]
      BY <1>2, <2>2
    <2>4. helper'[o][g] = helper[o][g]
      BY <1>8
    <2>5. \A s : s.rs = o /\ s.helper = g => (s \in senders' <=> s \in senders)
      BY <1>8
    <2>6. PartSent(o, g)
      BY DEF Progress
    <2> QED BY <2>3, <2>4, <2>5, <2>6 DEF PartSent, Sends
  <1>9. \A o \in RSThread, g \in Helper : PartSent(o, g)'
    BY <1>2, <1>8 DEF PartSent
  <1> QED BY <1>5, <1>6, <1>7, <1>9 DEF Progress

LEMMA FanoutFacts ==
  ASSUME TypeOK
  PROVE  /\ fanout \in Seq(Peer) /\ Len(fanout) \in Nat
         /\ DOMAIN fanout = 1 .. Len(fanout)
         /\ \A k \in 1 .. Len(fanout) : fanout[k] \in Peer
  <1>1. fanout \in Seq(Peer)
    BY DEF TypeOK
  <1> QED BY <1>1, ElementOfSeq

(* A helper creates one sender more, for the next peer.                    *)
LEMMA NewSender ==
  ASSUME RSInv, NEW r \in RSThread, NEW h \in Helper, Spawn(r, h)
  PROVE  \E n \in [rs : RSThread, helper : Helper, peer : Peer, msg : Message \cup {Null}] :
           /\ senders' = senders \cup {n}
           /\ n.rs = r /\ n.helper = h /\ n.msg = Current(r, h)
           /\ n.peer = fanout[helper[r][h].t + 1]
           /\ \A s \in senders : s.rs = r /\ s.helper = h => s.peer # n.peer
           /\ n.peer \notin handled[Current(r, h)]
  <1> USE DEF RSInv
  <1> DEFINE i == helper[r][h].t + 1
             n == [rs |-> r, helper |-> h, peer |-> fanout[i], msg |-> Current(r, h)]
  <1>1. Sends(r, h) /\ helper[r][h].t < Len(fanout)
    BY DEF Spawn, Sends
  <1>2. i \in 1 .. Len(fanout)
    BY <1>1, HelperTyped, FanoutFacts, SMT
  <1>3. \A k \in 1 .. helper[r][h].t : fanout[k] # fanout[i]
    <2>1. \A k \in 1 .. helper[r][h].t : k \in DOMAIN fanout /\ k # i
      BY <1>1, HelperTyped, FanoutFacts, SMT
    <2>2. i \in DOMAIN fanout
      BY <1>2, FanoutFacts
    <2> QED BY <2>1, <2>2 DEF Shared, IsInjective
  <1>4. Slot(helper[r][h].index) = Current(r, h)
    BY <1>1, CurrentHeld, SMT DEF Slot, Current
  <1>5. \A s \in senders : s.rs = r /\ s.helper = h => s.peer # fanout[i]
    BY <1>3 DEF Shared, Employed
  <1>6. fanout[i] \in Peer
    BY <1>2, FanoutFacts
  <1>7. fanout[i] \notin handled[Current(r, h)]
    BY <1>1, <1>3, <1>6 DEF Progress, PartSent
  <1>8. senders' = senders \cup {n}
    BY <1>4 DEF Spawn
  <1>9. /\ n \in [rs : RSThread, helper : Helper, peer : Peer, msg : Message \cup {Null}]
        /\ n.rs = r /\ n.helper = h /\ n.msg = Current(r, h) /\ n.peer = fanout[i]
    BY <1>1, <1>6, CurrentHeld
  <1> HIDE DEF n
  <1> QED BY <1>5, <1>7, <1>8, <1>9

LEMMA PassedPeer ==
  ASSUME NEW x \in [at : {"done", "get", "spawn"}, index : 0 .. MaxRS, t : Nat], NEW n \in Nat
  PROVE  [x EXCEPT !.t = n] \in [at : {"done", "get", "spawn"}, index : 0 .. MaxRS, t : Nat]
  OBVIOUS

LEMMA SpawnRSInv ==
  ASSUME RSInv, NEW r \in RSThread, NEW h \in Helper, Spawn(r, h)
  PROVE  RSInv'
  <1> USE DEF RSInv
  <1> DEFINE to == helper[r][h].t + 1
  <1>1. /\ Sends(r, h) /\ helper[r][h].t < Len(fanout)
        /\ helper' = [helper EXCEPT ![r][h].t = to]
        /\ UNCHANGED <<rcv, snd, freed, rg, th_rs, launched, fanout, rs, handled, late, overtaken>>
    BY DEF Spawn, rounds, Sends
  <1>2. helper[r][h].at # "done"
    BY <1>1 DEF Sends
  <1>3. PICK n \in [rs : RSThread, helper : Helper, peer : Peer, msg : Message \cup {Null}] :
          /\ senders' = senders \cup {n}
          /\ n.rs = r /\ n.helper = h /\ n.msg = Current(r, h) /\ n.peer = fanout[to]
          /\ \A s \in senders : s.rs = r /\ s.helper = h => s.peer # n.peer
          /\ n.peer \notin handled[Current(r, h)]
    BY NewSender
  <1>4. to \in Nat /\ to <= Len(fanout) /\ helper[r][h].t \in Nat
    BY <1>1, HelperTyped, FanoutFacts, SMT
  <1>5. to = helper[r][h].t + 1 /\ n.peer \in Peer
    BY <1>3
  <1> HIDE DEF to
  <1>6. /\ helper'[r][h].at = helper[r][h].at /\ helper'[r][h].index = helper[r][h].index
        /\ helper'[r][h].t = to
        /\ \A o \in RSThread, g \in Helper : o # r \/ g # h => helper'[o][g] = helper[o][g]
    BY <1>1 DEF TypeOK
  <1>7. TypeOK'
    <2>1. helper' \in [RSThread -> [Helper -> [at : {"done", "get", "spawn"},
                                             index : 0 .. MaxRS, t : Nat]]]
      <3> DEFINE R == [at : {"done", "get", "spawn"}, index : 0 .. MaxRS, t : Nat]
      <3>1. helper \in [RSThread -> [Helper -> R]]
        BY DEF TypeOK
      <3>2. [helper[r][h] EXCEPT !.t = to] \in R
        BY <1>4, <3>1, PassedPeer
      <3>3. helper' = [helper EXCEPT ![r] =
                         [helper[r] EXCEPT ![h] = [helper[r][h] EXCEPT !.t = to]]]
        BY <1>1, <3>1
      <3> HIDE DEF R
      <3>4. helper' \in [RSThread -> [Helper -> R]]
        BY <3>1, <3>2, <3>3
      <3> QED BY <3>4 DEF R
    <2> QED BY <1>1, <1>3, <2>1, Zenon DEF TypeOK
  <1>8. StoredAlive'
    BY <1>1 DEF StoredAlive, Stored
  <1>9. OneRuns' /\ Places'
    BY <1>1, <1>2, <1>6, HelperPlaces
  <1>10. \A o \in RSThread, g \in Helper :
           /\ helper'[o][g].at = helper[o][g].at /\ helper'[o][g].index = helper[o][g].index
           /\ Sends(o, g)' <=> Sends(o, g)
           /\ Current(o, g)' = Current(o, g)
    BY <1>1, <1>6 DEF Sends, Current
  <1>11. Shared'
    <2>1. \A o \in RSThread, g \in Helper : helper'[o][g].t <= Len(fanout) \/ ~ Sends(o, g)
      BY <1>4, <1>6 DEF Shared, OwnSlot
    <2>2. \A o \in RSThread, g \in Helper : OwnSlot(o, g)'
      BY <1>1, <1>10, <2>1 DEF Shared, OwnSlot
    <2>3. Employed(n)'
      <3>1. to \in 1 .. helper'[r][h].t
        BY <1>4, <1>5, <1>6, SMT
      <3> QED BY <1>1, <1>3, <1>10, <3>1 DEF Employed
    <2>4. ASSUME NEW s \in senders PROVE Employed(s)'
      <3>1. Employed(s) /\ s.rs \in RSThread /\ s.helper \in Helper
        BY DEF Shared, TypeOK
      <3>2. helper[s.rs][s.helper].t <= helper'[s.rs][s.helper].t
            /\ helper[s.rs][s.helper].t \in Nat /\ helper'[s.rs][s.helper].t \in Nat
        <4>1. CASE s.rs = r /\ s.helper = h
          BY <1>4, <1>5, <1>6, <4>1, SMT
        <4>2. CASE s.rs # r \/ s.helper # h
          <5>1. helper'[s.rs][s.helper] = helper[s.rs][s.helper]
            BY <1>6, <3>1, <4>2
          <5> QED BY <3>1, <5>1, HelperTyped, SMT
        <4> QED BY <4>1, <4>2
      <3>3. PICK k \in 1 .. helper[s.rs][s.helper].t : s.peer = fanout[k]
        BY <3>1 DEF Employed
      <3>4. k \in 1 .. helper'[s.rs][s.helper].t
        BY <3>2, SMT
      <3> QED BY <1>1, <1>10, <3>1, <3>3, <3>4 DEF Employed
    <2> QED BY <1>1, <1>3, <2>2, <2>3, <2>4 DEF Shared
  <1>12. PartSent(r, h)'
    <2>1. ASSUME NEW p \in Peer
          PROVE  p \in handled[Current(r, h)] <=>
                   /\ \E k \in 1 .. to : p = fanout[k]
                   /\ \A s \in senders' : s.rs = r /\ s.helper = h => s.peer # p
      <3>1. CASE p = fanout[to]
        BY <1>3, <1>5, <3>1
      <3>2. CASE p # fanout[to]
        <4>1. (\E k \in 1 .. to : p = fanout[k]) <=> \E k \in 1 .. helper[r][h].t : p = fanout[k]
          BY <1>4, <1>5, <3>2, SMT
        <4>2. (\A s \in senders' : s.rs = r /\ s.helper = h => s.peer # p)
                <=> \A s \in senders : s.rs = r /\ s.helper = h => s.peer # p
          BY <1>3, <1>5, <3>2
        <4> QED BY <1>1, <4>1, <4>2 DEF Progress, PartSent
      <3> QED BY <3>1, <3>2
    <2> QED BY <1>1, <1>6, <1>10, <2>1 DEF PartSent
  <1>13. Progress'
    <2>1. \A s : s.rs # r \/ s.helper # h => (s \in senders' <=> s \in senders)
      BY <1>3, <1>5
    <2> QED BY <1>1, <1>6, <1>10, <1>12, <2>1, SenderProgress
  <1> QED BY <1>7, <1>8, <1>9, <1>11, <1>13

LEMMA SendRSInv ==
  ASSUME RSInv, NEW r \in RSThread, NEW h \in Helper, NEW p \in Peer, Send(r, h, p)
  PROVE  RSInv'
  <1> USE DEF RSInv
  <1>1. PICK s \in Mine(r, h) :
          /\ s.peer = p
          /\ senders' = senders \ {s}
          /\ handled' = [m \in Message |-> IF m = s.msg THEN handled[m] \cup {p} ELSE handled[m]]
          /\ UNCHANGED <<rcv, snd, freed, rg, th_rs, launched, fanout, rs, helper, late, overtaken>>
    BY Zenon DEF Send, rounds
  <1>2. /\ s \in senders /\ s.rs = r /\ s.helper = h
        /\ Sends(r, h) /\ s.msg = Current(r, h)
        /\ \E k \in 1 .. helper[r][h].t : p = fanout[k]
    BY <1>1 DEF Mine, Shared, Employed
  <1>3. helper[r][h].at # "done" /\ s.msg \in Message
    BY <1>2, CurrentHeld DEF Sends
  <1>4. /\ handled'[s.msg] = handled[s.msg] \cup {p}
        /\ \A m \in Message : m # s.msg => handled'[m] = handled[m]
    BY <1>1, <1>3
  <1>5. TypeOK'
    <2>1. handled' \in [Message -> SUBSET Peer]
      BY <1>1 DEF TypeOK
    <2> QED BY <1>1, <2>1 DEF TypeOK
  <1>6. StoredAlive'
    BY <1>1 DEF StoredAlive, Stored
  <1>7. OneRuns' /\ Places'
    BY <1>1 DEF OneRuns, Places, AllEnded
  <1>8. Shared'
    BY <1>1 DEF Shared, OwnSlot, Employed, Sends, Current
  <1>9. \A z \in senders : z.rs = r /\ z.helper = h /\ z.peer = p => z = s
    <2>1. ASSUME NEW z \in senders, z.rs = r, z.helper = h, z.peer = p
          PROVE  z = s
      <3>1. z.msg = s.msg
        BY <1>2, <2>1 DEF Shared, Employed
      <3>2. /\ z = [rs |-> z.rs, helper |-> z.helper, peer |-> z.peer, msg |-> z.msg]
            /\ s = [rs |-> s.rs, helper |-> s.helper, peer |-> s.peer, msg |-> s.msg]
        BY <1>2 DEF TypeOK
      <3> QED BY <1>1, <1>2, <2>1, <3>1, <3>2
    <2> QED BY <2>1
  <1>10. PartSent(r, h)'
    <2>1. ASSUME NEW q \in Peer
          PROVE  q \in handled'[Current(r, h)] <=>
                   /\ \E k \in 1 .. helper[r][h].t : q = fanout[k]
                   /\ \A z \in senders' : z.rs = r /\ z.helper = h => z.peer # q
      <3>1. CASE q = p
        BY <1>1, <1>2, <1>4, <1>9, <3>1
      <3>2. CASE q # p
        <4>1. (\A z \in senders' : z.rs = r /\ z.helper = h => z.peer # q)
                <=> \A z \in senders : z.rs = r /\ z.helper = h => z.peer # q
          BY <1>1, <3>2
        <4>2. q \in handled'[Current(r, h)] <=> q \in handled[Current(r, h)]
          BY <1>2, <1>4, <3>2
        <4> QED BY <1>2, <4>1, <4>2 DEF Progress, PartSent
      <3> QED BY <3>1, <3>2
    <2> QED BY <1>1, <2>1 DEF PartSent, Current, Sends
  <1>11. Progress'
    <2>1. \A z : z.rs # r \/ z.helper # h => (z \in senders' <=> z \in senders)
      BY <1>1, <1>2
    <2>2. \A m \in Message : m # Current(r, h) => handled'[m] = handled[m]
      BY <1>2, <1>4
    <2> QED BY <1>1, <1>2, <1>10, <2>1, <2>2, SenderProgress
  <1> QED BY <1>5, <1>6, <1>7, <1>8, <1>11

-----------------------------------------------------------------------------
(* new_fanout draws each peer once.                                        *)
LEMMA SetToSeqDrawsOnce ==
  ASSUME NEW S, IsFiniteSet(S)
  PROVE  SetToSeq(S) \in Seq(S) /\ IsInjective(SetToSeq(S))
  <1> DEFINE n == Cardinality(S)
  <1>1. n \in Nat /\ \E f \in [1 .. n -> S] : IsInjective(f)
    BY FS_CardinalityType DEF ExistsBijection, Bijection, Injection
  <1>2. SetToSeq(S) \in [1 .. n -> S] /\ IsInjective(SetToSeq(S))
    BY <1>1, Zenon DEF SetToSeq
  <1> HIDE DEF n
  <1> QED BY <1>1, <1>2, SeqDef

(* With no RS thread alive nobody sends.                                   *)
LEMMA NobodySends ==
  ASSUME RSInv, AllEnded
  PROVE  senders = {} /\ \A r \in RSThread, h \in Helper : ~ Sends(r, h)
  <1> USE DEF RSInv
  <1>1. \A r \in RSThread, h \in Helper : ~ Sends(r, h)
    BY DEF Places, AllEnded, Sends
  <1>2. \A s \in senders : s.rs \in RSThread /\ s.helper \in Helper /\ Sends(s.rs, s.helper)
    BY DEF TypeOK, Shared, Employed
  <1> QED BY <1>1, <1>2

(* What follows an RS thread leaves the lists alone, or overtakes it.      *)
LEMMA NotOvertaken ==
  ASSUME Overtake, ~ overtaken'
  PROVE  UNCHANGED <<rcv, snd, freed, helper, senders, handled, overtaken>>
  BY DEF Overtake, lists

LEMMA FirstToCome ==
  ASSUME Overtake, ~ overtaken, ~ overtaken'
  PROVE  AllEnded
  BY DEF Overtake

LEMMA NewFanoutRSInv ==
  ASSUME RSInv, ~ overtaken', NewFanout
  PROVE  RSInv'
  <1> USE DEF RSInv
  <1>1. /\ rg = "new" /\ AllEnded /\ rg' = "first"
        /\ UNCHANGED <<th_rs, launched, rcv, snd, freed, rs, helper, senders, handled, late,
                       overtaken>>
    BY NotOvertaken, FirstToCome DEF NewFanout, OneRuns
  <1>2. fanout' \in Seq(Peer) /\ IsInjective(fanout')
    <2>1. PICK S \in SUBSET Peer : fanout' = SetToSeq(S)
      BY DEF NewFanout
    <2>2. IsFiniteSet(S)
      BY RoundSpeedAssumption, FS_Subset
    <2>3. fanout' \in Seq(S) /\ IsInjective(fanout')
      BY <2>1, <2>2, SetToSeqDrawsOnce
    <2>4. fanout' \in Seq(Peer)
      BY <2>3, SMT
    <2> QED BY <2>3, <2>4
  <1>3. senders = {} /\ \A r \in RSThread, h \in Helper : ~ Sends(r, h)
    BY <1>1, NobodySends
  <1>4. senders' = {} /\ \A r \in RSThread, h \in Helper : ~ Sends(r, h)'
    BY <1>1, <1>3 DEF Sends
  <1>5. TypeOK'
    BY <1>1, <1>2 DEF TypeOK
  <1>6. StoredAlive'
    BY <1>1 DEF StoredAlive, Stored
  <1>7. OneRuns' /\ Places'
    BY <1>1 DEF OneRuns, Places, AllEnded
  <1>8. Shared'
    BY <1>2, <1>4 DEF Shared, OwnSlot
  <1>9. Progress'
    <2>1. Unsent'
      BY <1>1 DEF Progress, Unsent
    <2>2. Left' /\ AllSent'
      BY <1>1 DEF Left, AllSent, AllEnded
    <2> QED BY <1>4, <2>1, <2>2 DEF Progress, PartSent
  <1> QED BY <1>5, <1>6, <1>7, <1>8, <1>9

(* The RG thread launches an RS thread when none is alive.                 *)
LEMMA LaunchRSInv ==
  ASSUME RSInv, NEW r \in RSThread, Launch(r), ~ overtaken', launched < Launches,
         rg' \in {"join", "sleep"}
  PROVE  RSInv'
  <1> USE DEF RSInv
  <1>1. /\ rs' = [rs EXCEPT ![r] = "reset"] /\ th_rs' = r /\ launched' = launched + 1
        /\ UNCHANGED <<fanout, rcv, snd, freed, helper, senders, handled, late, overtaken>>
        /\ AllEnded
    BY NotOvertaken, FirstToCome DEF Launch, OneRuns
  <1>2. rs'[r] = "reset" /\ \A o \in RSThread \ {r} : rs'[o] = "ended" /\ rs[o] = "ended"
    BY <1>1, Moved DEF AllEnded
  <1>3. senders = {} /\ \A o \in RSThread, h \in Helper : ~ Sends(o, h)
    BY <1>1, NobodySends
  <1>4. senders' = {} /\ \A o \in RSThread, h \in Helper : ~ Sends(o, h)'
    BY <1>1, <1>3 DEF Sends
  <1>5. TypeOK'
    <2>1. launched' \in 0 .. Launches
      BY <1>1, RoundSpeedAssumption, SMT DEF TypeOK
    <2>2. rs' \in [RSThread -> {"ended", "reset", "rotate", "send"}]
      BY <1>1 DEF TypeOK
    <2> QED BY <1>1, <2>1, <2>2, Zenon DEF TypeOK
  <1>6. StoredAlive'
    BY <1>1 DEF StoredAlive, Stored
  <1>7. \A o \in RSThread, h \in Helper : helper[o][h].at = "done"
    BY <1>1 DEF AllEnded, Places
  <1>8. OneRuns' /\ Places'
    BY <1>1, <1>2, <1>7 DEF OneRuns, Places, AllEnded
  <1>9. Shared'
    BY <1>1, <1>4 DEF Shared, OwnSlot
  <1>10. Progress'
    <2>1. Unsent'
      BY <1>1 DEF Progress, Unsent
    <2>2. Left' /\ AllSent'
      BY <1>2 DEF Left, AllSent, AllEnded
    <2> QED BY <1>4, <2>1, <2>2 DEF Progress, PartSent
  <1> QED BY <1>5, <1>6, <1>8, <1>9, <1>10

LEMMA JoinFirstRSInv ==
  ASSUME RSInv, JoinFirst
  PROVE  RSInv' /\ AllEnded'
  <1> USE DEF RSInv
  <1>1. /\ rg = "join" /\ rs[th_rs] = "ended" /\ rg' = "pause"
        /\ UNCHANGED <<th_rs, launched, fanout, rcv, snd, freed, rs, helper, senders, handled,
                       late, overtaken>>
    BY DEF JoinFirst, lists
  <1>2. AllEnded
    BY <1>1 DEF OneRuns, AllEnded
  <1>3. TypeOK' /\ StoredAlive'
    BY <1>1 DEF TypeOK, StoredAlive, Stored
  <1>4. OneRuns' /\ Places'
    BY <1>1 DEF OneRuns, Places, AllEnded
  <1>5. Shared'
    BY <1>1 DEF Shared, OwnSlot, Employed, Sends, Current
  <1>6. Progress'
    <2>1. Unsent' /\ Left' /\ AllSent'
      BY <1>1 DEF Progress, Unsent, Left, AllSent, AllEnded, WhollySent, Sends
    <2>2. \A o \in RSThread, h \in Helper : PartSent(o, h)'
      BY <1>1 DEF Progress, PartSent, Sends, Current
    <2> QED BY <2>1, <2>2 DEF Progress
  <1> QED BY <1>1, <1>2, <1>3, <1>4, <1>5, <1>6 DEF AllEnded

LEMMA RoundDoneRSInv ==
  ASSUME RSInv, RoundDone
  PROVE  RSInv'
  <1> USE DEF RSInv
  <1>1. /\ rg = "pause" /\ rg' = "new" /\ launched' = 0
        /\ UNCHANGED <<th_rs, fanout, rcv, snd, freed, rs, helper, senders, handled, late,
                       overtaken>>
    BY DEF RoundDone, lists
  <1>2. TypeOK' /\ StoredAlive'
    BY <1>1, RoundSpeedAssumption, SMT DEF TypeOK, StoredAlive, Stored
  <1>3. OneRuns' /\ Places'
    BY <1>1 DEF OneRuns, Places, AllEnded
  <1>4. Shared'
    BY <1>1 DEF Shared, OwnSlot, Employed, Sends, Current
  <1>5. Progress'
    <2>1. Unsent' /\ Left' /\ AllSent'
      BY <1>1 DEF Progress, Unsent, Left, AllSent, AllEnded, WhollySent, Sends
    <2>2. \A o \in RSThread, h \in Helper : PartSent(o, h)'
      BY <1>1 DEF Progress, PartSent, Sends, Current
    <2> QED BY <2>1, <2>2 DEF Progress
  <1> QED BY <1>2, <1>3, <1>4, <1>5

LEMMA WakeRSInv ==
  ASSUME RSInv, Wake
  PROVE  RSInv'
  <1> USE DEF RSInv
  <1>1. /\ rg = "sleep" /\ rg' = "pause" /\ late' = Running
        /\ UNCHANGED <<th_rs, launched, fanout, rcv, snd, freed, rs, helper, senders, handled,
                       overtaken>>
    BY DEF Wake, lists
  <1>2. TypeOK' /\ StoredAlive'
    BY <1>1, SMT DEF TypeOK, Running, StoredAlive, Stored
  <1>3. OneRuns' /\ Places'
    BY <1>1 DEF OneRuns, Places, AllEnded
  <1>4. Shared'
    BY <1>1 DEF Shared, OwnSlot, Employed, Sends, Current
  <1>5. Progress'
    <2>1. Unsent' /\ Left' /\ AllSent'
      BY <1>1 DEF Progress, Unsent, Left, AllSent, AllEnded, WhollySent, Sends
    <2>2. \A o \in RSThread, h \in Helper : PartSent(o, h)'
      BY <1>1 DEF Progress, PartSent, Sends, Current
    <2> QED BY <2>1, <2>2 DEF Progress
  <1> QED BY <1>2, <1>3, <1>4, <1>5

LEMMA RGRSInv ==
  ASSUME RSInv, ~ overtaken', RG
  PROVE  RSInv'
  <1>1. CASE NewFanout
    BY <1>1, NewFanoutRSInv
  <1>2. CASE LaunchFirst
    <2>1. PICK r \in RSThread : Launch(r)
      BY <1>2 DEF LaunchFirst
    <2>2. launched < Launches /\ rg' = "join"
      BY <1>2, RoundSpeedAssumption, SMT DEF LaunchFirst, RSInv, OneRuns, Places
    <2> QED BY <2>1, <2>2, LaunchRSInv
  <1>3. CASE JoinFirst
    BY <1>3, JoinFirstRSInv
  <1>4. CASE LaunchNext
    <2>1. PICK r \in RSThread : Launch(r)
      BY <1>4 DEF LaunchNext
    <2>2. launched < Launches /\ rg' = "sleep"
      BY <1>4 DEF LaunchNext
    <2> QED BY <2>1, <2>2, LaunchRSInv
  <1>5. CASE Wake
    BY <1>5, WakeRSInv
  <1>6. CASE RoundDone
    BY <1>6, RoundDoneRSInv
  <1> QED BY <1>1, <1>2, <1>3, <1>4, <1>5, <1>6 DEF RG

LEMMA FreeAllRSInv ==
  ASSUME RSInv, FreeAll, ~ overtaken'
  PROVE  RSInv'
  <1> USE DEF RSInv
  <1>1. /\ freed' = freed \cup Stored /\ rcv' = Empty /\ snd' = Empty
        /\ UNCHANGED <<rg, th_rs, launched, fanout, rs, helper, senders, handled, late,
                       overtaken>>
        /\ AllEnded
    BY FirstToCome DEF FreeAll, OneRuns
  <1>2. senders = {} /\ \A r \in RSThread, h \in Helper : ~ Sends(r, h)
    BY <1>1, NobodySends
  <1>3. senders' = {} /\ \A r \in RSThread, h \in Helper : ~ Sends(r, h)'
    BY <1>1, <1>2 DEF Sends
  <1>4. Stored \subseteq Message
    BY ListFacts, ElementOfSeq DEF Stored, Range
  <1>5. rcv'.msgs = <<>> /\ snd'.msgs = <<>> /\ Len(snd'.msgs) = 0 /\ rcv'.send = 0 /\ snd'.send = 0
    BY <1>1, SMT DEF Empty
  <1>6. TypeOK'
    <2>1. Empty \in List /\ Empty.send <= Len(Empty.msgs) /\ Len(Empty.msgs) <= MaxRS
      BY RoundSpeedAssumption, SMT DEF Empty, List
    <2> QED BY <1>1, <1>4, <2>1 DEF TypeOK
  <1>7. StoredAlive'
    BY <1>5 DEF StoredAlive, Stored, IsInjective, Range
  <1>8. OneRuns' /\ Places'
    BY <1>1, <1>5 DEF OneRuns, Places, AllEnded
  <1>9. Shared'
    BY <1>1, <1>3 DEF Shared, OwnSlot
  <1>10. Progress'
    <2>1. Unsent'
      BY <1>1, <1>5, SMT DEF Progress, Unsent, Stored
    <2>2. Left' /\ AllSent'
      BY <1>5, SMT DEF Left, AllSent
    <2> QED BY <1>3, <2>1, <2>2 DEF Progress, PartSent
  <1> QED BY <1>6, <1>7, <1>8, <1>9, <1>10

LEMMA StutterRSInv ==
  ASSUME RSInv, UNCHANGED vars
  PROVE  RSInv'
  <1> USE DEF RSInv
  <1>1. TypeOK' /\ StoredAlive' /\ OneRuns' /\ Places'
    BY DEF vars, TypeOK, StoredAlive, Stored, OneRuns, Places, AllEnded
  <1>2. Shared'
    BY DEF vars, Shared, OwnSlot, Employed, Sends, Current
  <1>3. Progress'
    <2>1. Unsent' /\ Left' /\ AllSent'
      BY DEF vars, Progress, Unsent, Left, AllSent, AllEnded, WhollySent, Sends
    <2>2. \A o \in RSThread, h \in Helper : PartSent(o, h)'
      BY DEF vars, Progress, PartSent, Sends, Current
    <2> QED BY <2>1, <2>2 DEF Progress
  <1> QED BY <1>1, <1>2, <1>3

(* Round speed keeps its invariant until an RS thread is overtaken.        *)
LEMMA NextRSInv ==
  ASSUME RSInv, ~ overtaken', [Next]_vars
  PROVE  RSInv'
  <1>1. CASE \E m \in Message : Insert(m)
    BY <1>1, InsertRSInv
  <1>2. CASE RG
    BY <1>2, RGRSInv
  <1>3. CASE \E r \in RSThread : RS(r)
    BY <1>3, ResetRSInv, RotateRSInv, EndRSInv DEF RS
  <1>4. CASE \E r \in RSThread, h \in Helper : HelperRS(r, h)
    BY <1>4, TakeRSInv, SpawnRSInv, JoinRSInv DEF HelperRS
  <1>5. CASE \E r \in RSThread, h \in Helper, p \in Peer : Send(r, h, p)
    BY <1>5, SendRSInv
  <1>6. CASE UNCHANGED vars
    BY <1>6, StutterRSInv
  <1> QED BY <1>1, <1>2, <1>3, <1>4, <1>5, <1>6 DEF Next

-----------------------------------------------------------------------------
(* Which RS threads are alive.                                             *)
LEMMA WorkThreads ==
  ASSUME Threads, NEW r \in RSThread, RS(r), UNCHANGED exitVars
  PROVE  Threads'
  <1>1. UNCHANGED <<exit, rgEnded, rg, th_rs, overtaken>> /\ rs[r] # "ended"
    BY DEF exitVars, RS, Reset, Rotate, End, rounds
  <1>2. rs' \in [RSThread -> {"ended", "reset", "rotate", "send"}]
    BY DEF Threads, RS, Reset, Rotate, End
  <1>3. CASE Reset(r) \/ Rotate(r)
    <2>1. Running' \subseteq Running /\ late' = late
      BY <1>1, <1>3 DEF Threads, Running, Reset, Rotate
    <2> QED BY <1>1, <1>2, <2>1 DEF Threads
  <1>4. CASE End(r)
    <2>1. Running' \subseteq Running \ {r} /\ late' = late \ {r}
      BY <1>1, <1>4 DEF Threads, Running, End
    <2> QED BY <1>1, <1>2, <2>1 DEF Threads
  <1> QED BY <1>3, <1>4 DEF RS

LEMMA AsideThreads ==
  ASSUME Threads, UNCHANGED <<rs, rg, th_rs, late, overtaken, rgEnded>>,
         exit' \in {"freed", "ended"} => rgEnded
  PROVE  Threads'
  BY DEF Threads, Running

LEMMA OvertakenTyped ==
  ASSUME overtaken \in BOOLEAN, Overtake
  PROVE  overtaken' \in BOOLEAN
  BY DEF Overtake

LEMMA GoOnThreads ==
  ASSUME Threads, GoOn
  PROVE  Threads'
  <1>1. ~ rgEnded /\ UNCHANGED <<exit, rgEnded>>
    BY DEF GoOn
  <1>2. CASE NewFanout
    BY <1>1, <1>2, OvertakenTyped DEF NewFanout, Threads, Running
  <1>3. CASE LaunchFirst \/ LaunchNext
    <2>1. PICK r \in RSThread : Launch(r)
      BY <1>3 DEF LaunchFirst, LaunchNext
    <2>2. Running' \subseteq Running \cup {r}
      BY <2>1 DEF Launch, Running, Threads
    <2>3. rs' \in [RSThread -> {"ended", "reset", "rotate", "send"}]
      BY <2>1 DEF Launch, Threads
    <2>4. th_rs' = r /\ late' = late /\ overtaken' \in BOOLEAN
      BY <2>1, OvertakenTyped DEF Launch, Threads
    <2>5. \/ rg = "first" /\ rg' = "join"
          \/ rg' = "sleep"
      BY <1>3 DEF LaunchFirst, LaunchNext
    <2> QED BY <1>1, <2>2, <2>3, <2>4, <2>5 DEF Threads
  <1>4. CASE JoinFirst
    <2>1. Running' = Running /\ rs[th_rs] = "ended" /\ rg = "join" /\ rg' = "pause"
          /\ UNCHANGED <<th_rs, rs, late, overtaken>>
      BY <1>4 DEF JoinFirst, Running
    <2>2. Running \subseteq late
      BY <2>1 DEF Threads, Running
    <2> QED BY <1>1, <2>1, <2>2 DEF Threads
  <1>5. CASE Wake
    BY <1>1, <1>5 DEF Wake, Threads, Running
  <1>6. CASE RoundDone
    BY <1>1, <1>6 DEF RoundDone, Threads, Running
  <1> QED BY <1>2, <1>3, <1>4, <1>5, <1>6 DEF GoOn

LEMMA RGThreadThreads ==
  ASSUME Threads, RGThread
  PROVE  Threads'
  <1>1. CASE GoOn
    BY <1>1, GoOnThreads
  <1>2. CASE Exit1 \/ Exit2 \/ Exit3
    <2>1. Running \subseteq late /\ EndRG
      BY <1>2 DEF Exit1, Exit2, Exit3, Threads, Running
    <2>2. UNCHANGED <<rs, rg, th_rs, late, overtaken>> /\ rgEnded' = TRUE
      BY <2>1 DEF EndRG, vars
    <2> QED BY <2>1, <2>2 DEF Threads, Running
  <1> QED BY <1>1, <1>2 DEF RGThread

LEMMA ExitThreadThreads ==
  ASSUME Threads, ExitThread \/ Type
  PROVE  Threads'
  <1>1. CASE Type \/ Ask \/ MainEnd
    BY <1>1, AsideThreads DEF Type, Ask, MainEnd, ExitAt, Threads, vars
  <1>2. CASE SendBye
    BY <1>2, AsideThreads DEF SendBye, ExitAt, Insert, rounds
  <1>3. CASE FreeAll
    <2>1. overtaken' \in BOOLEAN
      BY <1>3, OvertakenTyped DEF FreeAll, Threads
    <2>2. UNCHANGED <<rs, rg, th_rs, late, rgEnded>> /\ rgEnded
      BY <1>3 DEF FreeAll
    <2> QED BY <2>1, <2>2 DEF Threads, Running
  <1> QED BY <1>1, <1>2, <1>3 DEF ExitThread

LEMMA NextThreads ==
  ASSUME Threads, [ExitNext]_allVars
  PROVE  Threads'
  <1>1. CASE Type \/ ExitThread
    BY <1>1, ExitThreadThreads
  <1>2. CASE RGThread
    BY <1>2, RGThreadThreads
  <1>3. CASE \E d \in Dispatcher \ closed : Close(d)
    BY <1>3, AsideThreads DEF Close, vars, Threads
  <1>4. CASE \E m \in Message : Receive(m)
    BY <1>4, AsideThreads DEF Receive, Insert, rounds, exitVars, Threads
  <1>5. CASE UNCHANGED exitVars /\ \E r \in RSThread : RS(r)
    BY <1>5, WorkThreads
  <1>6. CASE UNCHANGED exitVars /\ \E r \in RSThread, h \in Helper : HelperRS(r, h)
    BY <1>6, AsideThreads DEF HelperRS, Take, Spawn, Join, rounds, exitVars, Threads
  <1>7. CASE UNCHANGED exitVars /\ \E r \in RSThread, h \in Helper, p \in Peer : Send(r, h, p)
    BY <1>7, AsideThreads DEF Send, rounds, exitVars, Threads
  <1>8. CASE UNCHANGED allVars
    BY <1>8, AsideThreads DEF allVars, vars, exitVars, Threads
  <1> QED BY <1>1, <1>2, <1>3, <1>4, <1>5, <1>6, <1>7, <1>8 DEF ExitNext

-----------------------------------------------------------------------------
(* Every step of the ending peer is one of round speed, or frees it.       *)
LEMMA ExitStep ==
  ASSUME [ExitNext]_allVars
  PROVE  FreeAll \/ [Next]_vars
  <1>1. CASE Type \/ ExitThread
    BY <1>1, ShutdownAssumption DEF Type, ExitThread, SendBye, Ask, MainEnd, Next
  <1>2. CASE RGThread
    BY <1>2, Zenon DEF RGThread, GoOn, Exit1, Exit2, Exit3, EndRG, Next, RG
  <1>3. CASE \E d \in Dispatcher \ closed : Close(d)
    BY <1>3 DEF Close
  <1>4. CASE \E m \in Message : Receive(m)
    BY <1>4 DEF Receive, Next
  <1>5. CASE \/ \E r \in RSThread : RS(r)
             \/ \E r \in RSThread, h \in Helper : HelperRS(r, h)
             \/ \E r \in RSThread, h \in Helper, p \in Peer : Send(r, h, p)
    BY <1>5, Zenon DEF Next
  <1>6. CASE UNCHANGED allVars
    BY <1>6 DEF allVars
  <1> QED BY <1>1, <1>2, <1>3, <1>4, <1>5, <1>6 DEF ExitNext

(* Only what follows an RS thread can overtake it.                         *)
LEMMA WhoOvertakes ==
  ASSUME [ExitNext]_allVars
  PROVE  \/ Overtake
         \/ overtaken' = overtaken
  <1>1. CASE FreeAll
    BY <1>1 DEF FreeAll
  <1>2. CASE [Next]_vars
    <2>1. CASE RG
      BY <2>1 DEF RG, NewFanout, LaunchFirst, LaunchNext, Launch, JoinFirst, Wake, RoundDone
    <2>2. CASE ~ RG
      BY <1>2, <2>2, Zenon DEF Next, Insert, RS, Reset, Rotate, End, HelperRS, Take, Spawn, Join,
                               Send, rounds, vars
    <2> QED BY <2>1, <2>2
  <1> QED BY <1>1, <1>2, ExitStep

LEMMA OvertakenForGood ==
  ASSUME [ExitNext]_allVars, overtaken
  PROVE  overtaken'
  BY WhoOvertakes DEF Overtake

LEMMA GivingUp ==
  ASSUME Overtake, ~ overtaken, overtaken'
  PROVE  GivenUp'
  BY DEF Overtake, GivenUp

(* The lists that were given up stay empty, and nobody sends.              *)
LEMMA StayGivenUp ==
  ASSUME GivenUp, overtaken, [Next]_vars \/ FreeAll
  PROVE  GivenUp'
  <1> DEFINE ready == [Resting EXCEPT !.at = "get"]
  <1>1. /\ rcv = Empty /\ snd = Empty /\ senders = {}
        /\ helper \in [RSThread -> [Helper -> {Resting, ready}]]
    BY DEF GivenUp
  <1>2. Resting.at = "done" /\ ready.at = "get"
    BY Started, Zenon DEF Resting
  <1> HIDE DEF ready
  <1>3. \A r \in RSThread, h \in Helper : helper[r][h].at # "spawn"
    BY <1>1, <1>2
  <1>4. Len(snd.msgs) = 0 /\ snd.send = 0
    BY <1>1, SMT DEF Empty
  <1> SUFFICES /\ rcv' = Empty /\ snd' = Empty /\ senders' = {}
               /\ helper' \in [RSThread -> [Helper -> {Resting, ready}]]
    BY DEF GivenUp, ready
  <1>5. CASE \E m \in Message : Insert(m)
    BY <1>1, <1>5 DEF Insert
  <1>6. CASE RG \/ FreeAll
    BY <1>1, <1>6 DEF RG, NewFanout, LaunchFirst, LaunchNext, Launch, JoinFirst, Wake, RoundDone,
                      FreeAll, Overtake, lists
  <1>7. CASE \E r \in RSThread : RS(r)
    <2>1. PICK r \in RSThread : Reset(r) \/ Rotate(r) \/ End(r)
      BY <1>7 DEF RS
    <2>2. CASE Reset(r) \/ End(r)
      BY <1>1, <2>2 DEF Reset, End
    <2>3. CASE Rotate(r)
      BY <1>1, <2>3 DEF Rotate, ready
    <2> QED BY <2>1, <2>2, <2>3
  <1>8. CASE \E r \in RSThread, h \in Helper : HelperRS(r, h)
    <2>1. PICK r \in RSThread, h \in Helper : Take(r, h)
      BY <1>3, <1>8 DEF HelperRS, Spawn, Join
    <2>2. ~ (snd.send < Len(snd.msgs))
      BY <1>4, SMT
    <2>3. helper' = [helper EXCEPT ![r][h] = Resting] /\ UNCHANGED <<rcv, snd, senders>>
      BY <2>1, <2>2 DEF Take
    <2> QED BY <1>1, <2>3
  <1>9. ~ \E r \in RSThread, h \in Helper, p \in Peer : Send(r, h, p)
    BY <1>1 DEF Send, Mine
  <1>10. CASE UNCHANGED vars
    BY <1>1, <1>10 DEF vars
  <1> QED BY <1>5, <1>6, <1>7, <1>8, <1>9, <1>10 DEF Next

LEMMA NextGivenUp ==
  ASSUME IInv, [ExitNext]_allVars
  PROVE  GivenUp'
  <1>1. CASE overtaken
    BY <1>1, ExitStep, StayGivenUp DEF IInv
  <1>2. CASE ~ overtaken /\ overtaken'
    BY <1>2, WhoOvertakes, GivingUp
  <1>3. CASE ~ overtaken'
    BY <1>3 DEF GivenUp
  <1> QED BY <1>1, <1>2, <1>3

-----------------------------------------------------------------------------
(* The threads of round speed run on while the peer ends.                  *)
LEMMA WorkEnding ==
  ASSUME RSInv, Ending, NEW r \in RSThread, RS(r), UNCHANGED exitVars
  PROVE  Ending'
  <1>1. UNCHANGED <<exit, rgEnded, relay, rg>>
    BY DEF exitVars, RS, Reset, Rotate, End, rounds
  <1>2. ASSUME relay, Bye \in Range(rcv'.msgs)
        PROVE  \E o \in RSThread : rs'[o] \in {"reset", "rotate"}
    <2>1. CASE Reset(r)
      <3>1. rs'[r] = "rotate"
        BY <2>1, Moved DEF Reset, RSInv
      <3> QED BY <3>1
    <2>2. ~ Rotate(r)
      BY <1>2 DEF Rotate, RSInv, Places, Empty, Range
    <2>3. CASE End(r)
      <3>1. PICK o \in RSThread : rs[o] \in {"reset", "rotate"}
        BY <1>2, <2>3 DEF End, Ending
      <3>2. rs'[o] = rs[o]
        BY <2>3, <3>1, Moved DEF End, RSInv
      <3> QED BY <3>1, <3>2
    <2> QED BY <2>1, <2>2, <2>3 DEF RS
  <1> QED BY <1>1, <1>2 DEF Ending

LEMMA SendingEnding ==
  ASSUME Ending, UNCHANGED <<rcv, rg, rs, exitVars>>
  PROVE  Ending'
  BY DEF Ending, exitVars

(* Only the bye makes the receiving list hold a bye.                       *)
LEMMA InsertReaches ==
  ASSUME RSInv, NEW m \in Message, Insert(m)
  PROVE  Range(rcv'.msgs) \subseteq Range(rcv.msgs) \cup {m} /\ UNCHANGED <<rg, rs>>
  <1>1. CASE Len(rcv.msgs) < MaxRS
    <2>1. rcv'.msgs = Append(rcv.msgs, m)
      BY <1>1, Stored1 DEF RSInv, OneRuns
    <2>2. Range(Append(rcv.msgs, m)) = Range(rcv.msgs) \cup {m}
      BY ListFacts, RangeAppended DEF RSInv
    <2> QED BY <2>1, <2>2 DEF Insert, rounds
  <1>2. CASE ~ (Len(rcv.msgs) < MaxRS)
    BY <1>2 DEF Insert, rounds
  <1> QED BY <1>1, <1>2

LEMMA ReceiveEnding ==
  ASSUME RSInv, Ending, NEW m \in Message, Receive(m)
  PROVE  Ending'
  <1>1. /\ Range(rcv'.msgs) \subseteq Range(rcv.msgs) \cup {m} /\ UNCHANGED <<rg, rs>>
        /\ m # Bye /\ UNCHANGED exitVars
    BY InsertReaches DEF Receive
  <1> QED BY <1>1 DEF Ending, exitVars

LEMMA ExitThreadEnding ==
  ASSUME RSInv, Ending, ~ overtaken', ExitThread \/ Type
  PROVE  Ending'
  <1>1. CASE Type \/ Ask \/ MainEnd
    BY <1>1 DEF Type, Ask, MainEnd, ExitAt, Ending, vars
  <1>2. CASE SendBye
    <2>1. UNCHANGED <<rg, rs>>
      BY <1>2, InsertReaches, ShutdownAssumption DEF SendBye
    <2> QED BY <1>2, <2>1 DEF SendBye, ExitAt, Ending
  <1>3. CASE FreeAll
    <2>1. /\ exit = "asked" /\ exit' = "freed" /\ UNCHANGED <<rg, rs, rgEnded, relay>>
          /\ rcv' = Empty
      BY <1>3, FirstToCome DEF FreeAll, ExitAt, RSInv, OneRuns
    <2>2. Bye \notin Range(rcv'.msgs)
      BY <2>1 DEF Empty, Range
    <2> QED BY <2>1, <2>2 DEF Ending
  <1> QED BY <1>1, <1>2, <1>3 DEF ExitThread

LEMMA GoOnEnding ==
  ASSUME RSInv, Ending, ~ overtaken', GoOn
  PROVE  Ending'
  <1>1. /\ ~ rgEnded /\ UNCHANGED <<exit, rgEnded>>
        /\ relay' = (relay \/ (exit \in {"sleep", "asked"} /\ launched' > launched))
    BY DEF GoOn
  <1>2. rcv' = rcv
    BY NotOvertaken DEF GoOn, NewFanout, LaunchFirst, JoinFirst, LaunchNext, Wake, RoundDone,
                        Launch, lists
  <1>3. CASE \E r \in RSThread : Launch(r)
    <2>1. PICK r \in RSThread : Launch(r)
      BY <1>3
    <2>2. rs'[r] = "reset"
      BY <2>1, Moved DEF Launch, RSInv
    <2> QED BY <1>1, <1>2, <2>2 DEF Ending
  <1>4. CASE NewFanout \/ JoinFirst \/ Wake \/ RoundDone
    <2>1. rs' = rs /\ (launched' = launched \/ launched' = 0) /\ launched \in Nat
      BY <1>4 DEF NewFanout, JoinFirst, Wake, RoundDone, RSInv, TypeOK
    <2>2. relay' = relay
      <3>1. ~ (launched' > launched)
        BY <2>1, SMT
      <3> QED BY <1>1, <3>1 DEF Ending
    <2> QED BY <1>1, <1>2, <2>1, <2>2 DEF Ending
  <1> QED BY <1>3, <1>4 DEF GoOn, LaunchFirst, LaunchNext

LEMMA RGThreadEnding ==
  ASSUME RSInv, Ending, ~ overtaken', RGThread
  PROVE  Ending'
  <1>1. CASE GoOn
    BY <1>1, GoOnEnding
  <1>2. CASE Exit1 \/ Exit2 \/ Exit3
    <2>1. rg # "first" /\ EndRG
      BY <1>2 DEF Exit1, Exit2, Exit3
    <2> QED BY <2>1 DEF EndRG, vars, Ending
  <1> QED BY <1>1, <1>2 DEF RGThread

LEMMA NextEnding ==
  ASSUME RSInv, Ending, ~ overtaken', [ExitNext]_allVars
  PROVE  Ending'
  <1>1. CASE Type \/ ExitThread
    BY <1>1, ExitThreadEnding
  <1>2. CASE RGThread
    BY <1>2, RGThreadEnding
  <1>3. CASE \E d \in Dispatcher \ closed : Close(d)
    BY <1>3 DEF Close, vars, Ending
  <1>4. CASE \E m \in Message : Receive(m)
    BY <1>4, ReceiveEnding
  <1>5. CASE UNCHANGED exitVars /\ \E r \in RSThread : RS(r)
    BY <1>5, WorkEnding
  <1>6. CASE UNCHANGED exitVars /\ \E r \in RSThread, h \in Helper : HelperRS(r, h)
    BY <1>6, SendingEnding DEF HelperRS, Take, Spawn, Join, rounds
  <1>7. CASE UNCHANGED exitVars /\ \E r \in RSThread, h \in Helper, p \in Peer : Send(r, h, p)
    BY <1>7, SendingEnding DEF Send, rounds
  <1>8. CASE UNCHANGED allVars
    BY <1>8, SendingEnding DEF allVars, vars
  <1> QED BY <1>1, <1>2, <1>3, <1>4, <1>5, <1>6, <1>7, <1>8 DEF ExitNext

-----------------------------------------------------------------------------
LEMMA NextIInv ==
  ASSUME IInv, [ExitNext]_allVars
  PROVE  IInv'
  <1>1. Threads' /\ GivenUp'
    BY NextThreads, NextGivenUp DEF IInv
  <1>2. ASSUME ~ overtaken'
        PROVE  RSInv' /\ Ending'
    <2>1. RSInv /\ Ending
      BY <1>2, OvertakenForGood DEF IInv
    <2> QED BY <1>2, <2>1, ExitStep, NextRSInv, FreeAllRSInv, NextEnding
  <1> QED BY <1>1, <1>2 DEF IInv

LEMMA InitIInv == ExitInit => IInv
  <1>1. ExitInit => Threads /\ GivenUp /\ Ending
    BY DEF ExitInit, Init, Threads, GivenUp, Ending, Running
  <1> QED BY <1>1, InitRSInv DEF ExitInit, IInv

LEMMA AlwaysIInv == ExitSpec => []IInv
  <1>1. IInv /\ [ExitNext]_allVars => IInv'
    BY NextIInv
  <1> QED BY <1>1, InitIInv, PTL DEF ExitSpec

-----------------------------------------------------------------------------
(* Until an RS thread is overtaken no sender of round speed works on a     *)
(* message that was recycled or freed under it, and the two lists never    *)
(* share or repeat a message: for lists, fanouts and numbers of threads of *)
(* any size, while the peer ends, and for RS threads of any duration.      *)
THEOREM MessagesHeld == ExitSpec => []SendersHoldMessages
  <1>1. IInv => SendersHoldMessages
    <2> SUFFICES ASSUME IInv, ~ overtaken, NEW s \in senders PROVE s.msg \in Message \ freed
      BY DEF IInv, RSInv, SendersHoldMessages
    <2>1. s.rs \in RSThread /\ s.helper \in Helper
      BY DEF IInv, RSInv, TypeOK
    <2> QED BY <2>1, CurrentHeld DEF IInv, RSInv, Shared, Employed
  <1> QED BY <1>1, AlwaysIInv, PTL

LEMMA SpawnNews ==
  ASSUME [ExitNext]_allVars, NEW s \in senders' \ senders
  PROVE  \E r \in RSThread, h \in Helper : Spawn(r, h)
  <1>1. senders' # senders /\ senders' # {}
    OBVIOUS
  <1>2. ~ FreeAll /\ ~ RG
    BY <1>1 DEF FreeAll, RG, NewFanout, LaunchFirst, JoinFirst, LaunchNext, Wake, RoundDone,
                Launch, Overtake, lists
  <1>3. Next
    BY <1>1, <1>2, ExitStep DEF vars
  <1>4. ~ \E m \in Message : Insert(m)
    BY <1>1 DEF Insert
  <1>5. ~ \E r \in RSThread : RS(r)
    BY <1>1 DEF RS, Reset, Rotate, End
  <1>6. ~ \E r \in RSThread, h \in Helper, p \in Peer : Send(r, h, p)
    BY DEF Send
  <1>7. \A r \in RSThread, h \in Helper : ~ Take(r, h) /\ ~ Join(r, h)
    BY <1>1 DEF Take, Join
  <1> QED BY <1>2, <1>3, <1>4, <1>5, <1>6, <1>7 DEF Next, HelperRS

(* However many helpers share the work, no message is sent twice to a peer *)
(* of the fanout, by two of them or by one, until an RS thread is          *)
(* overtaken.                                                              *)
THEOREM NeverSentTwice == ExitSpec => SentOnce
  <1> DEFINE A == \A s \in senders' \ senders :
                    \/ overtaken
                    \/ /\ s.msg \in Message => s.peer \notin handled[s.msg]
                       /\ \A o \in senders : o.peer = s.peer => o.msg # s.msg
  <1>1. IInv /\ [ExitNext]_allVars => [A]_vars
    <2> SUFFICES ASSUME IInv, [ExitNext]_allVars, NEW s \in senders' \ senders, ~ overtaken
                 PROVE  /\ s.msg \in Message => s.peer \notin handled[s.msg]
                        /\ \A o \in senders : o.peer = s.peer => o.msg # s.msg
      BY Zenon
    <2>1. PICK r \in RSThread, h \in Helper : Spawn(r, h)
      BY SpawnNews
    <2>2. RSInv /\ Sends(r, h) /\ helper[r][h].at # "done"
      BY <2>1 DEF IInv, Spawn, Sends
    <2>3. /\ s.rs = r /\ s.helper = h /\ s.msg = Current(r, h)
          /\ \A o \in senders : o.rs = r /\ o.helper = h => o.peer # s.peer
          /\ s.peer \notin handled[Current(r, h)]
      BY <2>1, <2>2, NewSender
    <2>4. ASSUME NEW o \in senders, o.peer = s.peer
          PROVE  o.msg # s.msg
      <3>1. o.rs = r /\ o.helper \in Helper \ {h} /\ Sends(r, o.helper)
        BY <2>2, <2>3, <2>4, Busy
      <3>2. o.msg = Current(r, o.helper)
        BY <2>2, <3>1 DEF RSInv, Shared, Employed
      <3>3. helper[r][o.helper].index # helper[r][h].index
        BY <2>2, <3>1 DEF RSInv, Shared, OwnSlot
      <3>4. /\ helper[r][o.helper].index \in 1 .. Len(snd.msgs)
            /\ helper[r][h].index \in 1 .. Len(snd.msgs)
        BY <2>2, <3>1, CurrentHeld
      <3> QED BY <2>2, <2>3, <3>2, <3>3, <3>4, SlotsDiffer DEF Current
    <2> QED BY <2>3, <2>4
  <1> QED BY <1>1, AlwaysIInv, PTL DEF ExitSpec, SentOnce

LEMMA WhoEnds ==
  ASSUME Threads, [ExitNext]_allVars, NEW r \in RSThread, rs[r] = "send", rs'[r] = "ended"
  PROVE  End(r)
  <1>1. \A o \in RSThread, to \in {"rotate", "send", "reset"} : rs' # [rs EXCEPT ![o] = to]
    BY DEF Threads
  <1>2. rs' # rs
    OBVIOUS
  <1>3. Next
    BY <1>2, ExitStep DEF FreeAll, vars
  <1>4. ~ RG
    BY <1>1, <1>2 DEF RG, NewFanout, LaunchFirst, JoinFirst, LaunchNext, Wake, RoundDone, Launch
  <1>5. /\ ~ \E i \in Message : Insert(i)
        /\ ~ \E o \in RSThread, h \in Helper : HelperRS(o, h)
        /\ ~ \E o \in RSThread, h \in Helper, p \in Peer : Send(o, h, p)
    BY <1>2 DEF Insert, HelperRS, Take, Spawn, Join, Send
  <1>6. PICK o \in RSThread : RS(o)
    BY <1>3, <1>4, <1>5 DEF Next
  <1>7. End(o)
    BY <1>1, <1>6 DEF RS, Reset, Rotate
  <1>8. o = r
    BY <1>7 DEF End, Threads
  <1> QED BY <1>7, <1>8

(* An RS thread that was not overtaken ends when its whole list went to    *)
(* the whole fanout, so that the reset of the next one recycles nothing    *)
(* that still has to be sent.                                              *)
THEOREM RotationsComplete == ExitSpec => RotationComplete
  <1> DEFINE A == \A r \in RSThread : ~ overtaken /\ rs[r] = "send" /\ rs'[r] = "ended" =>
                    \A m \in Range(snd.msgs) : handled[m] = Range(fanout)
  <1>1. IInv /\ [ExitNext]_allVars => [A]_vars
    <2> SUFFICES ASSUME IInv, [ExitNext]_allVars, NEW r \in RSThread, ~ overtaken,
                        rs[r] = "send", rs'[r] = "ended",
                        NEW m \in Range(snd.msgs)
                 PROVE  handled[m] = Range(fanout)
      BY Zenon
    <2>1. End(r)
      BY WhoEnds DEF IInv
    <2>2. \A k \in 1 .. Len(snd.msgs) : WhollySent(k)
      BY <2>1, SentWhenDone DEF End, IInv
    <2> QED BY <2>2, ListFacts DEF IInv, RSInv, Range, WhollySent
  <1> QED BY <1>1, AlwaysIInv, PTL DEF ExitSpec, RotationComplete

(* When the exit thread frees the buffers, and after, the only RS threads  *)
(* and senders left belong to an RS thread that outlasted a sleep of the   *)
(* RG thread: whichever of its exits the RG thread took, and whatever was  *)
(* overtaken before.                                                       *)
THEOREM NobodyLeft == ExitSpec => []FreedAlone
  <1>1. IInv => FreedAlone
    <2> SUFFICES ASSUME IInv, exit \in {"freed", "ended"}
                 PROVE  Running \cup {s.rs : s \in senders} \subseteq late
      BY DEF FreedAlone
    <2>1. Running \subseteq late
      BY DEF IInv, Threads
    <2>2. ASSUME NEW s \in senders
          PROVE  s.rs \in Running
      <3>1. ~ overtaken
        BY <2>2 DEF IInv, GivenUp
      <3>2. s.rs \in RSThread /\ s.helper \in Helper /\ Sends(s.rs, s.helper)
        BY <2>2, <3>1 DEF IInv, RSInv, TypeOK, Shared, Employed
      <3> QED BY <3>1, <3>2 DEF IInv, RSInv, Places, Sends, Running
    <2> QED BY <2>1, <2>2
  <1> QED BY <1>1, AlwaysIInv, PTL

(* A bye that was accepted, and after which an RS thread was launched,     *)
(* went to the whole fanout before it is freed, unless an RS thread        *)
(* outlasted a sleep: for fanouts, lists and numbers of helpers of any     *)
(* size, and wherever the RG thread ends.                                  *)
THEOREM ByeAlwaysTold == ExitSpec => ByeTold
  <1> DEFINE A == exit' = "freed" /\ exit # "freed" /\ late = {} /\ ~ overtaken =>
                    /\ Bye \in Range(rcv.msgs) => ~ relay
                    /\ Bye \in Range(snd.msgs) => handled[Bye] = Range(fanout)
  <1>1. IInv /\ [ExitNext]_allVars => [A]_allVars
    <2> SUFFICES ASSUME IInv, [ExitNext]_allVars, exit' = "freed", exit # "freed",
                        late = {}, ~ overtaken
                 PROVE  /\ Bye \in Range(rcv.msgs) => ~ relay
                        /\ Bye \in Range(snd.msgs) => handled[Bye] = Range(fanout)
      BY Zenon
    <2>1. FreeAll
      BY DEF allVars, exitVars, ExitNext, Type, ExitThread, SendBye, Ask, MainEnd, ExitAt,
             RGThread, GoOn, Exit1, Exit2, Exit3, EndRG, Close, Receive
    <2>2. AllEnded /\ rg # "first"
      BY <2>1 DEF FreeAll, IInv, Threads, Ending, Running, AllEnded
    <2>3. Bye \in Range(rcv.msgs) => ~ relay
      BY <2>2 DEF IInv, Ending, AllEnded
    <2>4. \A k \in 1 .. Len(snd.msgs) : WhollySent(k)
      BY <2>2 DEF IInv, RSInv, Progress, AllSent
    <2> QED BY <2>3, <2>4, ListFacts DEF IInv, RSInv, Range, WhollySent
  <1> QED BY <1>1, AlwaysIInv, PTL DEF ExitSpec, ByeTold
=============================================================================
