------------------------------- MODULE Search -------------------------------
(***************************************************************************)
(* A search as its user sees it: process_in reads a word, takes a slot of  *)
(* buffer_event and of th_out and starts process_out, which collects the   *)
(* query hits for a while, shows them, waits for the user's choice and     *)
(* gives both slots back.  sem_input admits MaxEvt searches.  Query hits   *)
(* come in from the message helpers (helper_query_hit) at any time, late   *)
(* ones and repeated ones included; those of a peer whose bye is stored    *)
(* are thrown away.                                                        *)
(*                                                                         *)
(* helper_query_hit, insert_event and the display exclude each other       *)
(* (sem_event, see TwoRooms); the bye is looked for before, under another  *)
(* lock, and reset_buffer_event takes none.                                *)
(***************************************************************************)
EXTENDS Integers, Sequences, FiniteSetsExt, Functions

CONSTANTS
  Id,         \* the ids of the queries, one per search
  NoId,       \* the id of a slot that was reset
  Peer,       \* the peers that answer
  Blank,      \* the address of a result that was reset
  MaxEvt,     \* _MAX_EVT
  MaxResult   \* _MAX_RESULT

ASSUME SearchAssumption ==
  NoId \notin Id /\ Blank \notin Peer /\ MaxEvt \in Nat \ {0}
  /\ MaxResult \in Nat

Slots == 0 .. MaxEvt - 1

VARIABLES
  in,        \* where process_in is
  query,     \* the id of the search it is starting
  evt,       \* buffer_event; the limit of a slot is the length of its results
  input,     \* the value of sem_input
  th_out,    \* th_out[i]: the search whose process_out has slot i, or NoId
  out,       \* out[q]: where the process_out of q is, and its two slots
  bye_peer,  \* the peers in buffer_bye_peer
  hits,      \* <<p, q>>: a helper has a hit of p for q, and found no bye of p
  answered   \* answered[q]: the peers whose query hit was taken

searchVars == <<in, query, evt, input, th_out, out, bye_peer, hits, answered>>

messages == <<bye_peer, hits, answered>>

NoThread == [at |-> "none", index |-> MaxEvt, index_th |-> MaxEvt]

(* bootstrap, init_buffer_event *)
SearchInit ==
  /\ in = "prompt"
  /\ query = NoId
  /\ evt = [i \in Slots |-> [id |-> NoId, busy |-> FALSE, results |-> <<>>]]
  /\ input = MaxEvt
  /\ th_out = [i \in Slots |-> NoId]
  /\ out = [q \in Id |-> NoThread]
  /\ bye_peer = {} /\ hits = {}
  /\ answered = [q \in Id |-> {}]

(* The slot a search loop over S stops at; MaxEvt when it finds none.      *)
First(S) == IF S = {} THEN MaxEvt ELSE Min(S)

(* The searches that let another one in and still have a slot of th_out.   *)
Closing == {q \in Id : out[q].at = "closing"}

-----------------------------------------------------------------------------
(* process_in *)

(* sem_stdin: process_in has it while it reads, process_out from the       *)
(* display to the choice.                                                  *)
StdinTaken == in = "read" \/ \E q \in Id : out[q].at = "choose"

(* sem_input and sem_stdin                                                 *)
WaitInput ==
  /\ in = "prompt"
  /\ input > 0 /\ ~ StdinTaken
  /\ input' = input - 1
  /\ in' = "read"
  /\ UNCHANGED <<query, evt, th_out, out, messages>>

ReadNothing ==
  /\ in = "read"
  /\ input' = input + 1
  /\ in' = "prompt"
  /\ UNCHANGED <<query, evt, th_out, out, messages>>

ReadWord ==
  /\ in = "read"
  /\ \E q \in Id : out[q] = NoThread /\ query' = q
  /\ in' = "event"
  /\ UNCHANGED <<evt, input, th_out, out, messages>>

(* insert_event, and the query goes into the round-speed buffer: from here *)
(* on it can be answered.  What the slot held besides is not looked at.    *)
InsertEvent ==
  /\ in = "event"
  /\ LET i == First({j \in Slots : ~ evt[j].busy})
     IN  /\ evt' = [j \in Slots |->
                     IF j = i THEN [evt[j] EXCEPT !.id = query, !.busy = TRUE] ELSE evt[j]]
         /\ out' = [out EXCEPT ![query] = [at |-> "queried", index |-> i, index_th |-> MaxEvt]]
  /\ in' = "slot"
  /\ UNCHANGED <<query, input, th_out, messages>>

(* Searches that are closing still have their slot of th_out.  When they   *)
(* leave none, index is not assigned: it has what the stack holds there,   *)
(* the slot of some search before.                                         *)
FindSlot ==
  /\ in = "slot"
  /\ LET free == {j \in Slots : th_out[j] = NoId}
     IN  \E i \in IF free = {} THEN Slots ELSE {First(free)} :
           out' = [out EXCEPT ![query].index_th = i]
  /\ in' = "create"
  /\ UNCHANGED <<query, evt, input, th_out, messages>>

(* pthread_create stores the handle after the lock was given back.         *)
Create ==
  /\ in = "create"
  /\ th_out' = [j \in Slots |-> IF j = out[query].index_th THEN query ELSE th_out[j]]
  /\ out' = [out EXCEPT ![query].at = "sleep"]
  /\ query' = NoId
  /\ in' = "prompt"
  /\ UNCHANGED <<evt, input, messages>>

In == WaitInput \/ ReadNothing \/ ReadWord \/ InsertEvent \/ FindSlot \/ Create

(* What process_in does once a word is read.                               *)
Start == InsertEvent \/ FindSlot \/ Create

-----------------------------------------------------------------------------
(* process_out; reset_buffer_event without a lock, one assignment a time.  *)

At(q, from, to) == out[q].at = from /\ out' = [out EXCEPT ![q].at = to]

Mine(q) == {i \in Slots : i = out[q].index_th}

(* sleep, the display, under sem_stdout, sem_stdin and sem_event           *)
Show(q) ==
  /\ ~ StdinTaken
  /\ At(q, "sleep", "choose")
  /\ UNCHANGED <<in, query, evt, input, th_out, messages>>

(* scanf: the user chooses a result, with sem_stdout and sem_stdin taken.  *)
Choose(q) ==
  /\ At(q, "choose", "limit")
  /\ UNCHANGED <<in, query, evt, input, th_out, messages>>

ResetLimit(q) ==
  /\ At(q, "limit", "age")
  /\ evt' = [i \in Slots |->
               IF i \in Mine(q) THEN [evt[i] EXCEPT !.results = <<>>] ELSE evt[i]]
  /\ UNCHANGED <<in, query, input, th_out, messages>>

ResetAge(q) ==
  /\ At(q, "age", "id")
  /\ evt' = [i \in Slots |->
               IF i \in Mine(q) THEN [evt[i] EXCEPT !.busy = FALSE] ELSE evt[i]]
  /\ UNCHANGED <<in, query, input, th_out, messages>>

ResetId(q) ==
  /\ At(q, "id", "results")
  /\ evt' = [i \in Slots |->
               IF i \in Mine(q) THEN [evt[i] EXCEPT !.id = NoId] ELSE evt[i]]
  /\ UNCHANGED <<in, query, input, th_out, messages>>

ResetResults(q) ==
  /\ At(q, "results", "post")
  /\ evt' = [i \in Slots |->
               IF i \in Mine(q)
               THEN [evt[i] EXCEPT !.results = [k \in DOMAIN @ |-> Blank]] ELSE evt[i]]
  /\ UNCHANGED <<in, query, input, th_out, messages>>

(* Mutant: no other search is let in.                                      *)
PostNot(q) ==
  /\ At(q, "post", "closing")
  /\ UNCHANGED <<in, query, evt, input, th_out, messages>>

Post(q) ==
  /\ At(q, "post", "closing")
  /\ input' = input + 1
  /\ UNCHANGED <<in, query, evt, th_out, messages>>

(* Mutant: the slot of th_out is kept.                                     *)
CloseNot(q) ==
  /\ At(q, "closing", "ended")
  /\ UNCHANGED <<in, query, evt, input, th_out, messages>>

Close(q) ==
  /\ At(q, "closing", "ended")
  /\ th_out' = [i \in Slots |-> IF i \in Mine(q) THEN NoId ELSE th_out[i]]
  /\ UNCHANGED <<in, query, evt, input, messages>>

Out(q) ==
  Show(q) \/ ResetLimit(q) \/ ResetAge(q) \/ ResetId(q) \/ ResetResults(q)
  \/ Post(q) \/ Close(q)

-----------------------------------------------------------------------------
(* helper_query_hit: p answers q.  A hit of a peer whose bye is stored is  *)
(* freed; the loop over the slots ends early at a full one.                *)
(* The query of q is about.                                                *)
Asked(q) == out[q].at # "none"

Check(p, q) ==
  /\ Asked(q) /\ p \notin bye_peer
  /\ hits' = hits \cup {<<p, q>>}
  /\ UNCHANGED <<in, query, evt, input, th_out, out, bye_peer, answered>>

Found(q) ==
  {i \in Slots : /\ evt[i].id = q
                 /\ \A j \in 0 .. i : Len(evt[j].results) < MaxResult
                 /\ \A j \in 0 .. i - 1 : evt[j].id # q}

(* Mutant: a hit replaces the ones before.                                 *)
QueryHitReplaces(p, q) ==
  /\ <<p, q>> \in hits
  /\ evt' = [i \in Slots |->
               IF i \in Found(q) THEN [evt[i] EXCEPT !.results = <<p>>] ELSE evt[i]]
  /\ hits' = hits \ {<<p, q>>}
  /\ answered' = [answered EXCEPT ![q] = @ \cup {p}]
  /\ UNCHANGED <<in, query, input, th_out, out, bye_peer>>

QueryHit(p, q) ==
  /\ <<p, q>> \in hits
  /\ evt' = [i \in Slots |->
               IF i \in Found(q) /\ p \notin Range(evt[i].results)
               THEN [evt[i] EXCEPT !.results = Append(@, p)] ELSE evt[i]]
  /\ hits' = hits \ {<<p, q>>}
  /\ answered' = [answered EXCEPT ![q] = @ \cup {p}]
  /\ UNCHANGED <<in, query, input, th_out, out, bye_peer>>

(* insert_bye_peer and delete_dated_bye_peer, at any time (see Peer).      *)
Bye(p) ==
  /\ bye_peer' \in {bye_peer \cup {p}, bye_peer \ {p}}
  /\ UNCHANGED <<in, query, evt, input, th_out, out, hits, answered>>

SearchNext ==
  \/ In
  \/ \E q \in Id : Out(q) \/ Choose(q)
  \/ \E p \in Peer, q \in Id : Check(p, q) \/ QueryHit(p, q)
  \/ \E p \in Peer : Bye(p)

SearchSpec == SearchInit /\ [][SearchNext]_searchVars

(* process_in goes on once it has a word, and so does process_out but for  *)
(* the user's choice.  Whether the user types another word or chooses a    *)
(* result, or anybody answers, is left open.                               *)
SearchFairSpec ==
  /\ SearchSpec
  /\ WF_searchVars(Start) /\ WF_searchVars(WaitInput)
  /\ \A q \in Id : WF_searchVars(Out(q))

-----------------------------------------------------------------------------
(* A search that sem_input lets in finds an event slot.  It finds a slot   *)
(* of th_out too, unless they all belong to searches that let it in before *)
(* they gave theirs back: none is lost to a search that ended.             *)
SlotFound ==
  /\ in \in {"slot", "create"} => out[query].index # MaxEvt
  /\ in = "slot" => NoId \in Range(th_out) \/ Range(th_out) \cap Closing # {}

Showing == {q \in Id : out[q].at = "sleep"}

(* Until it shows them a search has every peer whose hit was taken, as     *)
(* long as there is room: no hit is lost to a search that ends or begins,  *)
(* not even when the two share a slot of th_out.                           *)
HitsKept ==
  \A q \in Showing :
    LET found == evt[out[q].index].results
    IN  /\ Len(found) <= MaxResult
        /\ answered[q] \subseteq Range(found) \/ Len(found) = MaxResult

(* Every search shows its results, and once the user chose one of them the *)
(* prompt comes back.                                                      *)
PromptReturns ==
  /\ in = "create" ~> \E q \in Id : out[q].at = "choose"
  /\ \A q \in Id : out[q].at = "limit" ~> in = "read"
=============================================================================
