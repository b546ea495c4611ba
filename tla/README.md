# 2Rounds in TLA+

2Rounds is a gossip peer-to-peer file search written in C. Each peer keeps a
list of the peers it knows by the age of the last news of them (*round
gossip*, slow), and floods pings, byes and queries through a small random
subset of them (*round speed*, fast). A separate bootstrap server hands out
the first addresses. This directory holds the specifications of the program:
TLA+ modules translated from the C code, configurations that check them on
small instances with TLC, and proofs that TLAPS checks for all instances.

Contents

1. The system: components, state, interactions, what is hard about them
2. The modules and how they correspond to the code
3. The runs: what each one asks, its bounds, what it shows
4. Fairness and other assumptions
5. The proofs
6. Where the code and its documentation disagree
7. What is not modelled, and the plan

All paths below are relative to the repository; `two_rounds/` is the peer,
`server_bootstrap/` the server.

## 1. The system

A peer is one process with about thirty threads around a handful of shared
buffers. Main starts the bootstrap, which starts the two dispatchers, the RG
thread, the thread that serves other peers' bootstrap, and the prompt.

| component | code | state | operations |
|---|---|---|---|
| semaphore locks | `sincronization.c` | counting semaphores, room and lightswitch counters | lock/unlock of `Two_rooms` (exclusive) and `Writers_Reader` |
| neighbour buffer | `func_strutture.c` 318-713 | `_MAX_AGE` lists of peers | insert from ping/pong, from gossip (sender, listed), delete on bye, `age_plus_one` |
| round gossip (RG) | `process_RG_RS.c` 20-156, `func_strutture.c` 720-795, 1222-1385 | `buffer_fanout`, `buffer_rg` | draw a fanout, write one gossip information per peer of it, age the buffer, send |
| round speed (RS) | `process_RG_RS.c` 224-344, `func_strutture.c` 1097-1214 | two message lists, receiving and sending | insert, recycle, rotate, helpers take a message and send it to the fanout |
| message dispatcher | `dispatcher_msg.c` | uses all buffers | ping, pong, bye, query, query hit |
| gossip dispatcher | `dispatcher_inf.c` | uses the neighbour buffer | a gossip information: its sender, then each listed peer |
| seen-message and bye buffers | `func_strutture.c` 802-995 | ids and addresses with the time they were stored | test-and-insert, search, delete, delete what is dated |
| search | `process_InOut.c`, `func_strutture.c` 1003-1090, `dispatcher_msg.c` 440-477 | `buffer_event`, `th_out`, `sem_input` | read a word, start a search, collect hits, show them, free the slots |
| bootstrap of a peer | `bootstrap.c`, `dispatcher_servboot.c` | its address, first neighbours | ask the server until enough peers are known, ping them |
| bootstrap server | `server_bootstrap/` | the registered peers | search, register, compose an answer |
| shutdown | `exit.c`, `two_rounds.c` | exit flags | bye to the fanout, stop the threads, free the buffers |
| random ages | `func_strutture.c` 212-308 | the bounds of a random variable | draw an age |
| settings, shared files | `menu.c`, `func_strutture.c` 7-206 | `setting.txt`, `temp_setting.txt`, hashes of the shared files | rewrite one setting, list the shared directories, search a hash |
| simulators | `Simulatori/` | the lists and fanouts of all nodes in one process | rounds of gossip, then statistics of the network |

**Interaction.** Helpers of the two dispatchers change the neighbour buffer
(under the writer side of `sem_neighbour`), the bye buffer (`sem_bye_peer`),
the seen-message buffer (`sem_message`) and put messages in the receiving list
of the RS buffer (`sem_rs`). The RG thread reads the neighbour buffer under the
reader side, ages it under the writer side, starts sender threads that read
the messages it wrote, and starts the RS threads. RS threads swap the two
lists and start helpers that share the sending list through an index
(`sem_rs_bis`) and each start one sender per peer of the fanout. A search puts
a query in the RS buffer; query hits come back through the message dispatcher.

**What is hard.** The locks are built from bare semaphores, and some of their
counters are read and written without the mutex. Each handler is a sequence of
separately locked steps (search, then insert or delete), so handlers
interleave between them. The RG thread draws without replacement under a lock,
with loops that only end when there is enough to draw from. The RS buffer is
recycled without a lock, on the assumption that a thread has ended, which nothing
makes it do in time. Cleaning a search's slot takes no lock. Messages arrive late, repeated and out of order,
and a peer that cannot be connected to ends the whole process. Nobody tells
the others of a peer that ends: the news of it have to die out by growing old,
while the others keep telling them to each other. The settings are rewritten
by a remove and a rename that a stop can separate.
`PROJECT.json` lists these hazards at their lines, each with the properties
that would catch it going wrong.

**What makes each component correct.** The locks: exclusion, race-free
counters, service without starvation where the construction promises it,
and that they implement the locks their callers think they have. The neighbour
buffer: one entry per peer, never the peer itself, and no news makes a peer
older. The message handlers: a message is handled once while its id is
remembered, a bye takes its peer out of the neighbours, no buffer overflows,
and no message ends the process. Round gossip: distinct fanouts, messages that do not tell fresher
news than the sender has, draws that end. Round speed: each accepted message
sent once to everybody in the fanout before its memory is reused. Search:
slots are given back and hits are kept. The
server: nobody registered twice, answers that tell all or nobody, draws
that end. Joining: a peer is known only when it listens, and everybody
joins. The network: whoever stops is forgotten, and floods end. Settings: one
complete copy on disk at any time, and files shared as they say. The simulator:
draws that end, and statistics that count what they say.

## 2. The modules

| module | models | how state and actions correspond |
|---|---|---|
| `Semaphores` | `sem_wait`, `sem_post` (libpthread, external) | `sem[s]` the value, `waiting[s]` the blocked threads, `pc[p]` the next statement. `HandOff` selects whether a post wakes a blocked thread (POSIX) or only increments (futex) |
| `TwoRooms` | `lock_Two_rooms`, `unlock_Two_rooms` | one action per statement, lines 147-185; `mutex`, `t1`, `t2`, `room1`, `room2` as in the struct |
| `WritersReader` | `lock_WR_*`, `unlock_WR_*`, the lightswitches | one disjunct per statement, lines 91-144 |
| `RWLock` | abstract lock | idle, wants, has; compatible modes hold together. `TwoRooms` implements it with writers only, `WritersReader` with both modes |
| `Neighbour` | `buffer_neighbour` | `nodi[i]` is `nodiAge[i]` up to `limit[i]`; one action per function, each under one hold of the writer lock |
| `Peer` | the handlers of `dispatcher_msg.c`, the seen-message and bye buffers, against the gossip dispatcher and the rounds | extends `Neighbour`; `helper[h]` is where helper thread `h` is and its message, each step one hold of a lock, `buffer_message` and `bye_peer` sets with a capacity, `forwarded` the copies given to round speed, `up` the process |
| `PeerHistory` | nothing: histories for the properties of `Peer` | the ids handled and not forgotten, the peers that said bye and did not come back |
| `RoundGossip` | `process_RG` with `new_fanout`, `new_buffer_rg`, `new_gossip_inf2`, against all helpers | extends `Neighbour`; `rg` the RG thread's place, `fanout`, the message being written `inf` and how many are `written`. Helpers are excluded while a draw holds the reader side and free to act between two messages |
| `RoundSpeed` | `process_RS`, its helpers and senders, `buffer_rs`, the launches by `process_RG` | `rcv`, `snd` the two lists, `helper` and `senders` the threads, `freed` the messages given back, `rg` the RG thread with its sleeps. Three histories: `handled[m]` the peers `m` was dealt with for, `late` the RS threads that outlasted the sleep after their launch, `overtaken` whether the next fanout, launch or the end of the process came while one ran |
| `Shutdown` | `proc_exit_all`, `procedura_exit1` to `3`, the end of the dispatchers | extends `RoundSpeed`; `exit` the exit thread's place, `rgEnded` and `closed` who ended, `stuck` whether a cancelled helper left a lock taken (any lock, any helper), `relay` whether an RS thread was launched since the bye |
| `Search` | `process_in`, `process_out`, `buffer_event`, `helper_query_hit` | one action per locked section or unlocked assignment, the user's choice (`scanf`) being one of its own; `bye_peer` the bye buffer, `hits` the helpers between the test of it and `sem_event`; `answered[q]` a history of whose hits were taken |
| `BootNodes` | nothing: the constants that `BootServer` and `BootService` share | |
| `BootServer` | the server's helpers and `buffer_nodi` | one action per hold of `sem_buf_nodi`, one per draw |
| `BootService` | what the server promises its peers | `known` the registered peers, `request[p]` where a peer's request is. `BootServer` implements it |
| `Bootstrap` | `bootstrap` and `bootstrap2_ciclic` of several peers | extends `BootService`; `boot[p]` the place of each peer's bootstrap, `listening` who has dispatchers, `toPing[p]` its `boot2_helper` threads, `seen[p]` who has the id of its last ping, `pongs` the pongs under way; a forwarded ping that is answered is an action of its own (`Answered`), since `random_age` decides |
| `Membership` | several peers and what they know of one more, `q`: rounds, gossip informations, forwarded pings and byes, connections that fail | `news[p]` the age at which `p` has `q`, `bye` and `seen` its part of the bye and seen-message buffers, `net` the messages from the step that decides to send them to their handling; a round is one action, and so is a handler. The steps inside are those of `RoundGossip`, `RoundSpeed` and `Peer` |
| `Settings` | `menu.c`, `file_cond`, `list_dir`, `insert_MYfile`, `search_hashfile` | `setting`, `temp` the two files as sequences of lines, `at`, `change`, `unread` where the menu or the bootstrap is (`"running"`; `"cut"` when a reading failed; `"overrun"` when the files were more than `MaxFile`), `buffer_file` with its index; one action per line written and per system call that can fail, `Stop` and `Restart` at any of them |
| `SettingStore` | what the menu promises | one record of settings that changes in one step. `Settings` implements it |
| `RandomAge` | `initX`, `random_age`, `random_age_buffer_rg` | functions: `intorno` as in the struct, and for each draw which numbers lead to which age |
| `Simulator` | `Simulatori/Simulator_v1.0` | extends `RandomAge`; `neighbour`, `buffer_fanout`, `buffer_arrivi` of all nodes as in its struct, the lists as bags; `at`, `turn`, `sent`, `round` the loops of main; one action per node and loop, per insertion, and per statistic |
| `MCSettings`, `MCSimulator` | nothing: the directories and files of the run; the graph that the statistics are compared with | |
| `MCTwoRooms`, `MCRoundGossip` | nothing: histories for the properties | how often a thread was overtaken; who said bye since the fanout was drawn |
| `MCPeer` | nothing: the messages of the `Peer` runs | |
| `TwoRoomsProofs`, `WritersReaderProofs`, `PeerProofs`, `MembershipProofs`, `ShutdownProofs`, `BootProofs`, `UserProofs`, `SimulatorProofs` | the proofs | |

Abstractions, the same in all modules: an address with its port and file
hashes is one value of `Peer`; a message is a value; logging is left out;
`malloc`, `socket` and `pthread_create` succeed (their failure is `exit`).
A section of code under a lock is one action when everything that touches the
same data takes that lock (what the lock modules establish); code outside any
lock is split at each access others can see: `reset_buffer_event` is four
actions, the recycling of the RS list is separate from the swap.

Each module also holds a few operators commented "Mutant": the same operation
with a plausible mistake (a dropped guard, a missing reset). Replacing the
operation by its mutant makes the named property fail, which shows that the
property depends on the code being as it is. They are not part of any
specification. `PROJECT.json` maps every definition to its source lines, and
pairs mutants and properties.

## 3. The runs

Run from this directory: `tlc -config X.cfg M`.

| run (cfg) | module | instance | distinct states |
|---|---|---|---|
| `TwoRooms` | `MCTwoRooms` | 3 threads, hand-off | 23 401 |
| `WritersReader` | `WritersReader` | 3 threads, late comers overtake | 3 025 |
| `Peer` | `MCPeer` | 2 helpers, self and 2 peers, 2 ages, 4 messages with 3 ids, room for 2 ids and 1 bye; helpers are symmetric | 295 930 |
| `RoundGossip` | `MCRoundGossip` | self and 3 peers, 3 ages, fanout and message of 2; the other peers are symmetric | 195 188 |
| `Shutdown` | `Shutdown` | 3 messages with the bye, lists of 2, 1 peer, 2 RS threads, 2 helpers, 2 launches a round, 2 dispatchers | 503 104 |
| `Search` | `Search` | 2 searches, 2 peers, 1 slot, 2 results | 157 808 |
| `BootServer` | `BootServer` | 4 peers, 2 helpers, room for 3, answers of 2 | 49 812 |
| `Bootstrap` | `Bootstrap` | 3 peers, answers of 2 to 3, fanout 2 | 109 919 |
| `Membership` | `Membership` | 2 peers and the one that stops, 3 ages, 2 messages under way | 111 245 |
| `Settings` | `MCSettings` | 3 directories, 3 files with hashes of 2 bytes, lists of 2, room for 3 files | 62 631 |
| `Simulator` | `MCSimulator` | 3 nodes, 4 ages, 2 rounds, fanout 1, lists of 2, 2 hops | 943 935 |

**TwoRooms.** `ImplementsExclusiveLock`, which has mutual exclusion;
`CounterRaceFree`: no thread is about to access `room1` or `room2` while another is,
although `room2` is used without the mutex; `BoundedBypass`: a thread
counted in room 1 is overtaken at most twice by each other thread;
`NoStarvation`, which has that the threads never all wait for each other. Three
threads are the least with
one inside, one in room 2 and one in room 1 at a time. `NoStarvation` needs
`HandOff`: when `sem_post` merely increments, a thread can lose the race for
the mutex for ever.

**WritersReader.** `NoDeadlock`: a reader waits for two semaphores with a third
taken and a writer for two in the other order, and yet the threads never all
wait; `ImplementsRWLock`, which has that writers are alone;
`NoReaderPassesWriter`: no reader gets in between a writer's shutting
`noReaders` and its being done; `AnnouncedWriterServed`, liveness that holds
even when late comers overtake. Three threads that choose each time
whether to read or to write give two readers against a writer and two writers
against a reader. A single reader or writer can starve in this lock (writers
that keep coming shut readers out; readers race among themselves for
`noReaders`), so nothing is claimed for one thread before it has announced
itself.

**Peer.** `NoDuplicates`, and `NewsKeepsFresh`: only a round makes a
neighbour older, only a bye or its last round removes it. `HandledOnce`: of the
copies of a message that several helpers hold at once one is handled, and no
other while its id is remembered. `ByeTakesEffect`: `helper_bye` stores the bye,
searches the neighbours and deletes under three separate holds of two locks, and
a ping un-byes and inserts under two others, while pongs and gossip insert and
rounds move peers in between; a peer whose bye was stored and that nothing put
back since is out, or some helper is about to delete it. The four messages are
all about one peer: the copies of its ping that the peer sent itself and that
others forwarded, its bye, and a query of it; that is the most that two helpers
can conflict about. Three ids for a buffer of two, and two peers for a bye
buffer of one, fill both. `CHECK_DEADLOCK FALSE`, because a failed `connect`
(`Reachable = FALSE`) ends the process. A third helper brings no new kind of
conflict, and is covered by the proofs. With two peers and two ages the lists do not
all fill up at once; that insertions are right then is in the proofs too.

**RoundGossip.** `DistinctDraws`; `ToldNotFresher`: when the messages leave, no entry
claims fresher news than the sender's own, although helpers changed the buffer
while the messages were written one by one; `NeverDrawnOut`: a draw never holds
all addresses it can bring, the draw for a message from too few addresses excepted,
so that it does not repeat itself for ever with the lock held; `RoundReaches`: a
round talks to neighbours of the moment, to all of them or to `_FANOUT - 1` at
least, and each of its messages names as many: an entry is lost to the blank
address that a draw from an empty list gives (`num_random(0)`), and no more. The
last two need the lock for the whole draw: a bye between two would leave somebody in
it who is no neighbour any more. With three peers and sizes of two, both branches of
both draws are taken; with three ages one list can have more peers than a draw takes
while others are empty. No property tells the other three peers apart, so that
they are symmetric.

**Shutdown.** The RG thread joins the first RS thread of a round and after each of
the others only sleeps, so that an RS thread may be `late`: still at work when the RG
thread wakes. That alone does no harm, and the properties hold for such threads too.
Harm is done when the next fanout, the next launch or `free_all` comes while it works:
then it is `overtaken`, the code reads memory that was freed, and nothing is claimed
of the lists from there on. Of round speed, until that happens: `SendersHoldMessages`:
a stored message is in one slot of one list and not recycled, and no sender works on
a recycled message or an empty slot; `SentOnce`; `RotationComplete`: when an RS thread
ends, however late, each message of its list was dealt with for the whole fanout. Of
the end, without that condition: `FreedAlone`: the only RS threads and
senders left when the buffers are freed are late ones, although the RG thread ends
in three places and joins in one; so that a process whose RS threads keep to
their sleeps frees its buffers alone. `ByeTold`: an accepted bye was sent to the
whole fanout when the buffers are freed, unless no RS thread was launched after it
or one was late: the two sleeps of 2 seconds, of the exit thread and of the RG
thread, may end in either order. `MainEnds`: the process ends, unless a helper was cancelled
with a lock or an RS thread was overtaken. Three messages on lists of two make
the list overflow, also for the bye; two helpers compete for each index; with two
launches a round the RG thread can be asked to end at each of its three tests; two
RS threads are the least for one to be overtaken by another. Two dispatchers stand
for the three, which are alike. A fanout is nobody or one peer, which is enough to
tell what was sent; fanouts of any size are in the proofs. `CHECK_DEADLOCK FALSE`, because the process ends.

**Search.** `SlotFound`: a search let in finds an event slot, and a thread slot unless
a search that let it in is still `Closing`, so that no slot is lost to a search that
ended; `HitsKept`: until it shows them a search has every peer whose hit was taken, as
long as there is room, not less so when the search found no thread slot and shares one;
`PromptReturns`: a search shows its results, and once the user chose, the prompt
comes back. Hits come at any time, repeated, and for searches that are over; byes
are stored and deleted at any time, also between the test of the bye buffer and the insertion
of the hit. Two searches are enough for one to begin while the other closes, with
one slot; a third would meet no other state of the slots, and is in the proofs.

**Membership.** `NoRejuvenation`: once `q` has stopped, no step of the others
makes the freshest news of it fresher, although late pings of it are still
under way and two peers tell each other of it; `Forgotten`: so it is gone from
all of them in the end, with a bye or without; `FloodEnds`: the copies of its
ping and its bye die out, although every peer may forget having seen them, or
have no room to remember. The constant `MaxAge` is the limit of both the
ages of neighbours and those of messages. Two peers are the least that can tell each other, and
with three ages news can go there and back before they are too old; any number
of peers is covered by the proof of `NoRejuvenation`. `MaxNet` bounds the
messages under way at once, which are a set of those about `q` only; a step
that would send more is disabled, and with two each peer can have one for the
other. `CHECK_DEADLOCK FALSE`, because all processes can end: a peer that
connects to `q` without having had its bye exits. A late pong of `q` has no action of
its own: it puts `q` at age 0 where it is not known, and the information that `q`
sends about itself (`Hello`), which can be as late, does that and more.

**BootServer.** `RegisteredOnce`, although search and registration are two
holds of the lock; `PlaceLeft`: while a helper draws there is a registered peer
left that it has not drawn and that is not the asker, though the asker itself
can be among those drawn, so that no draw repeats itself for ever with the lock held; `ImplementsService`: what
the helpers do under separate holds of the lock is, seen by the peers, one
registration and one answer that tells all the others or nobody. Four peers for a buffer of
three make it overflow; three registered for answers of two make draws.

**Bootstrap.** `PingedListens`: a peer becomes known to the server, and through
it to others, only when its own dispatchers are up, so that nobody who joins
ends the process of another by not accepting its connection; `AllJoin`: once more than
a fanout of peers are started they all join, in whatever order they ask, although the
first are told too few and sleep, and pings are overtaken by forwarded copies and
dropped. With `Fanout = 2` each of three peers needs both others: one pong is not enough,
and the peer that is missed is pinged again with a new id in the next turn. A peer
that is overtaken each time joins only because `random_age` now and then draws the
age of a forwarded copy, which then is answered (see 4): without that the property fails.
`MinNodi = 2` makes the first peer to ask be told too few; with `MinNodi = 1`, so that the first
answer is used and not enough, the property holds too (462 318 states, 5 minutes).
All peers fit in an answer here; what happens when they do not is in 6.

**Settings.** `SettingsKept`: `setting.txt`, or its copy while there is none, is
complete at any time, wherever a change is given up, fails or is cut off by the
end of the process; `ImplementsStore`: the three rewritings change what they are
asked to and nothing else, in one step; `SharedExactly`: a running peer answers
for the regular files of its directories up to the first that does not exist, or up
to where a reading failed, if their path ends with a slash, and for nothing that is in none of
them, unless there were more than `_MAX_FILE`. The
three directories are one with the slash, one without, which `list_dir` makes
into wrong paths, and one that does not exist; the hashes are one that `strcpy` copies,
one that it cuts and one that is empty to it. Two directories of two files each and room for
three: the array is filled and overrun. `MaxDirs` bounds the list that a user
types; two are the least with an order.

**Simulator.** `DrawsPossible`: when a fanout or a gossip information is drawn
each node knows somebody, so that the loops that draw again end;
`StatisticsReach`: the query statistic counts the nodes within its radius, the
membership statistic those known within its hops after the nodes aged once
more, for any sequence of statistics; `AgesDrawnWhenAsked`: the random variable,
with a `_BIG_NUM` of 40 and the fixed shares of the program, draws each age with its
share. Four ages are the least that have an age without a fixed share. Three nodes give a fanout a choice; two nodes that send to one third
overflow its arrivals, and gossip of two its lists.

`TypeOK` and `PeerTypeOK` include the bounds of every array. `Peer_query`
shows a disagreement, see 6. All runs but those of `Peer`, `Shutdown` and
`Membership` check for deadlock: no other model can stop altogether.

**Bounds.** The constants stand for `_MAX_AGE` 7, `_FANOUT` 7, `_VISTA_AGE` 28,
`_GOSSIP_NODI` 10, `_MAX_MSM` 500, `_MAX_BYE_PEER` 100, `_RAGGIO_QUERY` 10, `_MAX_RS` 30, `_MAX_COUNT_RG_RS` 11,
`_MAX_RESULT` 100, `_N_NODI` 10000, `SERVER_NODI` 10 and the thread counts; what
matters is their order relative to each other and to the number of peers or
messages, and each run keeps that order and goes past each limit. `_MAX_EVT` is
1 in the build and in the runs. Only `MaxNet` of `Membership` and `MaxDirs` of
`Settings` cut anything off: every other model is finite as it stands, `Search`
and `Shutdown` because each query id and each message occurs once.

## 4. Fairness and other assumptions

* *Threads run.* Weak fairness of each thread's code inside a lock, a handler,
  a round or a search: a thread that was started is scheduled, and blocking
  calls the code makes on the network return. Nothing is assumed of callers,
  users and other peers: they may stop asking, typing or choosing at any time.
* *Random draws.* A draw without replacement ends because it always has something left
to draw (`NeverDrawnOut`, `PlaceLeft`, `DrawsPossible`, all safety): that the generator
draws it in the end is not assumed, and not claimed. The one draw whose luck
  matters is `random_age` in `Bootstrap`, see there.
* *`HandOff`.* POSIX requires a post to release a blocked thread; glibc's
  futex implementation lets a running thread take the unit first.
  `TwoRooms` is run with hand-off (needed for `NoStarvation`), `WritersReader`
  without; the safety of `TwoRooms` is proved for both.
* *RS threads* take any time. `RoundSpeed` follows the lists until the next fanout,
  launch or `free_all` comes while an RS thread runs (`overtaken`): from there on
  the code may read freed memory, the model keeps the threads and drops the lists, and the properties of the lists say nothing. Nothing
  in the code keeps it from coming to that: `_SEC_SLEEP_RS` is a sleep of 2 seconds.
* *Cancelled helpers* of `Shutdown` may leave a lock taken (`stuck`); no thread of round
  speed is taken to go on then, whichever lock it is, and `MainEnds` excepts it. Nothing in the code keeps them
  from it either: every `sem_wait` is a cancellation point.
* *The user of `Search`* types and chooses at any time or never: neither
  `ReadWord` nor `Choose` has fairness, and the one waits with `sem_input`, the other with
  `sem_stdin` taken. When `process_in` finds no thread slot it uses `index` uninitialised
  (`process_InOut.c` 84-96): the model takes the slot of any search before, which is
  what the stack holds there in the build; anything else would be an access beyond `th_out`.
* *`Reachable`* in `Peer`: whether `connect` may fail. `Peer` allows it,
  `Peer_query` does not, so that what it shows has another cause.
* *Which entries are dated* is left open in `Peer`: any set of ids or byes may be
  deleted at any time, which contains what every clock does.
* *The network* is external: in `Peer` any message of the instance arrives any
  number of times in any order. Addresses in messages are never 0:0.
* *`Membership`* is fair to the rounds of each peer that runs, and to each kind of
  messages: that some message of it is delivered again and again, by a handler
  that reads it or a sender that fails to connect. Which one it is, is open, since
  a message that is sent again cannot be told from the one before. Ids and byes may
  be forgotten in any round, sooner than any clock does.
* *`Settings`*: in the menu `write`, and the reading of the lines behind the changed
  one, do not fail. The code does not look at what they return and would let a cut
  copy take the place of a whole file, so that `SettingsKept` and `ImplementsStore`
  depend on this. In the bootstrap any reading can fail. The user types words that are
  paths short enough for `percorso`, and nobody else touches the two files. When more files are listed than
  `_MAX_FILE` the code writes beyond its array; the model leaves the
  listing there, with the settings as they are, until the process ends.
* *The peers of `BootServer`* wait for an answer before they ask again, as
  `bootstrap2_ciclic` does.
* *`Bootstrap`* is fair to the steps of a peer that was started, to the server and
  to pongs, which TCP delivers once connected; not to gossip or to what is forwarded. Of
  the forwarded copies that others get again and again of the pings of a peer
  some are answered (strong fairness of `Answered`): `random_age` draws every age but 0 and
  `_MAX_AGE` with a positive probability, independently each time. A ping
  is read when it is sent: its sender sees only the pong, which comes at any later
  time. Nobody leaves, nobody asks the server after it joined, and peers that
  joined forget nobody, since nothing they do depends on how many they know.

## 5. The proofs

**TwoRoomsProofs** proves of `TwoRooms`, for every set of threads and both
values of `HandOff`: `TypeOK`, `MutualExclusion`, `CounterRaceFree`, `OneBaton`,
`NoDeadlock` and that the lock implements `RWLock` (`Refinement`). None of the invariants is
inductive alone. The inductive invariant `IInv` says that the mutex and the
baton are *tokens*: at most one thread is at a statement executed with the
token, and the semaphore's value is 1 exactly when no thread is; and that at
most one of `t1`, `t2` is open. Mutual exclusion and race freedom follow since
each critical statement is in one of the two groups. The proof goes action by
action; two lemmas about taking and giving a token cover all `sem_wait`,
`sem_post` pairs. For the refinement each action maps to a request, an
acquisition, a release or a stutter, and the acquisition's guard is mutual
exclusion after the step.

`BoundedBypass` is proved of the lock with its history (`MCSpec`). The baton
tells whether room 2 fills or drains (`Draining`), and `StepOf` reduces the
statements to who goes into which room and who takes the lock. While room 2
fills, a thread may go in that passed the waiting one before; while it drains
nobody goes in. So a thread that takes the lock cannot take it again before room 2
has drained and filled again, which the waiting thread goes into with the others:
`Counts` says that `room1` and `room2` are the cardinalities of the sets of
threads in the rooms, so that filling ends with an empty room 1 and draining
with an empty room 2. `Overtakes` puts this in numbers: at most 2 in
all, less the turns that are still to come.

`NoDeadlock` (`DeadlockFree`) adds to `IInv` and `Counts` what an open turnstile
says of the rooms (`Turnstiles`): behind an open `t2` somebody is in room 2, and
behind an open `t1` somebody in room 1, unless room 2 is empty too. If all waited, the
mutex would be free, so that nobody waits for it, and the baton would be in a
turnstile; whoever is behind that one can go on.

**WritersReaderProofs** proves of `WritersReader`, for every set of threads and
both values of `HandOff`, that it implements `RWLock` (`Refinement`), and
`NoReaderPassesWriter` (`WritersFirst`), and `NoDeadlock`. The inductive invariant `IInv` says for
each of the four semaphores where its unit is: in the semaphore, with one
thread, or with a group (`Held`). A switch is with one thread between its
`sem_wait` and its `sem_post`; `noWriters` with a writer or with all readers
that came in; `noReaders` with a reader that passes it or with all announced
writers. The group of a unit is known by its counter: `Counted` says
that it is the cardinality of the set of threads at certain statements, so
that 0 and 1 tell the first in and the last out, and `Alone` that these are by
themselves while they wait for the semaphore and give it back. `StepMoves`
reduces each of the 24 statements to what the callers see of it, a
request, an acquisition, a release or nothing, also when a post lets another
thread go on. `NoDeadlock` (`DeadlockFree`) follows from the same invariant: a semaphore
without a unit is held by a thread that waits for another one, and these waits
lead from `noReaders` over `readSwitch` and from `writeSwitch` to `noWriters`,
whose holder does not wait, and never back.

**PeerProofs** proves of `Neighbour`, for every set of peers, number of
ages and size of the lists with `MaxAge <= VistaAge`: `TypeOK` (no list
overflows its array), `NoDuplicates`, `NotSelf` and `NewsKeepsFresh`. The
inductive invariant `Sound` adds to the typing that lists are injective and
disjoint, and that their length is at most `MaxAge` (what `Insert` tests), which
is what keeps them within `VistaAge`. The lemmas say what `Insert` and `Without`
do to membership and to lengths.

Of `RoundGossip` it proves, for every number of peers, ages and slots,
`DistinctDraws`, `ToldNotFresher`, and that it implements the specification of
`Neighbour`. What a draw may take is the recursive function `Entries`; that the
sequence it gives has no more than the peers of the lists is shown with
`AllInside`: a set of numbers that has 0, and n + 1 for each n it has, has them
all. `ToldNotFresher` needs of each entry written that the buffer has news of its peer
that is no older, or has forgotten it by its age (`Fresh`), or that it said bye.
Of the same draws it proves `NeverDrawnOut` (`DrawsGoOn`) and `RoundReaches`
(`RoundsReach`). What `Entries` gives has no more and no fewer than all neighbours
(`EntriesHeld`, `EntriesNamed`), each once, so that of two such sequences the longer
has somebody the shorter lacks (`OneMissing`); and a draw in progress holds
neighbours of the moment and the blank (`ReachInv`), since nobody may write then.

Of `Peer` it proves, for every number of helpers, set of messages and size of the
buffers: `PeerTypeOK`; `UsesNeighbour`, that the running peer
implements the specification of `Neighbour`, so that (`NeighboursKept`) the three
properties above hold in it; `HandledOnce`; and `ByeTakesEffect`. `HelperOK` says
where a helper has a message, and of which kind. One lemma, `StepGood`, goes
through the sixteen steps of a helper and states what matters to everything else:
the other helpers stay where they are, the neighbour buffer makes a step of its
specification or none, a helper that finds a departed peer goes on to delete it,
and a helper that finds its message new has stored its id if there was room. The
inductive invariant `HInv` of the histories adds that ids handled and not
forgotten are in the buffer. `ByeTakesEffect` then needs `NoDuplicates`: a
deletion removes one entry, which is enough only because there is no second one.

**ShutdownProofs** proves of `Shutdown`, and so of `RoundSpeed` while the peer
ends, for every number of messages, launches, helpers and dispatchers and every size of
lists and fanout, and for RS threads that take any time: `SendersHoldMessages`,
`SentOnce`, `RotationComplete`, `FreedAlone` and `ByeTold`. The constants must give a
helper at least (`Helper # {}`) and finitely many peers; there is no other hypothesis.
The inductive invariant has a part that always holds and one that holds until an RS
thread is overtaken. `Threads` says where the threads are, and that none but
the one launched last and the late ones run, which gives `FreedAlone`; `GivenUp` what an overtaking leaves. Until then `RSInv`
says where the helpers are (`Places`), that at most one RS thread runs (`OneRuns`:
this is what no overtaking means), that the helpers work on different slots and each sender
for its helper's message (`Shared`), and whom each message went to: nobody before its
turn, the peers its helper has passed while it is sent, the whole fanout once
the helper has left it (`Progress`); and `Ending` how the exit thread, the RG
thread and the last RS thread wait for each other, which gives `ByeTold`.

**BootProofs** proves of `BootServer`, for every number of helpers, peers and
slots, `RegisteredOnce`, `PlaceLeft` and that it implements `BootService` (`ServesAsSpecified`),
and of `Bootstrap` `PingedListens`. A search that found nobody is still right when
its helper registers, since a peer has one request at a time (`OneEach`,
`StillNew`). `PlaceLeft` (`DrawsGoOn`) needs that the buffer only grows, so that it stays
larger than an answer for as long as one is drawn (`DrawIInv`), and that the asker is
in it at one place at most. In the refinement each hold of the lock is a step of the request it serves
or none, and `AnswerOK` says what an answer holds from one to the next.
`Others`, the loop that copies the buffer, is a recursive
function, taken apart like `Entries`. In `Bootstrap` only a peer that listens asks,
only who asked is registered, and nobody else is told, pinged or forwarded.

**MembershipProofs** proves of `Membership`, for every set of peers, `MaxAge`,
`Fanout` and `MaxNet`: `TypeOK` and `NoRejuvenation`. With a bound `k` such that
no peer has fresher news than `k` and none under way will be, each action keeps
the bound: a round tells the age it has and a receiver adds one, which is what
makes up for telling before ageing; only a ping, which needs `q` running to be
answered, starts at 0 again.

**UserProofs** proves of `Settings`, for every set of directories and files,
length of hashes and bound on the list: `SettingsKept` and that it implements
`SettingStore` (`Refinement`). The inductive invariant `IInv` says what the lines
written and the lines unread are at each place of each rewriting, and that
`temp_setting.txt` is complete from its last line on until it is renamed. The
refinement's only steps are the removals of a complete `setting.txt`.

`SharedExactly` has an invariant of its own, `ShareInv`: while the bootstrap lists
directories, and when it is cut off, the buffer answers for the files of those it has
passed; when it is done, of `Reached`. `CopyExact` says what `strcpy` does to a hash without a 0 byte,
by the least byte that is 0.

Of `Search` it proves `SlotFound` and `HitsKept`, for any number of searches, peers
and results, from `MaxEvt = 1`, whenever the user types. With more slots both are false (with
two, `SlotFound` after five searches): a search resets the event slot that has the
number of its thread slot, which need not be its own. The inductive
invariant `SearchInv` says that the unit of `sem_input` is in the semaphore, with
`process_in` or with the one search that is neither closing nor ended (`OneSearch`), that this search has event
slot 0 and that the thread slot is its own, free, or with a closing search (`SlotsHeld`); that hits go to it
from the insertion of its id to the reset of it, and that each peer whose hit was taken is in the slot
or found no room (`Collecting`); blanks may be left in the slot from a late hit of
the search before, and take room.

**SimulatorProofs** proves, for every number of nodes, ages and rounds, sizes and
radii: `AgesDrawn` of `RandomAge` (`DrawnAsMeant`, `AgesAlwaysDrawn`), and of `Simulator` `DrawsPossible`
and `StatisticsReach`. `intorno`, `After` and the recursions of the statistics are
recursive functions; one lemma, `Recursion`, gives each of them its equations, and
`AllInside` what follows from these. For `AgesDrawn` the bounds grow (`Growing`), so
that the numbers of an age are an interval as long as its share; shares must
be at least 2 for the last age but one to be drawn with `number < intorno`. The
inductive invariant of `DrawsPossible` is that in round
`r` each node has somebody at age `r - 1`: what it started with moves up one
age each round, and an overwritten place still holds somebody. `StatisticsReach`
adds to it that lists hold nodes and that after the first round all fanouts are
drawn (`ReachInv`); then the recursion over hops gathers what is owned by the
nodes fewer steps away (`GathersNear`), counted from the first step in the recursion and from
the last in the graph (`AfterEach`, `AfterLast`).

The other assumptions are the `ASSUME`s of the modules: `Self` is a peer, the
sizes are naturals, messages have a kind, a peer and an age, `HandOff` and
`Reachable` are Booleans, `0 < RoundG <= MaxAge`, the fixed shares `P1`, `P2` are
at least 2. TLC evaluates them in every run.

*Only model-checked*: liveness, which is out of TLAPS's reach here: `NoStarvation`,
`AnnouncedWriterServed`, `Forgotten`, `FloodEnds`, `MainEnds`, `PromptReturns` and
`AllJoin`. `MutualExclusion`, `OneBaton` and `NoDeadlock` of `TwoRooms`
are only proved: no run has them, since what they say is in other
properties of the same runs or needed for these.

## 6. Where the code and its documentation disagree

| run | what it shows |
|---|---|
| `Peer_query` | a query for a file that a neighbour has ends the process: the thread meant to ask that neighbour is `func_helper_msg`, which takes its argument for a socket, fails to accept on it and calls `exit(1)` (`dispatcher_msg.c` 379) |

Seen, and not a run:

* With more than `_GOSSIP_NODI` peers known but fewer than `_FANOUT` of them younger
  than the oldest age the draw of a message never ends, with the lock held
  (`func_strutture.c` 1354); `NeverDrawnOut` excepts that case.
* A hit that comes while `reset_buffer_event` runs unlocked is shown by the next
  search (`process_InOut.c` 149).
* An answer that the server drew is sent with `limit` 0, so its peers are ignored
  and the asker asks again for ever (`server_bootstrap/func_strutture.c` 83).
* A stop between remove and rename leaves no `setting.txt` for good: nothing in
  the program looks for `temp_setting.txt`, and the menu does not create one.
* A file whose hash has a 0 byte may not be found by a query for it, since
  `insert_MYfile` copies hashes with `strcpy` (125); the comment at 188 says that
  a hash in the buffer is found.
* News of a peer that left live for `_MAX_AGE` rounds of 22 seconds, its bye at
  every peer for 105 seconds: a peer can be told of it again after it forgot the
  bye, and then connects to it and exits, against the comment at
  `process_RG_RS.c` 122.
* `test_copertura_rete` ages all nodes before each measurement, so that measuring
  twice measures two networks (`statistic.c` 145).
* A late copy of a ping makes a peer connect to the one that sent it, also when that
  one has ended, and exit (`dispatcher_msg.c` 202).
* An RS thread that outlasts the sleep after its launch can have its messages freed
  under it by the next one (`process_RG_RS.c` 94, `func_strutture.c` 1188), its fanout
  rewritten by the next round (31), or all of it freed by `free_all`, since
  `procedura_exit3` does not join it: `overtaken` and `late` above.
* The comment on `_TIME_SLEEP_BY` says that it waits for the neighbours to process the
  bye (`strutture.h` 67), but it is as long as `_SEC_SLEEP_RS`: the RG thread may be asked
  to end before it launches the RS thread that would send the bye. `ByeTold`
  excepts that case.
* A helper cancelled inside a lock, `_TIME_HELPER` seconds after it was asked to end,
  keeps the process from ending (`stuck` above).
* A search typed while the one before is closing may find no thread slot and take that of
  the other by chance, which then clears it: `process_in` does not cancel it on exit.
* More than `_MAX_FILE` shared files, "massimo numero di file da metere in condivisione" (`strutture.h`
  6), are written beyond the array: no line enforces the maximum (`func_strutture.c` 123).
* Drawn entries of a gossip information carry the file hashes of another peer, since
  the copy loop uses the `i`, `j` left over from earlier loops (`func_strutture.c`
  1377; hashes are abstracted with their address).
* `num_random(0)` on an empty age list gives the blank address of an unused slot,
  which enters the fanout (777; `RoundReaches` says how much is lost) and is then skipped by the senders because the
  blank address is found in any bye buffer with a free slot.

## 7. Not modelled, and the plan

Left out for good: MD5 (third party), debug printing, the parsing of terminal
input, version 2.0 of the simulator (unfinished, it does not compile), the
earlier copy of version 1.0, and the backup copies of files. The id counter
wraps after 9 999 messages of one peer, many more than a buffer of 500 remembers
for 105 seconds; a model of it would only show the buffer's own bound.

Left out so far, in the order planned:

1. More of `Shutdown`: every lock a cancelled helper can hold, the thread that
   deletes dated byes, what `process_in` cancels.
2. `Membership` with a clock, so that ids and byes are forgotten no sooner than in
   the code; several peers that stop.
3. `Bootstrap` with peers that leave while the server still tells of them.

No safety property that a run checks is left without a proof; each extension above
is to come with the proofs of its properties.
