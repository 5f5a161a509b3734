# TLA+ models of pttbbs

This directory models the parts of pttbbs in which several processes, threads or
callbacks work on the same state: the login daemon, the sessions in shared memory,
the waterball (message) queue of a session, the board cache, the link of a session
to ipc.svc, ipc.svc itself, the chat server and the post store. TLC checks them on
small instances; TLAPS proves central safety properties, and two refinements,
for any number of processes, slots and messages.

`PROJECT.json` lists the components, the runs, for every definition the source
lines it stands for, the hazards the properties are aimed at, and the theorems.
Paths below are relative to the repository.

    cd tla
    tlc -workers 2 -config wmsg_ofo.cfg MCWmsg
    tlapm WmsgProofs.tla

## The system

A BBS with one process per logged-in user.

| part | state | operations | how it meets the others |
|---|---|---|---|
| `mbbsd/` | one process per session; its private screen, menus, editor | everything the user does | shared memory (`SHM`), files, sockets to the services |
| session table, `common/bbs/cache.c`, `mbbsd/cache.c` | `SHM->uinfo[]`, and `utmp_user`: a linked list of slots per user | `getnewutmpent`, `purge_utmp`, `add_to_utmp_user`, `remove_from_utmp_user`, `clean_marked_nodes`, `utmp_apply_user` | written by every mbbsd and by utmp.svc without a common lock |
| utmp.svc, `service/utmp` | none of its own but a mutex over its requests | fix, kick, rebuild, update, queries | the same shared memory; SIGHUP to mbbsd |
| waterball queue, `common/bbs/message.c`, `mbbsd/wmsg.c` | `msgs[MAX_MSGS]` and `msgcount` in the recipient's `uinfo[]` entry; `water[]` history in the process | `write_message_full`, `wmsg_on_deliver`, `write_request` | senders write shared memory, then ask ipc.svc to wake the recipient |
| IPC client, `common/bbs/ipc.c`, `mbbsd/ipc.c` | socket, pending packets, backoff | request and ACK, poll from `vkey()`, reconnect | ipc.svc |
| ipc.svc messages, `service/ipc/daemon/server.go` | clients, indexes by user, pid and topic, a bounded queue per client | REGISTER, UNREGISTER, WMSG_SEND, TALK_REQ, SUB, UNSUB, PUB, SYS_BROADCAST, PING, STATS_REQ | one connection per mbbsd |
| ipc.svc broker, `service/ipc/daemon/chess.go` | pending and active sessions | CREATE, JOIN, proxy, timeout | two further connections per talk or game |
| chat, `util/xchatd.c`, `service/ipc/daemon/xchat.go` | connections, rooms, flags, invitations, bans | commands of a select loop | mbbsd clients |
| board cache, `common/bbs/cache.c` | `bcache[]`, `Bnumber`, sorted indexes, busy flags, over the file `.BRD` | sort, reload, add, reset | every mbbsd (`mbbsd/admin.c`), `util/shmctl.c` |
| users and money, `common/bbs/passwd.c`, `cache.c`, `money.c`, `util/uhash_loader.c` | `.PASSWDS`, `SHM->money[]`, the hash of names | update, `deumoney`, add and remove names | every mbbsd, some daemons |
| records, `common/sys/record.c` | `.DIR` and similar files | append, substitute, delete under file locks | every mbbsd |
| `mbbsd/brc.c`, `mbbsd/fav.c` | read marks, favourites: one user's data | insert, look up, save | files |
| logind, `daemon/logind` | connections that are not logged in yet, acknowledgement queue, tarpit | authenticate, ask activity.svc, pass the socket to mbbsd | `UTMPnumber`, activity.svc, mbbsd |
| post store, `service/post` | Pebble records, SQLite rows, counters in memory | create, edit, comment, vote, delete, purge, rebuild | mbbsd, the web front end |
| friend, mail, search, stat services, `service/*` | their own stores | request and response | mbbsd, the web front end |
| small daemons, `util/`, `upgrade/` | little | look-ups; maintenance | files, shared memory |

What is hard here is concurrency without locks. Shared memory is protected by
compare-and-swap at a few places and by nothing elsewhere; processes die with
their entries in the table; a message travels by two ways, shared memory and
socket, that race; the Go services snapshot their tables under a mutex and use
the copies afterwards; timers race with the event they wait for; the event loops
of logind and xchatd keep pointers between callbacks that another callback may have
freed; the post store writes two databases without a transaction over both.

What makes each part correct:

* session table: no two processes share an entry, no list walk leaves the arrays,
  every session is found exactly once by a walk of its user's list, and every
  walk and retry ends. `utmpfix` repairs what a dead process leaves and should harm
  no live one (a race makes it: see "Known behaviour outside the properties").
* waterball queue: no access outside `msgs[]` and its guard element; an
  acknowledged message is shown; the queue is empty and usable when everything
  has come to rest.
* ipc.svc: indexes agree with the clients, a client that has gone is in none,
  packets keep their order, nobody waits for a slow reader, Stop ends.
* broker: a waiting caller can be found, exactly one callee gets it, a game that
  somebody leaves ends for both, nobody waits for ever.
* IPC client: an answer is the answer to its own request, no packet is lost or
  handled twice while a link lasts, a link that is kept is registered, and a lost
  one is made again without swamping the service.
* chat server: rooms agree with who is in them, the loop never follows a pointer to
  something freed, operator flags and invitations end with the visit.
* board cache: cache, number and index are what the file says; no lock is left set.
* logind: pointers kept between callbacks are valid, only verified users are handed
  over, attempts are bounded, every connection ends.
* post store: counters agree with the records, no acknowledged text disappears,
  SQLite can be given back by Pebble.

## Modules

    Wmsg         <- MCWmsg, WmsgProofs
    UtmpUser     <- MCUtmpUser                     implements SessionTable
    UtmpUser     <- UtmpSvc <- MCUtmpSvc, UtmpProofs
    IpcService   <- MCIpcService, IpcSvcProofs
    ChessBroker  <- MCChessBroker, IpcSvcProofs    implements Matchmaker
    IpcClient    <- MCIpcClient, IpcClientProofs
    Xchatd       <- MCXchatd, XchatdProofs
    BoardCache   <- MCBoardCache, BoardCacheProofs
    Logind       <- MCLogind, LogindProofs
    PostStore    <- MCPostStore, PostStoreProofs

(`A <- B`: B extends A.) `SessionTable` and `Matchmaker` are abstract
specifications and have no code of their own. `IpcSvcProofs` extends both servers of
ipc.svc, which is why the names of ChessBroker that IpcService has too begin with
`Broker`. Definitions whose comment begins with
"mutant" or "as a bug would have it" are plausible mistakes in the definition that
follows; replacing that definition by the mutant makes a property fail, as
`PROJECT.json` records.

### Wmsg

The queue of one session, from both sides.

* Shared: `mpid` and `mbody` are `msgs[].pid` and the other fields of `msgs[]`,
  with `gap_4` as one more element behind the array; `msgcount`; `online` says
  that the entry is still the session's.
* A sender runs `write_message_full` (`common/bbs/message.c`): `WriteMessage`,
  one `ClaimSlot` per compare-and-swap of the scan or `QueueFull`, `Fill`,
  `RaiseCount`, and the IPC request, whose outcome is an ACK (`SendAcked`), an
  ACK that comes after 50 ms (`SendLate`) or nothing (`SendDown`). `WriteToTwin`
  is a message for another session of the same user, which ipc.svc sends here too.
* The recipient runs `wmsg_on_deliver` (`OnDeliver` to `IncrStore`) inside
  `vkey()` and then `write_request`, in its one-for-one form (`Ofo...`), as the
  silent drain (`Drain...`) or as the pop-up (`Pop...`), whose own `vkey()`
  re-enters `wmsg_on_deliver`. `msgcount++`, `--` and `-=` are a load and a store.
  `TalkRequest` to `TalkSlot` are what a talk request does to the queue.
* A message is a pair of sender and number; texts, colours and screens are left
  out. `displayed` and `history` collect what is shown and recorded.
* A store in front of `msgs[0]` overwrites fields of the entry, `msgcount` among
  them; the model stops there (`rpc = "corrupt"`).

### UtmpUser

`uinfo[]` reduced to pid and uid, and the lists `user_head`, `next_session`,
`session_user`. Each process logs one user in (`Claim`, `ProbeNext`, `CopyEntry`,
`add_to_utmp_user` as `AddBegin` to `Push`), is online, and logs out (`Logout` for
`u_exit`, `remove_from_utmp_user` as `Remove`, `Mark`, then `ClearEntry` and
`NeedUpdate`, the two stores of `purge_utmp`); both
run `clean_marked_nodes` (`CleanLoadHead` to `Unlink`), one step for each atomic
access. `Crash` ends a process anywhere. `ApplyUser(u)` is what a walk by
`utmp_apply_user` hands to its callback. A word of `next_session` is a number and
a mark, as in the code; the mark is the number `DELETED` instead of the top bit.

### UtmpSvc

UtmpUser with utmp.svc beside it: `RunFix` (`FixSlot` to `Tally`), the kick, the
rebuild of the lists (`ClearHeads` to `RebuildUser`), the count (`Update`,
`Updated`, and `Tick` for the ticker), and `Reap`, the clearing of a dead entry by
`get_online_session` in other services. A kick names a user or a pid. The SIGHUP
that it sends is not a step of its own: a process may log out at any time. The
constant `Apart` keeps requests and logins from running into each other, for
`ServiceRepairs`, which only holds then; processes still die at any point.

### IpcService

The state under `s.mu` (`clients`, `byUser`, `byPid`, `topics`), the fields of the
clients, and per client the sequence of all packets ever queued with the number
taken by the writer, so that the bounded channel is the part not yet taken and
order and duplicates can be stated. Goroutines: accept loop (`Accept`, `Insert`,
`AcceptEnds`), a handler per connection (one action per request type, then
`Fanout` per target and `SendAck`), writer (`WriteDone`, `WriteFails`), `Stop` in
four steps, of which `NestedStop`, the Stops of xchat and broker, may never return. `byUser[u]` is a slice; the model keeps how often it holds a client.

### ChessBroker

`pending` and `active`, and a goroutine per connection and per game. CREATE is
`Create`, `CreateOk`, one of the three branches of its select (`WaitJoined`,
`WaitTimer`, `WaitStopped`) and `Withdraw`; JOIN is `Join` or `JoinNothing`,
`Release`, `Ready`, `CalleeOk`. The two pipes of a game each read (`PipeRead`), write
(`PipeWrite`) and close both connections when one of these fails (`CloseBoth`);
`ProxyEnds` follows when both have returned. `closed` are
connections closed by the broker, `gone` those closed by the peer, `told` what has
been written to each. The bytes that are copied are left out.

`Matchmaker` says what the broker promises: one game per caller that is offered,
taken by one callee or given up, begun or called off, and ended; one open offer per
pair; and an end to every wait. `GameStatus` maps connections, tables and program
counters to the status of a game.

### SessionTable

What UtmpUser promises the rest of the system: a process gets a free entry, is the
only one to have it and gives it back when it leaves; only a process that dies
leaves its entry behind. The mapping is `upid` and a status read off the program
counter.

### IpcClient

The one link of an mbbsd process (`common/bbs/ipc.c`) with its users: `ipc_init` and
`mbbsd_ipc_reconnect_cb`, the event loop (`HandlePending`, `HandlePacket`,
`LinkLost`, `ipc_check_reconnect`) and live mode (`mbbsd/more.c`). A request writes
and waits in `ipc_read_ack`, where any packet may come first: it is the answer, a
stale ACK, or set aside. The service is reduced to what one link sees (`Svc...`):
requests read in order, answers, packets of its own, lost ACKs, closed links, death
and restart. Seconds are counted down in `wait`; a random spread is a choice.

### Xchatd

The select loop of `util/xchatd.c`, one step per line of input: `Accept`, `Expire`,
one action per command that changes something (`chat_join`, `chat_kick`,
`chat_setroom`, ...), `Hangup`, `Exception`, and the second loop `Reap`. `cur` and
`nxt` are the pointers `cu` and `cunext` that the loop holds while a command may
throw out either connection. A room stands for its name.

### BoardCache

`.BRD`, `bcache[]`, `Bnumber`, `bsorted[]` by name, `Bbusystate` and `busystate_b[]`.
An operation is the list of the accesses it still makes (`Program`), so that two
processes interleave between any two of them and one may be killed there (`Die`).
Sorting and `getbnum` are one step each. `init` (shmctl's initialisation) runs while
nobody else does, as its operator has to see to. `blame` collects what the code
itself leaves undone: a step given up because of a lock, a `.BRD` that could not be
opened (`load_fails`, `load_b_fails`), a board counted twice, a process killed
half-way, a header written back by shmctl that had changed.

### Logind

One libevent loop, one action per callback. A connection is known by its address in
the acknowledgement queue, in the list of logins waiting for a verdict, in timers
and in the acknowledgements from mbbsd; addresses are used again after `free()`, and
the ghost `id` tells connections apart. Load, bans and holds decided from outside
are choices. Only the default `g_async_ack = 1`; typing is one step per Enter, and
at the code prompt also the digits, because `auth_user_challenge` tells a code from a
password by there being one (`ByCode`), in whatever state the login is; a hand-over
may fail although mbbsd lives (`send_remote_fd`, `towrite`); an
account whose 2FA credential is missing counts as plain, without the rewriting of
its record; request numbers do not wrap. The ghost `dropped` marks that
`retry_service` has forgotten a tunnel without `event_del` and `close`.

### PostStore

One article: the record, comments, votes, history and crossposts in Pebble, the row
in SQLite, `dirtyDeltas` and `postSeqs` in memory. A request is the list of the
accesses it still makes (`Program`); goroutines interleave between any two. `Flush`
is the ticker, `ApplyFails` its transaction failing; `Crash`, `Restart` and
`RebuildSQLiteFromPebble` follow. A purge deletes the row, lists the keys of the four
Pebble stores (`list`, its iterators as one step) and deletes what it has listed with
one batch per store (`delpost`, `delcomments`, `dropvotes`, `delhist`); what is
written in between stays. Texts are the numbers of the requests that wrote
them. The ghost `stale` marks the writes over a version that the writer had not
seen; the properties speak about the histories without the mark they name.

## Runs

| run | expected | shows |
|---|---|---|
| `wmsg_ofo` | pass | one-for-one pager: three senders, one of them to a twin session, two slots, lost and late ACKs, logout: no access outside the array, no acknowledged message lost while handlers and critical sections do not overlap |
| `wmsg_default` | pass | silent drain, pop-up and a talk request: no access behind the array; at rest the queue is empty and has a free slot |
| `utmp_lists` | pass | three sessions of two users in three slots with the same hash, one of which may die: entries, bounds, exact lists at rest, termination, refinement of `SessionTable` |
| `utmp_aba` | violation of `Listed` | with three sessions of one user the unversioned compare-and-swap on the head loses one |
| `utmp_fix` | pass | a fix, a kick, a rebuild or an update that no login runs into: a fix leaves no dead entry and a rebuild makes the lists exact, wherever a process died |
| `ipc_service` | pass | indexes, order, answers, progress and shutdown of ipc.svc |
| `ipc_client` | pass | three requests, three faults, two packets of the service: answers, order, registration, live mode, backoff, reconnect |
| `chess_broker` | pass | two callers and two callees on one key, with peers that leave and Stop; refinement of `Matchmaker` |
| `xchatd` | pass | a sysop and a user in the main room and another one, two commands to a packet, one exceptional condition |
| `board_cache` | pass | two operations by two processes, one of which may be killed, over three slots and three names |
| `logind` | pass | three connections at two addresses, two tunnels, an account that needs a second factor from a new address, a registration, a guest and an empty name, tarpit slots shared by two clients; with the timers that are set once, whoever has left the prompts ends |
| `post_store` | pass | any two requests on one article, access by access, with flusher, failing flush, crash, restart and rebuild |

The violation is a disagreement between the code and a comment, quoted under
`findings`. Others were met and are described under "Known behaviour outside the
properties".

The properties that a run checks are conjunctions of named parts where the parts
belong to one question:

| property | parts |
|---|---|
| `RestsClean` (Wmsg) | `RestsEmpty`: no message waits for a wake-up that nobody will send; `RestsUsable`: a slot is free for the next sender |
| `Delivery` (IpcService) | types; `InOrder`: order kept and nothing twice; `RefusedIsUnsent`: a refused request reached nobody |
| `ServiceAgrees` (IpcClient) | types; `KeptIsRegistered`; `LiveFollows`: subscribed exactly in live mode |
| `BacksOff` (IpcClient) | `NoHotRetry`: one connect to a tick; `BackoffIsEarned`: one doubling for a lost link |
| `Recovers` (IpcClient) | `Reconnects`; `SetAsideIsHandled` |
| `TablesAgree` (ChessBroker) | types; `Findable`; `ActiveIsLive`; `Paired` |
| `NobodyLeftWaiting` (ChessBroker) | `CallerHears`; `LeaverEndsGame` |
| `ChattersAgree` (Xchatd) | types; `RoomsAgree`: occupants and rooms; `NickUnique` |
| `KickIsSafe` (Xchatd) | `NoDangling`; `DeadCounted`; `KickedLeaves` |
| `PrivilegesEnd` (Xchatd) | `OpIsLocal`; `InviteSpent` |
| `CacheExact` (BoardCache) | types; `CacheCurrent`; `FindsAll`: what getbnum finds; `NumberInBounds` |
| `LocksOwned` (BoardCache) | `Exclusive`; `NoLeak` |
| `BooksAgree` (Logind) | types; `PointersLive`; `TarpitExact`; `TunnelWatched` |
| `LoginIsEarned` (Logind) | `HandedIsVerified`; `AttemptsBounded` |
| `LateAnswersHarmless` (Logind) | `AckEndsHanded`; `VerdictFindsItsLogin` |
| `StoresAgree` (PostStore) | types; `RebuildGivesBack`; `PurgedIsGone` |
| `TextsKept` (PostStore) | `NothingForgotten`; `SequenceFresh` |

`TypeOK` of Wmsg and of UtmpUser are not in a run: they are proved. `OwnsEntry` is
proved of the sessions alone (`KeepsTable`, which `utmp_lists` checks, includes what it
says) and fails beside a fix. `SafeBeside` (types of UtmpSvc and `InBounds` of
UtmpUser beside a fix, a kick or a rebuild) is proved too.

CHECK_DEADLOCK is FALSE in every run but `xchatd`: the number of messages, logins,
requests and connections is bounded, and when all have been made the system may
stop. That nothing hangs before is what the liveness properties say.

### Bounds

* Wmsg: `MAX_MSGS` is 2 instead of 10, with three messages in all. Two slots can be
  full, partly drained and refilled, and the third sender finds the queue full. Two
  of the senders racing with the handler produce every order of raise, increment and
  reset. The proofs cover the rest.
* UtmpUser: three processes and three slots. A list has a head, a middle and a
  last node; the hash of all users is the last slot, so that probing wraps. A
  process logs in once: a slot is used again by the next process. With three
  sessions of one user the ABA appears; with two of one user and one of another it
  cannot, and `utmp_lists` checks this case including slots that change users.
* UtmpSvc: one request, and one process that may die at any point. `Apart` is TRUE:
  the request runs while no login or logout does, which is what `ServiceRepairs` is
  about. What holds for both values of `Apart` is proved (`InBoundsBesideService`).
* IpcService: two connections with two requests each, a queue of one packet, one
  user and one pid, so that both connections can claim the same pid and all
  packets meet the same full queue. One connection registers, unregisters and
  subscribes, the other registers and sends.
* ChessBroker: one key, so that the second CREATE replaces the first and both
  JOINs compete; one caller may leave, and send during a game. The two sides of a
  game do the same in the code, and the safety properties are proved for all.
* IpcClient: three faults are enough for a late ACK, a lost link and a failed
  registration in one history; the backoff passes its cap of 5 after three losses.
  `Spread` is 0: a delay is not rounded by it, only prolonged.
* Xchatd: two connections are the server's current and next one; with a room besides
  the main one every way in and out of a room is taken, and with two commands in one
  packet a connection goes on after it was kicked or has said goodbye.
* BoardCache: three slots with at most three names, so that the arrays are full, an
  empty slot is used again and two processes both add the last board. A tick of the
  clock is the ten seconds after which a lock is old.
* Logind: with two addresses for three connections memory is used again while an
  acknowledgement or a verdict of its former owner is on its way. Two clients share
  a home slot of the tarpit. `LOGINATTEMPTS` is 2; `LOGIND_ACKQUEUE_BOUND` is 0, so
  that one waiting connection makes the tunnel unavailable. `MaxTotal` is 4: two
  tunnels with two connections, or one with three.
* PostStore: two requests and the flusher, each interrupted anywhere; before them
  the article is missing or is there with one comment and no votes. One crash, two
  users, two ticks.

### Fairness

* Wmsg: a sender inside `write_message_full` and a handler inside the recipient are
  scheduled again (they are processes, and never wait inside); a packet is read
  because `vkey()` polls; a user who is typing a reply or reading a pop-up ends at
  some point. Nothing makes users send, log out or change modes.
* UtmpUser: a process in the middle of a login or logout is scheduled again. A
  session may stay online for ever; a process that has crashed takes no steps.
* IpcService: goroutines that can run do run. Nothing is assumed of the writers,
  which wait for peers, of the nested Stops or that Stop is called. The peers in
  `Leaving` hang up some time (`StopsCleanly` needs that of the connections that Stop
  misses); of the others nothing is assumed.
* ChessBroker: goroutines that can run do run, and timers expire. A write to a player
  in `Reading` returns; one to any other may be held for ever, since
  `service/ipc/daemon/chess.go:326` has no deadline. `LeaverEndsGame` and the last
  clause of Matchmaker's liveness are for games whose players have left or read.
* IpcClient: the process runs and time passes; ipc.svc is started again when it died,
  and reads what is sent to it. Faults are finitely many.
* Xchatd: the loop ends its turns and time passes. `Expire` is strongly fair: it runs
  at the top of every turn, so that it is not kept from a connection by others who
  keep sending. Nothing is assumed of those who are connected.
* BoardCache: a process in an operation is scheduled again unless it is killed.
* Logind: timers that are set once go off (for a verdict, for an acknowledgement, for
  the end). The idle timer of a client starts again with every byte
  (`EV_READ|EV_PERSIST`, `daemon/logind/logind.c:2800`) and has no fairness, so that
  `Ends` is about connections that have left the prompts. Nothing is assumed of
  clients, of mbbsd or of activity.svc.

Properties of UtmpSvc and PostStore are safety properties and need none.

## Proofs

All proofs are for arbitrary constants under the named assumptions of the modules:
`MaxMsgsAssumption`, `ConstantsAssumption` (Wmsg: at least one slot, pids distinct
from 0), `SizeAssumption`, `UtmpAssumption` (UtmpUser: at least one slot and one
user, hashes are slots), `SvcAssumption` (UtmpSvc: the kinds of requests),
`IpcAssumption` and `LeavingAssumption` (IpcService: null values are no clients or
users, pids are positive), `ChessAssumption` (nobody is both caller and callee), `ClientAssumption`
(the backoff starts above 0 and not above its cap), `LogindAssumption` (null values,
and the kinds of accounts), `XchatdAssumption` (null values, finitely many
connections, at least one command to a packet), `PostStoreAssumption` and
`NoneAssumption` (PostStore: finitely many goroutines and users, and null is no
record), `BoardCacheAssumption` (finitely many processes; room and names for the two
boards of the start). Every bound of a run, on messages, logins, requests,
connections, faults or time, is such a constant, so that the theorems hold for any
number of them.

In most modules the property is about what is seen between two operations, and the
inductive invariant says what holds in the middle of each.

* `WmsgProofs`: `TypeCorrect`, `NoOverrunHolds`, and `NoUnderrunWithoutPopUp`
  (for the one-for-one pager, and where the pop-up never opens). `NoOverrun` alone
  is not inductive: that `msgcount` stays at or below `MAX_MSGS + 1` depends on
  what `wmsg_on_deliver` has read before, and that the pop-up's `memmove` stays
  inside on where its loop is. `Inv` adds what each side knows at its program
  counter: `SenderKnows` (the claimed position is inside the array),
  `DeliverKnows` (the loaded counts, and that senders can only raise up to
  `MAX_MSGS`), `DrainKnows` (loop bounds), `PopKnows` (when `msgcount` can be
  negative at all). `QueueRestsClean` proves `RestsClean` for every instance in which
  ipc.svc is not down (with "down" it fails: a message may wait at rest). `SeenTo`
  says that whatever is left over has somebody to see to it: a sender that will send
  its packet or a packet on its way (`Pending`); otherwise `msgcount` is exactly what
  the handler or the open pop-up still goes through, and slot 0 is free or will be
  freed by it (`Quiet`). `Shape` adds that every handler starts with a message in the
  queue, so that it frees slot 0.
* `UtmpProofs`, the table: `TableTypeCorrect`, `AccessesInBounds`, `EntryIsOwned`,
  for any number of processes and slots and with crashes. `IInv` adds `CleanOK`: what
  `clean_marked_nodes` is called for, and that its counters are below their limits.
  `OwnsEntry` rests on the compare-and-swap of `Claim` and on a process clearing no
  entry but its own; utmp.svc breaks the second. `ImplementsTable` proves the refinement of SessionTable:
  `ListStepOK` shows that the steps of the list code leave the table and the status
  of every process alone, and `TableStep` maps claim, refusal, exit and death to the
  steps of the table. It needs `Tagged` besides `IInv`: the entry of a session that
  has been copied carries its user's number, so that `u_exit` takes its own entry
  for its own.
* `UtmpProofs`, utmp.svc: `InBoundsBesideService` shows that the accesses of the
  sessions stay in range whatever the service does to the lists at the same time;
  `SvcPlaces` says that the slot and the user it works on exist. `ApartInv` keeps what
  the service has read true while no session moves: an entry names a process that came
  to that slot (`EntryHome`), and a candidate for a purge is still the entry's process
  or the entry is empty (`CandsOK`).
  `ServiceDoesRepair` says what a request leaves: exact lists after a rebuild,
  from whatever state they were in, and no dead entry after a fix. `RebuildInv` follows the
  pushes: the entries below the current slot are linked in descending order, each to
  the next lower session of its user (`IsBelow`), and the entry at hand still has the
  head that was loaded for it. `WalkGoesDown`, `WalkOnce` and `WalkFinds` then show
  that a walk of such a list meets every session once: it only descends, and a session
  it passed by would be below `APPLY_MAX` others (`ApplyUser` stops after that many,
  so the users with more sessions are left out of `ListsExact`). `FixInv` says that the
  entries behind the loop of RunFix are those of living processes.
* `IpcSvcProofs`, the service: `IndexesStayExact`, `NoGhostClients`. `IInv` adds to
  `IndexesAgree` the types, `Accepting` (the connection at hand in the accept loop
  has no handler yet) and `Cleaned` (an ended handler has no subscriptions left).
  Removal takes a client out of an index only under the name it currently has, so
  that it leaves nothing behind depends on `IndexesAgree` itself. `DeliveryHolds` is
  about the queues. `DInv` follows a request from its reading to its answer: nothing
  of it is anywhere before it was read (`Numbered`), whom the fan-out still has to
  reach has nothing of it (`Pending`), and its answer comes last (`Unanswered`) and,
  when it is a refusal, after nothing was sent (`Refusing`).
* `IpcSvcProofs`, the broker: `TablesStayExact`, and `ImplementsMatchmaker` for the safety
  part of the refinement, the initial condition and the steps. What is needed besides
  the types: what is pending was offered by a caller and is not taken (`OffersOpen`),
  the pointers of caller and callee are each other's inverse (`Linked`), a session
  that is counted has somebody at work on it (`Worked`), and what was written before
  each step of a JOIN (`Told`).
* `IpcClientProofs`: `AnswersAreOwn`, `PacketsReachHandlers`, `SessionIsKnown`,
  `RetriesBackOff`. An answer is matched by its number, and a number may be on the
  link from a call that gave up; that a late answer is taken for nobody else's needs
  `Asked` (a request is on its way once), `Answered` (and not any more when its answer
  is) and `Current` (the answer to the request that is waited for says what was done).
  `Registers` and `Follows` say what the service holds, or will hold once it has read
  what is on the link, in each call; `Due` when the next connect may be.
* `LogindProofs`: `LoginsAreEarned`, `LateAnswers`, `BooksStayRight`. `Good` is what a
  connection is in each of its states, with what it has proved of its user by then.
  Pointers are kept in the queue of acknowledgements and the list of those that wait
  for activity.svc, and addresses are used again: `QueueOK` and `ListOK` say that each
  holds every connection in the state for it once and no other, `NumbersOK` that no
  request number is used twice, so that a login which waits under the number of an
  open request is the one that asked, and `TarpitOK` that the table of open addresses
  counts those that are held.
* `XchatdProofs`: `KickingIsSafe`, `RoomsStayExact`, `PrivilegesAreLocal`. A command
  may take out any connection while the loop is at another one. `LoopOK` says where
  `cu` and `cunext` are then; that no connection is in the list twice (`TypesOK`) that
  unlinking it is enough; `PeersOK` that who is dead or has not logged in is in no
  room, so that no room is left twice. `RoomsOK` counts the occupants together with
  those that an exception of select has left behind (see below). `Spent` carries what
  `InviteSpent` says through `exit_room` and `enter_room`.
* `BoardCacheProofs`: `LocksAreOwned`, of the flags `Bbusystate` and `busystate_b`,
  with processes that are killed and locks that are taken over as too old. `ProcsOK`
  says of each list of steps still to do that a lock is taken directly before what it
  guards and given back directly after; `Held`, that whoever is in the section finds
  the flag set, which is why nobody else enters; `InitAlone`, that the clearing of
  all flags meets nobody. `CacheStaysExact`: between operations the cache is that of
  the file, or `blame` says why not. What is left of an operation is one of 27 lists,
  which makes the list a program counter (`Place`); `CacheInv` says for each place
  what the operation still owes. `NumOK`: the number is that of the file, or one
  process is between its append and its `Bnumber++`; `LoadOK`: a header that differs
  is one that a process is going to load; `SortOK`: an index out of order has
  somebody on the way to sort it; `CountOK`: without blame only one process counts;
  `LoneOK`: what a reload has set right as long as nobody else started; `BoundsOK`:
  each operation raises the number once at most. That `getbnum` finds every board of
  a sorted index (`FindsAll`) is shown by induction on the distance of the two ends
  of the search, as an argument about the least counterexample.
* `PostStoreProofs`: `TypeCorrect`, `CountersAreExact`, `TextsAreKept`,
  `StoresAlwaysAgree`, `EditsSawLatest`. A request is the list of its accesses to the two databases and
  to `dirtyDeltas`, and anybody's access, a flush, a crash or a rebuild may come
  between two of them. `ReqOK` says for each access what its request has read by then.
  - `PostInv` counts: what SQLite shows, what `dirtyDeltas` holds, and what goroutines
    carry (deltas taken by a flush and not applied, a comment stored and not counted)
    add up to the comments and votes in Pebble. The sums are over any finite set of
    goroutines; that one goroutine's step changes a sum by that goroutine's share is
    proved by induction as a first-order argument (the least size of a counterexample).
  - `TextInv`: an acknowledged text is the current one or in the history, one that a
    goroutine is about to write over is archived first, and a sequence that is taken
    is not given again while the article is there.
  - `AgreeInv` is about writes that are done in one database and not in the other:
    `RowInv` (title, mode, deletion, crossposts), `TimeInv` (the time of the row is the
    latest of the records', or somebody is about to set it) and `GoneInv` (what is left
    of an article without a row is on the list of a purge that has yet to delete it, or
    a purge has yet to make its list). For the revisions it needs `HistThere`: until
    a purge a comment with a revision is there itself, since the iterators reach the
    revisions through the comments. Only at rest does it
    become the plain `StoresAgree`.
  - `SeenInv`: the time that an editor was shown is not later than that of the row,
    and when they are equal the text is the one it was shown, or somebody who has
    stored another one is about to set the time. `Knows` carries the comparison from
    GetPost to the write: the article that an accepted edit holds has the time its
    editor was shown. `EditSawLatest` is about the write (`setpost`), and what has
    come in between the comparison and the write is its exception ("post", "clock"),
    which really happens.

The invariants were checked with TLC before they were proved. Proving them led to a
few changes of form in the models, none of behaviour: `auth_user_challenge` decides
with IF and ELSE where the arms of a CASE overlapped, and `NothingLost`, `SubAfter`
and Logind's list of those that wait say by index what they said with SelectSeq. `ByName`
says by ranks what it said with SetToSortSeq.

Three claims were too strong, and only the proofs showed it:

* `SequenceFresh` claimed that no two comments of an article ever share a sequence.
  With three goroutines they may, when a purge empties `postSeqs` between the two; it
  is now claimed while the article is there, and TLC's two goroutines had not found it.
* `Bnumber` of BoardCache can pass MAX_BOARD by more than there are processes, since
  one that has read it early may count long after others did (`Slots` allows for one
  board per operation; with the two processes of the run both bounds are the same).
* The lists were claimed to be exact whenever a fix ends. With three sessions of one
  user a fix may find nothing to do although a session is lost; `ServiceRepairs` took
  the place of that claim.

Checked by TLC only:

* liveness (`AckedIsShownWhenAlone`, `Settles`, `NeverStuck`, `StopsCleanly`,
  `NobodyLeftWaiting`, `Recovers`, `UnnamedLeaves`, `Ends`, and the liveness part of
  Matchmaker), which is out of the prover's reach;
* `Listed` of UtmpUser, which is no theorem: three sessions of one user are enough
  to lose one (`utmp_aba`), so it holds of the instance of `utmp_lists` and not of
  every one.

## Known behaviour outside the properties

The models contain these behaviours of the code; the properties are stated so that
they say what does hold.

* Three queued messages and a pop-up whose own `vkey()` has drained the queue leave
  `msgcount` at -1, and the next delivery stores at `msgs[-1]` (`mbbsd/wmsg.c:1270`),
  although `include/pttstruct.h:427` speaks of avoiding racing and overflow.
  `NoUnderrun` is claimed, and proved, where the pop-up does not open.
* An acknowledged waterball can be overwritten before it is shown, when
  `wmsg_on_deliver` or the drain's `msgcount = 0` meets a sender in the middle of its
  call (`mbbsd/wmsg.c:1316`, against `docs/WRITE_MSG.md:169`). `AckedIsShownWhenAlone`
  is for handlers and senders that do not overlap.
* UTMPneedupdate is cleared after the count (`service/utmp/daemon/server.go:186`), and
  a process that is killed between the two stores of `purge_utmp`
  (`mbbsd/cache.c:99`) never sets it: `UTMPnumber` may be stale until the next change.
* RunFix copies slot and pid of every entry first (`service/utmp/daemon/utmpfix.go:26`),
  tests the pid later and purges the slot by its number (`:51`). A process that logs
  out in between and another that takes the slot are enough for the entry of the
  second, which is alive, to be cleared, although `:33` says that the slot of a live
  process is never purged. `UtmpSvc` with `Apart = FALSE` contains it.
* A kicked process that handles SIGHUP late clears the entry of its user's next
  session in the same slot (`mbbsd/mbbsd.c:209` compares only the userid).
* The timer of a pending game that fires just before the callee joins cuts the game
  off at once (`service/ipc/daemon/chess.go:216`); `chess.go:202` says 120 seconds
  where the code waits 15.
* A game whose leaver's pipe is held in a write to a player that does not read goes on
  until that player reads or leaves (`service/ipc/daemon/chess.go:326`).
* An exceptional condition of select takes a chatter out without `exit_room`, and the
  room's count stays one too high (`util/xchatd.c:3084`) and his invitation stays
  good; so does the invitation of the last one out of the main room
  (`util/xchatd.c:685`). `InviteSpent` is for all other ways out.
* Two processes that add the last board at once raise `Bnumber` above `MAX_BOARD`
  (`common/bbs/cache.c:578`); one that finds `Bbusystate` set leaves its board
  unsorted or unloaded until the next sort or reload.
* An acknowledgement that is late may end the connection that has taken over the
  address, if that one was handed over too (the FIXME at
  `daemon/logind/logind.c:2330`); and after `retry_service` has forgotten a tunnel
  the next one may not be watched.
* Votes of one user at the same time, and requests that store a whole article or
  comment over a change they have not seen, lose one of the two
  (`service/post/storage/engine.go:1473`, `:691`, `:802`). So do two edits of one
  version that are compared before either is stored (`:2170`): both editors
  are answered OK, where `:2169` and `service/post/post_test.go:808` speak of a conflict.
  `EditSawLatest` names the case.
* What others write to an article while a purge runs, a revision archived by an edit
  of a comment included, stays in Pebble without an article when the purge has made
  its list before (`engine.go:1370`-`1457`). `PurgedIsGone` names the case.

## Limits of what is shown

* Memory is sequentially consistent in the models. The list code uses acquire and
  release accesses, which allow more orders on weakly ordered machines; the plain
  accesses to `msgs[]` are data races, which a compiler may merge or reorder
  further.
* `ServiceRepairs` is for services and sessions kept `Apart`. If a login runs into a
  rebuild the lists can be wrong until the next one.
* A fix rebuilds only if it has purged or fixed something (`ServiceRepairs` says so in
  its condition on `changed`). A session lost as in `utmp_aba`, or an entry reaped by
  `get_online_session` between two live sessions of the same user, leaves a list with
  nothing for RunFix to see; it stays wrong until a purge, a kick or an operator's
  rebuild. Both take three sessions of one user.
* Wmsg follows one session; an entry that changes hands while a sender is in its
  call (`common/bbs/message.c:45`) is not in it. When ipc.svc is down a message waits
  until another packet comes (`message.c:68`); that is in the model and not excluded.
* `multi_user_check` (`mbbsd/mbbsd.c:402`) reads the lists of UtmpUser and is not an
  action of it.
* `ipc_query_stats` (`common/bbs/ipc.c:750`) would consume packets set aside earlier;
  only a test calls it.
* The bound of logind's acknowledgement queue is tested before a verdict is awaited
  and not after it (`daemon/logind/logind.c:1769`), so that the queue grows past it by
  the logins that were waiting.
* Requests accepted before the broker's Stop arrive after its sweep
  (`service/ipc/daemon/chess.go:94`); that Stop ends is not claimed there.
* `StopsCleanly` begins when the nested Stops have returned: the broker's waits for a
  connection that never sends a line (`service/ipc/daemon/chess.go:99`, `:127`).
  Connections that Stop misses (accepted while it runs, or unregistered) keep it until
  their peers leave, which is assumed of those in `Leaving`.

Not modelled: screens, menus, editors and game rules (sequential, private to a
process); the text of messages; maintenance programs; request/response services
over their own files; the Go replacement of the chat server; and what the plan
still has in front of it. Within the modelled components: ipc_query_stats, which no
program calls; classes and child links of boards; in PostStore the purges of a user
or a community, SetPostContent, the importer, rendering, sharding and power loss; in Logind telnet
and encodings. `PROJECT.json` has the list for each.

## Plan

Done: the modules above, the refinements of SessionTable and Matchmaker, and the
proofs listed.

1. Theorems: an abstract specification of what ipc.svc promises a session, which
   IpcService and the link of IpcClient implement.
2. `Money`: `deumoney`'s compare-and-swap, `setumoney`, the write-back to
   `.PASSWDS`; then the user hash.
3. `Record`: append, substitute and delete of records under locks, as a refinement
   of a sequence with atomic operations.
4. Read marks (as operators against a set of read articles), the friend service, the
   Go chat server as a second implementation of what Xchatd promises.

Compositions: IpcClient with IpcService, which would replace the three outcomes of
the request in Wmsg; Wmsg with UtmpUser, for entries that change hands.
