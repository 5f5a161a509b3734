----------------------------- MODULE IpcService -----------------------------
(***************************************************************************)
(* ipc.svc (service/ipc/daemon/server.go): the service that every mbbsd    *)
(* process keeps a connection to, and that passes waterballs, talk         *)
(* requests, live comments and broadcasts on to the sessions they are for. *)
(*                                                                         *)
(* Goroutines: one accept loop; for each connection a handler (reads a     *)
(* request, changes the indexes under s.mu, queues packets) and a writer   *)
(* (empties the connection's bounded queue into the socket); and Stop.  A  *)
(* section under s.mu is one step; everything between two sections, and    *)
(* each Enqueue of a fan-out, is a step of its own.                        *)
(***************************************************************************)
EXTENDS Integers, Sequences, FiniteSets

CONSTANTS
  Clients,    \* connections; each is made once
  NoClient,
  Users, Pids, Topics,
  NoUser,     \* the empty userid of a client that has not registered yet
  Ops,        \* which requests each connection's peer sends
  Leaving,    \* connections whose peer hangs up in the end
  QueueSize,  \* ClientSendQueueSize
  WriteBatch, \* ClientWriteBatch
  NReq        \* bound: requests on each connection

ASSUME IpcAssumption ==
  /\ NoClient \notin Clients /\ NoUser \notin Users
  /\ Pids \subseteq Nat \ {0}
  /\ QueueSize \in Nat \ {0} /\ WriteBatch \in Nat \ {0}
  /\ NReq \in [Clients -> Nat] /\ DOMAIN Ops = Clients
ASSUME LeavingAssumption == Leaving \subseteq Clients

VARIABLES
  done,       \* connections whose Close() has run
  clients, byUser, byPid, topics,        \* the Service, guarded by s.mu
  registered, user, pid, subs,           \* Client.registered, userid, pid, topics
  stream,     \* all packets ever queued for a client, in order
  taken,      \* how many of them the writer has taken out of sendCh
  hpc,        \* handler: program counter
  nreq,       \* handler: requests read
  targets,    \* handler: the snapshot that fan-out works through
  reply,      \* handler: the code of the ACK, "none" for no ACK
  apc, aconn, \* accept loop: program counter and the connection at hand
  spc         \* Stop: program counter

index   == <<clients, byUser, byPid, topics>>
fields  == <<registered, user, pid, subs>>
out     == <<stream, taken>>
hand    == <<hpc, nreq, targets, reply>>
control == <<apc, aconn, spc>>
vars    == <<done, index, fields, out, hand, control>>

(* byUser[u] is a slice of clients; what matters of it is how often it holds
   each client, since all of them get the packet *)
NoTargets == [c \in Clients |-> 0]
Listed(u, c) == byUser[u][c] > 0

Init ==
  /\ done = {}
  /\ clients = {} /\ byUser = [u \in Users |-> NoTargets]
  /\ byPid = [p \in Pids |-> NoClient] /\ topics = [k \in Topics |-> {}]
  /\ registered = {}
  /\ user = [c \in Clients |-> NoUser] /\ pid = [c \in Clients |-> 0]
  /\ subs = [c \in Clients |-> {}]
  /\ stream = [c \in Clients |-> <<>>]
  /\ taken = [c \in Clients |-> 0]
  /\ hpc = [c \in Clients |-> "none"] /\ nreq = [c \in Clients |-> 0]
  /\ targets = [c \in Clients |-> NoTargets]
  /\ reply = [c \in Clients |-> "none"]
  /\ apc = "accept" /\ aconn = NoClient /\ spc = "run"

-----------------------------------------------------------------------------
(* the accept loop *)

Accept(c) ==
  /\ apc = "accept" /\ spc = "run" /\ hpc[c] = "none"
  /\ apc' = "insert" /\ aconn' = c
  /\ UNCHANGED <<done, index, fields, out, hand, spc>>

(* the client enters s.clients, and its goroutines start *)
Insert ==
  /\ apc = "insert"
  /\ clients' = clients \cup {aconn}
  /\ hpc' = [hpc EXCEPT ![aconn] = "read"]
  /\ apc' = "accept" /\ aconn' = NoClient
  /\ UNCHANGED <<done, byUser, byPid, topics, fields, out, nreq, targets, reply, spc>>

(* mutant: every error of Accept is taken for a passing one *)
AcceptRetries ==
  /\ apc = "accept" /\ spc # "run"
  /\ UNCHANGED vars

(* Accept fails and stopChan is closed *)
AcceptEnds ==
  /\ apc = "accept" /\ spc # "run"
  /\ apc' = "ended"
  /\ UNCHANGED <<done, index, fields, out, hand, aconn, spc>>

-----------------------------------------------------------------------------
(* dispatch: the handler of c has read a request *)

Goto(c, pc) == hpc' = [hpc EXCEPT ![c] = pc]
Answer(c, code) == reply' = [reply EXCEPT ![c] = code]

Request(c, op) ==
  /\ op \in Ops[c]
  /\ hpc[c] = "read" /\ c \notin done /\ nreq[c] < NReq[c]
  /\ nreq' = [nreq EXCEPT ![c] = @ + 1]

WithoutUser(c) ==
  [u \in Users |-> [d \in Clients |->
     IF d = c /\ u = user[c] /\ c \in registered THEN 0 ELSE byUser[u][d]]]
WithoutPid(c) ==
  [p \in Pids |->
     IF byPid[p] = c /\ p = pid[c] /\ c \in registered THEN NoClient ELSE byPid[p]]

(* the tests for an empty userid and for pid 0 are those of WithoutUser and
   WithoutPid, which match no client that has not registered; the peers
   register a userid and a pid (mbbsd/ipc.c:44, 66) *)
RegisterOver(c, u, p, old) ==
  /\ Request(c, "register")
  /\ byUser' = [old EXCEPT ![u][c] = @ + 1]
  /\ byPid' = [WithoutPid(c) EXCEPT ![p] = c]
  /\ user' = [user EXCEPT ![c] = u] /\ pid' = [pid EXCEPT ![c] = p]
  /\ registered' = registered \cup {c}
  /\ Answer(c, "ok") /\ Goto(c, "ack")
  /\ UNCHANGED <<done, clients, topics, subs, out, targets, control>>

(* mutant: a client that registers again keeps its old place *)
RegisterAgain(c, u, p) == RegisterOver(c, u, p, byUser)

Register(c, u, p) == RegisterOver(c, u, p, WithoutUser(c))

RemoveClient(c) ==
  /\ clients' = clients \ {c}
  /\ byUser' = WithoutUser(c) /\ byPid' = WithoutPid(c)
  /\ topics' = [k \in Topics |-> IF k \in subs[c] THEN topics[k] \ {c} ELSE topics[k]]
  /\ subs' = [subs EXCEPT ![c] = {}]

(* mutant: the client still counts as registered *)
UnregisterKeepsFlag(c) ==
  /\ Request(c, "unregister")
  /\ RemoveClient(c)
  /\ Answer(c, "ok") /\ Goto(c, "ack")
  /\ UNCHANGED <<done, registered, user, pid, out, targets, control>>

(* nobody else reads client.registered, which is reset outside the lock *)
Unregister(c) ==
  /\ Request(c, "unregister")
  /\ RemoveClient(c)
  /\ registered' = registered \ {c}
  /\ Answer(c, "ok") /\ Goto(c, "ack")
  /\ UNCHANGED <<done, user, pid, out, targets, control>>

(* the handler copies the targets under the read lock and goes on without it *)
FanoutTo(c, ts, code) ==
  /\ targets' = [targets EXCEPT ![c] = ts]
  /\ Answer(c, code)
  /\ Goto(c, IF ts # NoTargets THEN "fan" ELSE IF code # "none" THEN "ack" ELSE "read")

(* WMSG_SEND and TALK_REQ: the sessions of u; -1 if there is none *)
SendTo(c, u) ==
  /\ Request(c, "send")
  /\ FanoutTo(c, byUser[u], IF byUser[u] = NoTargets THEN "err" ELSE "ok")
  /\ UNCHANGED <<done, index, fields, out, control>>

Sub(c, k) ==
  /\ Request(c, "sub")
  /\ subs' = [subs EXCEPT ![c] = @ \cup {k}]
  /\ topics' = [topics EXCEPT ![k] = @ \cup {c}]
  /\ Answer(c, "ok") /\ Goto(c, "ack")
  /\ UNCHANGED <<done, clients, byUser, byPid, registered, user, pid, out,
                 targets, control>>

(* UNSUB and PUB are answered only if their seq is not 0 *)
Codes == {"none", "ok"}

Unsub(c, k, code) ==
  /\ Request(c, "unsub")
  /\ subs' = [subs EXCEPT ![c] = @ \ {k}]
  /\ topics' = [topics EXCEPT ![k] = @ \ {c}]
  /\ Answer(c, code) /\ Goto(c, IF code = "ok" THEN "ack" ELSE "read")
  /\ UNCHANGED <<done, clients, byUser, byPid, registered, user, pid, out,
                 targets, control>>

Pub(c, k, code) ==
  /\ Request(c, "pub")
  /\ FanoutTo(c, [d \in Clients |-> IF d \in topics[k] THEN 1 ELSE 0], code)
  /\ UNCHANGED <<done, index, fields, out, control>>

(* SYS_BROADCAST, to every session that is listed under some user *)
Broadcast(c) ==
  /\ Request(c, "broadcast")
  /\ FanoutTo(c, [d \in Clients |-> IF \E u \in Users : Listed(u, d) THEN 1 ELSE 0], "ok")
  /\ UNCHANGED <<done, index, fields, out, control>>

(* PING, STATS_REQ, CHAT_MSG, an unknown type or a bad payload: an answer *)
Query(c) ==
  /\ Request(c, "query")
  /\ \E code \in {"ok", "err"} : Answer(c, code)
  /\ Goto(c, "ack")
  /\ UNCHANGED <<done, index, fields, out, targets, control>>

-----------------------------------------------------------------------------
(* Enqueue never waits: a closed client or a full queue drops the packet *)

Queued(d) == Len(stream[d]) - taken[d]
Packet(kind, c) == <<kind, c, nreq[c]>>

(* mutant: the send blocks while the queue is full *)
EnqueueWaiting(d, packet) ==
  /\ d \in done \/ Queued(d) < QueueSize
  /\ stream' = IF d \notin done
               THEN [stream EXCEPT ![d] = Append(@, packet)] ELSE stream

Enqueue(d, packet) ==
  stream' = IF d \notin done /\ Queued(d) < QueueSize
            THEN [stream EXCEPT ![d] = Append(@, packet)] ELSE stream

Fanout(c, d) ==
  /\ hpc[c] = "fan" /\ targets[c][d] > 0
  /\ Enqueue(d, Packet("data", c))
  /\ FanoutTo(c, [targets[c] EXCEPT ![d] = @ - 1], reply[c])
  /\ UNCHANGED <<done, index, fields, taken, nreq, control>>

SendAck(c) ==
  /\ hpc[c] = "ack"
  /\ Enqueue(c, Packet(reply[c], c))
  /\ Answer(c, "none") /\ Goto(c, "read")
  /\ UNCHANGED <<done, index, fields, taken, nreq, targets, control>>

(* mutant: the deferred function closes the connection and stops there *)
HandlerEndsInPlace(c) ==
  /\ done' = done \cup {c}
  /\ Goto(c, "ended")
  /\ UNCHANGED <<index, fields, out, nreq, targets, reply, control>>

(* reading fails: Close and removeClient *)
HandlerEnds(c) ==
  /\ done' = done \cup {c}
  /\ RemoveClient(c)
  /\ Goto(c, "ended")
  /\ UNCHANGED <<registered, user, pid, out, nreq, targets, reply, control>>

(* because the peer has hung up or sent too long a payload ... *)
PeerLeaves(c) == hpc[c] = "read" /\ c \notin done /\ HandlerEnds(c)

(* ... or because Close has run *)
ReadFails(c) == hpc[c] = "read" /\ c \in done /\ HandlerEnds(c)

-----------------------------------------------------------------------------
(* writeLoop *)

Take(c) ==
  /\ c \notin done /\ Queued(c) > 0
  /\ taken' = [taken EXCEPT
       ![c] = IF Queued(c) > WriteBatch THEN @ + WriteBatch ELSE Len(stream[c])]

WriteDone(c) ==
  /\ Take(c)
  /\ UNCHANGED <<done, index, fields, stream, hand, control>>

(* an error, or a peer that has not read for two seconds: Close *)
WriteFails(c) ==
  /\ Take(c)
  /\ done' = done \cup {c}
  /\ UNCHANGED <<index, fields, stream, hand, control>>

-----------------------------------------------------------------------------
(* Stop *)

(* close(stopChan), listener.Close() *)
StopBegins ==
  /\ spc = "run"
  /\ spc' = "clients"
  /\ UNCHANGED <<done, index, fields, out, hand, apc, aconn>>

CloseClients ==
  /\ spc = "clients"
  /\ done' = done \cup clients
  /\ spc' = "nested"
  /\ UNCHANGED <<index, fields, out, hand, apc, aconn>>

(* xchatServer.Stop() and chessServer.Stop() return: they wait for goroutines
   of their own, and those may wait for a peer that sends nothing (ChessBroker) *)
NestedStop ==
  /\ spc = "nested"
  /\ spc' = "wait"
  /\ UNCHANGED <<done, index, fields, out, hand, apc, aconn>>

(* wg.Wait *)
StopEnds ==
  /\ spc = "wait"
  /\ apc = "ended" /\ \A c \in Clients : hpc[c] \in {"none", "ended"}
  /\ spc' = "stopped"
  /\ UNCHANGED <<done, index, fields, out, hand, apc, aconn>>

-----------------------------------------------------------------------------
Dispatch(c) ==
  \/ \E u \in Users, p \in Pids : Register(c, u, p)
  \/ Unregister(c)
  \/ \E u \in Users : SendTo(c, u)
  \/ \E k \in Topics : Sub(c, k)
  \/ \E k \in Topics, code \in Codes : Unsub(c, k, code) \/ Pub(c, k, code)
  \/ Broadcast(c)
  \/ Query(c)
(* what a handler does without waiting for its peer *)
Serve(c) == (\E d \in Clients : Fanout(c, d)) \/ SendAck(c) \/ ReadFails(c)
WriteLoop(c) == WriteDone(c) \/ WriteFails(c)
AcceptLoop == (\E c \in Clients : Accept(c)) \/ Insert \/ AcceptEnds
Stop == StopBegins \/ CloseClients \/ StopEnds

Next ==
  \/ \E c \in Clients : Dispatch(c) \/ Serve(c) \/ WriteLoop(c) \/ PeerLeaves(c)
  \/ AcceptLoop
  \/ Stop \/ NestedStop

Spec == Init /\ [][Next]_vars

(***************************************************************************)
(* The Go scheduler runs every goroutine that can run.  Of the peers in    *)
(* Leaving it is assumed that they hang up some time; the others may never *)
(* read, write or hang up.  Nothing is assumed of the writers, which wait  *)
(* for them, nor that Stop is ever called, nor that the servers it stops   *)
(* on its way return.                                                      *)
(***************************************************************************)
Fairness ==
  /\ \A c \in Clients : WF_vars(Serve(c))
  /\ WF_vars(AcceptLoop)
  /\ WF_vars(spc # "run" /\ Stop)
  /\ \A c \in Leaving : SF_vars(PeerLeaves(c))

FairSpec == Spec /\ Fairness

-----------------------------------------------------------------------------
(* Properties *)

HandlerPC == {"none", "read", "fan", "ack", "ended"}
Packets == {"data", "ok", "err"} \X Clients \X Nat

IndexType ==
  /\ clients \subseteq Clients
  /\ byUser \in [Users -> [Clients -> Nat]]
  /\ byPid \in [Pids -> Clients \cup {NoClient}]
  /\ topics \in [Topics -> SUBSET Clients]
  /\ registered \subseteq Clients
  /\ user \in [Clients -> Users \cup {NoUser}] /\ pid \in [Clients -> Pids \cup {0}]
  /\ subs \in [Clients -> SUBSET Topics]
  /\ hpc \in [Clients -> HandlerPC]
  /\ apc \in {"accept", "insert", "ended"} /\ aconn \in Clients \cup {NoClient}

QueueType ==
  /\ done \subseteq Clients
  /\ stream \in [Clients -> Seq(Packets)] /\ taken \in [Clients -> Nat]
  /\ nreq \in [Clients -> Nat]
  /\ targets \in [Clients -> [Clients -> Nat]]
  /\ reply \in [Clients -> {"none", "ok", "err"}]
  /\ spc \in {"run", "clients", "nested", "wait", "stopped"}

(* Type invariant of the service. *)
TypeOK == IndexType /\ QueueType

Reachable(c) == c \in registered /\ hpc[c] # "ended"

(* The two indexes agree with what the clients say of themselves: a session
   that has registered is listed once, under its user and nowhere else, also
   after it registered again or left and came back, so that it is sent each
   packet once; byPid never names a connection that is gone or that belongs
   to another pid (REGISTER, removeClient). *)
IndexesAgree ==
  /\ \A u \in Users, c \in Clients :
       byUser[u][c] = IF Reachable(c) /\ user[c] = u THEN 1 ELSE 0
  /\ \A p \in Pids :
       byPid[p] # NoClient => Reachable(byPid[p]) /\ pid[byPid[p]] = p
  /\ \A k \in Topics, c \in Clients : c \in topics[k] <=> k \in subs[c]

(* A connection whose handler has ended is in no index, so nothing is sent to
   it and the maps do not grow (the deferred removeClient). *)
NoGhost ==
  \A c \in Clients : hpc[c] = "ended" =>
    /\ c \notin clients
    /\ \A u \in Users : ~Listed(u, c)
    /\ \A p \in Pids : byPid[p] # c
    /\ \A k \in Topics : c \notin topics[k]

(* What one session sends reaches another in the order it was sent and no
   packet arrives twice, whatever was dropped on the way; and a session gets
   at most one answer to each request, in the order of its requests. *)
InOrder ==
  \A c \in Clients : \A i, j \in 1 .. Len(stream[c]) :
    /\ i < j
    /\ stream[c][i][2] = stream[c][j][2]
    /\ (stream[c][i][1] = "data") <=> (stream[c][j][1] = "data")
    => stream[c][i][3] < stream[c][j][3]

(* A sender that is told -1 has not reached anybody: mbbsd may try again or
   tell its user that the other side is gone. *)
RefusedIsUnsent ==
  \A c, d \in Clients : \A n \in 1 .. NReq[c] :
    (\E i \in 1 .. Len(stream[c]) : stream[c][i] = <<"err", c, n>>)
      => \A i \in 1 .. Len(stream[d]) : stream[d][i] # <<"data", c, n>>

(* A request that was read is served to its end although other sessions never
   read what is queued for them (fanout never blocks). *)
NeverStuck ==
  \A c \in Clients :
    hpc[c] \in {"fan", "ack"} ~> hpc[c] = "read"

(* a connection that CloseClients has missed: accepted while Stop ran, or
   taken out of s.clients by UNREGISTER *)
Straggler(c) ==
  c \notin done /\ (hpc[c] \notin {"none", "ended"} \/ aconn = c)

(* Once the nested servers have stopped, Stop comes to its end, whatever
   handlers, writers and accept loop were doing when it began: a connection
   that it missed delays it until the peer hangs up, and only one whose peer
   never does holds it for ever (Stop, acceptLoop). *)
StopsCleanly ==
  (spc = "wait" /\ \A c \in Clients : Straggler(c) => c \in Leaving) ~> (spc = "stopped")

(* What the queues of the sessions hold is right: packets of their type, in
   order and once, and none of a request that was refused (dispatch, fanout). *)
Delivery == TypeOK /\ InOrder /\ RefusedIsUnsent
=============================================================================
