---------------------------- MODULE IpcSvcProofs ----------------------------
(***************************************************************************)
(* Proofs about the two servers of ipc.svc: IpcService, which passes       *)
(* packets on to sessions, and ChessBroker, which brings two connections   *)
(* together.  They share a process and nothing else.                       *)
(***************************************************************************)
EXTENDS IpcService, ChessBroker, SequenceTheorems, TLAPS

(***************************************************************************)
(* IpcService, for any set of connections, users, pids and topics and any  *)
(* sequence of requests.  IndexesAgree is not inductive alone: the         *)
(* connection that the accept loop holds must not be one whose handler has *)
(* ended, and a handler that ends must have left its topics.  Delivery     *)
(* rests on it: who is listed once is sent each packet once.               *)
(***************************************************************************)
Accepting == apc = "insert" => aconn \in Clients /\ hpc[aconn] = "none"
Cleaned == \A c \in Clients : hpc[c] = "ended" => subs[c] = {} /\ c \notin clients

IInv == IndexType /\ IndexesAgree /\ Accepting /\ Cleaned

ivars == <<clients, byUser, byPid, topics, registered, user, pid, subs,
           hpc, apc, aconn>>

(* Nothing is indexed and nobody connected at the start. *)
LEMMA InitOK == Init => IInv
BY IpcAssumption DEF Init, NoTargets, IInv, IndexType, HandlerPC, IndexesAgree, Reachable,
   Accepting, Cleaned

(* Steps that leave indexes and program counters alone. *)
LEMMA IdleOK == IInv /\ UNCHANGED ivars => IInv'
BY DEF IInv, ivars, IndexType, IndexesAgree, Reachable, Accepting, Cleaned

(* A handler that goes on, without touching an index. *)
LEMMA GoOnOK ==
  ASSUME IInv, NEW c \in Clients, hpc[c] \in {"read", "fan", "ack"},
         NEW at \in {"read", "fan", "ack"}, Goto(c, at),
         UNCHANGED <<clients, byUser, byPid, topics, registered, user, pid, subs,
                     apc, aconn>>
  PROVE  IInv'
BY DEF IInv, Goto, IndexType, HandlerPC, IndexesAgree, Reachable, Accepting, Cleaned

(* The accept loop hands its connection to a new handler. *)
LEMMA InsertOK == IInv /\ Insert => IInv'
BY DEF IInv, Insert, fields, IndexType, HandlerPC, IndexesAgree, Reachable,
   Accepting, Cleaned

(* What is left of byUser without the client c: no entry of c at all. *)
LEMMA WithoutUserOK ==
  ASSUME IInv, NEW c \in Clients
  PROVE  /\ WithoutUser(c) \in [Users -> [Clients -> Nat]]
         /\ \A v \in Users, d \in Clients :
              WithoutUser(c)[v][d] = IF d = c THEN 0 ELSE byUser[v][d]
BY DEF IInv, WithoutUser, IndexType, IndexesAgree, Reachable

(* The same for byPid. *)
LEMMA WithoutPidOK ==
  ASSUME IInv, NEW c \in Clients
  PROVE  /\ WithoutPid(c) \in [Pids -> Clients \cup {NoClient}]
         /\ \A q \in Pids :
              WithoutPid(c)[q] = IF byPid[q] = c THEN NoClient ELSE byPid[q]
BY IpcAssumption DEF IInv, WithoutPid, IndexType, IndexesAgree, Reachable

(* REGISTER moves a client from its old place to the new one. *)
LEMMA RegisterOK ==
  ASSUME IInv, NEW c \in Clients, NEW u \in Users, NEW p \in Pids,
         Register(c, u, p)
  PROVE  IInv'
<1> DEFINE old == WithoutUser(c)
<1>0. byUser' = [old EXCEPT ![u][c] = @ + 1]
  BY DEF Register, RegisterOver
<1>1. /\ hpc[c] = "read" /\ hpc' = [hpc EXCEPT ![c] = "ack"]
      /\ byPid' = [WithoutPid(c) EXCEPT ![p] = c]
      /\ user' = [user EXCEPT ![c] = u] /\ pid' = [pid EXCEPT ![c] = p]
      /\ registered' = registered \cup {c}
      /\ UNCHANGED <<clients, topics, subs, apc, aconn>>
  BY DEF Register, RegisterOver, Request, Goto, control
<1>2. /\ old \in [Users -> [Clients -> Nat]]
      /\ \A v \in Users, d \in Clients : old[v][d] = IF d = c THEN 0 ELSE byUser[v][d]
  BY WithoutUserOK
<1> HIDE DEF old
<1>4. byUser' \in [Users -> [Clients -> Nat]]
  BY <1>0, <1>2
<1>5. byPid' \in [Pids -> Clients \cup {NoClient}]
  BY <1>1, WithoutPidOK
<1>6. IndexType'
  BY <1>1, <1>4, <1>5 DEF IInv, IndexType, HandlerPC
<1>7. \A v \in Users, d \in Clients :
        byUser'[v][d] = IF d = c THEN (IF v = u THEN 1 ELSE 0) ELSE byUser[v][d]
  BY <1>0, <1>2
<1>8. \A v \in Users, d \in Clients :
        byUser'[v][d] = IF Reachable(d)' /\ user'[d] = v THEN 1 ELSE 0
  BY <1>1, <1>7 DEF IInv, IndexType, IndexesAgree, Reachable
<1>9. \A q \in Pids : byPid'[q] # NoClient
        => (Reachable(byPid[q]) /\ pid[byPid[q]] = q)'
  BY <1>1, WithoutPidOK, IpcAssumption DEF IInv, IndexType, IndexesAgree, Reachable
<1>10. \A k \in Topics, d \in Clients : (d \in topics[k] <=> k \in subs[d])'
  BY <1>1 DEF IInv, IndexesAgree
<1>11. Accepting' /\ Cleaned'
  BY <1>1 DEF IInv, IndexType, Accepting, Cleaned
<1> QED BY <1>6, <1>8, <1>9, <1>10, <1>11 DEF IInv, IndexesAgree

(* removeClient takes a client out of every index, whatever it was in. *)
LEMMA RemoveOK ==
  ASSUME IInv, NEW c \in Clients, RemoveClient(c)
  PROVE  /\ clients' \subseteq Clients /\ c \notin clients'
         /\ byUser' \in [Users -> [Clients -> Nat]]
         /\ byPid' \in [Pids -> Clients \cup {NoClient}]
         /\ topics' \in [Topics -> SUBSET Clients]
         /\ subs' \in [Clients -> SUBSET Topics] /\ subs'[c] = {}
         /\ \A v \in Users, d \in Clients :
              byUser'[v][d] = IF d = c THEN 0 ELSE byUser[v][d]
         /\ \A q \in Pids : byPid'[q] = IF byPid[q] = c THEN NoClient ELSE byPid[q]
         /\ \A k \in Topics, d \in Clients : d \in topics'[k] <=> k \in subs'[d]
<1>1. /\ clients' \subseteq Clients /\ c \notin clients'
      /\ byUser' \in [Users -> [Clients -> Nat]]
      /\ byPid' \in [Pids -> Clients \cup {NoClient}]
      /\ topics' \in [Topics -> SUBSET Clients]
      /\ subs' \in [Clients -> SUBSET Topics] /\ subs'[c] = {}
  BY WithoutUserOK, WithoutPidOK DEF IInv, RemoveClient, IndexType
<1>2. \A v \in Users, d \in Clients :
        byUser'[v][d] = IF d = c THEN 0 ELSE byUser[v][d]
  BY WithoutUserOK DEF RemoveClient
<1>3. \A q \in Pids : byPid'[q] = IF byPid[q] = c THEN NoClient ELSE byPid[q]
  BY WithoutPidOK DEF RemoveClient
<1>4. \A k \in Topics, d \in Clients : d \in topics'[k] <=> k \in subs'[d]
  BY DEF IInv, RemoveClient, IndexType, IndexesAgree
<1> QED BY <1>1, <1>2, <1>3, <1>4

(* UNREGISTER: the client stays connected and is in no index. *)
LEMMA UnregisterOK ==
  ASSUME IInv, NEW c \in Clients, Unregister(c)
  PROVE  IInv'
<1>1. RemoveClient(c) /\ registered' = registered \ {c} /\ hpc[c] = "read"
      /\ hpc' = [hpc EXCEPT ![c] = "ack"]
      /\ UNCHANGED <<user, pid, apc, aconn>>
  BY DEF Unregister, Request, Goto, control
<1>2. IndexType'
  BY <1>1, RemoveOK DEF IInv, IndexType, HandlerPC
<1>3. IndexesAgree'
  BY <1>1, RemoveOK, IpcAssumption DEF IInv, IndexType, HandlerPC, IndexesAgree, Reachable
<1>4. Accepting' /\ Cleaned'
  BY <1>1 DEF IInv, IndexType, Accepting, Cleaned, RemoveClient
<1> QED BY <1>2, <1>3, <1>4 DEF IInv

(* The end of a handler: the client is in no index and never comes back. *)
LEMMA HandlerEndsOK ==
  ASSUME IInv, NEW c \in Clients, hpc[c] = "read", HandlerEnds(c)
  PROVE  IInv'
<1>1. RemoveClient(c) /\ registered' = registered
      /\ hpc' = [hpc EXCEPT ![c] = "ended"]
      /\ UNCHANGED <<user, pid, apc, aconn>>
  BY DEF HandlerEnds, Goto, control
<1>2. IndexType'
  BY <1>1, RemoveOK DEF IInv, IndexType, HandlerPC
<1>3. IndexesAgree'
  BY <1>1, RemoveOK, IpcAssumption DEF IInv, IndexType, HandlerPC, IndexesAgree, Reachable
<1>4. Accepting' /\ Cleaned'
  BY <1>1 DEF IInv, IndexType, Accepting, Cleaned, RemoveClient
<1> QED BY <1>2, <1>3, <1>4 DEF IInv

(* SUB and UNSUB change the two sides of the topic index together. *)
LEMMA SubOK ==
  ASSUME IInv, NEW c \in Clients, NEW k \in Topics,
         Sub(c, k) \/ \E code \in Codes : Unsub(c, k, code)
  PROVE  IInv'
<1>1. /\ hpc[c] = "read"
      /\ hpc' = [hpc EXCEPT ![c] = "ack"] \/ hpc' = [hpc EXCEPT ![c] = "read"]
      /\ UNCHANGED <<clients, byUser, byPid, registered, user, pid, apc, aconn>>
  BY DEF Sub, Unsub, Request, Goto, control
<1>2. \/ /\ subs' = [subs EXCEPT ![c] = @ \cup {k}]
         /\ topics' = [topics EXCEPT ![k] = @ \cup {c}]
      \/ /\ subs' = [subs EXCEPT ![c] = @ \ {k}]
         /\ topics' = [topics EXCEPT ![k] = @ \ {c}]
  BY DEF Sub, Unsub
<1>a. subs' \in [Clients -> SUBSET Topics] /\ topics' \in [Topics -> SUBSET Clients]
  BY <1>2 DEF IInv, IndexType
<1>3. IndexType'
  BY <1>1, <1>a DEF IInv, IndexType, HandlerPC
<1>4. IndexesAgree'
  BY <1>1, <1>2 DEF IInv, IndexType, HandlerPC, IndexesAgree, Reachable
<1>5. Accepting' /\ Cleaned'
  BY <1>1, <1>2 DEF IInv, IndexType, Accepting, Cleaned
<1> QED BY <1>3, <1>4, <1>5 DEF IInv

(* Requests that only look at an index, and the packets they queue. *)
LEMMA SendOK ==
  ASSUME IInv, NEW c \in Clients,
         \/ \E u \in Users : SendTo(c, u)
         \/ \E k \in Topics, code \in Codes : Pub(c, k, code)
         \/ Broadcast(c)
         \/ Query(c)
         \/ \E d \in Clients : Fanout(c, d)
         \/ SendAck(c)
  PROVE  IInv'
<1>1. hpc[c] \in {"read", "fan", "ack"}
  BY DEF SendTo, Pub, Broadcast, Query, Fanout, SendAck, Request
<1>2. \E at \in {"read", "fan", "ack"} : Goto(c, at)
  BY DEF SendTo, Pub, Broadcast, Query, Fanout, SendAck, FanoutTo
<1>3. UNCHANGED <<clients, byUser, byPid, topics, registered, user, pid, subs,
                  apc, aconn>>
  BY DEF SendTo, Pub, Broadcast, Query, Fanout, SendAck, index, fields, control
<1> QED BY <1>1, <1>2, <1>3, GoOnOK

(* Every step preserves the invariant. *)
LEMMA NextOK == IInv /\ [Next]_vars => IInv'
<1> SUFFICES ASSUME IInv, [Next]_vars PROVE IInv'
  OBVIOUS
<1>1. ASSUME NEW c \in Clients, Dispatch(c) PROVE IInv'
  BY <1>1, RegisterOK, UnregisterOK, SubOK, SendOK DEF Dispatch
<1>2. ASSUME NEW c \in Clients, Serve(c) \/ PeerLeaves(c) PROVE IInv'
  BY <1>2, SendOK, HandlerEndsOK DEF Serve, ReadFails, PeerLeaves
<1>3. ASSUME NEW c \in Clients, WriteLoop(c) PROVE IInv'
  BY <1>3, IdleOK DEF WriteLoop, WriteDone, WriteFails, index, fields, hand,
     control, ivars
<1>4. CASE AcceptLoop
  <2>1. ASSUME NEW c \in Clients, Accept(c) PROVE IInv'
    BY <2>1 DEF IInv, Accept, index, fields, hand, IndexType, IndexesAgree,
       Reachable, Accepting, Cleaned
  <2>2. CASE AcceptEnds
    BY <2>2 DEF IInv, AcceptEnds, index, fields, hand, IndexType, IndexesAgree,
       Reachable, Accepting, Cleaned
  <2> QED BY <1>4, <2>1, <2>2, InsertOK DEF AcceptLoop
<1>5. CASE Stop \/ NestedStop
  BY <1>5, IdleOK DEF Stop, StopBegins, CloseClients, StopEnds, NestedStop, index, fields,
     hand, ivars
<1>6. CASE UNCHANGED vars
  BY <1>6, IdleOK DEF vars, index, fields, hand, control, ivars
<1> QED BY <1>1, <1>2, <1>3, <1>4, <1>5, <1>6 DEF Next

(* The indexes of ipc.svc agree with its clients in every reachable state:
   REGISTER, UNREGISTER, SUB, UNSUB and the end of a handler keep byUser,
   byPid and topics exact. *)
THEOREM IndexesStayExact == Spec => []IndexesAgree
<1>1. IInv => IndexesAgree
  BY DEF IInv
<1> QED BY <1>1, InitOK, NextOK, PTL DEF Spec

(* No index holds a connection whose handler has ended. *)
THEOREM NoGhostClients == Spec => []NoGhost
<1>1. IInv => NoGhost
  BY IpcAssumption DEF IInv, IndexType, IndexesAgree, Reachable, Cleaned, NoGhost, Listed
<1> QED BY <1>1, InitOK, NextOK, PTL DEF Spec
-----------------------------------------------------------------------------
(***************************************************************************)
(* What the queues hold.  An entry is <<kind, sender, request>>; kind is   *)
(* "data" or the code of an ACK.                                           *)
(***************************************************************************)
At(d) == 1 .. Len(stream[d])
IsData(d, i) == stream[d][i][1] = "data"
Of(d, i) == stream[d][i][2]
Nr(d, i) == stream[d][i][3]

(* No request is heard of before it was read. *)
Numbered == \A d \in Clients : \A i \in At(d) : Nr(d, i) <= nreq[Of(d, i)]

(* Whom the fan-out of a request still has to reach it has not reached yet,
   and it reaches everybody once. *)
Pending ==
  \A c, d \in Clients : hpc[c] = "fan" =>
    /\ targets[c][d] <= 1
    /\ targets[c][d] > 0 =>
         \A i \in At(d) : ~(IsData(d, i) /\ Of(d, i) = c /\ Nr(d, i) = nreq[c])

(* A request that is being served has not been answered. *)
Unanswered ==
  \A c \in Clients : hpc[c] \in {"fan", "ack"} =>
    \A d \in Clients : \A i \in At(d) :
      ~(~IsData(d, i) /\ Of(d, i) = c /\ Nr(d, i) = nreq[c])

(* A request that will be refused is at its end, and was sent to nobody. *)
Refusing ==
  \A c \in Clients :
    /\ hpc[c] = "ack" => reply[c] \in {"ok", "err"}
    /\ hpc[c] \in {"fan", "ack"} /\ reply[c] = "err" =>
         /\ hpc[c] # "fan"
         /\ \A d \in Clients : \A i \in At(d) :
              ~(IsData(d, i) /\ Of(d, i) = c /\ Nr(d, i) = nreq[c])

(* RefusedIsUnsent, for every request that was refused. *)
Unsent ==
  \A c, d \in Clients : \A i \in At(c), j \in At(d) :
    stream[c][i][1] = "err" /\ IsData(d, j) /\ Of(c, i) = Of(d, j) => Nr(c, i) # Nr(d, j)

DInv ==
  QueueType /\ hpc \in [Clients -> HandlerPC]
  /\ InOrder /\ Numbered /\ Pending /\ Unanswered /\ Refusing /\ Unsent

(* Nothing is queued at the start. *)
LEMMA DInitOK == Init => DInv
<1>. SUFFICES ASSUME Init PROVE DInv
  OBVIOUS
<1>1. QueueType /\ hpc \in [Clients -> HandlerPC]
  BY DEF Init, QueueType, HandlerPC, NoTargets
<1>2. \A d \in Clients : stream[d] = <<>> /\ At(d) = {} /\ hpc[d] = "none"
  BY DEF Init, At
<1>3. InOrder /\ Numbered /\ Unsent
  BY <1>2 DEF InOrder, Numbered, Unsent, At
<1>4. Pending /\ Unanswered /\ Refusing
  BY <1>2 DEF Pending, Unanswered, Refusing
<1>. QED
  BY <1>1, <1>3, <1>4 DEF DInv

(* Steps that neither queue a packet nor move a handler. *)
LEMMA DIdleOK ==
  ASSUME DInv, UNCHANGED <<stream, hpc, nreq, targets, reply>>, QueueType'
  PROVE  DInv'
BY DEF DInv, InOrder, Numbered, Pending, Unanswered, Refusing, Unsent, At, IsData, Of, Nr

(* A handler that waits for the next request, or ends: nobody depends on it. *)
LEMMA DRestOK ==
  ASSUME DInv, NEW c \in Clients, NEW at \in {"read", "ended"}, Goto(c, at),
         UNCHANGED <<stream, nreq, targets, reply>>, QueueType'
  PROVE  DInv'
<1>. USE DEF DInv, Goto, HandlerPC, At, IsData, Of, Nr
<1>1. hpc' \in [Clients -> HandlerPC] /\ \A d \in Clients : d # c => hpc'[d] = hpc[d]
  OBVIOUS
<1>2. hpc'[c] \notin {"fan", "ack"}
  OBVIOUS
<1>3. InOrder' /\ Numbered' /\ Unsent'
  BY DEF InOrder, Numbered, Unsent
<1>4. Pending' /\ Unanswered' /\ Refusing'
  BY <1>1, <1>2 DEF Pending, Unanswered, Refusing
<1>. QED  BY <1>1, <1>3, <1>4

(* What is in an entry. *)
LEMMA EntryOK ==
  ASSUME QueueType, NEW d \in Clients, NEW i \in At(d)
  PROVE  Of(d, i) \in Clients /\ Nr(d, i) \in Nat
<1>1. stream[d] \in Seq(Packets) /\ i \in 1 .. Len(stream[d])
  BY DEF QueueType, At
<1>2. stream[d][i] \in Packets
  BY <1>1, ElementOfSeq
<1>. QED
  BY <1>2 DEF Packets, Of, Nr

(* A request that was just read has a number that no packet carries. *)
LEMMA NewRequestOK ==
  ASSUME DInv, NEW c \in Clients, NEW op, Request(c, op), UNCHANGED stream, QueueType',
         NEW at \in {"read", "fan", "ack"}, Goto(c, at),
         \A e \in Clients : e # c => targets'[e] = targets[e] /\ reply'[e] = reply[e],
         at = "fan" => reply'[c] # "err" /\ \A d \in Clients : targets'[c][d] <= 1,
         at = "ack" => reply'[c] \in {"ok", "err"}
  PROVE  DInv'
<1>1. /\ hpc' \in [Clients -> HandlerPC] /\ hpc'[c] = at
      /\ nreq[c] \in Nat /\ nreq'[c] = nreq[c] + 1
      /\ \A d \in Clients : d # c => hpc'[d] = hpc[d] /\ nreq'[d] = nreq[d]
  BY DEF DInv, QueueType, HandlerPC, Goto, Request
<1>2. \A d \in Clients : \A i \in At(d) :
        Of(d, i) \in Clients /\ Nr(d, i) \in Nat /\ Nr(d, i) <= nreq[Of(d, i)]
  BY EntryOK DEF DInv, Numbered
<1>3. \A d \in Clients : \A i \in At(d) : ~(Of(d, i) = c /\ Nr(d, i) = nreq'[c])
  BY <1>1, <1>2
<1>4. \A d \in Clients :
        At(d)' = At(d)
        /\ \A i : IsData(d, i)' = IsData(d, i) /\ Of(d, i)' = Of(d, i) /\ Nr(d, i)' = Nr(d, i)
  BY DEF At, IsData, Of, Nr
<1>5. InOrder' /\ Unsent'
  BY DEF DInv, InOrder, Unsent, At, IsData, Of, Nr
<1>6. Numbered'
  <2>. SUFFICES ASSUME NEW d \in Clients, NEW i \in At(d) PROVE Nr(d, i) <= nreq'[Of(d, i)]
    BY <1>4 DEF Numbered
  <2>1. CASE Of(d, i) = c  BY <2>1, <1>1, <1>2
  <2>2. CASE Of(d, i) # c  BY <2>2, <1>1, <1>2
  <2>. QED  BY <2>1, <2>2
<1>7. Pending'
  BY <1>1, <1>3, <1>4 DEF DInv, Pending
<1>8. Unanswered'
  BY <1>1, <1>3, <1>4 DEF DInv, Unanswered
<1>9. Refusing'
  BY <1>1, <1>3, <1>4 DEF DInv, Refusing
<1>. QED  BY <1>1, <1>5, <1>6, <1>7, <1>8, <1>9 DEF DInv

(* Enqueue appends the packet to one queue or drops it. *)
LEMMA EnqueueOK ==
  ASSUME QueueType, NEW d \in Clients, NEW packet \in Packets, Enqueue(d, packet)
  PROVE  /\ stream' \in [Clients -> Seq(Packets)]
         /\ \A e \in Clients : e # d => stream'[e] = stream[e]
         /\ \/ stream'[d] = stream[d]
            \/ /\ Len(stream'[d]) = Len(stream[d]) + 1
               /\ \A i \in 1 .. Len(stream[d]) : stream'[d][i] = stream[d][i]
               /\ stream'[d][Len(stream[d]) + 1] = packet
<1>1. stream[d] \in Seq(Packets)
  BY DEF QueueType
<1>2. Append(stream[d], packet) \in Seq(Packets)
  BY <1>1
<1>3. /\ Len(Append(stream[d], packet)) = Len(stream[d]) + 1
      /\ \A i \in 1 .. Len(stream[d]) : Append(stream[d], packet)[i] = stream[d][i]
      /\ Append(stream[d], packet)[Len(stream[d]) + 1] = packet
  BY <1>1, AppendProperties
<1>. QED
  BY <1>2, <1>3 DEF Enqueue, QueueType

(* A packet that was appended is newer than what its sender had queued there. *)
LEMMA AppendOK ==
  ASSUME DInv, NEW c \in Clients, NEW d \in Clients, NEW kind \in {"data", "ok", "err"},
         Enqueue(d, Packet(kind, c)),
         \A i \in At(d) : Of(d, i) = c /\ Nr(d, i) = nreq[c] => ~(IsData(d, i) <=> kind = "data"),
         kind = "err" => \A e \in Clients : \A i \in At(e) :
                           ~(IsData(e, i) /\ Of(e, i) = c /\ Nr(e, i) = nreq[c]),
         kind = "data" => \A e \in Clients : \A i \in At(e) :
                            ~(~IsData(e, i) /\ Of(e, i) = c /\ Nr(e, i) = nreq[c]),
         UNCHANGED nreq
  PROVE  /\ stream' \in [Clients -> Seq(Packets)]
         /\ InOrder' /\ Numbered' /\ Unsent'
         /\ \A e \in Clients : \A i \in At(e)' :
              \/ /\ i \in At(e) /\ IsData(e, i)' = IsData(e, i)
                 /\ Of(e, i)' = Of(e, i) /\ Nr(e, i)' = Nr(e, i)
              \/ /\ e = d /\ (IsData(e, i)' <=> kind = "data")
                 /\ Of(e, i)' = c /\ Nr(e, i)' = nreq[c]
<1>. DEFINE n == Len(stream[d]) + 1
<1>0. Packet(kind, c) \in Packets /\ nreq[c] \in Nat
  BY DEF DInv, QueueType, Packet, Packets
<1>1. /\ stream' \in [Clients -> Seq(Packets)]
      /\ \A e \in Clients : e # d => stream'[e] = stream[e]
      /\ \/ stream'[d] = stream[d]
         \/ /\ Len(stream'[d]) = Len(stream[d]) + 1
            /\ \A i \in 1 .. Len(stream[d]) : stream'[d][i] = stream[d][i]
            /\ stream'[d][n] = <<kind, c, nreq[c]>>
  BY <1>0, EnqueueOK DEF DInv, Packet
<1>2. \A e \in Clients : Len(stream[e]) \in Nat
  BY LenProperties DEF DInv, QueueType
<1>3. \A e \in Clients : \A i \in At(e)' :
        \/ i \in At(e) /\ stream'[e][i] = stream[e][i]
        \/ e = d /\ i = n /\ stream'[e][i] = <<kind, c, nreq[c]>>
  BY <1>1, <1>2 DEF At
<1>4. \A e \in Clients : \A i \in At(e)' :
        \/ /\ i \in At(e) /\ IsData(e, i)' = IsData(e, i)
           /\ Of(e, i)' = Of(e, i) /\ Nr(e, i)' = Nr(e, i)
           /\ stream'[e][i][1] = stream[e][i][1]
        \/ /\ e = d /\ i = n /\ (IsData(e, i)' <=> kind = "data")
           /\ Of(e, i)' = c /\ Nr(e, i)' = nreq[c] /\ stream'[e][i][1] = kind
  BY <1>3 DEF IsData, Of, Nr
<1>. HIDE DEF n
<1>5. \A e \in Clients : \A i \in At(e) :
        Of(e, i) \in Clients /\ Nr(e, i) \in Nat /\ Nr(e, i) <= nreq[Of(e, i)]
  BY EntryOK DEF DInv, Numbered
<1>6. Numbered'
  BY <1>0, <1>4, <1>5 DEF Numbered
<1>7. InOrder'
  <2>. SUFFICES ASSUME NEW e \in Clients, NEW i \in At(e)', NEW j \in At(e)', i < j,
                       Of(e, i)' = Of(e, j)', IsData(e, i)' <=> IsData(e, j)'
                PROVE  Nr(e, i)' < Nr(e, j)'
    BY DEF InOrder, At, Of, Nr, IsData
  <2>1. CASE j \in At(e) /\ i \in At(e)
    <3>1. /\ IsData(e, i)' = IsData(e, i) /\ Of(e, i)' = Of(e, i) /\ Nr(e, i)' = Nr(e, i)
          /\ IsData(e, j)' = IsData(e, j) /\ Of(e, j)' = Of(e, j) /\ Nr(e, j)' = Nr(e, j)
      BY <2>1, <1>2, <1>4 DEF At, n
    <3>. QED  BY <3>1, <2>1 DEF DInv, InOrder, At, Of, Nr, IsData
  <2>2. CASE ~(j \in At(e) /\ i \in At(e))
    <3>1. e = d /\ j = n /\ i \in At(e)
      BY <1>2, <1>4, <2>2 DEF At, n
    <3>2. /\ IsData(e, i)' = IsData(e, i) /\ Of(e, i)' = Of(e, i) /\ Nr(e, i)' = Nr(e, i)
          /\ (IsData(e, j)' <=> kind = "data") /\ Of(e, j)' = c /\ Nr(e, j)' = nreq[c]
      BY <3>1, <1>2, <1>4 DEF At, n
    <3>3. Of(e, i) = c /\ (IsData(e, i) <=> kind = "data")
      BY <3>2 DEF IsData
    <3>4. Nr(e, i) # nreq[c] /\ Nr(e, i) <= nreq[c] /\ Nr(e, i) \in Nat
      BY <3>1, <3>3, <1>5
    <3>. QED  BY <3>2, <3>4, <1>0
  <2>. QED  BY <2>1, <2>2
<1>8. Unsent'
  <2>. SUFFICES ASSUME NEW e \in Clients, NEW f \in Clients, NEW i \in At(e)', NEW j \in At(f)',
                       stream'[e][i][1] = "err", IsData(f, j)', Of(e, i)' = Of(f, j)',
                       Nr(e, i)' = Nr(f, j)'
                PROVE  FALSE
    BY DEF Unsent
  <2>1. CASE i \in At(e) /\ j \in At(f) /\ stream'[e][i][1] = stream[e][i][1]
             /\ Of(e, i)' = Of(e, i) /\ Nr(e, i)' = Nr(e, i) /\ IsData(f, j)' = IsData(f, j)
             /\ Of(f, j)' = Of(f, j) /\ Nr(f, j)' = Nr(f, j)
    BY <2>1 DEF DInv, Unsent
  <2>2. CASE kind = "err" /\ Of(e, i)' = c /\ Nr(e, i)' = nreq[c]
             /\ j \in At(f) /\ IsData(f, j)' = IsData(f, j)
             /\ Of(f, j)' = Of(f, j) /\ Nr(f, j)' = Nr(f, j)
    BY <2>2
  <2>3. CASE kind = "data" /\ Of(f, j)' = c /\ Nr(f, j)' = nreq[c]
             /\ i \in At(e) /\ stream'[e][i][1] = stream[e][i][1]
             /\ Of(e, i)' = Of(e, i) /\ Nr(e, i)' = Nr(e, i)
    BY <2>3 DEF IsData
  <2>. QED  BY <1>4, <2>1, <2>2, <2>3 DEF IsData
<1>. QED  BY <1>1, <1>4, <1>6, <1>7, <1>8

(* One packet of a fan-out. *)
LEMMA FanoutOK ==
  ASSUME DInv, NEW c \in Clients, NEW d \in Clients, Fanout(c, d)
  PROVE  DInv'
<1>. DEFINE ts == [targets[c] EXCEPT ![d] = @ - 1]
<1>1. /\ hpc[c] = "fan" /\ targets[c][d] > 0 /\ Enqueue(d, Packet("data", c))
      /\ targets' = [targets EXCEPT ![c] = ts] /\ reply' = [reply EXCEPT ![c] = reply[c]]
      /\ hpc' = [hpc EXCEPT ![c] = IF ts # NoTargets THEN "fan"
                                   ELSE IF reply[c] # "none" THEN "ack" ELSE "read"]
      /\ UNCHANGED <<nreq, done, taken, spc>>
  BY DEF Fanout, FanoutTo, Answer, Goto, control
<1>2. targets[c] \in [Clients -> Nat] /\ targets[c][d] = 1
  BY <1>1 DEF DInv, QueueType, Pending
<1>3. ts \in [Clients -> Nat] /\ ts[d] = 0 /\ \A e \in Clients : e # d => ts[e] = targets[c][e]
  BY <1>2
<1>. HIDE DEF ts
<1>4. /\ hpc' \in [Clients -> HandlerPC] /\ \A e \in Clients : e # c => hpc'[e] = hpc[e]
      /\ hpc'[c] = "ack" => reply[c] # "none"
      /\ targets' \in [Clients -> [Clients -> Nat]] /\ targets'[c] = ts
      /\ \A e \in Clients : e # c => targets'[e] = targets[e]
      /\ reply' = reply
  BY <1>1, <1>3 DEF DInv, QueueType, HandlerPC
<1>5. /\ \A i \in At(d) : ~(IsData(d, i) /\ Of(d, i) = c /\ Nr(d, i) = nreq[c])
      /\ \A e \in Clients : \A i \in At(e) :
           ~(~IsData(e, i) /\ Of(e, i) = c /\ Nr(e, i) = nreq[c])
      /\ reply[c] # "err" /\ reply[c] \in {"none", "ok", "err"}
  BY <1>1 DEF DInv, QueueType, Pending, Unanswered, Refusing
<1>6. /\ stream' \in [Clients -> Seq(Packets)]
      /\ InOrder' /\ Numbered' /\ Unsent'
      /\ \A e \in Clients : \A i \in At(e)' :
           \/ /\ i \in At(e) /\ IsData(e, i)' = IsData(e, i)
              /\ Of(e, i)' = Of(e, i) /\ Nr(e, i)' = Nr(e, i)
           \/ /\ e = d /\ IsData(e, i)'
              /\ Of(e, i)' = c /\ Nr(e, i)' = nreq[c]
  <2>1. PICK kind \in {"data", "ok", "err"} : kind = "data"
    OBVIOUS
  <2>2. /\ Enqueue(d, Packet(kind, c)) /\ kind # "err"
        /\ \A i \in At(d) : Of(d, i) = c /\ Nr(d, i) = nreq[c] => ~(IsData(d, i) <=> kind = "data")
    BY <1>1, <1>5, <2>1
  <2>. QED  BY <1>1, <1>5, <2>1, <2>2, AppendOK
<1>7. Pending'
  <2>. SUFFICES ASSUME NEW e \in Clients, NEW f \in Clients, hpc'[e] = "fan"
                PROVE  /\ targets'[e][f] <= 1
                       /\ targets'[e][f] > 0 => \A i \in At(f)' :
                            ~(IsData(f, i)' /\ Of(f, i)' = e /\ Nr(f, i)' = nreq[e])
    BY <1>1 DEF Pending
  <2>1. hpc[e] = "fan" /\ targets[e][f] <= 1
    BY <1>1, <1>4 DEF DInv, Pending
  <2>2. CASE e # c
    BY <1>4, <1>6, <2>1, <2>2 DEF DInv, Pending
  <2>3. CASE e = c /\ f # d
    BY <1>3, <1>4, <1>6, <2>1, <2>3 DEF DInv, Pending
  <2>4. CASE e = c /\ f = d
    BY <1>3, <1>4, <2>4
  <2>. QED  BY <2>2, <2>3, <2>4
<1>8. Unanswered'
  BY <1>1, <1>4, <1>5, <1>6 DEF DInv, Unanswered
<1>9. Refusing'
  BY <1>1, <1>4, <1>5, <1>6 DEF DInv, Refusing
<1>10. QueueType'
  BY <1>1, <1>4, <1>6 DEF DInv, QueueType
<1>. QED  BY <1>4, <1>6, <1>7, <1>8, <1>9, <1>10 DEF DInv

(* The answer to a request, which ends it. *)
LEMMA SendAckOK ==
  ASSUME DInv, NEW c \in Clients, SendAck(c)
  PROVE  DInv'
<1>1. /\ hpc[c] = "ack" /\ Enqueue(c, Packet(reply[c], c))
      /\ reply' = [reply EXCEPT ![c] = "none"] /\ hpc' = [hpc EXCEPT ![c] = "read"]
      /\ UNCHANGED <<nreq, done, taken, spc, targets>>
  BY DEF SendAck, Answer, Goto, control
<1>2. /\ hpc' \in [Clients -> HandlerPC] /\ \A e \in Clients : e # c => hpc'[e] = hpc[e]
      /\ hpc'[c] = "read" /\ reply' \in [Clients -> {"none", "ok", "err"}]
      /\ \A e \in Clients : e # c => reply'[e] = reply[e]
  BY <1>1 DEF DInv, QueueType, HandlerPC
<1>3. /\ reply[c] \in {"ok", "err"}
      /\ \A e \in Clients : \A i \in At(e) :
           ~(~IsData(e, i) /\ Of(e, i) = c /\ Nr(e, i) = nreq[c])
      /\ reply[c] = "err" => \A e \in Clients : \A i \in At(e) :
           ~(IsData(e, i) /\ Of(e, i) = c /\ Nr(e, i) = nreq[c])
  BY <1>1 DEF DInv, Unanswered, Refusing
<1>4. /\ stream' \in [Clients -> Seq(Packets)]
      /\ InOrder' /\ Numbered' /\ Unsent'
      /\ \A e \in Clients : \A i \in At(e)' :
           \/ /\ i \in At(e) /\ IsData(e, i)' = IsData(e, i)
              /\ Of(e, i)' = Of(e, i) /\ Nr(e, i)' = Nr(e, i)
           \/ /\ e = c /\ ~IsData(e, i)'
              /\ Of(e, i)' = c /\ Nr(e, i)' = nreq[c]
  <2>1. PICK kind \in {"ok", "err"} : kind = reply[c]
    BY <1>3
  <2>2. /\ Enqueue(c, Packet(kind, c)) /\ kind \in {"data", "ok", "err"} /\ kind # "data"
        /\ \A i \in At(c) : Of(c, i) = c /\ Nr(c, i) = nreq[c] => ~(IsData(c, i) <=> kind = "data")
    BY <1>1, <1>3, <2>1 DEF IsData
  <2>3. kind = "err" => \A e \in Clients : \A i \in At(e) :
                          ~(IsData(e, i) /\ Of(e, i) = c /\ Nr(e, i) = nreq[c])
    BY <1>3, <2>1
  <2>. QED  BY <1>1, <2>2, <2>3, AppendOK
<1>5. Pending'
  BY <1>1, <1>2, <1>4 DEF DInv, Pending
<1>6. Unanswered'
  BY <1>1, <1>2, <1>4 DEF DInv, Unanswered
<1>7. Refusing'
  BY <1>1, <1>2, <1>4 DEF DInv, Refusing
<1>8. QueueType'
  BY <1>1, <1>2, <1>4 DEF DInv, QueueType
<1>. QED  BY <1>2, <1>4, <1>5, <1>6, <1>7, <1>8 DEF DInv

(* Requests that are answered at once. *)
LEMMA AnsweredOK ==
  ASSUME DInv, NEW c \in Clients,
         \/ \E u \in Users, p \in Pids : Register(c, u, p)
         \/ Unregister(c)
         \/ \E k \in Topics : Sub(c, k)
         \/ \E k \in Topics, code \in Codes : Unsub(c, k, code)
         \/ Query(c)
  PROVE  DInv'
<1>1. PICK op \in {"register", "unregister", "sub", "unsub", "query"},
           code \in {"none", "ok", "err"}, at \in {"read", "ack"} :
        /\ Request(c, op) /\ Answer(c, code) /\ Goto(c, at) /\ (at = "ack" => code # "none")
        /\ UNCHANGED <<stream, taken, targets, done, spc>>
  BY DEF Register, RegisterOver, Unregister, Sub, Unsub, Codes, Query, out, control
<1>2. /\ reply' \in [Clients -> {"none", "ok", "err"}] /\ reply'[c] = code
      /\ \A e \in Clients : e # c => reply'[e] = reply[e]
      /\ nreq' \in [Clients -> Nat]
  BY <1>1 DEF DInv, QueueType, Answer, Request
<1>3. QueueType'
  BY <1>1, <1>2 DEF DInv, QueueType
<1>. QED
  BY <1>1, <1>2, <1>3, NewRequestOK

(* Requests that are passed on: each session is among the targets once. *)
LEMMA PassedOnOK ==
  ASSUME DInv, IInv, NEW c \in Clients,
         \/ \E u \in Users : SendTo(c, u)
         \/ \E k \in Topics, code \in Codes : Pub(c, k, code)
         \/ Broadcast(c)
  PROVE  DInv'
<1>1. PICK op \in {"send", "pub", "broadcast"}, ts \in [Clients -> {0, 1}],
           code \in {"none", "ok", "err"} :
        /\ Request(c, op) /\ FanoutTo(c, ts, code) /\ (code = "err" => ts = NoTargets)
        /\ UNCHANGED <<stream, taken, done, spc>>
  <2>1. CASE \E u \in Users : SendTo(c, u)
    <3>1. PICK u \in Users : SendTo(c, u)
      BY <2>1
    <3>2. byUser[u] \in [Clients -> {0, 1}]
      BY DEF IInv, IndexType, IndexesAgree
    <3>. QED  BY <3>1, <3>2 DEF SendTo, out, control
  <2>2. CASE \E k \in Topics, code \in Codes : Pub(c, k, code)
    BY <2>2 DEF Pub, Codes, out, control
  <2>3. CASE Broadcast(c)
    BY <2>3 DEF Broadcast, out, control
  <2>. QED  BY <2>1, <2>2, <2>3
<1>2. PICK at \in {"read", "fan", "ack"} :
        /\ Goto(c, at) /\ (at = "fan" => ts # NoTargets)
        /\ (at = "ack" => code # "none")
  BY <1>1 DEF FanoutTo
<1>3. /\ targets' = [targets EXCEPT ![c] = ts] /\ reply' = [reply EXCEPT ![c] = code]
  BY <1>1 DEF FanoutTo, Answer
<1>4. /\ reply' \in [Clients -> {"none", "ok", "err"}] /\ reply'[c] = code
      /\ targets' \in [Clients -> [Clients -> Nat]] /\ targets'[c] = ts
      /\ \A e \in Clients : e # c => targets'[e] = targets[e] /\ reply'[e] = reply[e]
      /\ nreq' \in [Clients -> Nat]
  <2>1. ts \in [Clients -> Nat] /\ nreq' = [nreq EXCEPT ![c] = @ + 1]
    BY <1>1 DEF Request
  <2>. QED  BY <1>3, <2>1 DEF DInv, QueueType
<1>5. QueueType'
  BY <1>1, <1>4 DEF DInv, QueueType
<1>6. \A d \in Clients : targets'[c][d] <= 1
  BY <1>4
<1>. QED
  BY <1>1, <1>2, <1>4, <1>5, <1>6, NewRequestOK

(* Every step preserves what the queues hold. *)
LEMMA DNextOK == DInv /\ IInv /\ [Next]_vars => DInv'
<1>. SUFFICES ASSUME DInv, IInv, [Next]_vars PROVE DInv'
  OBVIOUS
<1>1. ASSUME NEW c \in Clients, Dispatch(c) PROVE DInv'
  BY <1>1, AnsweredOK, PassedOnOK DEF Dispatch
<1>2. ASSUME NEW c \in Clients, HandlerEnds(c) PROVE DInv'
  <2>1. QueueType' /\ Goto(c, "ended") /\ UNCHANGED <<stream, nreq, targets, reply>>
    BY <1>2 DEF HandlerEnds, DInv, QueueType, out, control
  <2>. QED  BY <2>1, DRestOK
<1>3. ASSUME NEW c \in Clients, Serve(c) \/ PeerLeaves(c) PROVE DInv'
  BY <1>2, <1>3, FanoutOK, SendAckOK DEF Serve, ReadFails, PeerLeaves
<1>4. ASSUME NEW c \in Clients, WriteLoop(c) PROVE DInv'
  <2>1. UNCHANGED <<stream, hpc, nreq, targets, reply, spc>> /\ done' \subseteq Clients
    BY <1>4 DEF WriteLoop, WriteDone, WriteFails, hand, control, DInv, QueueType
  <2>2. taken' \in [Clients -> Nat]
    <3>1. Len(stream[c]) \in Nat /\ taken[c] + WriteBatch \in Nat /\ taken \in [Clients -> Nat]
      BY IpcAssumption, LenProperties DEF DInv, QueueType
    <3>2. taken' = [taken EXCEPT ![c] = IF Queued(c) > WriteBatch THEN taken[c] + WriteBatch
                                        ELSE Len(stream[c])]
      BY <1>4 DEF WriteLoop, WriteDone, WriteFails, Take
    <3>. QED  BY <3>1, <3>2
  <2>3. QueueType'
    BY <2>1, <2>2 DEF DInv, QueueType
  <2>. QED  BY <2>1, <2>3, DIdleOK
<1>5. CASE Insert
  <2>1. aconn \in Clients /\ Goto(aconn, "read") /\ UNCHANGED <<stream, nreq, targets, reply>>
    BY <1>5 DEF IInv, Accepting, Insert, Goto, out
  <2>2. QueueType'
    BY <1>5 DEF Insert, DInv, QueueType, out
  <2>. QED  BY <2>1, <2>2, DRestOK
<1>6. CASE (\E c \in Clients : Accept(c)) \/ AcceptEnds \/ Stop \/ NestedStop \/ UNCHANGED vars
  <2>1. QueueType' /\ UNCHANGED <<stream, hpc, nreq, targets, reply>>
    BY <1>6 DEF Accept, AcceptEnds, Stop, StopBegins, CloseClients, StopEnds, NestedStop, vars, out, hand,
       control, DInv, IInv, IndexType, QueueType
  <2>. QED  BY <2>1, DIdleOK
<1>. QED
  BY <1>1, <1>3, <1>4, <1>5, <1>6 DEF Next, AcceptLoop

(* The queues of ipc.svc are right in every reachable state, for any number of
   sessions, requests and topics and any size of a queue: what one session
   sends reaches another in order and once, a request is answered once, and
   who is told -1 has reached nobody. *)
THEOREM DeliveryHolds == Spec => []Delivery
<1>1. IInv /\ DInv => TypeOK /\ InOrder
  BY DEF IInv, DInv, TypeOK
<1>2. DInv => RefusedIsUnsent
  <2>. SUFFICES ASSUME DInv, NEW c \in Clients, NEW d \in Clients, NEW n \in 1 .. NReq[c],
                       NEW i \in 1 .. Len(stream[c]), stream[c][i] = <<"err", c, n>>,
                       NEW j \in 1 .. Len(stream[d]), stream[d][j] = <<"data", c, n>>
                PROVE  FALSE
    BY DEF RefusedIsUnsent
  <2>1. /\ i \in At(c) /\ j \in At(d) /\ stream[c][i][1] = "err" /\ IsData(d, j)
        /\ Of(c, i) = c /\ Of(d, j) = c /\ Nr(c, i) = n /\ Nr(d, j) = n
    BY DEF At, IsData, Of, Nr
  <2>. QED  BY <2>1 DEF DInv, Unsent
<1>3. Spec => []IInv
  BY InitOK, NextOK, PTL DEF Spec
<1>4. Spec => []DInv
  BY <1>3, DInitOK, DNextOK, PTL DEF Spec
<1>. QED
  BY <1>1, <1>2, <1>3, <1>4, PTL DEF Delivery

-----------------------------------------------------------------------------
(***************************************************************************)
(* ChessBroker, for any number of callers, callees and pairs and any       *)
(* interleaving of their goroutines with timers, departures and Stop: the  *)
(* tables agree with the goroutines (TablesAgree), and every step is one   *)
(* of Matchmaker.                                                          *)
(*                                                                         *)
(* TablesAgree is not inductive.  It needs which command a goroutine       *)
(* serves (Roles), that the tables hold sessions nobody has joined         *)
(* (OffersOpen), that the pointers of caller and callee are each other's   *)
(* inverse (Linked), and what was written before each step (Told).         *)
(***************************************************************************)
Joining == {"release", "ready", "callee"}

(* A goroutine that serves a CREATE is never in the middle of a JOIN, nor the
   other way round, and one that has read no command has named nothing. *)
Roles ==
  /\ \A s \in Callers : pc[s] \notin Joining
  /\ \A c \in Callees : pc[c] \notin {"ok", "wait", "withdraw"}
  /\ \A s \in Callers :
       /\ pc[s] \in {"none", "read"} => key[s] = None /\ callee[s] = None
       /\ pc[s] \in {"ok", "wait", "withdraw"} \/ callee[s] # None => key[s] \in Keys

(* What is pending is the offer of a caller to that pair, and not taken. *)
OffersOpen ==
  \A k \in Keys : pending[k] # None =>
    /\ key[pending[k]] = k /\ callee[pending[k]] = None
    /\ pc[pending[k]] \notin {"none", "read"}

(* Findable, already before the OK is written. *)
Offered ==
  \A s \in Callers :
    stop = "run" /\ pc[s] \in {"ok", "wait"} /\ callee[s] = None /\ s \notin closed
      => pending[key[s]] = s

(* The session of a callee is the one whose callee it is. *)
Linked ==
  /\ \A c \in Callees :
       /\ sess[c] # None => callee[sess[c]] = c
       /\ pc[c] \in {"none", "read"} => sess[c] = None
       /\ pc[c] \in Joining => sess[c] # None
  /\ \A s \in Callers : callee[s] # None => sess[callee[s]] = s

(* A JOIN has written nothing to its callee before its last step, and READY
   to the caller before the OK. *)
Told ==
  /\ \A c \in Callees :
       /\ pc[c] \in Joining \cup {"none", "read"} => told[c] = {}
       /\ pc[c] = "callee" => "READY" \in told[sess[c]]
  /\ \A s \in Callers : proxy[s] # "none" =>
       /\ callee[s] # None /\ pc[callee[s]] = "ended"
       /\ "READY" \in told[s] /\ told[callee[s]] = {"OK"}

(* A session that is counted has a callee, and somebody works on it. *)
Counted == \A s \in active : callee[s] # None
Worked == \A s \in active : proxy[s] = "copy" \/ pc[callee[s]] \in Joining

(* A pipe has somebody to write to. *)
PipesRun ==
  /\ \A s \in Callers : pipe[s] # "none" => callee[s] # None
  /\ \A c \in Callees : pipe[c] # "none" => sess[c] # None

BrokerInv ==
  /\ BrokerTypeOK /\ Roles /\ OffersOpen /\ Offered /\ Linked /\ Told /\ Counted /\ Worked
  /\ PipesRun

USE ChessAssumption DEF Conns, Joining

(* At the start there is nobody and nothing. *)
LEMMA BrokerInitOK == BrokerInit => BrokerInv
BY DEF BrokerInit, BrokerInv, BrokerTypeOK, Roles, OffersOpen, Offered, Linked, Told, Counted, Worked, PipesRun

(* A connection is taken up, or its peer leaves it: no table changes. *)
LEMMA AcceptOK ==
  ASSUME BrokerInv, NEW c \in Conns, AcceptPlayer(c) \/ PlayerLeaves(c)
  PROVE  BrokerInv'
BY DEF BrokerInv, BrokerTypeOK, Roles, OffersOpen, Offered, Linked, Told, Counted, Worked, PipesRun,
   AcceptPlayer, PlayerLeaves, local, table, game, Proceed, Broken

(* A connection that names nothing is in no table. *)
LEMMA NoCommandOK ==
  ASSUME BrokerInv, NEW c \in Conns, NoCommand(c)
  PROVE  BrokerInv'
<1>. USE DEF BrokerInv, BrokerTypeOK, NoCommand, local, table, game, Proceed, Close, Tell, Broken
<1>1. BrokerTypeOK'
  BY DEF Roles, OffersOpen, Linked, Counted
<1>2. Roles' /\ OffersOpen'
  BY DEF Roles, OffersOpen, Linked
<1>3. Offered'
  BY DEF Offered, Roles, OffersOpen
<1>4. Linked'
  BY DEF Linked, Roles, OffersOpen
<1>5. Told'
  BY DEF Told, Linked, Roles, OffersOpen
<1>6. Counted' /\ Worked'
  BY DEF Counted, Worked, Told, Linked, Roles, OffersOpen
<1>7. PipesRun'
  BY DEF PipesRun, OffersOpen, Linked, Roles
<1>. QED  BY <1>1, <1>2, <1>3, <1>4, <1>5, <1>6, <1>7

(* CREATE: the offer that it replaces is closed, the new one is pending. *)
LEMMA CreateOK ==
  ASSUME BrokerInv, NEW c \in Conns, NEW k \in Keys, Create(c, k)
  PROVE  BrokerInv'
<1>. USE DEF BrokerInv, BrokerTypeOK, Create, game, Proceed, Close, Broken
<1>1. BrokerTypeOK'
  BY DEF Roles, OffersOpen, Linked, Counted
<1>2. Roles' /\ OffersOpen'
  BY DEF Roles, OffersOpen, Linked
<1>3. Offered'
  BY DEF Offered, Roles, OffersOpen
<1>4. Linked'
  BY DEF Linked, Roles, OffersOpen
<1>5. Told'
  BY DEF Told, Linked, Roles, OffersOpen
<1>6. Counted' /\ Worked'
  BY DEF Counted, Worked, Told, Linked, Roles, OffersOpen
<1>7. PipesRun'
  BY DEF PipesRun, OffersOpen, Linked, Roles
<1>. QED  BY <1>1, <1>2, <1>3, <1>4, <1>5, <1>6, <1>7

(* The OK of CREATE, written or failed. *)
LEMMA CreateOkOK ==
  ASSUME BrokerInv, NEW c \in Conns, CreateOk(c)
  PROVE  BrokerInv'
<1>. USE DEF BrokerInv, BrokerTypeOK, CreateOk, local, table, game, Proceed, Tell, Broken
<1>1. BrokerTypeOK'
  BY DEF Roles, OffersOpen, Linked, Counted
<1>2. Roles' /\ OffersOpen'
  BY DEF Roles, OffersOpen, Linked
<1>3. Offered'
  BY DEF Offered, Roles, OffersOpen
<1>4. Linked'
  BY DEF Linked, Roles, OffersOpen
<1>5. Told'
  BY DEF Told, Linked, Roles, OffersOpen
<1>6. Counted' /\ Worked'
  BY DEF Counted, Worked, Told, Linked, Roles, OffersOpen
<1>7. PipesRun'
  BY DEF PipesRun, OffersOpen, Linked, Roles
<1>. QED  BY <1>1, <1>2, <1>3, <1>4, <1>5, <1>6, <1>7

(* The three ways out of the select: only the goroutine moves. *)
LEMMA WaitOK ==
  ASSUME BrokerInv, NEW c \in Conns, WaitJoined(c) \/ WaitTimer(c) \/ WaitStopped(c)
  PROVE  BrokerInv'
<1>. USE DEF BrokerInv, BrokerTypeOK, WaitJoined, WaitTimer, WaitStopped, local, table, game, Proceed, Close
<1>1. BrokerTypeOK'
  BY DEF Roles, OffersOpen, Linked, Counted
<1>2. Roles' /\ OffersOpen'
  BY DEF Roles, OffersOpen, Linked
<1>3. Offered'
  BY DEF Offered, Roles, OffersOpen
<1>4. Linked'
  BY DEF Linked, Roles, OffersOpen
<1>5. Told'
  BY DEF Told, Linked, Roles, OffersOpen
<1>6. Counted' /\ Worked'
  BY DEF Counted, Worked, Told, Linked, Roles, OffersOpen
<1>7. PipesRun'
  BY DEF PipesRun, OffersOpen, Linked, Roles
<1>. QED  BY <1>1, <1>2, <1>3, <1>4, <1>5, <1>6, <1>7

(* A withdrawal takes away no offer but its own. *)
LEMMA WithdrawOK ==
  ASSUME BrokerInv, NEW c \in Conns, Withdraw(c)
  PROVE  BrokerInv'
<1>. USE DEF BrokerInv, BrokerTypeOK, Withdraw, local, game, Proceed, Close, Forget
<1>1. BrokerTypeOK'
  BY DEF Roles, OffersOpen, Linked, Counted
<1>2. Roles' /\ OffersOpen'
  BY DEF Roles, OffersOpen, Linked
<1>3. Offered'
  BY DEF Offered, Roles, OffersOpen
<1>4. Linked'
  BY DEF Linked, Roles, OffersOpen
<1>5. Told'
  BY DEF Told, Linked, Roles, OffersOpen
<1>6. Counted' /\ Worked'
  BY DEF Counted, Worked, Told, Linked, Roles, OffersOpen
<1>7. PipesRun'
  BY DEF PipesRun, OffersOpen, Linked, Roles
<1>. QED  BY <1>1, <1>2, <1>3, <1>4, <1>5, <1>6, <1>7

(* JOIN: the offer leaves pending, enters active, and both sides are linked. *)
LEMMA JoinOK ==
  ASSUME BrokerInv, NEW c \in Conns, NEW k \in Keys, Join(c, k)
  PROVE  BrokerInv'
<1>. USE DEF BrokerInv, BrokerTypeOK, Join, JoinLeaving, game, Proceed, Broken
<1>1. BrokerTypeOK'
  BY DEF Roles, OffersOpen, Linked, Counted
<1>2. Roles' /\ OffersOpen'
  BY DEF Roles, OffersOpen, Linked
<1>3. Offered'
  BY DEF Offered, Roles, OffersOpen
<1>4. Linked'
  BY DEF Linked, Roles, OffersOpen
<1>5. Told'
  BY DEF Told, Linked, Roles, OffersOpen
<1>6. Counted' /\ Worked'
  BY DEF Counted, Worked, Told, Linked, Roles, OffersOpen
<1>7. PipesRun'
  BY DEF PipesRun, OffersOpen, Linked, Roles
<1>. QED  BY <1>1, <1>2, <1>3, <1>4, <1>5, <1>6, <1>7

(* A JOIN that finds nothing. *)
LEMMA JoinNothingOK ==
  ASSUME BrokerInv, NEW c \in Conns, NEW k \in Keys, JoinNothing(c, k)
  PROVE  BrokerInv'
<1>. USE DEF BrokerInv, BrokerTypeOK, JoinNothing, local, table, game, Proceed, Close, Tell, Broken
<1>1. BrokerTypeOK'
  BY DEF Roles, OffersOpen, Linked, Counted
<1>2. Roles' /\ OffersOpen'
  BY DEF Roles, OffersOpen, Linked
<1>3. Offered'
  BY DEF Offered, Roles, OffersOpen
<1>4. Linked'
  BY DEF Linked, Roles, OffersOpen
<1>5. Told'
  BY DEF Told, Linked, Roles, OffersOpen
<1>6. Counted' /\ Worked'
  BY DEF Counted, Worked, Told, Linked, Roles, OffersOpen
<1>7. PipesRun'
  BY DEF PipesRun, OffersOpen, Linked, Roles
<1>. QED  BY <1>1, <1>2, <1>3, <1>4, <1>5, <1>6, <1>7

(* The caller's goroutine is released. *)
LEMMA ReleaseOK ==
  ASSUME BrokerInv, NEW c \in Conns, Release(c)
  PROVE  BrokerInv'
<1>. USE DEF BrokerInv, BrokerTypeOK, Release, local, table, game, Proceed
<1>1. BrokerTypeOK'
  BY DEF Roles, OffersOpen, Linked, Counted
<1>2. Roles' /\ OffersOpen'
  BY DEF Roles, OffersOpen, Linked
<1>3. Offered'
  BY DEF Offered, Roles, OffersOpen
<1>4. Linked'
  BY DEF Linked, Roles, OffersOpen
<1>5. Told'
  BY DEF Told, Linked, Roles, OffersOpen
<1>6. Counted' /\ Worked'
  BY DEF Counted, Worked, Told, Linked, Roles, OffersOpen
<1>7. PipesRun'
  BY DEF PipesRun, OffersOpen, Linked, Roles
<1>. QED  BY <1>1, <1>2, <1>3, <1>4, <1>5, <1>6, <1>7

(* READY reaches the caller, or the callee is turned away. *)
LEMMA ReadyOK ==
  ASSUME BrokerInv, NEW c \in Conns, Ready(c)
  PROVE  BrokerInv'
<1>. USE DEF BrokerInv, BrokerTypeOK, Ready, local, game, Proceed, Close, Tell, Broken
<1>1. BrokerTypeOK'
  BY DEF Roles, OffersOpen, Linked, Counted
<1>2. Roles' /\ OffersOpen'
  BY DEF Roles, OffersOpen, Linked
<1>3. Offered'
  BY DEF Offered, Roles, OffersOpen
<1>4. Linked'
  BY DEF Linked, Roles, OffersOpen
<1>5. Told'
  BY DEF Told, Linked, Roles, OffersOpen
<1>6. Counted' /\ Worked'
  BY DEF Counted, Worked, Told, Linked, Roles, OffersOpen
<1>7. PipesRun'
  BY DEF PipesRun, OffersOpen, Linked, Roles
<1>. QED  BY <1>1, <1>2, <1>3, <1>4, <1>5, <1>6, <1>7

(* The last step of a JOIN starts the proxy or gives the session up. *)
LEMMA CalleeOkOK ==
  ASSUME BrokerInv, NEW c \in Conns, CalleeOk(c)
  PROVE  BrokerInv'
<1>. USE DEF BrokerInv, BrokerTypeOK, CalleeOk, local, game, Proceed, Close, Tell, Broken
<1>1. BrokerTypeOK'
  BY DEF Roles, OffersOpen, Linked, Counted
<1>2. Roles' /\ OffersOpen'
  BY DEF Roles, OffersOpen, Linked
<1>3. Offered'
  BY DEF Offered, Roles, OffersOpen
<1>4. Linked'
  BY DEF Linked, Roles, OffersOpen
<1>5. Told'
  BY DEF Told, Linked, Roles, OffersOpen
<1>6. Counted' /\ Worked'
  BY DEF Counted, Worked, Told, Linked, Roles, OffersOpen
<1>7. PipesRun'
  BY DEF PipesRun, OffersOpen, Linked, Roles
<1>. QED  BY <1>1, <1>2, <1>3, <1>4, <1>5, <1>6, <1>7

(* A pipe copies or ends: connections are closed, no table changes. *)
LEMMA PipeOK ==
  ASSUME BrokerInv, NEW c \in Conns, PipeRead(c) \/ PipeWrite(c) \/ CloseBoth(c)
  PROVE  BrokerInv'
<1>. USE DEF BrokerInv, BrokerTypeOK, PipeRead, PipeWrite, CloseBoth, local, table, game, Close
<1>1. Partner(c) \in Conns
  BY DEF Partner, PipesRun
<1>2. BrokerTypeOK'
  BY <1>1
<1>3. Roles' /\ OffersOpen' /\ Linked' /\ Counted' /\ Worked'
  BY DEF Roles, OffersOpen, Linked, Counted, Worked, PipesRun
<1>4. Offered'
  BY DEF Offered
<1>5. Told' /\ PipesRun'
  BY DEF Told, PipesRun
<1>. QED  BY <1>2, <1>3, <1>4, <1>5

(* A proxy ends: its session is no longer counted. *)
LEMMA ProxyOK ==
  ASSUME BrokerInv, NEW s \in Callers, ProxyEnds(s)
  PROVE  BrokerInv'
<1>. USE DEF BrokerInv, BrokerTypeOK, ProxyEnds, local, table, game, Close, Players, Broken
<1>1. BrokerTypeOK'
  BY DEF Told
<1>2. Roles' /\ OffersOpen'
  BY DEF Roles, OffersOpen, Linked
<1>3. Offered'
  BY DEF Offered, Roles, OffersOpen
<1>4. Linked'
  BY DEF Linked, Roles, OffersOpen
<1>5. Told'
  BY DEF Told, Linked, Roles, OffersOpen
<1>6. Counted' /\ Worked'
  BY DEF Counted, Worked, Told, Linked, Roles, OffersOpen
<1>7. PipesRun'
  BY DEF PipesRun, OffersOpen, Linked, Roles
<1>. QED  BY <1>1, <1>2, <1>3, <1>4, <1>5, <1>6, <1>7

(* Stop closes what the tables hold and empties them. *)
LEMMA StopOK ==
  ASSUME BrokerInv, BrokerStops \/ Sweep \/ BrokerStopped
  PROVE  BrokerInv'
<1>. USE DEF BrokerInv, BrokerTypeOK, BrokerStops, Sweep, BrokerStopped, local, table, game, Close, Players
<1>1. BrokerTypeOK'
  BY DEF Counted
<1>2. Roles' /\ OffersOpen'
  BY DEF Roles, OffersOpen, Linked
<1>3. Offered'
  BY DEF Offered, Roles, OffersOpen
<1>4. Linked'
  BY DEF Linked, Roles, OffersOpen
<1>5. Told'
  BY DEF Told, Linked, Roles, OffersOpen
<1>6. Counted' /\ Worked'
  BY DEF Counted, Worked, Told, Linked, Roles, OffersOpen
<1>7. PipesRun'
  BY DEF PipesRun, OffersOpen, Linked, Roles
<1>. QED  BY <1>1, <1>2, <1>3, <1>4, <1>5, <1>6, <1>7

(* Every step preserves the invariant. *)
LEMMA BrokerNextOK == BrokerInv /\ [BrokerNext]_brokerVars => BrokerInv'
<1>. SUFFICES ASSUME BrokerInv, [BrokerNext]_brokerVars PROVE BrokerInv'
  OBVIOUS
<1>1. ASSUME NEW c \in Conns, AcceptPlayer(c) \/ PlayerLeaves(c) PROVE BrokerInv'
  BY <1>1, AcceptOK
<1>2. ASSUME NEW c \in Conns, Command(c) PROVE BrokerInv'
  BY <1>2, NoCommandOK, CreateOK, JoinOK, JoinNothingOK DEF Command
<1>3. ASSUME NEW c \in Conns, Run(c) PROVE BrokerInv'
  BY <1>3, NoCommandOK, CreateOkOK, WaitOK, WithdrawOK, ReleaseOK, ReadyOK, CalleeOkOK
     DEF Run
<1>4. ASSUME NEW s \in Callers, ProxyEnds(s) PROVE BrokerInv'
  BY <1>4, ProxyOK
<1>6. ASSUME NEW c \in Conns, PipeRead(c) \/ PipeWrite(c) \/ CloseBoth(c) PROVE BrokerInv'
  BY <1>6, PipeOK
<1>5. CASE UNCHANGED brokerVars
  BY <1>5 DEF brokerVars, local, table, game, BrokerInv, BrokerTypeOK, Roles, OffersOpen, Offered, Linked, Told, Counted, Worked, PipesRun
<1>. QED
  BY <1>1, <1>2, <1>3, <1>4, <1>5, <1>6, StopOK DEF BrokerNext

(* What holds between any two steps of the broker. *)
LEMMA Inductive == BrokerSpec => []BrokerInv
BY BrokerInitOK, BrokerNextOK, PTL DEF BrokerSpec

(* pending and active agree with the goroutines of ipc.svc in every reachable
   state, for any number of connections: a caller that waits is found by a
   JOIN, what GetStats counts is played or about to be, no callee takes part
   in two games, and both players of a game were told of it. *)
THEOREM TablesStayExact == BrokerSpec => []TablesAgree
<1>1. BrokerInv => BrokerTypeOK /\ Findable
  BY DEF BrokerInv, Offered, Findable
<1>2. BrokerInv => ActiveIsLive
  BY DEF BrokerInv, Worked, ActiveIsLive
<1>3. BrokerInv => Paired
  BY DEF BrokerInv, BrokerTypeOK, Linked, Told, Paired
<1>. QED
  BY <1>1, <1>2, <1>3, Inductive, PTL DEF TablesAgree

(***************************************************************************)
(* ChessBroker implements the safety part of Matchmaker.                   *)
(***************************************************************************)

(* A step on which no game depends. *)
LEMMA Stutter ==
  ASSUME BrokerInv, BrokerInv', UNCHANGED <<key, callee, pending, gone, stop>>,
         proxy' = proxy,
         \A c \in Callees : pc'[c] \in Joining <=> pc[c] \in Joining
  PROVE  UNCHANGED Game!mvars
BY DEF BrokerInv, BrokerTypeOK, GameStatus, Game!mvars

(* CREATE is an offer that replaces the one to the same pair. *)
LEMMA CreateOffers ==
  ASSUME BrokerInv, NEW c \in Conns, NEW k \in Keys, Create(c, k)
  PROVE  Game!Offer(c, k)
<1>. USE DEF BrokerInv, BrokerTypeOK, Create, game, Proceed
<1>1. c \in Callers /\ key[c] = None /\ callee[c] = None
  BY DEF Roles
<1>2. GameStatus(c) = "idle" /\ GameStatus(c)' = "waiting"
  BY <1>1 DEF GameStatus
<1>3. ASSUME NEW t \in Callers, t # c
      PROVE  GameStatus(t)' = IF GameStatus(t) = "waiting" /\ key[t] = k THEN "over"
                              ELSE GameStatus(t)
  BY <1>1, <1>3 DEF GameStatus, Roles, Linked
<1>4. [t \in Callers |-> key[t]]' = [[t \in Callers |-> key[t]] EXCEPT ![c] = k]
  BY <1>1
<1>5. [t \in Callers |-> GameStatus(t)]'
        = [t \in Callers |-> IF t = c THEN "waiting"
                             ELSE IF GameStatus(t) = "waiting" /\ key[t] = k THEN "over"
                             ELSE GameStatus(t)]
  BY <1>1, <1>2, <1>3
<1>. QED
  BY <1>1, <1>2, <1>4, <1>5 DEF Game!Offer, Game!Waiting

(* JOIN takes the offer that is open, and a callee takes one only. *)
LEMMA JoinMatches ==
  ASSUME BrokerInv, NEW c \in Conns, NEW k \in Keys, Join(c, k)
  PROVE  Game!Match(pending[k], c)
<1>. USE DEF BrokerInv, BrokerTypeOK, Join, JoinLeaving, game, Proceed
<1>. PICK s \in Callers : s = pending[k]
  OBVIOUS
<1>1. c \in Callees /\ s \in Callers /\ key[s] = k /\ callee[s] = None
  BY DEF OffersOpen
<1>2. \A t \in Callers : callee[t] # c
  BY <1>1 DEF Linked
<1>3. GameStatus(s) = "waiting"
  BY <1>1 DEF GameStatus
<1>4. /\ callee' = [callee EXCEPT ![s] = c] /\ pc'[c] = "release" /\ proxy[s] = "none"
      /\ pending' = [pending EXCEPT ![k] = None]
      /\ \A d \in Conns : d # c => pc'[d] = pc[d]
      /\ UNCHANGED <<key, gone, proxy, stop>>
  BY <1>1 DEF Told
<1>5. GameStatus(s)' = "matched"
  BY <1>1, <1>4 DEF GameStatus
<1>6. ASSUME NEW t \in Callers, t # s PROVE GameStatus(t)' = GameStatus(t)
  BY <1>1, <1>2, <1>4, <1>6 DEF GameStatus, OffersOpen
<1>. QED
  BY <1>1, <1>2, <1>3, <1>4, <1>5, <1>6 DEF Game!Match, Game!Become

(* A withdrawal ends the game if the offer was still open. *)
LEMMA WithdrawGivesUp ==
  ASSUME BrokerInv, NEW c \in Conns, Withdraw(c)
  PROVE  Game!GiveUp(c) \/ UNCHANGED Game!mvars
<1>. USE DEF BrokerInv, BrokerTypeOK, Withdraw, Proceed, Forget, local, game
<1>1. c \in Callers /\ key[c] \in Keys
  BY DEF Roles
<1>2. ASSUME NEW t \in Callers, t # c PROVE GameStatus(t)' = GameStatus(t)
  BY <1>1, <1>2 DEF GameStatus, Roles
<1>3. CASE GameStatus(c) = "waiting"
  <2>1. GameStatus(c)' = "over"
    BY <1>1, <1>3 DEF GameStatus
  <2>. QED  BY <1>1, <1>2, <1>3, <2>1 DEF Game!GiveUp, Game!Become
<1>4. CASE GameStatus(c) # "waiting"
  <2>1. GameStatus(c)' = GameStatus(c)
    BY <1>1, <1>4 DEF GameStatus, Roles
  <2>. QED  BY <1>2, <2>1 DEF Game!mvars
<1>. QED  BY <1>3, <1>4

(* The steps of a JOIN after the offer was taken: the game goes on, begins or
   is called off. *)
LEMMA JoinEnds ==
  ASSUME BrokerInv, NEW c \in Conns, Ready(c) \/ CalleeOk(c)
  PROVE  Game!GiveUp(sess[c]) \/ Game!Begin(sess[c]) \/ UNCHANGED Game!mvars
<1>. USE DEF BrokerInv, BrokerTypeOK
<1>. PICK s \in Callers : s = sess[c]
  BY DEF Roles, Linked, Ready, CalleeOk
<1>1. /\ c \in Callees /\ s \in Callers /\ callee[s] = c /\ key[s] \in Keys
      /\ pc[c] \in Joining /\ UNCHANGED <<key, sess, callee, pending, gone, stop>>
      /\ \A t \in Callers : t # s => callee[t] # c
  BY DEF Roles, Linked, Ready, CalleeOk, local, game
<1>2. /\ \A d \in Conns : d # c => pc'[d] = pc[d]
      /\ \A t \in Callers : t # s => proxy'[t] = proxy[t]
  BY <1>1 DEF Ready, CalleeOk, game, Proceed
<1>3. GameStatus(s) = "matched" /\ proxy[s] = "none"
  BY <1>1 DEF GameStatus, Told
<1>4. ASSUME NEW t \in Callers, t # s PROVE GameStatus(t)' = GameStatus(t)
  BY <1>1, <1>2, <1>4 DEF GameStatus
<1>5. GameStatus(s)' \in {"matched", "over", "playing"}
  BY <1>1 DEF GameStatus
<1>. QED
  BY <1>1, <1>3, <1>4, <1>5 DEF Game!GiveUp, Game!Begin, Game!Become, Game!mvars

(* A proxy that ends ends the game. *)
LEMMA ProxyEndsGame ==
  ASSUME BrokerInv, NEW s \in Callers, ProxyEnds(s)
  PROVE  Game!End(s)
<1>. USE DEF BrokerInv, BrokerTypeOK, ProxyEnds, local
<1>1. callee[s] \in Callees /\ key[s] \in Keys /\ pc[callee[s]] = "ended"
  BY DEF Told, Roles
<1>2. GameStatus(s) = "playing" /\ GameStatus(s)' = "over"
  BY <1>1 DEF GameStatus
<1>3. ASSUME NEW t \in Callers, t # s PROVE GameStatus(t)' = GameStatus(t)
  BY <1>3 DEF GameStatus
<1>. QED  BY <1>2, <1>3 DEF Game!End, Game!Become

(* The sweep of Stop withdraws the offers and leaves the games alone. *)
LEMMA SweepWithdraws ==
  ASSUME BrokerInv, Sweep
  PROVE  Game!WithdrawAll
<1>. USE DEF BrokerInv, BrokerTypeOK, Sweep, local, game
<1>1. ASSUME NEW t \in Callers
      PROVE  GameStatus(t)' = IF GameStatus(t) = "waiting" THEN "over" ELSE GameStatus(t)
  BY DEF GameStatus, Roles
<1>. QED  BY <1>1 DEF Game!WithdrawAll, Game!Become, Game!Waiting

(* Every step of the broker is one of Matchmaker, or changes no game. *)
LEMMA GameStep == BrokerInv /\ BrokerInv' /\ [BrokerNext]_brokerVars => [Game!MNext]_(Game!mvars)
<1>. SUFFICES ASSUME BrokerInv, BrokerInv', [BrokerNext]_brokerVars PROVE [Game!MNext]_(Game!mvars)
  OBVIOUS
<1>1. ASSUME NEW c \in Conns, AcceptPlayer(c) \/ NoCommand(c) \/ CreateOk(c) \/ WaitJoined(c)
             \/ WaitTimer(c) \/ WaitStopped(c) \/ Release(c)
             \/ \E k \in Keys : JoinNothing(c, k)
      PROVE  UNCHANGED Game!mvars
  <2>1. /\ UNCHANGED <<key, callee, pending, gone, stop, proxy>>
        /\ \A d \in Callees : pc'[d] \in Joining <=> pc[d] \in Joining
    BY <1>1 DEF BrokerInv, BrokerTypeOK, Roles, AcceptPlayer, NoCommand, CreateOk, WaitJoined, WaitTimer,
       WaitStopped, Release, JoinNothing, Proceed, local, table, game
  <2>. QED  BY <2>1, Stutter
<1>2. ASSUME NEW c \in Conns, AcceptPlayer(c) \/ Command(c) \/ Run(c) PROVE [Game!MNext]_(Game!mvars)
  <2>1. ASSUME NEW k \in Keys, Create(c, k) PROVE Game!MNext
    BY <2>1, CreateOffers DEF Game!MNext, Create
  <2>2. ASSUME NEW k \in Keys, Join(c, k) PROVE Game!MNext
    <3>1. pending[k] \in Callers /\ c \in Callees
      BY <2>2 DEF BrokerInv, BrokerTypeOK, Join, JoinLeaving
    <3>. QED  BY <2>2, <3>1, JoinMatches DEF Game!MNext
  <2>3. CASE Withdraw(c)
    <3>1. c \in Callers
      BY <2>3 DEF BrokerInv, Roles, Withdraw
    <3>. QED  BY <2>3, <3>1, WithdrawGivesUp DEF Game!MNext
  <2>4. CASE Ready(c) \/ CalleeOk(c)
    <3>1. sess[c] \in Callers
      BY <2>4 DEF BrokerInv, BrokerTypeOK, Roles, Linked, Ready, CalleeOk
    <3>. QED  BY <2>4, <3>1, JoinEnds DEF Game!MNext
  <2>. QED  BY <1>1, <1>2, <2>1, <2>2, <2>3, <2>4 DEF Command, Run
<1>3. ASSUME NEW c \in Conns, PlayerLeaves(c) PROVE Game!Quit(c)
  BY <1>3 DEF PlayerLeaves, local, table, game, GameStatus, Game!Quit
<1>4. ASSUME NEW s \in Callers, ProxyEnds(s) PROVE Game!MNext
  BY <1>4, ProxyEndsGame DEF Game!MNext
<1>8. ASSUME NEW c \in Conns, PipeRead(c) \/ PipeWrite(c) \/ CloseBoth(c) PROVE UNCHANGED Game!mvars
  <2>1. UNCHANGED <<pc, key, callee, pending, gone, stop, proxy>>
    BY <1>8 DEF PipeRead, PipeWrite, CloseBoth, local, table
  <2>. QED  BY <2>1, Stutter
<1>5. CASE BrokerStops
  BY <1>5 DEF BrokerStops, local, table, game, GameStatus, Game!Stop, Game!MNext
<1>6. CASE Sweep
  BY <1>6, SweepWithdraws DEF Game!MNext
<1>7. CASE BrokerStopped \/ UNCHANGED brokerVars
  BY <1>7 DEF BrokerStopped, brokerVars, local, table, game, GameStatus, Game!mvars
<1>. QED
  BY <1>2, <1>3, <1>4, <1>5, <1>6, <1>7, <1>8 DEF BrokerNext, Game!MNext

(* Goroutines, tables, timers and Stop hide one game per caller that only
   moves forward, has one partner that never changes and is offered to a pair
   that nothing else is offered to at the time, for any number of connections.
   (That waits end, the rest of PlaysByTheRules, is checked by TLC.) *)
THEOREM ImplementsMatchmaker == BrokerSpec => Game!MSafe
<1>1. BrokerInit => Game!MInit
  BY DEF BrokerInit, Game!MInit, GameStatus
<1>. QED
  BY <1>1, Inductive, GameStep, PTL DEF BrokerSpec, Game!MSafe
=============================================================================
