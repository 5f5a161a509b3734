--------------------------- MODULE IpcClientProofs --------------------------
(***************************************************************************)
(* Proofs about IpcClient, for any number of calls, faults and packets and *)
(* any setting of the backoff: the answer of a call is its own, nothing    *)
(* that came with a request is lost, the service knows what the session    *)
(* believes it knows, and the backoff works.                               *)
(*                                                                         *)
(* The properties speak of the event loop; the invariant says what holds   *)
(* in the middle of every call.  Its parts: when there is a link (Open),   *)
(* which call goes with which state (Calls), the numbers of requests and   *)
(* answers on the link (Asked, Answered), the request that is waited for   *)
(* (Current), what a registration that was answered has left at the        *)
(* service (Registers), what the service will think of                     *)
(* live mode in each call (Follows), and when a connect is due (Due).      *)
(***************************************************************************)
EXTENDS IpcClient, SequenceTheorems, TLAPS

USE ClientAssumption

Registering == {"init", "reg"}
Waiting == pc = "ack" \/ (pc = "ret" /\ res # "fail")

(* Without a descriptor there is nothing at the other end, and with none no
   call can be at work. *)
Open ==
  /\ linked => fd = "open"
  /\ fd = "closed" => /\ pend = <<>> /\ toSvc = <<>> /\ toCli = <<>>
                      /\ ~reg /\ ~sub /\ sent = 0 /\ got = 0
  /\ pc = "call" \/ Waiting => fd = "open"
  /\ pc = "login" => fd = "closed"

(* Which call the process is in, and what it is for. *)
Calls ==
  /\ pc \in {"login", "idle"} <=> op = "none"
  /\ pc \in {"ack", "ret"} => op # "pub"
  /\ op \in {"init", "live"} => ~live
  /\ op = "resub" => live
  /\ then = "live" => ~live
  /\ op \notin {"reg", "resub"} => then = "none"
  /\ pc = "login" => ~live

(* The numbers on the link are those of requests that were made; a request is
   on its way once, and not any more when its answer is. *)
Asked ==
  \A i \in 1 .. Len(toSvc) :
    /\ toSvc[i].seq <= seq
    /\ toSvc[i].seq = 0 <=> Silent(toSvc[i].op)
    /\ \A j \in 1 .. Len(toSvc) : toSvc[i].seq = toSvc[j].seq /\ toSvc[i].seq # 0 => i = j

Answered ==
  \A i \in 1 .. Len(toCli) : toCli[i].kind = "ack" =>
    /\ 0 < toCli[i].seq /\ toCli[i].seq <= seq
    /\ \A j \in 1 .. Len(toSvc) : toSvc[j].seq # toCli[i].seq

(* The request that is waited for, its answer on the link, and what is
   returned. *)
Current ==
  /\ pc = "ack" => /\ want # 0
                   /\ \A i \in 1 .. Len(toSvc) : toSvc[i].seq = want => toSvc[i].op = op
  /\ \A i \in 1 .. Len(toCli) : toCli[i].kind = "ack" /\ toCli[i].seq = want =>
       toCli[i].code = truth
  /\ pc = "ret" /\ res # "fail" =>
       /\ want # 0 /\ truth = res
       /\ \A i \in 1 .. Len(toSvc) : toSvc[i].seq # want

(* A registration whose answer is there was served on this link, and no other
   call begins before that. *)
Registers ==
  /\ linked /\ op \notin Registering => reg
  /\ linked /\ pc = "ack" =>
       \A i \in 1 .. Len(toCli) : toCli[i].kind = "ack" /\ toCli[i].seq = want => reg
  /\ linked /\ pc = "ret" /\ res = "ok" => reg

(* What the service will hold in each call. *)
Follows ==
  linked => /\ op \in Registering => ~SubAfter
            /\ op \in {"live", "resub"} => (SubAfter <=> pc # "call")
            /\ op \notin Registering \cup {"live", "resub"} => (SubAfter <=> live)

(* After a connect there is a link, or time must pass before the next one. *)
Due ==
  /\ tries <= 1
  /\ pc = "login" => tries = 0
  /\ pc # "login" /\ fd = "closed" => wait > 0 \/ tries = 0

IInv == TypeOK /\ Open /\ Calls /\ Asked /\ Answered /\ Current /\ Registers /\ Follows /\ Due /\ NothingLost

(* A session starts without a link. *)
LEMMA InitOK == Init => IInv
<1>. SUFFICES ASSUME Init PROVE IInv
  OBVIOUS
<1>. USE DEF Init
<1>1. TypeOK
  <2>1. fd \in {"open", "closed"} /\ seq \in Nat /\ want \in 0 .. seq
    BY DEF Init
  <2>2. pend \in Seq([kind : {"data"}, seq : Nat]) /\ toSvc \in Seq([op : CallOps \cup {"unsub"}, seq : Nat])
  /\ toCli \in Seq(Packets)
    BY DEF Init
  <2>3. backoff \in BackoffInit .. BackoffMax /\ wait \in 0 .. 2 * BackoffMax + Spread
    BY DEF Init
  <2>4. FlagType
    BY DEF FlagType
  <2>5. sent \in 0 .. MaxData /\ got \in 0 .. MaxData /\ tries \in Nat
    /\ calls \in 0 .. MaxCalls /\ faults \in 0 .. MaxFaults
    BY DEF Init
  <2>. QED BY <2>1, <2>2, <2>3, <2>4, <2>5 DEF TypeOK, ThreadType, TimerType, LinkType, CountType, FlagType, UserOps, CallOps
<1>2. Open
  BY DEF Open, Waiting
<1>3. Calls
  BY DEF Calls
<1>4. Registers
  BY DEF Registers
<1>5. Due
  BY DEF Due
<1>6. Follows
  BY DEF Follows
<1>7. Asked /\ Answered /\ Current
  BY DEF Asked, Answered, Current
<1>8. NothingLost
  BY DEF NothingLost
<1>. QED  BY <1>1, <1>2, <1>3, <1>4, <1>5, <1>6, <1>7, <1>8 DEF IInv
-----------------------------------------------------------------------------
(* The two directions of the link *)

(* The head and the tail of a sequence, and a sequence with one more. *)
LEMMA Shorter ==
  ASSUME NEW S, NEW s \in Seq(S), s # <<>>
  PROVE  /\ Head(s) = s[1] /\ Head(s) \in S /\ Tail(s) \in Seq(S)
         /\ Len(s) \in Nat /\ Len(s) > 0 /\ Len(Tail(s)) = Len(s) - 1
         /\ \A i \in 1 .. Len(s) - 1 : Tail(s)[i] = s[i + 1] /\ i + 1 \in 1 .. Len(s)
OBVIOUS

(* One more at the end of a queue. *)
LEMMA Longer ==
  ASSUME NEW S, NEW s \in Seq(S), NEW e \in S
  PROVE  /\ Append(s, e) \in Seq(S) /\ Len(s) \in Nat /\ Len(Append(s, e)) = Len(s) + 1
         /\ Append(s, e)[Len(s) + 1] = e
         /\ \A i \in 1 .. Len(s) : Append(s, e)[i] = s[i] /\ s[i] \in S
OBVIOUS

ReqType == [op : CallOps \cup {"unsub"}, seq : Nat]
DataType == [kind : {"data"}, seq : Nat]

(* The types of the queues, each on its own. *)
LEMMA LinkTypes == LinkType <=> pend \in Seq(DataType) /\ toSvc \in Seq(ReqType) /\ toCli \in Seq(Packets)
BY DEF LinkType, ReqType, DataType

(* They are kept by a step that moves nothing, *)
LEMMA SameTypes ==
  ASSUME LinkType, UNCHANGED <<pend, toSvc, toCli>>
  PROVE  LinkType'
BY DEF LinkType

(* and by one that loses the link. *)
LEMMA NoTypes ==
  ASSUME pend' = <<>>, toSvc' = <<>>, toCli' = <<>>
  PROVE  LinkType'
BY DEF LinkType

(* Of what the service sent nothing is lost by a step that leaves the packets
   alone. *)
LEMMA SameData ==
  ASSUME NothingLost, UNCHANGED <<toCli, pend, sent, got>>
  PROVE  NothingLost'
BY DEF NothingLost

(* A new link, and no link, starts with nothing sent. *)
LEMMA NoData ==
  ASSUME pend' = <<>>, toCli' = <<>>, sent' = 0, got' = 0
  PROVE  NothingLost'
BY DEF NothingLost, IsData

(* The numbers stay good in a step that leaves the requests and the answers
   alone, and without a link there are none. *)
LEMMA SameNumbers ==
  ASSUME Asked, Answered, UNCHANGED <<toSvc, toCli, seq>>
  PROVE  Asked' /\ Answered'
BY DEF Asked, Answered, Silent

(* An empty link holds no stale number, *)
LEMMA NoNumbers ==
  ASSUME toSvc' = <<>>, toCli' = <<>>
  PROVE  Asked' /\ Answered'
BY DEF Asked, Answered

(* What the service will hold depends on what it was sent only. *)
LEMMA SameQueue ==
  ASSUME UNCHANGED <<toSvc, sub>>
  PROVE  SubAfter' <=> SubAfter
BY DEF SubAfter

(* and no subscription on its way. *)
LEMMA NoQueue ==
  ASSUME toSvc' = <<>>, sub' = FALSE
  PROVE  ~SubAfter'
BY DEF SubAfter

(* A request that is written decides, if it is about the topic. *)
LEMMA QueueGrows ==
  ASSUME LinkType, NEW r \in [op : CallOps \cup {"unsub"}, seq : Nat],
         toSvc' = Append(toSvc, r), UNCHANGED sub
  PROVE  SubAfter' <=> IF r.op \in {"live", "resub", "unsub"} THEN r.op # "unsub"
                       ELSE SubAfter
<1>. USE DEF SubAfter, LinkType
<1>1. Len(toSvc') = Len(toSvc) + 1 /\ toSvc'[Len(toSvc) + 1] = r /\ Len(toSvc) \in Nat
  OBVIOUS
<1>2. \A i \in 1 .. Len(toSvc) : toSvc'[i] = toSvc[i]
  OBVIOUS
<1>. HIDE DEF LinkType
<1>3. CASE r.op \in {"live", "resub", "unsub"}
  BY <1>1, <1>2, <1>3
<1>4. CASE r.op \notin {"live", "resub", "unsub"}
  BY <1>1, <1>2, <1>4
<1>. QED  BY <1>3, <1>4

(* A request that is served has the effect it was written for. *)
LEMMA QueueServed ==
  ASSUME LinkType, sub \in BOOLEAN, toSvc # <<>>, toSvc' = Tail(toSvc), Serves(Head(toSvc).op)
  PROVE  SubAfter' <=> SubAfter
<1>. DEFINE About(i) == toSvc[i].op \in {"live", "resub", "unsub"}
             On(i) == About(i) /\ toSvc[i].op # "unsub"
             n == Len(toSvc)
<1>1. n \in Nat /\ n > 0 /\ Head(toSvc) = toSvc[1] /\ Len(toSvc') = n - 1
  BY DEF LinkType
<1>2. \A i \in 1 .. n - 1 : toSvc'[i] = toSvc[i + 1]
  BY DEF LinkType
<1>3. SubAfter <=> \/ sub /\ \A i \in 1 .. n : ~About(i)
                   \/ \E i \in 1 .. n : On(i) /\ \A j \in i + 1 .. n : ~About(j)
  BY <1>1 DEF SubAfter
<1>4. SubAfter' <=> \/ sub' /\ \A i \in 1 .. n - 1 : ~About(i + 1)
                    \/ \E i \in 1 .. n - 1 :
                         On(i + 1) /\ \A j \in i + 1 .. n - 1 : ~About(j + 1)
  <2>. DEFINE Left(i) == toSvc'[i].op \in {"live", "resub", "unsub"}
  <2>1. SubAfter' <=> \/ sub' /\ \A i \in 1 .. Len(toSvc') : ~Left(i)
                      \/ \E i \in 1 .. Len(toSvc') :
                           /\ Left(i) /\ toSvc'[i].op # "unsub"
                           /\ \A j \in 1 .. Len(toSvc') : Left(j) => j <= i
    BY DEF SubAfter
  <2>2. \A i \in 1 .. n - 1 : Left(i) = About(i + 1)
    BY <1>2
  <2>3. \A i \in 1 .. n - 1 : (Left(i) /\ toSvc'[i].op # "unsub") = On(i + 1)
    BY <1>2
  <2>4. \A i \in 1 .. n - 1 : \A j \in i + 1 .. n - 1 : j \in 1 .. n - 1
    BY <1>1
  <2>. HIDE DEF Left, About, On, n
  <2>5. SubAfter' <=> \/ sub' /\ \A i \in 1 .. n - 1 : ~Left(i)
                      \/ \E i \in 1 .. n - 1 : /\ Left(i) /\ toSvc'[i].op # "unsub"
                                               /\ \A j \in i + 1 .. n - 1 : ~Left(j)
    BY <1>1, <2>1
  <2>. QED  BY <2>2, <2>3, <2>4, <2>5
<1>5. sub' <=> IF About(1) THEN On(1) ELSE sub
  BY <1>1 DEF Serves
<1>. HIDE DEF About, On, n
<1>6. (\A i \in 1 .. n - 1 : ~About(i + 1)) <=> \A i \in 2 .. n : ~About(i)
  <2>1. ASSUME \A i \in 1 .. n - 1 : ~About(i + 1), NEW i \in 2 .. n PROVE ~About(i)
    <3>1. i - 1 \in 1 .. n - 1 /\ (i - 1) + 1 = i
      BY <1>1
    <3>. QED  BY <2>1, <3>1
  <2>2. ASSUME \A i \in 2 .. n : ~About(i), NEW i \in 1 .. n - 1 PROVE ~About(i + 1)
    BY <1>1, <2>2
  <2>. QED  BY <2>1, <2>2
<1>7. ASSUME NEW i \in 1 .. n - 1, On(i + 1), \A j \in i + 1 .. n - 1 : ~About(j + 1)
      PROVE  \E m \in 2 .. n : On(m) /\ \A j \in m + 1 .. n : ~About(j)
  <2>1. i + 1 \in 2 .. n
    BY <1>1
  <2>2. ASSUME NEW j \in (i + 1) + 1 .. n PROVE ~About(j)
    <3>1. j - 1 \in i + 1 .. n - 1 /\ (j - 1) + 1 = j
      BY <1>1
    <3>. QED  BY <1>7, <3>1
  <2>. QED  BY <1>7, <2>1, <2>2
<1>8. ASSUME NEW m \in 2 .. n, On(m), \A j \in m + 1 .. n : ~About(j)
      PROVE  \E i \in 1 .. n - 1 : On(i + 1) /\ \A j \in i + 1 .. n - 1 : ~About(j + 1)
  <2>1. m - 1 \in 1 .. n - 1 /\ (m - 1) + 1 = m
    BY <1>1
  <2>2. \A j \in (m - 1) + 1 .. n - 1 : j + 1 \in m + 1 .. n
    BY <1>1
  <2>. QED  BY <1>8, <2>1, <2>2
<1>9. (\A i \in 1 .. n : ~About(i)) <=> ~About(1) /\ \A i \in 2 .. n : ~About(i)
  BY <1>1
<1>10. (\E i \in 1 .. n : On(i) /\ \A j \in i + 1 .. n : ~About(j))
         <=> \/ On(1) /\ \A j \in 2 .. n : ~About(j)
             \/ \E i \in 2 .. n : On(i) /\ \A j \in i + 1 .. n : ~About(j)
  BY <1>1
<1>11. On(1) => About(1)
  BY DEF On
<1>. QED  BY <1>3, <1>4, <1>5, <1>6, <1>7, <1>8, <1>9, <1>10, <1>11

(* The four parts of NothingLost, with the packets that are on their way
   counted from the ones that were read. *)
Arrives(k) == k \in 1 .. Len(toCli) /\ IsData(toCli[k])
ReadSoFar == got + Len(pend)

DataShape ==
    /\ ReadSoFar <= sent
    /\ \A i \in 1 .. Len(pend) : pend[i].seq = got + i
    /\ \A i \in 1 .. Len(toCli) : Arrives(i) => toCli[i].seq \in ReadSoFar + 1 .. sent
    /\ \A v \in ReadSoFar + 1 .. sent :
         \E i \in 1 .. Len(toCli) : Arrives(i) /\ toCli[i].seq = v
    /\ \A i, j \in 1 .. Len(toCli) :
         Arrives(i) /\ Arrives(j) /\ i < j => toCli[i].seq < toCli[j].seq

(* NothingLost, in the form the steps are proved with. *)
LEMMA DataParts == (NothingLost <=> DataShape) /\ (NothingLost' <=> DataShape')
<1>1. NothingLost <=> DataShape
  BY DEF NothingLost, DataShape, Arrives, ReadSoFar
<1>2. NothingLost' <=> DataShape'
  BY <1>1, PTL
<1>. QED  BY <1>1, <1>2

(* The service sends a packet, or an answer. *)
LEMMA PacketSent ==
  ASSUME LinkType, CountType, NothingLost, NEW p \in Packets,
         toCli' = Append(toCli, p), UNCHANGED <<pend, got>>,
         IF IsData(p) THEN sent' = sent + 1 /\ p.seq = sent' ELSE UNCHANGED sent
  PROVE  NothingLost'
<1>0. PICK n \in Nat : n = Len(toCli)
  BY DEF LinkType
<1>1. Len(toCli') = n + 1 /\ toCli'[n + 1] = p
  BY <1>0 DEF LinkType
<1>2. \A i \in 1 .. n : toCli'[i] = toCli[i]
  BY <1>0 DEF LinkType
<1>3. \A i \in 1 .. n : Arrives(i)' <=> Arrives(i)
  BY <1>0, <1>1, <1>2 DEF Arrives, IsData
<1>4. n + 1 \in 1 .. Len(toCli') /\ (Arrives(n + 1)' <=> IsData(p))
  <2>1. n + 1 \in 1 .. Len(toCli')
    BY <1>1
  <2>2. Arrives(n + 1)' <=> IsData(toCli'[n + 1])
    BY <2>1 DEF Arrives, IsData
  <2>. QED  BY <1>1, <2>1, <2>2
<1>5. /\ ReadSoFar' = ReadSoFar /\ ReadSoFar \in Nat /\ sent \in Nat
      /\ sent' \in Nat /\ sent <= sent'
  BY DEF ReadSoFar, LinkType, CountType
<1>. DataShape
  BY DataParts
<1>. USE DEF DataShape
<1>6. ReadSoFar' <= sent' /\ \A i \in 1 .. Len(pend') : pend'[i].seq = got' + i
  BY <1>5
<1>7. \A i \in 1 .. Len(toCli') : Arrives(i)' => toCli'[i].seq \in ReadSoFar' + 1 .. sent'
  <2>. SUFFICES ASSUME NEW i \in 1 .. n + 1, Arrives(i)'
                PROVE  toCli'[i].seq \in ReadSoFar' + 1 .. sent'
    BY <1>1
  <2>1. CASE i = n + 1
    <3>1. toCli'[i].seq = sent + 1 /\ sent' = sent + 1
      BY <1>1, <1>4, <2>1
    <3>. QED  BY <1>5, <3>1
  <2>2. CASE i \in 1 .. n
    <3>1. toCli'[i].seq \in ReadSoFar + 1 .. sent
      BY <1>0, <1>2, <1>3, <2>2
    <3>2. \A x \in ReadSoFar + 1 .. sent : x \in ReadSoFar' + 1 .. sent'
      BY <1>5
    <3>. QED  BY <3>1, <3>2
  <2>. QED  BY <1>1, <2>1, <2>2
<1>8. \A v \in ReadSoFar' + 1 .. sent' :
        \E i \in 1 .. Len(toCli') : Arrives(i)' /\ toCli'[i].seq = v
  <2>. SUFFICES ASSUME NEW v \in ReadSoFar' + 1 .. sent'
                PROVE  \E i \in 1 .. Len(toCli') : Arrives(i)' /\ toCli'[i].seq = v
    OBVIOUS
  <2>1. CASE IsData(p) /\ v = sent'
    BY <1>1, <1>4, <2>1
  <2>2. CASE ~(IsData(p) /\ v = sent')
    <3>1. v \in ReadSoFar + 1 .. sent
      BY <1>5, <2>2
    <3>2. PICK i \in 1 .. n : Arrives(i) /\ toCli[i].seq = v
      BY <1>0, <3>1
    <3>. QED  BY <1>1, <1>2, <1>3, <3>2
  <2>. QED  BY <2>1, <2>2
<1>9. \A i, j \in 1 .. Len(toCli') :
        Arrives(i)' /\ Arrives(j)' /\ i < j => toCli'[i].seq < toCli'[j].seq
  <2>. SUFFICES ASSUME NEW i \in 1 .. n + 1, NEW j \in 1 .. n + 1,
                       Arrives(i)', Arrives(j)', i < j
                PROVE  toCli'[i].seq < toCli'[j].seq
    BY <1>1
  <2>1. i \in 1 .. n /\ toCli'[i] = toCli[i] /\ Arrives(i)
    BY <1>1, <1>2, <1>3
  <2>2. toCli[i].seq \in ReadSoFar + 1 .. sent
    BY <1>0, <2>1
  <2>3. CASE j = n + 1
    <3>1. toCli'[j].seq = sent + 1
      BY <1>1, <1>4, <2>3
    <3>. QED  BY <1>5, <2>1, <2>2, <3>1
  <2>4. CASE j \in 1 .. n
    BY <1>0, <1>2, <1>3, <2>1, <2>4
  <2>. QED  BY <1>1, <2>3, <2>4
<1>. QED  BY <1>6, <1>7, <1>8, <1>9, DataParts DEF DataShape

(* The packet at the head is the next one, if it is not an answer. *)
LEMMA HeadIsNext ==
  ASSUME LinkType, CountType, NothingLost, toCli # <<>>, IsData(Head(toCli))
  PROVE  Head(toCli).seq = ReadSoFar + 1 /\ ReadSoFar < sent
<1>. DataShape
  BY DataParts
<1>. USE DEF DataShape
<1>1. 1 \in 1 .. Len(toCli) /\ Head(toCli) = toCli[1] /\ Arrives(1)
  BY DEF LinkType, Arrives
<1>2. ReadSoFar \in Nat /\ sent \in Nat
  BY DEF ReadSoFar, LinkType, CountType
<1>3. toCli[1].seq \in ReadSoFar + 1 .. sent
  BY <1>1
<1>4. PICK i \in 1 .. Len(toCli) : Arrives(i) /\ toCli[i].seq = ReadSoFar + 1
  BY <1>2, <1>3
<1>5. i = 1 \/ toCli[1].seq < toCli[i].seq
  BY <1>1, <1>4
<1>. QED  BY <1>1, <1>2, <1>3, <1>4, <1>5

(* A packet leaves the socket: an answer is skipped, another one is handled or
   set aside. *)
LEMMA PacketRead ==
  ASSUME LinkType, CountType, NothingLost, toCli # <<>>, toCli' = Tail(toCli), UNCHANGED sent,
         pend' \in Seq([kind : {"data"}, seq : Nat]), got' \in Nat,
         \A i \in 1 .. Len(pend') : pend'[i].seq = got' + i,
         ReadSoFar' = IF IsData(Head(toCli)) THEN ReadSoFar + 1 ELSE ReadSoFar
  PROVE  NothingLost'
<1>. DataShape
  BY DataParts
<1>0. PICK n \in Nat : n = Len(toCli) - 1
  BY DEF LinkType
<1>1. /\ Len(toCli') = n /\ Head(toCli) = toCli[1] /\ 1 \in 1 .. Len(toCli)
      /\ Arrives(1) <=> IsData(Head(toCli))
  BY <1>0 DEF LinkType, Arrives
<1>. USE DEF DataShape
<1>2. \A i \in 1 .. n : toCli'[i] = toCli[i + 1] /\ i + 1 \in 1 .. Len(toCli)
  BY <1>0 DEF LinkType
<1>3. \A i \in 1 .. n : Arrives(i)' <=> Arrives(i + 1)
  BY <1>0, <1>1, <1>2 DEF Arrives, IsData
<1>5. ReadSoFar \in Nat /\ sent \in Nat
  BY DEF ReadSoFar, LinkType, CountType
<1>6. IsData(Head(toCli)) => toCli[1].seq = ReadSoFar + 1 /\ ReadSoFar < sent
  BY <1>1, HeadIsNext
<1>7. ReadSoFar' <= sent'
  BY <1>5, <1>6
<1>8. \A i \in 1 .. n : Arrives(i)' => toCli'[i].seq \in ReadSoFar' + 1 .. sent'
  <2>. SUFFICES ASSUME NEW i \in 1 .. n, Arrives(i + 1)
                PROVE  toCli[i + 1].seq \in ReadSoFar' + 1 .. sent
    BY <1>2, <1>3
  <2>1. toCli[i + 1].seq \in ReadSoFar + 1 .. sent
    BY <1>2
  <2>2. Arrives(1) => toCli[1].seq < toCli[i + 1].seq
    BY <1>1, <1>2
  <2>. QED  BY <1>1, <1>5, <1>6, <2>1, <2>2
<1>9. \A v \in ReadSoFar' + 1 .. sent' : \E i \in 1 .. n : Arrives(i)' /\ toCli'[i].seq = v
  <2>. SUFFICES ASSUME NEW v \in ReadSoFar' + 1 .. sent
                PROVE  \E i \in 1 .. n : Arrives(i)' /\ toCli'[i].seq = v
    OBVIOUS
  <2>1. v \in ReadSoFar + 1 .. sent /\ (IsData(Head(toCli)) => v # ReadSoFar + 1)
    BY <1>5
  <2>2. PICK j \in 1 .. Len(toCli) : Arrives(j) /\ toCli[j].seq = v
    BY <2>1
  <2>3. j # 1
    BY <1>1, <1>6, <2>1, <2>2
  <2>4. j - 1 \in 1 .. n /\ (j - 1) + 1 = j
    BY <1>0, <2>3
  <2>5. Arrives(j - 1)' /\ toCli'[j - 1].seq = v
    BY <1>2, <1>3, <2>2, <2>4
  <2>. QED  BY <2>4, <2>5
<1>10. \A i, j \in 1 .. n :
         Arrives(i)' /\ Arrives(j)' /\ i < j => toCli'[i].seq < toCli'[j].seq
  <2>. SUFFICES ASSUME NEW i \in 1 .. n, NEW j \in 1 .. n, Arrives(i + 1), Arrives(j + 1), i < j
                PROVE  toCli[i + 1].seq < toCli[j + 1].seq
    BY <1>2, <1>3
  <2>1. i + 1 \in 1 .. Len(toCli) /\ j + 1 \in 1 .. Len(toCli) /\ i + 1 < j + 1
    BY <1>2
  <2>. QED  BY <2>1
<1>. QED  BY <1>1, <1>7, <1>8, <1>9, <1>10, DataParts

(* The packets are answers or data. *)
LEMMA PacketTypes ==
  ASSUME NEW p \in Packets
  PROVE  p.seq \in Nat /\ (IsData(p) => p \in DataType) /\ (~IsData(p) <=> p.kind = "ack")
BY DEF Packets, DataType, IsData

(* A request is written: a silent one has no number, another one a new one. *)
LEMMA NumbersGrow ==
  ASSUME Asked, Answered, seq \in Nat, NEW n \in Nat, n = Len(toSvc), Len(toSvc') = n + 1,
         \A i \in 1 .. n : toSvc'[i] = toSvc[i] /\ toSvc[i].seq \in Nat,
         UNCHANGED toCli, \A i \in 1 .. Len(toCli) : toCli[i].seq \in Nat,
         LET r == toSvc'[n + 1]
         IN \/ Silent(r.op) /\ r.seq = 0 /\ UNCHANGED seq
            \/ ~Silent(r.op) /\ r.seq = seq + 1 /\ seq' = seq + 1
  PROVE  Asked' /\ Answered'
<1>1. \A i \in 1 .. n : /\ toSvc[i].seq <= seq /\ (toSvc[i].seq = 0 <=> Silent(toSvc[i].op))
                        /\ \A j \in 1 .. n : toSvc[i].seq = toSvc[j].seq /\ toSvc[i].seq # 0 => i = j
  BY DEF Asked
<1>2. \A i \in 1 .. n : toSvc[i].seq # toSvc'[n + 1].seq \/ toSvc'[n + 1].seq = 0
  BY <1>1
<1>3. Asked'
  <2>. SUFFICES ASSUME NEW i \in 1 .. n + 1
                PROVE  /\ toSvc'[i].seq <= seq'
                       /\ toSvc'[i].seq = 0 <=> Silent(toSvc'[i].op)
                       /\ \A j \in 1 .. n + 1 :
                            toSvc'[i].seq = toSvc'[j].seq /\ toSvc'[i].seq # 0 => i = j
    BY DEF Asked, Silent
  <2>1. CASE i = n + 1
    BY <1>2, <2>1
  <2>2. CASE i \in 1 .. n
    BY <1>1, <1>2, <2>2
  <2>. QED  BY <2>1, <2>2
<1>4. Answered'
  <2>. SUFFICES ASSUME NEW i \in 1 .. Len(toCli), toCli[i].kind = "ack", NEW j \in 1 .. n + 1
                PROVE  /\ 0 < toCli[i].seq /\ toCli[i].seq <= seq'
                       /\ toSvc'[j].seq # toCli[i].seq
    BY DEF Answered
  <2>1. 0 < toCli[i].seq /\ toCli[i].seq <= seq
    BY DEF Answered
  <2>2. CASE j = n + 1
    BY <2>1, <2>2
  <2>3. CASE j \in 1 .. n
    BY <2>1, <2>3 DEF Answered
  <2>. QED  BY <2>2, <2>3
<1>. QED  BY <1>3, <1>4

(* A request takes the next number, or none when it is silent. *)
LEMMA RequestWritten ==
  ASSUME LinkType, Asked, Answered, seq \in Nat, NEW o \in CallOps \cup {"unsub"}, NEW q \in Nat,
         toSvc' = Append(toSvc, [op |-> o, seq |-> q]), UNCHANGED toCli,
         \/ Silent(o) /\ q = 0 /\ UNCHANGED seq
         \/ ~Silent(o) /\ q = seq + 1 /\ seq' = seq + 1
  PROVE  toSvc' \in Seq(ReqType) /\ Asked' /\ Answered'
<1>1. PICK r \in ReqType : r.op = o /\ r.seq = q /\ r = [op |-> o, seq |-> q]
  BY DEF ReqType
<1>2. toSvc \in Seq(ReqType)
  BY LinkTypes
<1>3. PICK n \in Nat : n = Len(toSvc)
  BY <1>2
<1>4. /\ Len(toSvc') = n + 1 /\ toSvc'[n + 1] = r /\ toSvc' \in Seq(ReqType)
      /\ \A i \in 1 .. n : toSvc'[i] = toSvc[i] /\ toSvc[i] \in ReqType
  BY <1>1, <1>2, <1>3, Longer
<1>5. \A i \in 1 .. n : toSvc'[i] = toSvc[i] /\ toSvc[i].seq \in Nat
  BY <1>4 DEF ReqType
<1>6. LET t == toSvc'[n + 1]
      IN \/ Silent(t.op) /\ t.seq = 0 /\ UNCHANGED seq
         \/ ~Silent(t.op) /\ t.seq = seq + 1 /\ seq' = seq + 1
  BY <1>1, <1>4 DEF Silent
<1>7. \A i \in 1 .. Len(toCli) : toCli[i].seq \in Nat
  <2>1. toCli \in Seq(Packets)
    BY LinkTypes
  <2>2. \A i \in 1 .. Len(toCli) : toCli[i] \in Packets
    BY <2>1
  <2>. QED  BY <2>2, PacketTypes
<1>. QED  BY <1>3, <1>4, <1>5, <1>6, <1>7, NumbersGrow

(* The packet at the head of the socket is taken from it. *)
LEMMA PacketGone ==
  ASSUME LinkType, Answered, toCli # <<>>, toCli' = Tail(toCli), UNCHANGED <<toSvc, seq>>
  PROVE  Answered'
<1>. toCli \in Seq(Packets)
  BY LinkTypes
<1>0. PICK n \in Nat : n = Len(toCli) - 1
  BY Shorter
<1>1. Len(toCli') = n /\ \A i \in 1 .. n : toCli'[i] = toCli[i + 1] /\ i + 1 \in 1 .. Len(toCli)
  BY <1>0, Shorter
<1>. QED  BY <1>1 DEF Answered


LEMMA ipc_initOK ==
  ASSUME IInv, ipc_init
  PROVE  IInv'
<1>. USE DEF IInv, TypeOK, ipc_init, Rest, ipc_disconnect, NoLink,
           ipc_schedule_reconnect, Lesser, NoFault, Fault, timer, Call, Connected,
           Attempt
<1>1. ThreadType'
  BY DEF ThreadType, CallOps, UserOps
<1>2. TimerType'
  BY DEF TimerType
<1>3. CountType'
  BY DEF CountType
<1>4. FlagType'
  BY DEF FlagType
<1>5. LinkType' /\ NothingLost'
  BY SameTypes, NoTypes, SameData, NoData DEF Open
<1>6. Open'
  BY DEF Open, Calls, Waiting, ThreadType
<1>7. Calls'
  BY DEF Calls, UserOps, ThreadType
<1>8. Asked' /\ Answered'
  BY SameNumbers, NoNumbers DEF Open
<1>9. Current'
  BY DEF Current, Calls, Open, ThreadType
<1>10. Registers'
  BY DEF Registers, Registering, Calls, Open, Waiting
<1>11. Follows'
  <2>1. linked' => toSvc' = <<>> /\ sub' = FALSE /\ op' \in Registering
    BY DEF Open, FlagType, Registering
  <2>. QED  BY <2>1, NoQueue DEF Follows, Registering
<1>12. Due'
  BY DEF Due, Open, TimerType
<1>. QED
  BY <1>1, <1>2, <1>3, <1>4, <1>5, <1>6, <1>7, <1>8, <1>9, <1>10, <1>11, <1>12

LEMMA ipc_check_reconnectOK ==
  ASSUME IInv, ipc_check_reconnect
  PROVE  IInv'
<1>. USE DEF IInv, TypeOK, ipc_check_reconnect, ipc_try_reconnect, link, Rest,
           ipc_schedule_reconnect, Lesser, NoFault, Fault, timer, Call, Connected,
           Attempt
<1>1. ThreadType'
  BY DEF ThreadType, CallOps, UserOps
<1>2. TimerType'
  BY DEF TimerType
<1>3. CountType'
  BY DEF CountType
<1>4. FlagType'
  BY DEF FlagType
<1>5. LinkType' /\ NothingLost'
  BY SameTypes, NoTypes, SameData, NoData DEF Open
<1>6. Open'
  BY DEF Open, Calls, Waiting, ThreadType
<1>7. Calls'
  BY DEF Calls, UserOps, ThreadType
<1>8. Asked' /\ Answered'
  BY SameNumbers, NoNumbers DEF Open
<1>9. Current'
  BY DEF Current, Calls, Open, ThreadType
<1>10. Registers'
  BY DEF Registers, Registering, Calls, Open, Waiting
<1>11. Follows'
  <2>1. linked' => toSvc' = <<>> /\ sub' = FALSE /\ op' \in Registering
    BY DEF Open, FlagType, Registering
  <2>. QED  BY <2>1, NoQueue DEF Follows, Registering
<1>12. Due'
  BY DEF Due, Open, TimerType
<1>. QED
  BY <1>1, <1>2, <1>3, <1>4, <1>5, <1>6, <1>7, <1>8, <1>9, <1>10, <1>11, <1>12

LEMMA UserCallOK ==
  ASSUME IInv, NEW o \in UserOps, UserCall(o)
  PROVE  IInv'
<1>. USE DEF IInv, TypeOK, UserCall, ipc_try_reconnect, link, Rest,
           ipc_schedule_reconnect, Lesser, NoFault, Fault, timer, Call, Connected,
           Attempt
<1>1. ThreadType'
  BY DEF ThreadType, CallOps, UserOps
<1>2. TimerType'
  BY DEF TimerType
<1>3. CountType'
  BY DEF CountType
<1>4. FlagType'
  BY DEF FlagType
<1>5. LinkType' /\ NothingLost'
  BY SameTypes, NoTypes, SameData, NoData DEF Open
<1>6. Open'
  BY DEF Open, Calls, Waiting, ThreadType
<1>7. Calls'
  BY DEF Calls, UserOps, ThreadType
<1>8. Asked' /\ Answered'
  BY SameNumbers, NoNumbers DEF Open
<1>9. Current'
  BY DEF Current, Calls, Open, ThreadType
<1>10. Registers'
  BY DEF Registers, Registering, Calls, Open, Waiting
<1>11. Follows'
  <2>1. CASE fd = "open"
    <3>1. /\ op = "none" /\ op' = o /\ pc' = "call" /\ (o = "live" => ~live)
          /\ UNCHANGED <<linked, toSvc, sub, live>>
      BY <2>1 DEF Calls
    <3>. QED  BY <3>1, SameQueue DEF Follows, Registering, UserOps
  <2>2. CASE fd = "closed"
    <3>1. linked' => toSvc' = <<>> /\ sub' = FALSE /\ op' \in Registering
      BY <2>2 DEF Open, FlagType, Registering
    <3>. QED  BY <3>1, NoQueue DEF Follows, Registering
  <2>. QED  BY <2>1, <2>2 DEF ThreadType
<1>12. Due'
  BY DEF Due, Open, TimerType
<1>. QED
  BY <1>1, <1>2, <1>3, <1>4, <1>5, <1>6, <1>7, <1>8, <1>9, <1>10, <1>11, <1>12

LEMMA AckBrokenOK ==
  ASSUME IInv, AckBroken
  PROVE  IInv'
<1>. USE DEF IInv, TypeOK, AckBroken, Return, ipc_disconnect, NoLink,
           ipc_schedule_reconnect, Lesser, Fault, NoFault
<1>1. ThreadType'
  BY DEF ThreadType, CallOps, UserOps
<1>2. TimerType'
  BY DEF TimerType
<1>3. CountType'
  BY DEF CountType
<1>4. FlagType'
  BY DEF FlagType
<1>5. LinkType' /\ NothingLost'
  BY SameTypes, NoTypes, SameData, NoData DEF Open
<1>6. Open'
  BY DEF Open, Calls, Waiting, ThreadType
<1>7. Calls'
  BY DEF Calls, UserOps, ThreadType
<1>8. Asked' /\ Answered'
  BY SameNumbers, NoNumbers DEF Open
<1>9. Current'
  BY DEF Current, Calls, Open, ThreadType
<1>10. Registers'
  BY DEF Registers, Registering, Calls, Open, Waiting
<1>11. Follows'
  BY SameQueue, NoQueue DEF Follows, Registering, Calls, Open, UserOps
<1>12. Due'
  BY DEF Due, Open, TimerType
<1>. QED
  BY <1>1, <1>2, <1>3, <1>4, <1>5, <1>6, <1>7, <1>8, <1>9, <1>10, <1>11, <1>12

LEMMA AckTimeoutOK ==
  ASSUME IInv, AckTimeout
  PROVE  IInv'
<1>. USE DEF IInv, TypeOK, AckTimeout, link, timer, Return, Fault, NoFault
<1>1. ThreadType'
  BY DEF ThreadType, CallOps, UserOps
<1>2. TimerType'
  BY DEF TimerType
<1>3. CountType'
  BY DEF CountType
<1>4. FlagType'
  BY DEF FlagType
<1>5. LinkType' /\ NothingLost'
  BY SameTypes, NoTypes, SameData, NoData DEF Open
<1>6. Open'
  BY DEF Open, Calls, Waiting, ThreadType
<1>7. Calls'
  BY DEF Calls, UserOps, ThreadType
<1>8. Asked' /\ Answered'
  BY SameNumbers, NoNumbers DEF Open
<1>9. Current'
  BY DEF Current, Calls, Open, ThreadType
<1>10. Registers'
  BY DEF Registers, Registering, Calls, Open, Waiting
<1>11. Follows'
  BY SameQueue, NoQueue DEF Follows, Registering, Calls, Open, UserOps
<1>12. Due'
  BY DEF Due, Open, TimerType
<1>. QED
  BY <1>1, <1>2, <1>3, <1>4, <1>5, <1>6, <1>7, <1>8, <1>9, <1>10, <1>11, <1>12

LEMMA InitReturnsOK ==
  ASSUME IInv, InitReturns
  PROVE  IInv'
<1>. USE DEF IInv, TypeOK, InitReturns, bounds, Rest, InitFails, DropIfConnected,
           Stay, link, timer, ipc_disconnect, NoLink, ipc_schedule_reconnect, Lesser
<1>1. ThreadType'
  BY DEF ThreadType, CallOps, UserOps
<1>2. TimerType'
  BY DEF TimerType
<1>3. CountType'
  BY DEF CountType
<1>4. FlagType'
  BY DEF FlagType
<1>5. LinkType' /\ NothingLost'
  BY SameTypes, NoTypes, SameData, NoData DEF Open
<1>6. Open'
  BY DEF Open, Calls, Waiting, ThreadType
<1>7. Calls'
  BY DEF Calls, UserOps, ThreadType
<1>8. Asked' /\ Answered'
  BY SameNumbers, NoNumbers DEF Open
<1>9. Current'
  BY DEF Current, Calls, Open, ThreadType
<1>10. Registers'
  BY DEF Registers, Registering, Calls, Open, Waiting
<1>11. Follows'
  BY SameQueue, NoQueue DEF Follows, Registering, Calls, Open, UserOps
<1>12. Due'
  BY DEF Due, Open, TimerType
<1>. QED
  BY <1>1, <1>2, <1>3, <1>4, <1>5, <1>6, <1>7, <1>8, <1>9, <1>10, <1>11, <1>12

LEMMA RegisterReturnsOK ==
  ASSUME IInv, RegisterReturns
  PROVE  IInv'
<1>. USE DEF IInv, TypeOK, RegisterReturns, bounds, Rest, CallbackFails,
           DropIfConnected, Stay, link, timer, ipc_disconnect, NoLink,
           ipc_schedule_reconnect, Lesser, AttemptEnds, Call, ipc_reset_backoff
<1>1. ThreadType'
  BY DEF ThreadType, CallOps, UserOps
<1>2. TimerType'
  BY DEF TimerType
<1>3. CountType'
  BY DEF CountType
<1>4. FlagType'
  BY DEF FlagType
<1>5. LinkType' /\ NothingLost'
  BY SameTypes, NoTypes, SameData, NoData DEF Open
<1>6. Open'
  BY DEF Open, Calls, Waiting, ThreadType
<1>7. Calls'
  BY DEF Calls, UserOps, ThreadType
<1>8. Asked' /\ Answered'
  BY SameNumbers, NoNumbers DEF Open
<1>9. Current'
  BY DEF Current, Calls, Open, ThreadType
<1>10. Registers'
  BY DEF Registers, Registering, Calls, Open, Waiting
<1>11. Follows'
  BY SameQueue, NoQueue DEF Follows, Registering, Calls, Open, UserOps
<1>12. Due'
  BY DEF Due, Open, TimerType
<1>. QED
  BY <1>1, <1>2, <1>3, <1>4, <1>5, <1>6, <1>7, <1>8, <1>9, <1>10, <1>11, <1>12

LEMMA ResubscribeReturnsOK ==
  ASSUME IInv, ResubscribeReturns
  PROVE  IInv'
<1>. USE DEF IInv, TypeOK, ResubscribeReturns, bounds, AttemptEnds, Call, Rest,
           link, ipc_reset_backoff, Stay, timer
<1>1. ThreadType'
  BY DEF ThreadType, CallOps, UserOps
<1>2. TimerType'
  BY DEF TimerType
<1>3. CountType'
  BY DEF CountType
<1>4. FlagType'
  BY DEF FlagType
<1>5. LinkType' /\ NothingLost'
  BY SameTypes, NoTypes, SameData, NoData DEF Open
<1>6. Open'
  BY DEF Open, Calls, Waiting, ThreadType
<1>7. Calls'
  BY DEF Calls, UserOps, ThreadType
<1>8. Asked' /\ Answered'
  BY SameNumbers, NoNumbers DEF Open
<1>9. Current'
  BY DEF Current, Calls, Open, ThreadType
<1>10. Registers'
  BY DEF Registers, Registering, Calls, Open, Waiting
<1>11. Follows'
  <2>1. live /\ then # "live" /\ (linked => SubAfter) /\ UNCHANGED <<live, toSvc, sub, linked>>
    BY DEF Follows, Calls
  <2>2. op' \in {"none", "wmsg", "talk", "pub"}
    BY <2>1 DEF ThreadType, UserOps
  <2>. QED  BY <2>1, <2>2, SameQueue DEF Follows, Registering
<1>12. Due'
  BY DEF Due, Open, TimerType
<1>. QED
  BY <1>1, <1>2, <1>3, <1>4, <1>5, <1>6, <1>7, <1>8, <1>9, <1>10, <1>11, <1>12

LEMMA SendReturnsOK ==
  ASSUME IInv, SendReturns
  PROVE  IInv'
<1>. USE DEF IInv, TypeOK, SendReturns, bounds, link, timer, Rest
<1>1. ThreadType'
  BY DEF ThreadType, CallOps, UserOps
<1>2. TimerType'
  BY DEF TimerType
<1>3. CountType'
  BY DEF CountType
<1>4. FlagType'
  BY DEF FlagType
<1>5. LinkType' /\ NothingLost'
  BY SameTypes, NoTypes, SameData, NoData DEF Open
<1>6. Open'
  BY DEF Open, Calls, Waiting, ThreadType
<1>7. Calls'
  BY DEF Calls, UserOps, ThreadType
<1>8. Asked' /\ Answered'
  BY SameNumbers, NoNumbers DEF Open
<1>9. Current'
  BY DEF Current, Calls, Open, ThreadType
<1>10. Registers'
  BY DEF Registers, Registering, Calls, Open, Waiting
<1>11. Follows'
  BY SameQueue, NoQueue DEF Follows, Registering, Calls, Open, UserOps
<1>12. Due'
  BY DEF Due, Open, TimerType
<1>. QED
  BY <1>1, <1>2, <1>3, <1>4, <1>5, <1>6, <1>7, <1>8, <1>9, <1>10, <1>11, <1>12

LEMMA LinkLostOK ==
  ASSUME IInv, LinkLost
  PROVE  IInv'
<1>. USE DEF IInv, TypeOK, LinkLost, thread, ipc_disconnect, NoLink,
           ipc_schedule_reconnect, Lesser, Fault, NoFault
<1>1. ThreadType'
  BY DEF ThreadType, CallOps, UserOps
<1>2. TimerType'
  BY DEF TimerType
<1>3. CountType'
  BY DEF CountType
<1>4. FlagType'
  BY DEF FlagType
<1>5. LinkType' /\ NothingLost'
  BY SameTypes, NoTypes, SameData, NoData DEF Open
<1>6. Open'
  BY DEF Open, Calls, Waiting, ThreadType
<1>7. Calls'
  BY DEF Calls, UserOps, ThreadType
<1>8. Asked' /\ Answered'
  BY SameNumbers, NoNumbers DEF Open
<1>9. Current'
  BY DEF Current, Calls, Open, ThreadType
<1>10. Registers'
  BY DEF Registers, Registering, Calls, Open, Waiting
<1>11. Follows'
  BY SameQueue, NoQueue DEF Follows, Registering, Calls, Open, UserOps
<1>12. Due'
  BY DEF Due, Open, TimerType
<1>. QED
  BY <1>1, <1>2, <1>3, <1>4, <1>5, <1>6, <1>7, <1>8, <1>9, <1>10, <1>11, <1>12

LEMMA TickOK ==
  ASSUME IInv, Tick
  PROVE  IInv'
<1>. USE DEF IInv, TypeOK, Tick, bounds, link, thread
<1>1. ThreadType'
  BY DEF ThreadType, CallOps, UserOps
<1>2. TimerType'
  BY DEF TimerType
<1>3. CountType'
  BY DEF CountType
<1>4. FlagType'
  BY DEF FlagType
<1>5. LinkType' /\ NothingLost'
  BY SameTypes, NoTypes, SameData, NoData DEF Open
<1>6. Open'
  BY DEF Open, Calls, Waiting, ThreadType
<1>7. Calls'
  BY DEF Calls, UserOps, ThreadType
<1>8. Asked' /\ Answered'
  BY SameNumbers, NoNumbers DEF Open
<1>9. Current'
  BY DEF Current, Calls, Open, ThreadType
<1>10. Registers'
  BY DEF Registers, Registering, Calls, Open, Waiting
<1>11. Follows'
  BY SameQueue, NoQueue DEF Follows, Registering, Calls, Open, UserOps
<1>12. Due'
  BY DEF Due, Open, TimerType
<1>. QED
  BY <1>1, <1>2, <1>3, <1>4, <1>5, <1>6, <1>7, <1>8, <1>9, <1>10, <1>11, <1>12

LEMMA SvcStartsOK ==
  ASSUME IInv, SvcStarts
  PROVE  IInv'
<1>. USE DEF IInv, TypeOK, SvcStarts, bounds, link, thread, timer
<1>1. ThreadType'
  BY DEF ThreadType, CallOps, UserOps
<1>2. TimerType'
  BY DEF TimerType
<1>3. CountType'
  BY DEF CountType
<1>4. FlagType'
  BY DEF FlagType
<1>5. LinkType' /\ NothingLost'
  BY SameTypes, NoTypes, SameData, NoData DEF Open
<1>6. Open'
  BY DEF Open, Calls, Waiting, ThreadType
<1>7. Calls'
  BY DEF Calls, UserOps, ThreadType
<1>8. Asked' /\ Answered'
  BY SameNumbers, NoNumbers DEF Open
<1>9. Current'
  BY DEF Current, Calls, Open, ThreadType
<1>10. Registers'
  BY DEF Registers, Registering, Calls, Open, Waiting
<1>11. Follows'
  BY SameQueue, NoQueue DEF Follows, Registering, Calls, Open, UserOps
<1>12. Due'
  BY DEF Due, Open, TimerType
<1>. QED
  BY <1>1, <1>2, <1>3, <1>4, <1>5, <1>6, <1>7, <1>8, <1>9, <1>10, <1>11, <1>12

LEMMA SvcClosesOK ==
  ASSUME IInv, SvcCloses
  PROVE  IInv'
<1>. USE DEF IInv, TypeOK, SvcCloses, thread, timer, Fault
<1>1. ThreadType'
  BY DEF ThreadType, CallOps, UserOps
<1>2. TimerType'
  BY DEF TimerType
<1>3. CountType'
  BY DEF CountType
<1>4. FlagType'
  BY DEF FlagType
<1>5. LinkType' /\ NothingLost'
  BY SameData DEF LinkType
<1>6. Open'
  BY DEF Open, Calls, Waiting, ThreadType
<1>7. Calls'
  BY DEF Calls, UserOps, ThreadType
<1>8. Asked' /\ Answered'
  BY DEF Asked, Answered
<1>9. Current'
  BY DEF Current, Calls, Open, ThreadType
<1>10. Registers'
  BY DEF Registers, Registering, Calls, Open, Waiting
<1>11. Follows'
  BY SameQueue, NoQueue DEF Follows, Registering, Calls, Open, UserOps
<1>12. Due'
  BY DEF Due, Open, TimerType
<1>. QED
  BY <1>1, <1>2, <1>3, <1>4, <1>5, <1>6, <1>7, <1>8, <1>9, <1>10, <1>11, <1>12

LEMMA HandlePendingOK ==
  ASSUME IInv, HandlePending
  PROVE  IInv'
<1>. USE DEF IInv, TypeOK, HandlePending, bounds, thread, timer, Handled
<1>1. ThreadType'
  BY DEF ThreadType, CallOps, UserOps
<1>2. TimerType'
  BY DEF TimerType
<1>0. /\ pend' \in Seq(DataType) /\ Len(pend) \in Nat /\ Len(pend) > 0 /\ Len(pend') = Len(pend) - 1
      /\ Head(pend) = pend[1] /\ pend[1].kind = "data" /\ pend[1].seq = got + 1
      /\ \A i \in 1 .. Len(pend') : pend'[i] = pend[i + 1] /\ i + 1 \in 1 .. Len(pend)
  <2>1. pend \in Seq(DataType)
    BY LinkTypes
  <2>2. Head(pend) \in DataType /\ Head(pend) = pend[1] /\ 1 \in 1 .. Len(pend)
    BY <2>1, Shorter
  <2>3. pend[1].kind = "data" /\ pend[1].seq = got + 1
    BY <2>2 DEF DataType, NothingLost
  <2>. QED  BY <2>1, <2>2, <2>3, Shorter
<1>b. got' = got + 1 /\ got \in Nat /\ sent \in Nat
  BY <1>0 DEF CountType
<1>c. ReadSoFar' = ReadSoFar /\ got + Len(pend) <= sent
  <2>1. DataShape
    BY DataParts
  <2>2. ReadSoFar <= sent
    BY <2>1 DEF DataShape
  <2>. QED  BY <1>0, <1>b, <2>2 DEF ReadSoFar
<1>3. CountType'
  BY <1>0, <1>b, <1>c DEF CountType
<1>4. FlagType'
  BY DEF FlagType
<1>5. LinkType' /\ NothingLost'
  <2>1. LinkType'
    BY <1>0, LinkTypes DEF LinkType, DataType
  <2>2. \A i \in 1 .. Len(pend') : pend'[i].seq = got' + i
    <3>1. \A i \in 1 .. Len(pend) : pend[i].seq = got + i
      BY DEF NothingLost
    <3>2. \A i \in 1 .. Len(pend') : pend'[i] = pend[i + 1] /\ pend[i + 1].seq = got + (i + 1)
      BY <1>0, <3>1
    <3>3. \A i \in 1 .. Len(pend') : got + (i + 1) = got' + i
      BY <1>0, <1>b
    <3>. QED  BY <3>2, <3>3
  <2>3. DataShape'
    BY <1>c, <2>2, DataParts DEF DataShape, Arrives, IsData
  <2>. QED  BY <2>1, <2>3, DataParts
<1>6. Open'
  BY DEF Open, Calls, Waiting, ThreadType
<1>7. Calls'
  BY DEF Calls, UserOps, ThreadType
<1>8. Asked' /\ Answered'
  BY SameNumbers, NoNumbers DEF Open
<1>9. Current'
  BY DEF Current, Calls, Open, ThreadType
<1>10. Registers'
  BY DEF Registers, Registering, Calls, Open, Waiting
<1>11. Follows'
  BY SameQueue, NoQueue DEF Follows, Registering, Calls, Open, UserOps
<1>12. Due'
  BY DEF Due, Open, TimerType
<1>. QED
  BY <1>1, <1>2, <1>3, <1>4, <1>5, <1>6, <1>7, <1>8, <1>9, <1>10, <1>11, <1>12

LEMMA HandlePacketOK ==
  ASSUME IInv, HandlePacket
  PROVE  IInv'
<1>. USE DEF IInv, TypeOK, HandlePacket, bounds, thread, timer, Handled
<1>1. ThreadType'
  BY DEF ThreadType, CallOps, UserOps
<1>2. TimerType'
  BY DEF TimerType
<1>0. /\ toCli \in Seq(Packets) /\ Head(toCli) \in Packets /\ toCli' \in Seq(Packets)
      /\ IsData(Head(toCli)) => Head(toCli).seq = ReadSoFar + 1 /\ ReadSoFar < sent
      /\ got \in Nat /\ sent \in Nat
  <2>1. toCli \in Seq(Packets)
    BY LinkTypes
  <2>2. Head(toCli) \in Packets /\ Tail(toCli) \in Seq(Packets)
    BY <2>1, Shorter
  <2>. QED  BY <2>1, <2>2, HeadIsNext DEF CountType
<1>b. ReadSoFar = got /\ got' = IF IsData(Head(toCli)) THEN got + 1 ELSE got
  BY <1>0 DEF ReadSoFar, IsData
<1>3. CountType'
  BY <1>0, <1>b DEF CountType
<1>4. FlagType'
  BY DEF FlagType
<1>5. LinkType' /\ NothingLost'
  <2>1. LinkType'
    BY <1>0 DEF LinkType
  <2>2. ReadSoFar' = IF IsData(Head(toCli)) THEN ReadSoFar + 1 ELSE ReadSoFar
    BY <1>0, <1>b DEF ReadSoFar
  <2>3. got' \in Nat /\ pend' \in Seq([kind : {"data"}, seq : Nat]) /\ pend' = <<>>
    BY <1>0, <1>b
  <2>. QED  BY <2>1, <2>2, <2>3, PacketRead
<1>6. Open'
  BY DEF Open, Calls, Waiting, ThreadType
<1>7. Calls'
  BY DEF Calls, UserOps, ThreadType
<1>8. Asked' /\ Answered'
  BY PacketGone DEF Asked, Silent
<1>9. Current'
  BY DEF Current, Calls, Open, ThreadType
<1>10. Registers'
  BY DEF Registers, Registering, Calls, Open, Waiting
<1>11. Follows'
  BY SameQueue, NoQueue DEF Follows, Registering, Calls, Open, UserOps
<1>12. Due'
  BY DEF Due, Open, TimerType
<1>. QED
  BY <1>1, <1>2, <1>3, <1>4, <1>5, <1>6, <1>7, <1>8, <1>9, <1>10, <1>11, <1>12

LEMMA ReadPacketOK ==
  ASSUME IInv, ReadPacket
  PROVE  IInv'
<1>. USE DEF IInv, TypeOK, ReadPacket, bounds, timer, ipc_enqueue_pending, IsAnswer,
           Return
<1>0. /\ toCli \in Seq(Packets) /\ Head(toCli) \in Packets /\ toCli' \in Seq(Packets)
      /\ IsData(Head(toCli)) => Head(toCli).seq = ReadSoFar + 1 /\ ReadSoFar < sent
      /\ got \in Nat /\ sent \in Nat
  <2>1. toCli \in Seq(Packets)
    BY LinkTypes
  <2>2. Head(toCli) \in Packets /\ Tail(toCli) \in Seq(Packets)
    BY <2>1, Shorter
  <2>. QED  BY <2>1, <2>2, HeadIsNext DEF CountType
<1>b. IsAnswer(Head(toCli)) => Head(toCli).code \in {"ok", "err"}
  BY <1>0 DEF Packets
<1>1. ThreadType'
  BY <1>b DEF ThreadType
<1>2. TimerType'
  BY DEF TimerType
<1>3. CountType'
  BY DEF CountType
<1>4. FlagType'
  BY DEF FlagType
<1>5. LinkType' /\ NothingLost'
  <2>1. CASE IsData(Head(toCli))
    <3>1. Head(toCli) \in DataType /\ pend' = Append(pend, Head(toCli)) /\ pend \in Seq(DataType)
      BY <1>0, <2>1, PacketTypes, LinkTypes
    <3>2. /\ pend' \in Seq(DataType) /\ Len(pend) \in Nat /\ Len(pend') = Len(pend) + 1
          /\ pend'[Len(pend) + 1] = Head(toCli)
          /\ \A i \in 1 .. Len(pend) : pend'[i] = pend[i]
      BY <3>1, Longer
    <3>3. LinkType'
      BY <1>0, <3>2 DEF LinkType, DataType
    <3>4. ReadSoFar' = ReadSoFar + 1
      BY <1>0, <3>2 DEF ReadSoFar
    <3>5. \A i \in 1 .. Len(pend') : pend'[i].seq = got' + i
      <4>1. \A i \in 1 .. Len(pend) : pend[i].seq = got + i
        BY DEF NothingLost
      <4>2. Head(toCli).seq = got + (Len(pend) + 1) /\ UNCHANGED got
        BY <1>0, <2>1, <3>2 DEF ReadSoFar
      <4>3. ASSUME NEW i \in 1 .. Len(pend') PROVE pend'[i].seq = got' + i
        <5>1. i = Len(pend) + 1 \/ i \in 1 .. Len(pend)
          BY <3>2
        <5>. QED  BY <3>2, <4>1, <4>2, <5>1
      <4>. QED  BY <4>3
    <3>. QED  BY <1>0, <2>1, <3>2, <3>3, <3>4, <3>5, PacketRead DEF DataType
  <2>2. CASE ~IsData(Head(toCli))
    <3>1. UNCHANGED pend
      BY <1>0, <2>2, PacketTypes
    <3>2. LinkType' /\ pend' \in Seq([kind : {"data"}, seq : Nat])
      BY <1>0, <3>1 DEF LinkType
    <3>3. ReadSoFar' = ReadSoFar /\ \A i \in 1 .. Len(pend') : pend'[i].seq = got' + i
      BY <3>1 DEF ReadSoFar, NothingLost
    <3>. QED  BY <1>0, <2>2, <3>2, <3>3, PacketRead
  <2>. QED  BY <2>1, <2>2
<1>6. Open'
  BY DEF Open, Calls, Waiting, ThreadType
<1>7. Calls'
  BY DEF Calls, UserOps, ThreadType
<1>8. Asked' /\ Answered'
  BY PacketGone DEF Asked, Silent
<1>9. Current'
  <2>1. /\ Head(toCli) = toCli[1] /\ 1 \in 1 .. Len(toCli) /\ Len(toCli') = Len(toCli) - 1
        /\ Len(toCli) \in Nat
        /\ \A i \in 1 .. Len(toCli') : toCli'[i] = toCli[i + 1] /\ i + 1 \in 1 .. Len(toCli)
    BY <1>0, Shorter
  <2>2. \A i \in 1 .. Len(toCli') : toCli'[i].kind = "ack" /\ toCli'[i].seq = want' =>
          toCli'[i].code = truth'
    BY <2>1 DEF Current
  <2>3. pc' = "ret" => /\ want' # 0 /\ truth' = res'
                       /\ \A i \in 1 .. Len(toSvc') : toSvc'[i].seq # want'
    BY <2>1 DEF Current, Answered
  <2>. QED  BY <2>2, <2>3 DEF Current
<1>10. Registers'
  BY DEF Registers, Registering, Calls, Open, Waiting
<1>11. Follows'
  BY SameQueue, NoQueue DEF Follows, Registering, Calls, Open, UserOps
<1>12. Due'
  BY DEF Due, Open, TimerType
<1>. QED
  BY <1>1, <1>2, <1>3, <1>4, <1>5, <1>6, <1>7, <1>8, <1>9, <1>10, <1>11, <1>12

LEMMA SvcSendsOK ==
  ASSUME IInv, SvcSends
  PROVE  IInv'
<1>. USE DEF IInv, TypeOK, SvcSends, bounds, thread, timer
<1>1. ThreadType'
  BY DEF ThreadType, CallOps, UserOps
<1>2. TimerType'
  BY DEF TimerType
<1>3. CountType'
  BY DEF CountType
<1>4. FlagType'
  BY DEF FlagType
<1>0. PICK p \in Packets : /\ p = [kind |-> "data", seq |-> sent'] /\ IsData(p) /\ p.seq = sent'
                           /\ p.kind # "ack"
  BY DEF Packets, IsData, CountType
<1>b. /\ toCli' \in Seq(Packets) /\ Len(toCli) \in Nat /\ Len(toCli') = Len(toCli) + 1
      /\ toCli'[Len(toCli) + 1] = p
      /\ \A i \in 1 .. Len(toCli) : toCli'[i] = toCli[i]
  BY <1>0, LinkTypes, Longer
<1>5. LinkType' /\ NothingLost'
  BY <1>0, <1>b, PacketSent DEF LinkType
<1>6. Open'
  BY DEF Open, Calls, Waiting, ThreadType
<1>7. Calls'
  BY DEF Calls, UserOps, ThreadType
<1>8. Asked' /\ Answered'
  BY <1>0, <1>b DEF Asked, Answered, Silent
<1>9. Current'
  BY DEF Current, Calls, Open, ThreadType
<1>10. Registers'
  BY DEF Registers, Registering, Calls, Open, Waiting
<1>11. Follows'
  BY SameQueue, NoQueue DEF Follows, Registering, Calls, Open, UserOps
<1>12. Due'
  BY DEF Due, Open, TimerType
<1>. QED
  BY <1>1, <1>2, <1>3, <1>4, <1>5, <1>6, <1>7, <1>8, <1>9, <1>10, <1>11, <1>12

(* Whatever was on a link that is given up is gone. *)
LEMMA GivenUp ==
  ASSUME ipc_disconnect
  PROVE  LinkType' /\ NothingLost' /\ Asked' /\ Answered' /\ ~SubAfter'
BY NoTypes, NoData, NoNumbers, NoQueue DEF ipc_disconnect, NoLink

(* The numbers on the link are natural numbers. *)
LEMMA NumbersOnLink ==
  ASSUME LinkType
  PROVE  /\ \A i \in 1 .. Len(toCli) : toCli[i].seq \in Nat
         /\ \A i \in 1 .. Len(toSvc) : toSvc[i].seq \in Nat
<1>1. toCli \in Seq(Packets) /\ toSvc \in Seq(ReqType)
  BY LinkTypes
<1>2. /\ \A i \in 1 .. Len(toCli) : toCli[i] \in Packets
      /\ \A i \in 1 .. Len(toSvc) : toSvc[i] \in ReqType
  BY <1>1
<1>. QED  BY <1>2, PacketTypes DEF ReqType

LEMMA RequestOK ==
  ASSUME IInv, op # "pub", Request
  PROVE  IInv'
<1>. USE DEF IInv, TypeOK, Request
<1>1. CASE /\ linked /\ toSvc' = Append(toSvc, [op |-> op, seq |-> seq'])
           /\ Goto("ack") /\ NoFault
           /\ UNCHANGED <<fd, pend, timer, linked, toCli, reg, sub, sent, got, res>>
  <2>. USE <1>1 DEF Goto, NoFault, timer
  <2>0. /\ op \in CallOps /\ ~Silent(op) /\ fd = "open" /\ seq \in Nat /\ seq' = seq + 1
        /\ want' = seq + 1
    BY DEF ThreadType, Calls, Open, Silent, CallOps, UserOps
  <2>1. ThreadType'
    BY DEF ThreadType
  <2>2. TimerType' /\ CountType' /\ FlagType' /\ Due'
    BY DEF TimerType, CountType, FlagType, Due
  <2>3. toSvc' \in Seq(ReqType) /\ Asked' /\ Answered'
    BY <2>0, RequestWritten
  <2>4. LinkType'
    BY <2>3 DEF LinkType, ReqType
  <2>5. NothingLost'
    BY SameData
  <2>6. Open' /\ Calls'
    BY <2>0 DEF Open, Calls, Waiting
  <2>7. /\ Len(toSvc) \in Nat /\ Len(toSvc') = Len(toSvc) + 1
        /\ toSvc'[Len(toSvc) + 1].op = op
        /\ \A i \in 1 .. Len(toSvc) : toSvc'[i] = toSvc[i] /\ toSvc[i].seq # want'
    <3>1. PICK r \in ReqType : r.op = op /\ r.seq = seq' /\ r = [op |-> op, seq |-> seq']
      BY <2>0 DEF ReqType
    <3>2. toSvc \in Seq(ReqType)
      BY LinkTypes
    <3>3. \A i \in 1 .. Len(toSvc) : toSvc[i].seq \in Nat /\ toSvc[i].seq <= seq
      BY NumbersOnLink DEF Asked
    <3>4. \A i \in 1 .. Len(toSvc) : toSvc[i].seq # want'
      BY <2>0, <3>3
    <3>. QED  BY <3>1, <3>2, <3>4, Longer
  <2>8. \A i \in 1 .. Len(toCli) : toCli[i].kind = "ack" => toCli[i].seq # want'
    <3>1. \A i \in 1 .. Len(toCli) : toCli[i].kind = "ack" => toCli[i].seq \in Nat /\ toCli[i].seq <= seq
      BY NumbersOnLink DEF Answered
    <3>. QED  BY <2>0, <3>1
  <2>9. Current'
    BY <2>0, <2>7, <2>8 DEF Current
  <2>10. Registers'
    BY <2>8 DEF Registers
  <2>11. Follows'
    <3>1. PICK r \in ReqType : r.op = op /\ r = [op |-> op, seq |-> seq']
      BY <2>0 DEF ReqType
    <3>2. SubAfter' <=> IF op \in {"live", "resub", "unsub"} THEN op # "unsub" ELSE SubAfter
      BY <3>1, QueueGrows DEF ReqType
    <3>. QED  BY <2>0, <3>2 DEF Follows, Registering, CallOps, UserOps
  <2>. QED  BY <2>1, <2>2, <2>3, <2>4, <2>5, <2>6, <2>9, <2>10, <2>11
<1>2. CASE /\ IF linked THEN Fault ELSE NoFault
           /\ ipc_disconnect /\ Return("fail")
  <2>. USE <1>2 DEF Fault, NoFault, ipc_disconnect, ipc_schedule_reconnect, NoLink, Lesser, Return
  <2>1. ThreadType'
    BY DEF ThreadType
  <2>2. TimerType'
    BY DEF TimerType
  <2>3. CountType'
    BY DEF CountType
  <2>4. FlagType'
    BY DEF FlagType
  <2>5. LinkType' /\ NothingLost' /\ Asked' /\ Answered' /\ ~SubAfter'
    BY GivenUp
  <2>6. Open' /\ Calls'
    BY DEF Open, Calls, Waiting
  <2>7. Current' /\ Registers' /\ Follows'
    BY DEF Current, Registers, Follows
  <2>8. Due'
    BY DEF Due, TimerType
  <2>. QED  BY <2>1, <2>2, <2>3, <2>4, <2>5, <2>6, <2>7, <2>8
<1>. QED  BY <1>1, <1>2

(* UNSUB and PUB: the service will have read it, or there is no link. *)
LEMMA WriteOK ==
  ASSUME IInv, NEW o \in {"pub", "unsub"}, Write(o), UNCHANGED seq
  PROVE  /\ LinkType' /\ NothingLost' /\ Asked' /\ Answered'
         /\ faults' \in 0 .. MaxFaults /\ sent' \in 0 .. MaxData /\ got' \in 0 .. MaxData
         /\ backoff' \in BackoffInit .. BackoffMax /\ wait' \in 0 .. 2 * BackoffMax + Spread
         /\ \/ /\ linked /\ UNCHANGED <<fd, wait, linked, toCli, reg, sub>>
               /\ SubAfter' <=> o # "unsub" /\ SubAfter
            \/ /\ fd' = "closed" /\ wait' > 0 /\ linked' = FALSE /\ reg' = FALSE /\ sub' = FALSE
               /\ pend' = <<>> /\ toSvc' = <<>> /\ toCli' = <<>> /\ sent' = 0 /\ got' = 0
<1>. USE DEF IInv, TypeOK, Write
<1>1. CASE /\ linked /\ toSvc' = Append(toSvc, [op |-> o, seq |-> 0])
           /\ NoFault
           /\ UNCHANGED <<fd, pend, timer, linked, toCli, reg, sub, sent, got>>
  <2>. USE <1>1 DEF NoFault, timer
  <2>1. o \in CallOps \cup {"unsub"} /\ Silent(o)
    BY DEF CallOps, UserOps, Silent
  <2>2. seq \in Nat
    BY DEF ThreadType
  <2>3. toSvc' \in Seq(ReqType) /\ Asked' /\ Answered'
    BY <2>1, <2>2, RequestWritten
  <2>4. LinkType' /\ NothingLost'
    BY <2>3, SameData DEF LinkType, ReqType
  <2>5. PICK r \in ReqType : r.op = o /\ r = [op |-> o, seq |-> 0]
    BY <2>1 DEF ReqType
  <2>6. SubAfter' <=> IF o \in {"live", "resub", "unsub"} THEN o # "unsub" ELSE SubAfter
    BY <2>5, QueueGrows DEF ReqType
  <2>. QED  BY <2>3, <2>4, <2>6 DEF TimerType, CountType
<1>2. CASE (IF linked THEN Fault ELSE NoFault) /\ ipc_disconnect
  <2>. USE <1>2 DEF Fault, NoFault
  <2>1. faults' \in 0 .. MaxFaults
    BY DEF CountType
  <2>2. LinkType' /\ NothingLost' /\ Asked' /\ Answered'
    BY GivenUp
  <2>3. /\ fd' = "closed" /\ linked' = FALSE /\ reg' = FALSE /\ sub' = FALSE
        /\ pend' = <<>> /\ toSvc' = <<>> /\ toCli' = <<>> /\ sent' = 0 /\ got' = 0
    BY DEF ipc_disconnect, NoLink
  <2>4. /\ backoff' \in BackoffInit .. BackoffMax /\ wait' \in 0 .. 2 * BackoffMax + Spread
        /\ wait' > 0
    BY DEF ipc_disconnect, ipc_schedule_reconnect, Lesser, TimerType
  <2>. QED  BY <2>1, <2>2, <2>3, <2>4
<1>. QED  BY <1>1, <1>2

(* The process goes back to its event loop after a silent request, or with
   nothing to write. *)
LEMMA BackInLoop ==
  ASSUME IInv, pc # "login", live' \in BOOLEAN,
         pc' = "idle", op' = "none", then' = "none", res' \in {"none", "ok", "err", "fail"},
         UNCHANGED <<seq, want, up, truth, tries, calls>>,
         LinkType', NothingLost', Asked', Answered',
         faults' \in 0 .. MaxFaults, sent' \in 0 .. MaxData, got' \in 0 .. MaxData,
         backoff' \in BackoffInit .. BackoffMax, wait' \in 0 .. 2 * BackoffMax + Spread,
         \/ /\ UNCHANGED <<fd, wait, linked, toCli, reg, sub>>
            /\ fd = "open" \/ UNCHANGED <<pend, toSvc, sent, got>>
            /\ linked => reg /\ (SubAfter' <=> live')
         \/ /\ fd' = "closed" /\ wait' > 0 /\ linked' = FALSE /\ reg' = FALSE /\ sub' = FALSE
            /\ pend' = <<>> /\ toSvc' = <<>> /\ toCli' = <<>> /\ sent' = 0 /\ got' = 0
  PROVE  IInv'
<1>. USE DEF IInv, TypeOK
<1>1. ThreadType'
  BY DEF ThreadType
<1>2. TimerType' /\ CountType'
  BY DEF TimerType, CountType
<1>3. FlagType'
  BY DEF FlagType
<1>4. Open'
  BY DEF Open, Waiting, ThreadType
<1>5. Calls' /\ Due'
  BY DEF Calls, Due
<1>6. Current'
  BY DEF Current
<1>7. Registers' /\ Follows'
  BY DEF Registers, Follows, Registering
<1>. QED  BY <1>1, <1>2, <1>3, <1>4, <1>5, <1>6, <1>7

LEMMA ipc_pubOK ==
  ASSUME IInv, ipc_pub
  PROVE  IInv'
<1>. USE DEF IInv, TypeOK, ipc_pub, Rest
<1>1. linked => reg /\ (SubAfter <=> live)
  BY DEF Registers, Follows, Registering
<1>2. fd = "open"
  BY DEF Open
<1>. HIDE DEF IInv
<1>3. live' \in BOOLEAN /\ UNCHANGED live
  BY DEF IInv, FlagType
<1>4. Write("pub") /\ UNCHANGED seq /\ res' \in {"none", "ok", "err", "fail"} /\ pc # "login"
  OBVIOUS
<1>5. \/ /\ UNCHANGED <<fd, wait, linked, toCli, reg, sub>>
         /\ linked => reg /\ (SubAfter' <=> live')
      \/ /\ fd' = "closed" /\ wait' > 0 /\ linked' = FALSE /\ reg' = FALSE /\ sub' = FALSE
         /\ pend' = <<>> /\ toSvc' = <<>> /\ toCli' = <<>> /\ sent' = 0 /\ got' = 0
  <2>1. "pub" # "unsub" /\ "pub" \in {"pub", "unsub"}
    OBVIOUS
  <2>2. \/ /\ UNCHANGED <<fd, wait, linked, toCli, reg, sub>>
           /\ SubAfter' <=> SubAfter
        \/ /\ fd' = "closed" /\ wait' > 0 /\ linked' = FALSE /\ reg' = FALSE /\ sub' = FALSE
           /\ pend' = <<>> /\ toSvc' = <<>> /\ toCli' = <<>> /\ sent' = 0 /\ got' = 0
    BY <1>4, <2>1, WriteOK
  <2>. HIDE DEF ipc_pub
  <2>. QED  BY <1>1, <1>3, <2>2
<1>. QED  BY <1>2, <1>3, <1>4, <1>5, WriteOK, BackInLoop

LEMMA LeaveLiveOK ==
  ASSUME IInv, LeaveLive
  PROVE  IInv'
<1>. USE DEF IInv, TypeOK, LeaveLive, thread
<1>1. (linked => reg) /\ op = "none" /\ then = "none" /\ (linked => fd = "open")
  BY DEF Registers, Registering, Calls, Open
<1>2. res' \in {"none", "ok", "err", "fail"}
  BY DEF ThreadType
<1>3. CASE fd = "open"
  BY <1>1, <1>2, <1>3, WriteOK, BackInLoop DEF ipc_unsub
<1>4. CASE fd # "open"
  <2>. USE <1>4 DEF ipc_unsub, Stay, NoFault, link, timer
  <2>1. LinkType' /\ NothingLost' /\ Asked' /\ Answered'
    BY SameTypes, SameData, SameNumbers
  <2>2. /\ faults' \in 0 .. MaxFaults /\ sent' \in 0 .. MaxData /\ got' \in 0 .. MaxData
        /\ backoff' \in BackoffInit .. BackoffMax /\ wait' \in 0 .. 2 * BackoffMax + Spread
    BY DEF CountType, TimerType
  <2>. QED  BY <1>1, <1>2, <2>1, <2>2, BackInLoop
<1>. QED  BY <1>3, <1>4

LEMMA LiveReturnsOK ==
  ASSUME IInv, LiveReturns
  PROVE  IInv'
<1>. USE DEF IInv, TypeOK, LiveReturns, Rest
<1>1. (linked => reg /\ SubAfter /\ fd = "open") /\ ~live /\ live \in BOOLEAN
  BY DEF Registers, Registering, Follows, Calls, Open, FlagType
<1>2. CASE res # "ok" /\ fd = "open"
  <2>1. Write("unsub") /\ UNCHANGED <<seq, live>> /\ res' \in {"none", "ok", "err", "fail"}
    BY <1>2 DEF ipc_unsub
  <2>2. \/ /\ UNCHANGED <<fd, wait, linked, toCli, reg, sub>>
           /\ linked => reg /\ (SubAfter' <=> live')
        \/ /\ fd' = "closed" /\ wait' > 0 /\ linked' = FALSE /\ reg' = FALSE /\ sub' = FALSE
           /\ pend' = <<>> /\ toSvc' = <<>> /\ toCli' = <<>> /\ sent' = 0 /\ got' = 0
    BY <1>1, <2>1, WriteOK
  <2>. QED  BY <1>1, <1>2, <2>1, <2>2, WriteOK, BackInLoop
<1>3. CASE ~(res # "ok" /\ fd = "open")
  <2>. USE <1>3 DEF ipc_unsub, Stay, NoFault, link, timer
  <2>1. LinkType' /\ NothingLost' /\ Asked' /\ Answered' /\ (SubAfter' <=> SubAfter)
    BY SameTypes, SameData, SameNumbers, SameQueue
  <2>2. /\ faults' \in 0 .. MaxFaults /\ sent' \in 0 .. MaxData /\ got' \in 0 .. MaxData
        /\ backoff' \in BackoffInit .. BackoffMax /\ wait' \in 0 .. 2 * BackoffMax + Spread
    BY DEF CountType, TimerType
  <2>3. live' \in BOOLEAN /\ (linked => live')
    BY <1>1
  <2>. QED  BY <1>1, <2>1, <2>2, <2>3, BackInLoop
<1>. QED  BY <1>2, <1>3

LEMMA SvcAnswersOK ==
  ASSUME IInv, SvcAnswers
  PROVE  IInv'
<1>. USE DEF IInv, TypeOK, SvcAnswers, thread, timer
<1>. PICK r \in ReqType : r = Head(toSvc)
  BY LinkTypes, Shorter
<1>0. /\ toSvc \in Seq(ReqType) /\ toSvc' \in Seq(ReqType) /\ r = toSvc[1] /\ 1 \in 1 .. Len(toSvc)
      /\ Len(toSvc) \in Nat /\ Len(toSvc') = Len(toSvc) - 1
      /\ \A i \in 1 .. Len(toSvc') : toSvc'[i] = toSvc[i + 1] /\ i + 1 \in 1 .. Len(toSvc)
  <2>1. toSvc \in Seq(ReqType)
    BY LinkTypes
  <2>. QED  BY <2>1, Shorter
<1>1. \/ Silent(r.op) /\ UNCHANGED <<toCli, truth>> /\ NoFault
      \/ /\ ~Silent(r.op)
         /\ \E code \in IF r.op \in {"wmsg", "talk"} THEN {"ok", "err"} ELSE {"ok"} :
              /\ \/ NoFault /\ toCli' = Append(toCli, [kind |-> "ack", seq |-> r.seq,
                                                       code |-> code])
                 \/ Fault /\ UNCHANGED toCli
              /\ truth' = IF r.seq = want THEN code ELSE truth
  OBVIOUS
<1>2. PICK code \in {"ok", "err"} :
        /\ \/ UNCHANGED toCli
           \/ /\ ~Silent(r.op)
              /\ toCli' = Append(toCli, [kind |-> "ack", seq |-> r.seq, code |-> code])
        /\ truth' = IF ~Silent(r.op) /\ r.seq = want THEN code ELSE truth
        /\ r.op \notin {"wmsg", "talk"} => code = "ok"
        /\ Fault \/ NoFault
  BY <1>1
<1>3. Serves(r.op) /\ UNCHANGED <<pc, op, then, want, res, seq, live, linked, fd, pend, sent, got>>
  OBVIOUS
<1>4. r.seq \in Nat /\ r.seq <= seq /\ (r.seq = 0 <=> Silent(r.op))
  BY <1>0 DEF Asked, ReqType
<1>5. \A i \in 1 .. Len(toSvc') : toSvc'[i].seq # r.seq \/ r.seq = 0
  BY <1>0 DEF Asked
<1>6. \/ UNCHANGED toCli
      \/ /\ toCli' \in Seq(Packets) /\ NothingLost' /\ ~Silent(r.op)
         /\ Len(toCli) \in Nat /\ Len(toCli') = Len(toCli) + 1
         /\ toCli'[Len(toCli) + 1].kind = "ack" /\ toCli'[Len(toCli) + 1].seq = r.seq
         /\ toCli'[Len(toCli) + 1].code = code
         /\ \A i \in 1 .. Len(toCli) : toCli'[i] = toCli[i]
  <2>. SUFFICES ASSUME ~Silent(r.op),
                       toCli' = Append(toCli, [kind |-> "ack", seq |-> r.seq, code |-> code])
                PROVE  /\ toCli' \in Seq(Packets) /\ NothingLost'
                       /\ Len(toCli) \in Nat /\ Len(toCli') = Len(toCli) + 1
                       /\ toCli'[Len(toCli) + 1].kind = "ack"
                       /\ toCli'[Len(toCli) + 1].seq = r.seq
                       /\ toCli'[Len(toCli) + 1].code = code
                       /\ \A i \in 1 .. Len(toCli) : toCli'[i] = toCli[i]
    BY <1>2
  <2>1. PICK p \in Packets : /\ p = [kind |-> "ack", seq |-> r.seq, code |-> code]
                             /\ p.kind = "ack" /\ p.seq = r.seq /\ p.code = code /\ ~IsData(p)
    BY <1>4 DEF Packets, IsData
  <2>2. NothingLost'
    BY <1>3, <2>1, PacketSent
  <2>3. toCli \in Seq(Packets)
    BY LinkTypes
  <2>. QED  BY <2>1, <2>2, <2>3, Longer
<1>. HIDE DEF SvcAnswers
<1>7. ThreadType'
  BY <1>2, <1>3 DEF ThreadType
<1>8. TimerType' /\ FlagType'
  BY DEF SvcAnswers, TimerType, FlagType, Serves
<1>9. CountType'
  BY <1>2, <1>3 DEF SvcAnswers, CountType, Fault, NoFault
<1>10. LinkType' /\ NothingLost'
  <2>1. LinkType'
    BY <1>0, <1>3, <1>6 DEF LinkType, ReqType
  <2>2. NothingLost'
    BY <1>3, <1>6, SameData
  <2>. QED  BY <2>1, <2>2
<1>11. Open' /\ Calls' /\ Due'
  BY <1>3 DEF SvcAnswers, Open, Calls, Due, Waiting
<1>12. Asked'
  <2>. SUFFICES ASSUME NEW i \in 1 .. Len(toSvc')
                PROVE  /\ toSvc'[i].seq <= seq /\ (toSvc'[i].seq = 0 <=> Silent(toSvc'[i].op))
                       /\ \A j \in 1 .. Len(toSvc') :
                            toSvc'[i].seq = toSvc'[j].seq /\ toSvc'[i].seq # 0 => i = j
    BY <1>3 DEF Asked, Silent
  <2>1. toSvc'[i].seq <= seq /\ (toSvc'[i].seq = 0 <=> Silent(toSvc'[i].op))
    BY <1>0 DEF Asked
  <2>2. ASSUME NEW j \in 1 .. Len(toSvc'), toSvc'[i].seq = toSvc'[j].seq, toSvc'[i].seq # 0
        PROVE  i = j
    <3>1. i + 1 = j + 1
      BY <1>0, <2>2 DEF Asked
    <3>. QED  BY <3>1
  <2>. QED  BY <2>1, <2>2
<1>13. Answered'
  <2>. SUFFICES ASSUME NEW i \in 1 .. Len(toCli'), toCli'[i].kind = "ack",
                       NEW j \in 1 .. Len(toSvc')
                PROVE  /\ 0 < toCli'[i].seq /\ toCli'[i].seq <= seq
                       /\ toSvc'[j].seq # toCli'[i].seq
    <3>1. ASSUME NEW i \in 1 .. Len(toCli'), toCli'[i].kind = "ack"
          PROVE  0 < toCli'[i].seq /\ toCli'[i].seq <= seq
      <4>1. CASE i \in 1 .. Len(toCli) /\ toCli'[i] = toCli[i]
        BY <3>1, <4>1 DEF Answered
      <4>2. CASE i = Len(toCli) + 1 /\ toCli'[i].seq = r.seq /\ ~Silent(r.op)
        BY <1>4, <4>2
      <4>. QED  BY <1>6, <4>1, <4>2
    <3>. QED  BY <1>3, <3>1 DEF Answered
  <2>1. CASE i \in 1 .. Len(toCli) /\ toCli'[i] = toCli[i]
    BY <1>0, <2>1 DEF Answered
  <2>2. CASE i = Len(toCli) + 1 /\ toCli'[i].seq = r.seq /\ ~Silent(r.op)
    BY <1>4, <1>5, <2>2
  <2>. QED  BY <1>6, <2>1, <2>2
<1>14. Current'
  <2>1. \A i \in 1 .. Len(toCli) : toCli[i].kind = "ack" => toCli[i].seq # r.seq
    BY <1>0 DEF Answered
  <2>2. \A i \in 1 .. Len(toCli') : toCli'[i].kind = "ack" /\ toCli'[i].seq = want =>
          toCli'[i].code = truth'
    BY <1>2, <1>6, <2>1 DEF Current
  <2>3. pc = "ack" => /\ want # 0
                      /\ \A i \in 1 .. Len(toSvc') : toSvc'[i].seq = want => toSvc'[i].op = op
    BY <1>0 DEF Current
  <2>4. pc = "ret" /\ res # "fail" =>
          /\ want # 0 /\ truth' = res
          /\ \A i \in 1 .. Len(toSvc') : toSvc'[i].seq # want
    BY <1>0, <1>2 DEF Current
  <2>. QED  BY <1>3, <2>2, <2>3, <2>4 DEF Current
<1>15. Registers'
  <2>1. reg => reg'
    BY <1>3 DEF Serves
  <2>2. op \in Registering /\ r.op = op => reg'
    BY <1>3 DEF Serves, Registering
  <2>3. pc = "ack" /\ r.seq = want => r.op = op
    BY <1>0 DEF Current
  <2>. QED  BY <1>3, <1>6, <2>1, <2>2, <2>3 DEF Registers
<1>16. Follows'
  <2>1. SubAfter' <=> SubAfter
    BY <1>3, QueueServed DEF SvcAnswers, FlagType
  <2>. QED  BY <1>3, <2>1 DEF Follows
<1>. QED
  BY <1>7, <1>8, <1>9, <1>10, <1>11, <1>12, <1>13, <1>14, <1>15, <1>16

-----------------------------------------------------------------------------
(* No step and no stuttering breaks the invariant. *)
LEMMA NextOK == IInv /\ [Next]_vars => IInv'
<1>. SUFFICES ASSUME IInv, [Next]_vars PROVE IInv'
  OBVIOUS
<1>1. CASE ipc_init \/ (\E o \in UserOps : UserCall(o)) \/ LeaveLive
  BY <1>1, ipc_initOK, UserCallOK, LeaveLiveOK
<1>2. CASE Caller
  <2>1. CASE ipc_register \/ ipc_wmsg_send \/ ipc_talk_send \/ ipc_sub
    BY <2>1, RequestOK DEF ipc_register, ipc_wmsg_send, ipc_talk_send, ipc_sub
  <2>2. CASE ipc_pub \/ ReadPacket \/ AckBroken \/ AckTimeout
    BY <2>2, ipc_pubOK, ReadPacketOK, AckBrokenOK, AckTimeoutOK
  <2>3. CASE InitReturns \/ RegisterReturns \/ ResubscribeReturns \/ SendReturns \/ LiveReturns
    BY <2>3, InitReturnsOK, RegisterReturnsOK, ResubscribeReturnsOK, SendReturnsOK, LiveReturnsOK
  <2>. QED  BY <1>2, <2>1, <2>2, <2>3 DEF Caller
<1>3. CASE EventLoop
  BY <1>3, ipc_check_reconnectOK, HandlePendingOK, HandlePacketOK, LinkLostOK DEF EventLoop
<1>4. CASE Tick
  BY <1>4, TickOK
<1>5. CASE Service
  BY <1>5, SvcAnswersOK, SvcSendsOK, SvcClosesOK, SvcStartsOK DEF Service
<1>6. CASE UNCHANGED vars
  <2>. USE <1>6 DEF vars, timer, thread, link, bounds, IInv, TypeOK
  <2>1. ThreadType' /\ TimerType' /\ CountType' /\ FlagType' /\ LinkType' /\ NothingLost'
    BY SameTypes, SameData DEF ThreadType, TimerType, CountType, FlagType
  <2>2. Asked' /\ Answered' /\ Current'
    BY SameNumbers DEF Current
  <2>3. Open' /\ Calls' /\ Registers' /\ Due'
    BY DEF Open, Calls, Registers, Due, Waiting
  <2>4. Follows'
    BY SameQueue DEF Follows
  <2>. QED  BY <2>1, <2>2, <2>3, <2>4
<1>. QED  BY <1>1, <1>2, <1>3, <1>4, <1>5, <1>6 DEF Next

(* What holds between any two steps of the client and the service. *)
LEMMA Inductive == Spec => []IInv
BY InitOK, NextOK, PTL DEF Spec

(* In every run of the client what a call returns is the service's answer to
   that very request: the ACK of a request that had timed out before is never
   taken for it, however late it comes (ipc_read_ack and expected_seq). *)
THEOREM AnswersAreOwn == Spec => []AnswerIsOwn
<1>1. IInv => AnswerIsOwn
  BY DEF IInv, Current, AnswerIsOwn
<1>. QED  BY <1>1, Inductive, PTL

(* While a link lasts every packet that is not an ACK reaches the handlers
   once and in the order it was sent, also if it came in the middle of a
   request, for any number of packets and calls (ipc_read_ack,
   ipc_enqueue_pending, vkey_process_ipc). *)
THEOREM PacketsReachHandlers == Spec => []NothingLost
<1>1. IInv => NothingLost
  BY DEF IInv
<1>. QED  BY <1>1, Inductive, PTL

(* The types are right; and a session that is back in its event loop with a
   link has it registered, and is subscribed, when the service has read what
   was sent, exactly if live mode is on (mbbsd_ipc_reconnect_cb, live_run,
   more_live_resubscribe). *)
THEOREM SessionIsKnown == Spec => []ServiceAgrees
<1>1. IInv => ServiceAgrees
  BY DEF IInv, ServiceAgrees, KeptIsRegistered, LiveFollows, Registers, Registering, Follows, Calls
<1>. QED  BY <1>1, Inductive, PTL

(* The backoff grows in ipc_schedule_reconnect only, and that is called with a
   link to give up, or after an attempt that counts. *)
LEMMA Earned ==
  ASSUME IInv, Next
  PROVE  BackoffIsEarned
<1>. USE DEF IInv, TypeOK, BackoffIsEarned, timer
<1>0. /\ backoff \in Nat /\ BackoffInit <= backoff /\ tries \in Nat
      /\ pc \in {"call", "ack"} => fd = "open"
  BY DEF TimerType, Open, Waiting
<1>1. CASE ipc_init \/ ipc_check_reconnect \/ \E o \in UserOps : UserCall(o)
  BY <1>0, <1>1 DEF ipc_init, ipc_check_reconnect, UserCall, ipc_try_reconnect, Attempt,
     Connected, ipc_disconnect, ipc_schedule_reconnect
<1>2. CASE LeaveLive \/ ipc_pub
  BY <1>0, <1>2 DEF LeaveLive, ipc_pub, ipc_unsub, Write, Stay, ipc_disconnect
<1>3. CASE ipc_register \/ ipc_wmsg_send \/ ipc_talk_send \/ ipc_sub
  BY <1>0, <1>3 DEF ipc_register, ipc_wmsg_send, ipc_talk_send, ipc_sub, Request, ipc_disconnect
<1>4. CASE ReadPacket \/ AckBroken \/ AckTimeout
  BY <1>0, <1>4 DEF ReadPacket, AckBroken, AckTimeout, ipc_disconnect
<1>5. CASE InitReturns \/ SendReturns \/ LiveReturns
  BY <1>0, <1>5 DEF InitReturns, SendReturns, LiveReturns, InitFails, DropIfConnected, Stay,
     ipc_unsub, Write, ipc_disconnect
<1>6. CASE RegisterReturns \/ ResubscribeReturns
  BY <1>0, <1>6 DEF RegisterReturns, ResubscribeReturns, AttemptEnds, CallbackFails,
     DropIfConnected, Stay, ipc_reset_backoff, ipc_disconnect
<1>7. CASE HandlePending \/ HandlePacket \/ LinkLost \/ Tick
  BY <1>0, <1>7 DEF HandlePending, HandlePacket, LinkLost, Tick, ipc_disconnect
<1>8. CASE Service
  BY <1>0, <1>8 DEF Service, SvcAnswers, SvcSends, SvcCloses, SvcStarts
<1>. QED
  BY <1>1, <1>2, <1>3, <1>4, <1>5, <1>6, <1>7, <1>8 DEF Next, Caller, EventLoop

(* However connects, registrations and links fail, no second connect is tried
   before the clock has moved, and the backoff is doubled once for each link
   that is lost or not made, whatever its limits are (ipc_try_reconnect,
   ipc_disconnect, ipc_schedule_reconnect). *)
THEOREM RetriesBackOff == Spec => BacksOff
<1>1. IInv' => NoHotRetry'
  BY DEF IInv, Due, NoHotRetry
<1>2. IInv /\ [Next]_vars => [NoHotRetry' /\ BackoffIsEarned]_vars
  BY <1>1, NextOK, Earned
<1>. QED  BY <1>2, Inductive, PTL DEF Spec, BacksOff

=============================================================================
