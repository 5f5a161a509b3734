------------------------------ MODULE IpcClient ------------------------------
(***************************************************************************)
(* The client library of ipc.svc (common/bbs/ipc.c) as mbbsd uses it: the  *)
(* one link of a session, its reconnect timer, the requests that wait for  *)
(* an ACK while other packets arrive, and the two users of the link that   *)
(* keep state of their own, the event loop (mbbsd/io.c, nios.c, igetch.c)  *)
(* and live mode (mbbsd/more.c).                                           *)
(*                                                                         *)
(* The other end is reduced to what one link sees of service/ipc/daemon:   *)
(* it reads requests in order, answers with their seq, sends packets of    *)
(* its own at any time, may drop an ACK, close the link or die.            *)
(***************************************************************************)
EXTENDS Integers, Sequences

CONSTANTS
  BackoffInit, BackoffMax, Spread, \* IPC_BACKOFF_*_SEC, IPC_RECONNECT_SPREAD_SEC
  MaxCalls,   \* bound: requests the user causes
  MaxFaults,  \* bound: timeouts, torn reads, dropped ACKs, closed links, crashes
  MaxData     \* bound: packets of its own the service sends on one link

ASSUME ClientAssumption ==
  /\ BackoffInit \in Nat \ {0} /\ BackoffMax \in Nat /\ Spread \in Nat
  /\ BackoffInit <= BackoffMax
  /\ MaxCalls \in Nat /\ MaxFaults \in Nat /\ MaxData \in Nat

VARIABLES
  fd,         \* g_ipc_fd: "open" or "closed"
  seq,        \* g_ipc_seq
  pend,       \* s_pending_head .. s_pending_tail
  backoff,    \* s_backoff_sec
  wait,       \* seconds left until s_next_reconnect_time
  pc, op,     \* where the process is, and in which call
  then,       \* the call that ipc_check_reconnect was made for
  want, res,  \* expected_seq, and what the call returns
  live,       \* s_live.active
  up, linked, \* the service runs; it has its end of the link open
  toSvc, toCli,           \* the two directions of the socket
  reg, sub,   \* the service has this link registered, subscribed to the topic
  truth,      \* ghost: how the service answered the request that is waited for
  sent, got,  \* ghost: packets sent on this link, number of the last one handled
  tries,      \* ghost: connects since the clock moved
  calls, faults

timer  == <<backoff, wait>>
link   == <<linked, toSvc, toCli, reg, sub, sent, got>>
thread == <<pc, op, then, want, res>>
bounds == <<calls, faults>>
vars   == <<fd, seq, pend, timer, thread, live, up, link, truth, tries, bounds>>

Init ==
  /\ fd = "closed" /\ seq = 0 /\ pend = <<>>
  /\ backoff = BackoffInit /\ wait = 0
  /\ pc = "login" /\ op = "none" /\ then = "none" /\ want = 0 /\ res = "none"
  /\ live = FALSE
  /\ up \in BOOLEAN /\ linked = FALSE
  /\ toSvc = <<>> /\ toCli = <<>> /\ reg = FALSE /\ sub = FALSE
  /\ truth = "none" /\ sent = 0 /\ got = 0
  /\ tries = 0 /\ calls = 0 /\ faults = 0

Lesser(a, b) == IF a < b THEN a ELSE b
Fault == faults < MaxFaults /\ faults' = faults + 1
NoFault == UNCHANGED faults

-----------------------------------------------------------------------------
(* the link *)

ipc_schedule_reconnect ==
  /\ \E jitter \in 0 .. backoff + Spread : wait' = backoff + jitter
  /\ backoff' = Lesser(2 * backoff, BackoffMax)

ipc_reset_backoff == backoff' = BackoffInit /\ wait' = 0

NoLink ==
  /\ linked' = FALSE /\ toSvc' = <<>> /\ toCli' = <<>>
  /\ reg' = FALSE /\ sub' = FALSE /\ sent' = 0 /\ got' = 0

ipc_disconnect ==
  /\ fd' = "closed" /\ pend' = <<>>
  /\ ipc_schedule_reconnect
  /\ NoLink

(* a new socket, which the service does not know anything about *)
Connected ==
  /\ up /\ fd' = "open" /\ linked' = TRUE
  /\ UNCHANGED <<toSvc, toCli, reg, sub, sent, got, pend>>

Goto(p) == pc' = p
Call(o) == pc' = "call" /\ op' = o
Return(code) == pc' = "ret" /\ res' = code
Rest == pc' = "idle" /\ op' = "none" /\ then' = "none" /\ res' = "none"

(* the event loop may wait, or a call is about to write *)
Attempt == tries' = tries + 1

(* ipc_init: connect and register *)
ipc_init ==
  /\ pc = "login" /\ Attempt
  /\ \/ /\ Connected /\ NoFault
        /\ Call("init") /\ UNCHANGED <<timer, then, res>>
     \/ /\ IF up THEN Fault ELSE NoFault
        /\ ipc_disconnect /\ Rest
  /\ UNCHANGED <<seq, want, live, up, truth, calls>>

(* ipc_try_reconnect, up to the registration that the callback makes; t is
   the call that needs the link, "none" for the event loop *)
ipc_try_reconnect(t) ==
  /\ fd = "closed" /\ wait = 0 /\ Attempt
  /\ \/ /\ Connected /\ NoFault
        /\ Call("reg") /\ then' = t /\ UNCHANGED <<timer, res>>
     \/ /\ IF up THEN Fault ELSE NoFault
        /\ ipc_schedule_reconnect /\ Rest
        /\ UNCHANGED <<fd, pend, link>>
  /\ UNCHANGED <<seq, want, live, up, truth>>

(* vkey_poll_impl and dogetch without a link *)
ipc_check_reconnect ==
  /\ pc = "idle"
  /\ ipc_try_reconnect("none")
  /\ UNCHANGED calls

(* a call of the user: waterball or talk request, live mode, a comment; with
   neither a link nor an attempt that is due it fails and changes nothing *)
UserCall(o) ==
  /\ pc = "idle" /\ calls < MaxCalls /\ calls' = calls + 1
  /\ o = "live" => ~live
  /\ \/ /\ fd = "open" /\ Call(o)
        /\ UNCHANGED <<fd, seq, pend, timer, then, want, res, live, up, link,
                       truth, tries, faults>>
     \/ ipc_try_reconnect(o)

-----------------------------------------------------------------------------
(* requests; seq 0 asks for no answer *)

Silent(o) == o \in {"pub", "unsub"}

(* UNSUB and PUB: written and forgotten.  A write fails when the service has
   closed its end, or does not read for a tenth of a second. *)
Write(o) ==
  \/ /\ linked /\ toSvc' = Append(toSvc, [op |-> o, seq |-> 0])
     /\ NoFault
     /\ UNCHANGED <<fd, pend, timer, linked, toCli, reg, sub, sent, got>>
  \/ /\ IF linked THEN Fault ELSE NoFault
     /\ ipc_disconnect

ipc_pub ==
  /\ pc = "call" /\ op = "pub"
  /\ Write("pub") /\ Rest
  /\ UNCHANGED <<seq, want, live, up, truth, tries, calls>>

(* a request that is to be answered is written, and the wait begins *)
Request ==
  /\ pc = "call"
  /\ seq' = seq + 1 /\ want' = seq' /\ truth' = "none"
  /\ \/ /\ linked /\ toSvc' = Append(toSvc, [op |-> op, seq |-> seq'])
        /\ Goto("ack") /\ NoFault
        /\ UNCHANGED <<fd, pend, timer, linked, toCli, reg, sub, sent, got, res>>
     \/ /\ IF linked THEN Fault ELSE NoFault
        /\ ipc_disconnect /\ Return("fail")
  /\ UNCHANGED <<op, then, live, up, tries, calls>>

ipc_register  == op \in {"init", "reg"} /\ Request
ipc_wmsg_send == op = "wmsg" /\ Request
ipc_talk_send == op = "talk" /\ Request
ipc_sub       == op \in {"live", "resub"} /\ Request

(* mutant: whatever ACK comes first is the answer *)
AnyAck(packet) == packet.kind = "ack"

IsAnswer(packet) == packet.kind = "ack" /\ packet.seq = want

(* mutant: a packet that is no ACK is read and dropped *)
EnqueueNothing(packet) == UNCHANGED pend

ipc_enqueue_pending(packet) == pend' = Append(pend, packet)

(* ipc_read_ack, one packet: the answer, another ACK, or one to set aside *)
ReadPacket ==
  /\ pc = "ack" /\ toCli # <<>>
  /\ toCli' = Tail(toCli)
  /\ LET packet == Head(toCli) IN
       \/ /\ IsAnswer(packet) /\ Return(packet.code)
          /\ UNCHANGED pend
       \/ /\ ~IsAnswer(packet)
          /\ IF packet.kind = "ack" THEN UNCHANGED pend ELSE ipc_enqueue_pending(packet)
          /\ UNCHANGED <<pc, res>>
  /\ UNCHANGED <<fd, seq, timer, op, then, want, live, up, linked, toSvc, reg, sub,
                 sent, got, truth, tries, bounds>>

(* poll times out, or the time is over after a packet: the link is kept.  It
   must come to that when the ACK was dropped, and is a fault of its own when
   the ACK is only late. *)
AckTimeout ==
  /\ pc = "ack"
  /\ IF linked /\ toSvc = <<>> /\ toCli = <<>> THEN NoFault ELSE Fault
  /\ Return("fail")
  /\ UNCHANGED <<fd, seq, pend, timer, op, then, want, live, up, link, truth, tries, calls>>

(* end of file, or the rest of a packet does not come in time *)
AckBroken ==
  /\ pc = "ack"
  /\ \/ toCli = <<>> /\ ~linked /\ NoFault
     \/ toCli # <<>> /\ Fault
  /\ ipc_disconnect /\ Return("fail")
  /\ UNCHANGED <<seq, op, then, want, live, up, truth, tries, calls>>

-----------------------------------------------------------------------------
(* what the callers do with the answer *)

Stay == UNCHANGED <<fd, pend, timer, link>>
DropIfConnected == IF fd = "open" THEN ipc_disconnect ELSE Stay

InitFails == DropIfConnected

InitReturns ==
  /\ pc = "ret" /\ op = "init"
  /\ IF res = "ok" THEN Stay ELSE InitFails
  /\ Rest
  /\ UNCHANGED <<seq, want, live, up, truth, tries, bounds>>

CallbackFails == DropIfConnected

(* mutant: after the callback the attempt always counts as a success *)
AttemptForgiven ==
  /\ ipc_reset_backoff /\ UNCHANGED <<fd, pend, link>>
  /\ IF then = "none" \/ fd = "closed" THEN Rest
     ELSE Call(then) /\ then' = "none" /\ res' = "none"

(* the end of ipc_try_reconnect: without a link the call it was for fails *)
AttemptEnds ==
  /\ IF fd = "closed" THEN Stay /\ Rest
     ELSE /\ ipc_reset_backoff /\ UNCHANGED <<fd, pend, link>>
          /\ IF then = "none" THEN Rest
             ELSE Call(then) /\ then' = "none" /\ res' = "none"

(* mbbsd_ipc_reconnect_cb; the callback is set for a session that has logged
   in (ipc_init), and as long as it lives its entry has a userid *)
RegisterReturns ==
  /\ pc = "ret" /\ op = "reg"
  /\ \/ /\ res = "ok" /\ live
        /\ Call("resub") /\ res' = "none" /\ Stay /\ UNCHANGED then
     \/ /\ res = "ok" /\ ~live /\ AttemptEnds
     \/ /\ res # "ok" /\ CallbackFails /\ Rest
  /\ UNCHANGED <<seq, want, live, up, truth, tries, bounds>>

(* more_live_resubscribe does not look at what ipc_sub returns *)
ResubscribeReturns ==
  /\ pc = "ret" /\ op = "resub"
  /\ AttemptEnds
  /\ UNCHANGED <<seq, want, live, up, truth, tries, bounds>>

SendReturns ==
  /\ pc = "ret" /\ op \in {"wmsg", "talk"}
  /\ Rest
  /\ UNCHANGED <<fd, seq, pend, timer, want, live, up, link, truth, tries, bounds>>

(* mutant: the request is not taken back when its ACK did not come *)
CancelNothing == Stay /\ NoFault

(* ipc_unsub has nothing to write without a link *)
ipc_unsub == IF fd = "open" THEN Write("unsub") ELSE Stay /\ NoFault

(* live_run: the ACK may merely be late, so the request is taken back *)
LiveReturns ==
  /\ pc = "ret" /\ op = "live"
  /\ \/ res = "ok" /\ live' = TRUE /\ Stay /\ NoFault
     \/ res # "ok" /\ ipc_unsub /\ UNCHANGED live
  /\ Rest
  /\ UNCHANGED <<seq, want, up, truth, tries, calls>>

LeaveLive ==
  /\ pc = "idle" /\ live
  /\ ipc_unsub /\ live' = FALSE
  /\ UNCHANGED <<seq, thread, up, truth, tries, calls>>

-----------------------------------------------------------------------------
(* vkey_process_ipc: a packet is handled; ACKs that come too late fall
   through the handler *)

Handled(packet) == got' = IF packet.kind = "data" THEN packet.seq ELSE got

HandlePending ==
  /\ pc = "idle" /\ fd = "open" /\ pend # <<>>
  /\ pend' = Tail(pend) /\ Handled(Head(pend))
  /\ UNCHANGED <<fd, seq, timer, thread, live, up, linked, toSvc, toCli, reg, sub,
                 sent, truth, tries, bounds>>

HandlePacket ==
  /\ pc = "idle" /\ fd = "open" /\ pend = <<>> /\ toCli # <<>>
  /\ toCli' = Tail(toCli) /\ Handled(Head(toCli))
  /\ UNCHANGED <<fd, seq, pend, timer, thread, live, up, linked, toSvc, reg, sub,
                 sent, truth, tries, bounds>>

(* mutant: end of file is taken for nothing to read *)
EofIgnored ==
  /\ pc = "idle" /\ fd = "open" /\ pend = <<>> /\ toCli # <<>> /\ Fault
  /\ ipc_disconnect
  /\ UNCHANGED <<seq, thread, live, up, truth, tries, calls>>

(* end of file or half a packet: ipc_disconnect, once *)
LinkLost ==
  /\ pc = "idle" /\ fd = "open" /\ pend = <<>>
  /\ \/ toCli = <<>> /\ ~linked /\ NoFault
     \/ toCli # <<>> /\ Fault
  /\ ipc_disconnect
  /\ UNCHANGED <<seq, thread, live, up, truth, tries, calls>>

Tick ==
  /\ wait > 0 /\ wait' = wait - 1 /\ tries' = 0
  /\ UNCHANGED <<fd, seq, pend, backoff, thread, live, up, link, truth, bounds>>

-----------------------------------------------------------------------------
(* the service, as seen from the link *)

(* what dispatch of ipc.svc leaves behind for this link *)

Serves(o) ==
  /\ reg' = (reg \/ o \in {"init", "reg"})
  /\ sub' = IF o \in {"live", "resub"} THEN TRUE ELSE IF o = "unsub" THEN FALSE ELSE sub

SvcAnswers ==
  /\ linked /\ toSvc # <<>>
  /\ LET r == Head(toSvc) IN
       /\ Serves(r.op)
       /\ IF Silent(r.op) THEN NoFault /\ UNCHANGED <<toCli, truth>>
          ELSE \E code \in IF r.op \in {"wmsg", "talk"} THEN {"ok", "err"} ELSE {"ok"} :
                 /\ \/ NoFault /\ toCli' = Append(toCli, [kind |-> "ack", seq |-> r.seq,
                                                          code |-> code])
                    \/ Fault /\ UNCHANGED toCli
                 /\ truth' = IF r.seq = want THEN code ELSE truth
  /\ toSvc' = Tail(toSvc)
  /\ UNCHANGED <<fd, seq, pend, timer, thread, live, up, linked, sent, got, tries, calls>>

(* a waterball or talk request for this session, a comment on its topic *)
SvcSends ==
  /\ linked /\ (reg \/ sub) /\ sent < MaxData
  /\ sent' = sent + 1
  /\ toCli' = Append(toCli, [kind |-> "data", seq |-> sent'])
  /\ UNCHANGED <<fd, seq, pend, timer, thread, live, up, linked, toSvc, reg, sub, got,
                 truth, tries, bounds>>

(* the service closes this link, or dies; what it had written can be read *)
SvcCloses ==
  /\ up /\ Fault /\ up' \in BOOLEAN
  /\ linked' = FALSE /\ toSvc' = <<>> /\ reg' = FALSE /\ sub' = FALSE
  /\ UNCHANGED <<fd, seq, pend, timer, thread, live, toCli, sent, got, truth, tries, calls>>

SvcStarts ==
  /\ ~up /\ up' = TRUE
  /\ UNCHANGED <<fd, seq, pend, timer, thread, live, link, truth, tries, bounds>>

-----------------------------------------------------------------------------
UserOps == {"wmsg", "talk", "live", "pub"}
Caller ==
  \/ ipc_register \/ ipc_wmsg_send \/ ipc_talk_send \/ ipc_sub \/ ipc_pub
  \/ ReadPacket \/ AckBroken \/ AckTimeout
  \/ InitReturns \/ RegisterReturns \/ ResubscribeReturns \/ SendReturns \/ LiveReturns
EventLoop == ipc_check_reconnect \/ HandlePending \/ HandlePacket \/ LinkLost
Service == SvcAnswers \/ SvcSends \/ SvcCloses \/ SvcStarts

Next ==
  \/ ipc_init \/ (\E o \in UserOps : UserCall(o)) \/ LeaveLive
  \/ Caller \/ EventLoop \/ Tick \/ Service

Spec == Init /\ [][Next]_vars

(***************************************************************************)
(* The process runs, it waits for its user in the event loop only, and     *)
(* time passes.  The service is restarted when it died and reads what is   *)
(* sent to it.  Of the faults there are finitely many (MaxFaults).         *)
(***************************************************************************)
Fairness ==
  /\ WF_vars(ipc_init) /\ WF_vars(Caller) /\ WF_vars(Tick)
  /\ WF_vars(ipc_check_reconnect) /\ WF_vars(HandlePending)
  /\ WF_vars(HandlePacket) /\ WF_vars(LinkLost)
  /\ WF_vars(SvcAnswers) /\ WF_vars(SvcStarts)

FairSpec == Spec /\ Fairness

-----------------------------------------------------------------------------
(* Properties *)

CallOps == {"init", "reg", "resub"} \cup UserOps
Packets == [kind : {"data"}, seq : Nat] \cup [kind : {"ack"}, seq : Nat, code : {"ok", "err"}]

ThreadType ==
  /\ fd \in {"open", "closed"} /\ seq \in Nat /\ want \in 0 .. seq
  /\ pc \in {"login", "idle", "call", "ack", "ret"}
  /\ op \in CallOps \cup {"none"} /\ then \in UserOps \cup {"none"}
  /\ res \in {"none", "ok", "err", "fail"} /\ truth \in {"none", "ok", "err"}

TimerType ==
  /\ backoff \in BackoffInit .. BackoffMax /\ wait \in 0 .. 2 * BackoffMax + Spread
  /\ tries \in Nat

LinkType ==
  /\ pend \in Seq([kind : {"data"}, seq : Nat])
  /\ toSvc \in Seq([op : CallOps \cup {"unsub"}, seq : Nat])
  /\ toCli \in Seq(Packets)

CountType ==
  /\ sent \in 0 .. MaxData /\ got \in 0 .. MaxData
  /\ calls \in 0 .. MaxCalls /\ faults \in 0 .. MaxFaults

FlagType ==
  /\ live \in BOOLEAN /\ up \in BOOLEAN
  /\ linked \in BOOLEAN /\ reg \in BOOLEAN /\ sub \in BOOLEAN

(* Type invariant of the client and its link. *)
TypeOK == ThreadType /\ TimerType /\ LinkType /\ CountType /\ FlagType

(* What a call returns is the service's answer to that very request: the ACK
   of an earlier request that had timed out, still on its way, is never taken
   for it (ipc_read_ack and expected_seq). *)
AnswerIsOwn == pc = "ret" /\ res # "fail" => truth = res

IsData(packet) == packet.kind = "data"

(* While a link lasts, every packet that is not an ACK reaches the handlers
   once and in the order it was sent, also if it came in the middle of a
   request ("so it is never dropped", ipc_read_ack); nothing of an earlier
   link is mixed in. *)
NothingLost ==
  LET data == {i \in 1 .. Len(toCli) : IsData(toCli[i])}
      read == got + Len(pend)
  IN /\ read <= sent
     /\ \A i \in 1 .. Len(pend) : pend[i].seq = got + i
     /\ {toCli[i].seq : i \in data} = read + 1 .. sent
     /\ \A i, j \in data : i < j => toCli[i].seq < toCli[j].seq

(* A link that the process goes back to its event loop with is registered at
   the service; one that is not would lose waterballs and talk requests
   without a trace (ipc_init, mbbsd_ipc_reconnect_cb). *)
KeptIsRegistered == pc = "idle" /\ fd = "open" /\ linked => reg

(* what the service will hold once it has read all that was written *)
SubAfter ==
  LET about == {i \in 1 .. Len(toSvc) : toSvc[i].op \in {"live", "resub", "unsub"}}
  IN \/ about = {} /\ sub
     \/ \E i \in about : toSvc[i].op # "unsub" /\ \A j \in about : j <= i

(* Back in the event loop the service has, or will have when it has read what
   was sent, a subscription exactly if live mode is on: no live mode that
   silently stops after a reconnect, no phantom subscription after an ACK
   that came too late (live_run, more_live_resubscribe). *)
LiveFollows == pc = "idle" /\ fd = "open" /\ linked => (SubAfter <=> live)

(* However a connect, a registration or a link fails, a second connect is not
   tried before the clock has moved: a service that restarts is not swamped
   by every process on every turn of its event loop (ipc_try_reconnect). *)
NoHotRetry == tries <= 1

(* The backoff is doubled once for each link that is lost or not made: the
   callers and the library never both give up the same link. *)
BackoffIsEarned ==
  backoff' > backoff => (fd = "open" \/ tries' > tries) /\ fd' = "closed"

(* A session without a link gets one and registers it once the faults stop. *)
Reconnects ==
  (pc = "idle" /\ fd = "closed") ~> (pc = "idle" /\ fd = "open" /\ reg)

(* What was set aside is handled although the socket stays silent
   (ipc_has_pending before every wait), or the link is lost. *)
SetAsideIsHandled == (pend # <<>>) ~> (pend = <<>>)

(* What the service knows of a session that is back in its event loop is what
   the session believes: registered, and subscribed exactly in live mode. *)
ServiceAgrees == TypeOK /\ KeptIsRegistered /\ LiveFollows

(* Faults are got over: a lost link is made again, and nothing set aside waits
   for a packet that may never come. *)
Recovers == Reconnects /\ SetAsideIsHandled

(* A service that is down is not swamped: one attempt to a tick of the clock,
   and a backoff that grows once for each link that is lost or not made. *)
BacksOff == [][NoHotRetry' /\ BackoffIsEarned]_vars
=============================================================================
