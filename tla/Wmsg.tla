-------------------------------- MODULE Wmsg --------------------------------
(***************************************************************************)
(* The waterball queue of one login session: userinfo_t.msgs[MAX_MSGS] and *)
(* msgcount in shared memory, written by many sender processes             *)
(* (common/bbs/message.c) and drained by the one mbbsd process that owns   *)
(* the session (mbbsd/wmsg.c).  Nothing but two compare-and-swaps protects *)
(* the queue, so every other load and store of it is a step of its own.    *)
(*                                                                         *)
(* A sender claims a slot, fills it, raises msgcount and asks ipc.svc to   *)
(* wake the recipient; the wake-up packet carries a copy of the message.   *)
(* The recipient runs wmsg_on_deliver for each packet and then             *)
(* write_request, in one of three shapes: one-for-one (UF_PAGER_OFO), the  *)
(* silent drain, and the pop-up that waits for a key after each message    *)
(* and so re-enters wmsg_on_deliver.                                       *)
(***************************************************************************)
EXTENDS Integers, Sequences, FiniteSets

CONSTANTS
  Senders,        \* sending processes; a sender is identified with its pid
  TwinSenders,    \* senders whose target is another session of the recipient
  Caller,         \* the process that pages the recipient for a talk
  None,           \* pid 0, empty userid, empty text
  Pager,          \* the text talkreply() leaves in msgs[0]
  MAX_MSGS,       \* include/config.h:270
  NSend,          \* bound: messages per sender
  MaxTalks,       \* bound: talk requests
  Ofo,            \* HasUserFlag(UF_PAGER_OFO)
  Modes,          \* "menu": can_pop_wmsg_ui() may hold; "busy": it may not
  Faults,         \* what the IPC request may suffer: "down", "late"
  MayLogout       \* whether the recipient may leave

ASSUME MaxMsgsAssumption == MAX_MSGS \in Nat \ {0}
ASSUME ConstantsAssumption ==
  /\ TwinSenders \subseteq Senders
  /\ None \notin Senders /\ Caller \notin Senders /\ Caller # None
  /\ NSend \in Nat /\ MaxTalks \in Nat
  /\ Ofo \in BOOLEAN /\ MayLogout \in BOOLEAN
  /\ Modes \subseteq {"menu", "busy"} /\ Modes # {}
  /\ Faults \subseteq {"down", "late"}

(***************************************************************************)
(* A message is <<s, k>>, the k-th of sender s; distinct messages have     *)
(* distinct texts.  Slot MAX_MSGS is gap_4, the guard element that         *)
(* userinfo_t declares behind the array; there is nothing in front of it.  *)
(***************************************************************************)
Msgs   == Senders \X (1 .. NSend)
Pids   == Senders \cup {Caller, None}
Bodies == Msgs \cup {Pager, None}
Index  == 0 .. MAX_MSGS
Counts == -1 .. MAX_MSGS + 1
NoMsg  == <<None, 0>>

VARIABLES
  mpid,         \* SHM: msgs[].pid, with gap_4 as the last element
  mbody,        \* SHM: the other fields of msgs[]: userid, text, ...
  msgcount,     \* SHM: msgcount
  online,       \* SHM: uentp->pid is the session's pid
  spc, spos,    \* senders: program counter, the i and pos of the scan
  sent,         \* senders: calls made so far
  acked,        \* messages whose sender returned 0
  chan,         \* wake-up packets on their way to the recipient, in order
  rpc,          \* recipient: program counter
  pkt, cnt,     \* recipient: w and count of wmsg_on_deliver
  lim, idx,     \* recipient: msgcount and i of the drain loops
  tmp,          \* recipient: a loaded msgcount
  popn, popi,   \* recipient: the open pop-up's msgcount and i; popn = 0: none
  mode,         \* recipient: what the user is doing
  wmofo,        \* recipient: one-for-one reply state
  alreadyshow,  \* recipient: static of write_request_ofo
  talks,        \* talk requests so far
  displayed,    \* bodies shown on the recipient's screen
  history       \* bodies recorded by add_history

slots == <<mpid, mbody>>
shm   == <<mpid, mbody, msgcount, online>>
send  == <<spc, spos, sent, acked, chan>>
loc   == <<pkt, cnt, lim, idx, tmp>>
pop   == <<popn, popi>>
ui    == <<mode, wmofo, alreadyshow, talks>>
seen  == <<displayed, history>>
recv  == <<rpc, pkt, cnt, lim, idx, tmp, popn, popi, mode, wmofo, alreadyshow,
           talks, displayed, history>>
vars  == <<mpid, mbody, msgcount, online, spc, spos, sent, acked, chan, rpc,
           pkt, cnt, lim, idx, tmp, popn, popi, mode, wmofo, alreadyshow,
           talks, displayed, history>>

SenderPC == {"idle", "claim", "fill", "raise", "send"}
RecvPC == {"vkey", "pid", "fields", "load", "store", "request",
           "drain", "free", "reset",
           "popShow", "popLoad", "popStore", "popMove", "popFree",
           "ofoShow", "ofoFlush", "ofoHist", "ofoFree", "ofoLoad", "ofoStore",
           "talk", "talkSlot", "corrupt", "gone"}

Init ==
  /\ mpid = [j \in Index |-> None] /\ mbody = [j \in Index |-> None]
  /\ msgcount = 0 /\ online = TRUE
  /\ spc = [s \in Senders |-> "idle"] /\ spos = [s \in Senders |-> 0]
  /\ sent = [s \in Senders |-> 0]
  /\ acked = {} /\ chan = <<>>
  /\ rpc = "vkey"
  /\ pkt = NoMsg /\ cnt = 0 /\ lim = 0 /\ idx = 0 /\ tmp = 0
  /\ popn = 0 /\ popi = 0
  /\ mode \in Modes /\ wmofo = "NOTREPLYING" /\ alreadyshow = 0 /\ talks = 0
  /\ displayed = {} /\ history = {}

-----------------------------------------------------------------------------
(* write_message_full: one sender's call, step by step *)

Msg(s) == <<s, sent[s]>>
Step(s, pc) == spc' = [spc EXCEPT ![s] = pc]
Return(s) == Step(s, "idle") /\ spos' = [spos EXCEPT ![s] = 0]

(* entry: a recipient that has logged out is refused (-2, -4) *)
WriteMessage(s) ==
  /\ s \notin TwinSenders
  /\ spc[s] = "idle" /\ sent[s] < NSend
  /\ sent' = [sent EXCEPT ![s] = @ + 1]
  /\ Step(s, IF online THEN "claim" ELSE "idle")
  /\ UNCHANGED <<shm, spos, acked, chan, recv>>

(* a message for another session of the same user: its slot is elsewhere,
   but ipc.svc fans the packet out to this session too *)
WriteToTwin(s) ==
  /\ s \in TwinSenders
  /\ spc[s] = "idle" /\ sent[s] < NSend
  /\ sent' = [sent EXCEPT ![s] = @ + 1]
  /\ Step(s, "send")
  /\ UNCHANGED <<shm, spos, acked, chan, recv>>

(* one compare-and-swap of the scan *)
ClaimSlot(s) ==
  /\ spc[s] = "claim" /\ spos[s] < MAX_MSGS
  /\ IF mpid[spos[s]] = None
     THEN /\ mpid' = [mpid EXCEPT ![spos[s]] = s]
          /\ Step(s, "fill")
          /\ UNCHANGED spos
     ELSE /\ spos' = [spos EXCEPT ![s] = @ + 1]
          /\ UNCHANGED <<mpid, spc>>
  /\ UNCHANGED <<mbody, msgcount, online, sent, acked, chan, recv>>

(* -3: no free slot *)
QueueFull(s) ==
  /\ spc[s] = "claim" /\ spos[s] = MAX_MSGS
  /\ Return(s)
  /\ UNCHANGED <<shm, sent, acked, chan, recv>>

Fill(s) ==
  /\ spc[s] = "fill"
  /\ mbody' = [mbody EXCEPT ![spos[s]] = Msg(s)]
  /\ Step(s, "raise")
  /\ UNCHANGED <<mpid, msgcount, online, spos, sent, acked, chan, recv>>

(* the load/compare-and-swap loop takes effect at one instant: the load that
   leaves it, or the swap that succeeds *)
RaiseCount(s) ==
  /\ spc[s] = "raise"
  /\ msgcount' = IF msgcount >= spos[s] + 1 THEN msgcount ELSE spos[s] + 1
  /\ Step(s, "send")
  /\ UNCHANGED <<slots, online, spos, sent, acked, chan, recv>>

(* ipc.svc queues a packet for every registered session of the recipient *)
Wake(s) == chan' = IF online THEN Append(chan, Msg(s)) ELSE chan

(* the sender sees the ACK in time and returns 0 *)
SendAcked(s) ==
  /\ spc[s] = "send"
  /\ Wake(s)
  /\ acked' = IF online THEN acked \cup {Msg(s)} ELSE acked
  /\ Return(s)
  /\ UNCHANGED <<shm, sent, recv>>

(* the ACK misses its 50 ms: the message is delivered, the call returns -5 *)
SendLate(s) ==
  /\ "late" \in Faults /\ spc[s] = "send"
  /\ Wake(s)
  /\ Return(s)
  /\ UNCHANGED <<shm, sent, acked, recv>>

(* ipc.svc is unreachable: the call returns -5 and leaves the slot filled *)
SendDown(s) ==
  /\ "down" \in Faults /\ spc[s] = "send"
  /\ Return(s)
  /\ UNCHANGED <<shm, sent, acked, chan, recv>>

Sender(s) ==
  \/ WriteMessage(s) \/ WriteToTwin(s) \/ ClaimSlot(s) \/ QueueFull(s)
  \/ Fill(s) \/ RaiseCount(s) \/ SendAcked(s) \/ SendLate(s) \/ SendDown(s)

-----------------------------------------------------------------------------
(* wmsg_on_deliver: one packet, from inside vkey() *)

Goto(pc) == rpc' = pc
BackToVkey == /\ rpc' = "vkey" /\ pkt' = NoMsg
              /\ cnt' = 0 /\ lim' = 0 /\ idx' = 0 /\ tmp' = 0

(* line 1309: a queued slot that already holds the packet's message *)
Queued(m, count) ==
  \E j \in 0 .. MAX_MSGS - 1 : j < count /\ mpid[j] = m[1] /\ mbody[j] = m

OnDeliverUpTo(limit) ==
  /\ rpc = "vkey" /\ chan # <<>>
  /\ chan' = Tail(chan)
  /\ pkt' = Head(chan) /\ cnt' = msgcount
  /\ Goto(IF ~Queued(Head(chan), msgcount) /\ msgcount < limit
          THEN "pid" ELSE "request")
  /\ UNCHANGED <<shm, spc, spos, sent, acked, lim, idx, tmp, pop, ui, seen>>

(* mutant: "count <= MAX_MSGS" lets a full queue take one more *)
OnDeliverOffByOne == OnDeliverUpTo(MAX_MSGS + 1)

OnDeliver == OnDeliverUpTo(MAX_MSGS)

(* line 1318, a plain store.  With count = -1 the store, and the ones that
   follow, land in front of msgs[], the last of them on msgcount itself:
   what happens after that is not modelled *)
InsertPid ==
  /\ rpc = "pid"
  /\ IF cnt < 0
     THEN Goto("corrupt") /\ UNCHANGED mpid
     ELSE mpid' = [mpid EXCEPT ![cnt] = pkt[1]] /\ Goto("fields")
  /\ UNCHANGED <<mbody, msgcount, online, send, loc, pop, ui, seen>>

InsertFields ==
  /\ rpc = "fields"
  /\ mbody' = [mbody EXCEPT ![cnt] = pkt]
  /\ Goto("load")
  /\ UNCHANGED <<mpid, msgcount, online, send, loc, pop, ui, seen>>

(* msgcount++ is a load and a store *)
IncrLoad ==
  /\ rpc = "load"
  /\ tmp' = msgcount
  /\ Goto("store")
  /\ UNCHANGED <<shm, send, pkt, cnt, lim, idx, pop, ui, seen>>

IncrStore ==
  /\ rpc = "store"
  /\ msgcount' = tmp + 1
  /\ Goto("request")
  /\ UNCHANGED <<slots, online, send, loc, pop, ui, seen>>

-----------------------------------------------------------------------------
(* write_request: the three ways to empty the queue *)

(* can_pop_wmsg_ui: mode is 0 while a pop-up is open *)
CanPop == popn = 0 /\ mode = "menu" /\ msgcount # 0

Show(j) == displayed' = displayed \cup {mbody[j]}
AddHistory(j) == history' = history \cup {mbody[j]}

RequestOfo ==
  /\ wmofo' = IF wmofo = "REPLYING" THEN "RECVINREPLYING" ELSE wmofo
  /\ Goto("ofoShow")
  /\ UNCHANGED <<lim, idx, pop>>

RequestPop ==
  /\ popn' = msgcount /\ popi' = 0
  /\ Goto("popShow")
  /\ UNCHANGED <<wmofo, lim, idx>>

RequestDrain(first) ==
  /\ lim' = msgcount /\ idx' = first
  /\ Goto("drain")
  /\ UNCHANGED <<wmofo, pop>>

WriteRequestFrom(first) ==
  /\ rpc = "request"
  /\ IF Ofo THEN RequestOfo
     ELSE IF CanPop THEN RequestPop ELSE RequestDrain(first)
  /\ UNCHANGED <<shm, send, pkt, cnt, tmp, mode, alreadyshow, talks, seen>>

(* mutant: the silent drain starts at the second slot *)
WriteRequestSkip == WriteRequestFrom(1)

WriteRequest == WriteRequestFrom(0)

(* write_request_default, silent: show and record every queued slot ... *)
Drain ==
  /\ rpc = "drain"
  /\ IF idx < lim
     THEN Show(idx) /\ AddHistory(idx) /\ Goto("free")
     ELSE Goto("reset") /\ UNCHANGED seen
  /\ UNCHANGED <<shm, send, loc, pop, ui>>

(* ... free it ... *)
DrainFree ==
  /\ rpc = "free"
  /\ mpid' = [mpid EXCEPT ![idx] = None]
  /\ idx' = idx + 1
  /\ Goto("drain")
  /\ UNCHANGED <<mbody, msgcount, online, send, pkt, cnt, lim, tmp, pop, ui,
                 seen>>

(* ... and then store 0, whatever was raised meanwhile *)
DrainReset ==
  /\ rpc = "reset"
  /\ msgcount' = 0
  /\ BackToVkey
  /\ UNCHANGED <<slots, online, send, pop, ui, seen>>

(* write_request_default, pop-up: always show msgs[0] ... *)
PopShow ==
  /\ rpc = "popShow"
  /\ Show(0) /\ AddHistory(0)
  /\ Goto("popLoad")
  /\ UNCHANGED <<shm, send, loc, pop, ui>>

(* ... count down, a load and a store ... *)
PopLoad ==
  /\ rpc = "popLoad"
  /\ tmp' = msgcount
  /\ Goto("popStore")
  /\ UNCHANGED <<shm, send, pkt, cnt, lim, idx, pop, ui, seen>>

EndPop == popn' = 0 /\ popi' = 0

PopStore ==
  /\ rpc = "popStore"
  /\ msgcount' = tmp - 1
  /\ IF tmp - 1 < 0
     THEN BackToVkey /\ EndPop
     ELSE Goto("popMove") /\ UNCHANGED <<loc, pop>>
  /\ UNCHANGED <<slots, online, send, ui, seen>>

(* ... memmove(&msgs[0], &msgs[1], msgcount elements) ... *)
PopMove ==
  /\ rpc = "popMove"
  /\ mpid' = [j \in Index |-> IF j < msgcount THEN mpid[j + 1] ELSE mpid[j]]
  /\ mbody' = [j \in Index |-> IF j < msgcount THEN mbody[j + 1] ELSE mbody[j]]
  /\ Goto("popFree")
  /\ UNCHANGED <<msgcount, online, send, loc, pop, ui, seen>>

(* mutant: the vacated slot stays claimed *)
PopNoFree ==
  /\ rpc = "popFree"
  /\ popi' = popi + 1
  /\ BackToVkey
  /\ UNCHANGED <<shm, send, popn, ui, seen>>

(* ... msgs[msgcount].pid = 0, which reads msgcount once more; then vkey() *)
PopFree ==
  /\ rpc = "popFree"
  /\ mpid' = [mpid EXCEPT ![msgcount] = None]
  /\ popi' = popi + 1
  /\ BackToVkey
  /\ UNCHANGED <<mbody, msgcount, online, send, popn, ui, seen>>

(* the key that vkey() was waiting for *)
PopKey ==
  /\ rpc = "vkey" /\ popn # 0
  /\ IF popi < popn
     THEN Goto("popShow") /\ UNCHANGED pop
     ELSE EndPop /\ UNCHANGED rpc
  /\ UNCHANGED <<shm, send, loc, ui, seen>>

(* write_request_ofo: show what has not been shown ... *)
OfoShowUpTo(limit) ==
  /\ rpc = "ofoShow"
  /\ IF alreadyshow < msgcount /\ alreadyshow < limit
     THEN /\ Show(alreadyshow)
          /\ alreadyshow' = alreadyshow + 1
          /\ UNCHANGED rpc
     ELSE /\ Goto("ofoFlush")
          /\ UNCHANGED <<displayed, alreadyshow>>
  /\ UNCHANGED <<shm, send, loc, pop, mode, wmofo, talks, history>>

OfoShow == OfoShowUpTo(MAX_MSGS)

(* ... and, unless a reply is being typed, record and free what is queued *)
OfoFlush ==
  /\ rpc = "ofoFlush"
  /\ IF wmofo = "NOTREPLYING" /\ msgcount > 0
     THEN /\ lim' = msgcount /\ idx' = 0
          /\ Goto("ofoHist")
          /\ UNCHANGED <<pkt, cnt, tmp>>
     ELSE BackToVkey
  /\ UNCHANGED <<shm, send, pop, ui, seen>>

OfoHist ==
  /\ rpc = "ofoHist"
  /\ IF idx < lim
     THEN AddHistory(idx) /\ Goto("ofoFree")
     ELSE Goto("ofoLoad") /\ UNCHANGED history
  /\ UNCHANGED <<shm, send, loc, pop, ui, displayed>>

OfoFree ==
  /\ rpc = "ofoFree"
  /\ mpid' = [mpid EXCEPT ![idx] = None]
  /\ idx' = idx + 1
  /\ Goto("ofoHist")
  /\ UNCHANGED <<mbody, msgcount, online, send, pkt, cnt, lim, tmp, pop, ui,
                 seen>>

(* msgcount -= n is a load and a store *)
OfoLoad ==
  /\ rpc = "ofoLoad"
  /\ tmp' = msgcount
  /\ Goto("ofoStore")
  /\ UNCHANGED <<shm, send, pkt, cnt, lim, idx, pop, ui, seen>>

(* mutant: one too many, and no look at the sign *)
OfoSubtractOneMore == msgcount' = tmp - (lim + 1)

OfoSubtract == msgcount' = IF tmp - lim < 0 THEN 0 ELSE tmp - lim

(* mutant: alreadyshow is not reset after the flush *)
OfoStoreNoReset ==
  /\ rpc = "ofoStore"
  /\ OfoSubtract
  /\ BackToVkey
  /\ UNCHANGED <<slots, online, send, pop, ui, seen>>

OfoStore ==
  /\ rpc = "ofoStore"
  /\ OfoSubtract
  /\ alreadyshow' = 0
  /\ BackToVkey
  /\ UNCHANGED <<slots, online, send, pop, mode, wmofo, talks, seen>>

(* ofo_my_write, up to its vkey() loop *)
OfoReply ==
  /\ rpc = "vkey" /\ Ofo /\ wmofo = "NOTREPLYING" /\ history # {}
  /\ wmofo' = "REPLYING"
  /\ UNCHANGED <<shm, send, rpc, loc, pop, mode, alreadyshow, talks, seen>>

(* ofo_my_write, after the loop: write_request(0) flushes what came *)
OfoReplyDone ==
  /\ rpc = "vkey" /\ wmofo # "NOTREPLYING"
  /\ wmofo' = "NOTREPLYING"
  /\ Goto(IF wmofo = "RECVINREPLYING" THEN "ofoFlush" ELSE "vkey")
  /\ UNCHANGED <<shm, send, loc, pop, mode, alreadyshow, talks, seen>>

-----------------------------------------------------------------------------
(* the rest of the recipient's session, as far as it touches the queue *)

(* talk_request while nothing is queued: the user turns to the caller *)
TalkRequest ==
  /\ rpc = "vkey" /\ online /\ talks < MaxTalks /\ msgcount = 0
  /\ talks' = talks + 1
  /\ Goto("talk")
  /\ UNCHANGED <<shm, send, loc, pop, mode, wmofo, alreadyshow, seen>>

(* the caller's entry is no longer valid, or it has stopped calling *)
TalkOff ==
  /\ rpc = "talk"
  /\ Goto("vkey")
  /\ UNCHANGED <<shm, send, loc, pop, ui, seen>>

(* establish_talk_connection has reset the count and reaches nobody *)
TalkFails ==
  /\ rpc = "talk"
  /\ msgcount' = 0
  /\ Goto("vkey")
  /\ UNCHANGED <<slots, online, send, loc, pop, ui, seen>>

(* establish_talk_connection, line 1994 *)
TalkReset ==
  /\ rpc = "talk"
  /\ msgcount' = 0
  /\ Goto("talkSlot")
  /\ UNCHANGED <<slots, online, send, loc, pop, ui, seen>>

(* talkreply, lines 2056-2060, then getdata() *)
TalkSlot ==
  /\ rpc = "talkSlot"
  /\ mpid' = [mpid EXCEPT ![0] = Caller]
  /\ mbody' = [mbody EXCEPT ![0] = Pager]
  /\ Goto("vkey")
  /\ UNCHANGED <<msgcount, online, send, loc, pop, ui, seen>>

(* the user moves between menus and the modes that never pop up *)
ChangeMode ==
  /\ rpc = "vkey" /\ popn = 0
  /\ mode' \in Modes \ {mode}
  /\ UNCHANGED <<shm, send, rpc, loc, pop, wmofo, alreadyshow, talks, seen>>

(* purge_utmp: the entry is zeroed and the connection to ipc.svc closed *)
Logout ==
  /\ MayLogout
  /\ rpc = "vkey" /\ popn = 0
  /\ mpid' = [j \in Index |-> None] /\ mbody' = [j \in Index |-> None]
  /\ msgcount' = 0
  /\ online' = FALSE
  /\ chan' = <<>>
  /\ Goto("gone")
  /\ UNCHANGED <<spc, spos, sent, acked, loc, pop, ui, seen>>

(* steps the handlers take by themselves, and those that wait for the user *)
Handler ==
  \/ OnDeliver \/ InsertPid \/ InsertFields \/ IncrLoad \/ IncrStore
  \/ WriteRequest \/ Drain \/ DrainFree \/ DrainReset
  \/ PopShow \/ PopLoad \/ PopStore \/ PopMove \/ PopFree
  \/ OfoShow \/ OfoFlush \/ OfoHist \/ OfoFree \/ OfoLoad \/ OfoStore
  \/ TalkOff \/ TalkFails \/ TalkReset \/ TalkSlot
User ==
  \/ PopKey \/ OfoReply \/ OfoReplyDone \/ TalkRequest \/ ChangeMode
  \/ Logout

Next == (\E s \in Senders : Sender(s)) \/ Handler \/ User

Spec == Init /\ [][Next]_vars

(***************************************************************************)
(* Processes are scheduled by the kernel, so a sender inside its call and  *)
(* a handler inside the recipient keep going; a packet that waits is read, *)
(* because vkey() polls the IPC socket; and a reply that is being typed or *)
(* a pop-up that is being read is finished at some point.                  *)
(***************************************************************************)
Fairness ==
  /\ \A s \in Senders : WF_vars(spc[s] # "idle" /\ Sender(s))
  /\ WF_vars(Handler)
  /\ WF_vars(PopKey) /\ WF_vars(OfoReplyDone)

FairSpec == Spec /\ Fairness

-----------------------------------------------------------------------------
(* Properties *)

(* Type invariant of the queue, the senders and the recipient. *)
TypeOK ==
  /\ mpid \in [Index -> Pids] /\ mbody \in [Index -> Bodies]
  /\ msgcount \in Counts /\ online \in BOOLEAN
  /\ spc \in [Senders -> SenderPC] /\ spos \in [Senders -> Index]
  /\ sent \in [Senders -> 0 .. NSend]
  /\ acked \subseteq Msgs /\ chan \in Seq(Msgs)
  /\ rpc \in RecvPC
  /\ pkt \in Msgs \cup {NoMsg} /\ cnt \in Counts
  /\ lim \in Counts /\ idx \in 0 .. MAX_MSGS + 1 /\ tmp \in Counts
  /\ popn \in Counts /\ popi \in 0 .. MAX_MSGS + 1
  /\ mode \in Modes
  /\ wmofo \in {"NOTREPLYING", "REPLYING", "RECVINREPLYING"}
  /\ alreadyshow \in Index /\ talks \in 0 .. MaxTalks
  /\ displayed \subseteq Bodies /\ history \subseteq Bodies

(* Every element of msgs[] that the recipient is about to read or write lies
   in the array or in gap_4, the one spare element behind it, although
   msgcount++ of wmsg_on_deliver and the senders' raises race and msgcount
   can pass MAX_MSGS (pttstruct.h:427 "avoid msgs racing and overflow"). *)
NoOverrun ==
  /\ msgcount <= MAX_MSGS + 1
  /\ rpc \in {"drain", "ofoHist"} => lim <= MAX_MSGS + 1
  /\ rpc \in {"free", "ofoFree"} => idx \in Index
  /\ rpc = "fields" => cnt \in 0 .. MAX_MSGS - 1
  /\ rpc \in {"popMove", "popFree"} => msgcount \in Index

(* wmsg_on_deliver never stores in front of msgs[0]. *)
NoUnderrun == rpc # "corrupt"

(* A message whose sender was told "sent" (write_message_full returned 0) is
   shown on the recipient's screen, unless the recipient leaves
   (docs/WRITE_MSG.md:170). *)
AckedIsShown ==
  \A m \in (Senders \ TwinSenders) \X (1 .. NSend) :
    (m \in acked) ~> (m \in displayed \/ ~online \/ rpc = "corrupt")

(* no handler runs while a sender is between its claim and its raise *)
HandlerAlone ==
  \/ rpc \in {"vkey", "gone", "corrupt"}
  \/ \A s \in Senders : spc[s] \in {"idle", "send"}

(* The same, for every behaviour in which the plain stores of the handlers
   fall outside the senders' critical sections: batching, re-entry from the
   pop-up, the one-for-one reply and a full queue lose no message. *)
AckedIsShownWhenAlone == []HandlerAlone => AckedIsShown

(* nothing is running, travelling or being typed *)
Quiescent ==
  /\ online /\ rpc = "vkey" /\ popn = 0 /\ wmofo = "NOTREPLYING"
  /\ chan = <<>>
  /\ \A s \in Senders : spc[s] = "idle"

(* When everything has come to rest, no message is waiting in the queue for a
   wake-up that nobody will send. *)
RestsEmpty == Quiescent => msgcount <= 0

(* When everything has come to rest a later sender finds a free slot: raises
   lost to the recipient's plain stores leave slots claimed for good, but
   never all of them, unless talkreply has put its pager text in slot 0. *)
RestsUsable ==
  Quiescent => \/ \E j \in 0 .. MAX_MSGS - 1 : mpid[j] = None
               \/ mpid[0] = Caller

(* At rest the queue has nothing left over: no message that nobody will show,
   and room for the next sender (write_request_default, wmsg_on_deliver). *)
RestsClean == RestsEmpty /\ RestsUsable
=============================================================================
