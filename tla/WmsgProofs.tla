----------------------------- MODULE WmsgProofs -----------------------------
(***************************************************************************)
(* The waterball queue never leaves msgs[] and its guard element, for any  *)
(* number of senders and any MAX_MSGS; where the pop-up is never used it   *)
(* never stores in front of msgs[] either; and unless ipc.svc was down it  *)
(* is empty and usable when everything has come to rest.                   *)
(***************************************************************************)
EXTENDS Wmsg, TLAPS

PopPC == {"popShow", "popLoad", "popStore", "popMove", "popFree"}

(***************************************************************************)
(* What each program counter knows.  wmsg_on_deliver inserts only after it *)
(* has seen fewer than MAX_MSGS messages, and from then on msgcount moves  *)
(* only by raises, which stop at MAX_MSGS: its increment can reach         *)
(* MAX_MSGS + 1, once.  msgcount is negative only where no handler is      *)
(* about to index with it.                                                 *)
(***************************************************************************)
SenderKnows ==
  \A s \in Senders :
    /\ spc[s] \in {"fill", "raise"} => spos[s] < MAX_MSGS
    /\ spc[s] # "idle" => sent[s] >= 1

DeliverKnows ==
  /\ rpc \in {"pid", "fields"} => cnt < MAX_MSGS /\ pkt \in Msgs
  /\ rpc = "fields" => cnt >= 0
  /\ rpc \in {"pid", "fields", "load"} => msgcount <= MAX_MSGS
  /\ rpc = "store" => tmp \in 0 .. MAX_MSGS

DrainKnows ==
  /\ rpc \in {"free", "ofoFree"} => idx < lim
  /\ rpc \in {"ofoHist", "ofoFree", "ofoLoad", "ofoStore"} => lim >= 0

PopKnows ==
  /\ rpc \in PopPC => popi < popn
  /\ rpc = "popStore" => tmp >= 0
  /\ rpc \in {"popMove", "popFree"} => msgcount <= MAX_MSGS
  /\ popn >= 0
  /\ msgcount < 0 => /\ rpc \in {"vkey", "pid", "ofoFlush", "corrupt", "gone"}
                     /\ popn = 0 /\ (rpc = "pid" => cnt < 0)

Inv == TypeOK /\ SenderKnows /\ DeliverKnows /\ DrainKnows /\ PopKnows

(* A packet's sender is a pid and the packet itself a body. *)
LEMMA MsgFields == \A m \in Msgs : m[1] \in Pids /\ m \in Bodies
  BY DEF Msgs, Pids, Bodies

(* The message a sender is working on is one of the messages. *)
LEMMA SenderMsg ==
  ASSUME TypeOK, NEW s \in Senders, sent[s] >= 1
  PROVE  Msg(s) \in Msgs
  BY ConstantsAssumption DEF TypeOK, Msg, Msgs

(* The queue starts empty, every program counter at its start. *)
LEMMA InitInv == Init => Inv
  BY MaxMsgsAssumption, ConstantsAssumption
  DEF Init, Inv, TypeOK, SenderKnows, DeliverKnows, DrainKnows, PopKnows, PopPC,
      Index, Counts, NoMsg, Pids, Bodies, SenderPC, RecvPC

(* The UNCHANGED tuples, the program counter helpers and the parts of Inv are
   open in every step below; each proof cites what is particular to it. *)
USE MaxMsgsAssumption, ConstantsAssumption
USE DEF slots, shm, send, loc, pop, ui, seen, recv, Step, Return, Goto,
        BackToVkey, Inv, TypeOK, SenderKnows, DeliverKnows, DrainKnows,
        PopKnows, PopPC, Index, Counts, SenderPC, RecvPC, NoMsg

-----------------------------------------------------------------------------
(* The senders' steps preserve the invariant. *)

(* Entering the call: the scan starts at slot 0. *)
LEMMA WriteMessageInv ==
  ASSUME Inv, NEW s \in Senders, WriteMessage(s) PROVE Inv'
  BY DEF WriteMessage

(* A message for a twin session touches no slot here. *)
LEMMA WriteToTwinInv ==
  ASSUME Inv, NEW s \in Senders, WriteToTwin(s) PROVE Inv'
  BY DEF WriteToTwin

(* Giving up with -3 changes nothing that is shared. *)
LEMMA QueueFullInv ==
  ASSUME Inv, NEW s \in Senders, QueueFull(s) PROVE Inv'
  BY DEF QueueFull

(* A raise never passes pos + 1, which is at most MAX_MSGS. *)
LEMMA RaiseCountInv ==
  ASSUME Inv, NEW s \in Senders, RaiseCount(s) PROVE Inv'
  BY DEF RaiseCount

(* A failed request leaves the queue as it is. *)
LEMMA SendDownInv ==
  ASSUME Inv, NEW s \in Senders, SendDown(s) PROVE Inv'
  BY DEF SendDown

(* A swap that succeeds leaves pos below MAX_MSGS. *)
LEMMA ClaimSlotInv ==
  ASSUME Inv, NEW s \in Senders, ClaimSlot(s) PROVE Inv'
  <1>1. CASE mpid[spos[s]] = None
    <2>1. /\ mpid' = [mpid EXCEPT ![spos[s]] = s] /\ spos' = spos
          /\ spc' = [spc EXCEPT ![s] = "fill"]
      BY <1>1 DEF ClaimSlot
    <2>2. mpid' \in [Index -> Pids]
      BY <2>1 DEF Pids
    <2>3. SenderKnows' /\ spc' \in [Senders -> SenderPC]
      BY <2>1 DEF ClaimSlot
    <2> QED
      BY <2>1, <2>2, <2>3 DEF ClaimSlot
  <1>2. CASE mpid[spos[s]] # None
    <2>1. spos[s] + 1 \in Index
      BY DEF ClaimSlot
    <2>2. spos' = [spos EXCEPT ![s] = spos[s] + 1] /\ spc' = spc /\ mpid' = mpid
      BY <1>2 DEF ClaimSlot
    <2> QED
      BY <1>2, <2>1, <2>2 DEF ClaimSlot
  <1> QED
    BY <1>1, <1>2

(* Filling writes inside the array. *)
LEMMA FillInv ==
  ASSUME Inv, NEW s \in Senders, Fill(s) PROVE Inv'
  <1>1. Msg(s) \in Msgs
    BY SenderMsg DEF Fill
  <1> QED
    BY <1>1, MsgFields DEF Fill

(* The packet that is queued is a message. *)
LEMMA SendAckedInv ==
  ASSUME Inv, NEW s \in Senders, SendAcked(s) PROVE Inv'
  <1>1. Msg(s) \in Msgs
    BY SenderMsg DEF SendAcked
  <1> QED
    BY <1>1, MsgFields DEF SendAcked, Wake

(* So it is when the ACK comes late. *)
LEMMA SendLateInv ==
  ASSUME Inv, NEW s \in Senders, SendLate(s) PROVE Inv'
  <1>1. Msg(s) \in Msgs
    BY SenderMsg DEF SendLate
  <1> QED
    BY <1>1, MsgFields DEF SendLate, Wake

-----------------------------------------------------------------------------
(* The recipient's steps preserve the invariant. *)

(* The insert path is taken only below MAX_MSGS; the other only with a
   count that is not negative. *)
LEMMA OnDeliverInv ==
  ASSUME Inv, OnDeliver PROVE Inv'
  <1>1. Head(chan) \in Msgs /\ Tail(chan) \in Seq(Msgs)
    BY DEF OnDeliver, OnDeliverUpTo
  <1>2. CASE ~Queued(Head(chan), msgcount) /\ msgcount < MAX_MSGS
    BY <1>1, <1>2 DEF OnDeliver, OnDeliverUpTo
  <1>3. CASE ~(~Queued(Head(chan), msgcount) /\ msgcount < MAX_MSGS)
    <2>1. msgcount >= 0
      BY <1>3 DEF Queued
    <2>2. rpc' = "request" /\ msgcount' = msgcount /\ popn' = popn
      BY <1>3 DEF OnDeliver, OnDeliverUpTo
    <2> QED
      BY <1>1, <2>1, <2>2 DEF OnDeliver, OnDeliverUpTo
  <1> QED
    BY <1>2, <1>3

(* The insert position is an element of msgs[], or the queue is given up
   as corrupt. *)
LEMMA InsertPidInv ==
  ASSUME Inv, InsertPid PROVE Inv'
  <1>1. pkt[1] \in Pids
    BY MsgFields DEF InsertPid
  <1>2. CASE cnt < 0
    BY <1>2 DEF InsertPid
  <1>3. CASE ~(cnt < 0)
    <2>1. cnt \in Index
      BY <1>3 DEF InsertPid
    <2>2. mpid' = [mpid EXCEPT ![cnt] = pkt[1]] /\ rpc' = "fields"
      BY <1>3 DEF InsertPid
    <2>3. mpid' \in [Index -> Pids]
      BY <1>1, <2>1, <2>2
    <2> QED
      BY <1>3, <2>2, <2>3 DEF InsertPid
  <1> QED
    BY <1>2, <1>3

(* The drain reads elements below its limit. *)
LEMMA DrainInv ==
  ASSUME Inv, Drain PROVE Inv'
  <1>1. CASE idx < lim
    <2>1. mbody[idx] \in Bodies
      BY <1>1
    <2> QED
      BY <1>1, <2>1 DEF Drain, Show, AddHistory
  <1>2. CASE ~(idx < lim)
    BY <1>2 DEF Drain
  <1> QED
    BY <1>1, <1>2

(* The rest of the insert. *)
LEMMA InsertFieldsInv ==
  ASSUME Inv, InsertFields PROVE Inv'
  BY MsgFields DEF InsertFields

(* The value loaded for msgcount++ is at most MAX_MSGS. *)
LEMMA IncrLoadInv ==
  ASSUME Inv, IncrLoad PROVE Inv'
  BY DEF IncrLoad

(* So the increment stores at most MAX_MSGS + 1. *)
LEMMA IncrStoreInv ==
  ASSUME Inv, IncrStore PROVE Inv'
  BY DEF IncrStore

(* The three ways of write_request start with a count that is not
   negative. *)
LEMMA WriteRequestInv ==
  ASSUME Inv, WriteRequest PROVE Inv'
  BY DEF WriteRequest, WriteRequestFrom, RequestOfo, RequestPop, RequestDrain, CanPop

(* The drain frees elements below its limit. *)
LEMMA DrainFreeInv ==
  ASSUME Inv, DrainFree PROVE Inv'
  BY DEF DrainFree, Pids

(* The drain ends with count 0. *)
LEMMA DrainResetInv ==
  ASSUME Inv, DrainReset PROVE Inv'
  BY DEF DrainReset

(* The pop-up shows msgs[0]. *)
LEMMA PopShowInv ==
  ASSUME Inv, PopShow PROVE Inv'
  BY DEF PopShow, Show, AddHistory

(* The value loaded for the countdown is not negative. *)
LEMMA PopLoadInv ==
  ASSUME Inv, PopLoad PROVE Inv'
  BY DEF PopLoad

(* memmove reads up to gap_4. *)
LEMMA PopMoveInv ==
  ASSUME Inv, PopMove PROVE Inv'
  BY DEF PopMove

(* The freed element is in the array or gap_4. *)
LEMMA PopFreeInv ==
  ASSUME Inv, PopFree PROVE Inv'
  BY DEF PopFree, Pids

(* The pop-up goes on while messages it counted are left. *)
LEMMA PopKeyInv ==
  ASSUME Inv, PopKey PROVE Inv'
  BY DEF PopKey, EndPop

(* alreadyshow stays an index. *)
LEMMA OfoShowInv ==
  ASSUME Inv, OfoShow PROVE Inv'
  BY DEF OfoShow, OfoShowUpTo, Show

(* The flush starts with a positive count. *)
LEMMA OfoFlushInv ==
  ASSUME Inv, OfoFlush PROVE Inv'
  BY DEF OfoFlush

(* The flush frees elements below its limit. *)
LEMMA OfoFreeInv ==
  ASSUME Inv, OfoFree PROVE Inv'
  BY DEF OfoFree, Pids

(* A load of msgcount. *)
LEMMA OfoLoadInv ==
  ASSUME Inv, OfoLoad PROVE Inv'
  BY DEF OfoLoad

(* The subtraction is clamped at 0. *)
LEMMA OfoStoreInv ==
  ASSUME Inv, OfoStore PROVE Inv'
  BY DEF OfoStore, OfoSubtract

(* Starting a reply touches no queue. *)
LEMMA OfoReplyInv ==
  ASSUME Inv, OfoReply PROVE Inv'
  BY DEF OfoReply

(* Ending a reply may start a flush. *)
LEMMA OfoReplyDoneInv ==
  ASSUME Inv, OfoReplyDone PROVE Inv'
  BY DEF OfoReplyDone

(* A talk request is taken up with an empty queue. *)
LEMMA TalkRequestInv ==
  ASSUME Inv, TalkRequest PROVE Inv'
  BY DEF TalkRequest

(* It comes to nothing before or after the count was reset. *)
LEMMA TalkFailsInv ==
  ASSUME Inv, TalkOff \/ TalkFails PROVE Inv'
  <1>1. CASE TalkOff
    BY <1>1 DEF TalkOff
  <1>2. CASE TalkFails
    BY <1>2 DEF TalkFails
  <1> QED
    BY <1>1, <1>2

(* Its connection resets the count. *)
LEMMA TalkResetInv ==
  ASSUME Inv, TalkReset PROVE Inv'
  BY DEF TalkReset

(* Its text goes to msgs[0]. *)
LEMMA TalkSlotInv ==
  ASSUME Inv, TalkSlot PROVE Inv'
  BY DEF TalkSlot, Pids, Bodies

(* Changing modes touches no queue. *)
LEMMA ChangeModeInv ==
  ASSUME Inv, ChangeMode PROVE Inv'
  BY DEF ChangeMode

(* The countdown ends the pop-up or leaves a valid index. *)
LEMMA PopStoreInv ==
  ASSUME Inv, PopStore PROVE Inv'
  <1>1. CASE tmp - 1 < 0
    BY <1>1 DEF PopStore, EndPop
  <1>2. CASE ~(tmp - 1 < 0)
    BY <1>2 DEF PopStore
  <1> QED
    BY <1>1, <1>2

(* The flush reads elements below its limit. *)
LEMMA OfoHistInv ==
  ASSUME Inv, OfoHist PROVE Inv'
  <1>1. CASE idx < lim
    <2>1. mbody[idx] \in Bodies
      BY <1>1
    <2> QED
      BY <1>1, <2>1 DEF OfoHist, AddHistory
  <1>2. CASE ~(idx < lim)
    BY <1>2 DEF OfoHist
  <1> QED
    BY <1>1, <1>2

(* Leaving clears the entry. *)
LEMMA LogoutInv ==
  ASSUME Inv, Logout PROVE Inv'
  <1>1. mpid' \in [Index -> Pids] /\ mbody' \in [Index -> Bodies]
    BY DEF Logout, Pids, Bodies
  <1>2. chan' \in Seq(Msgs)
    BY DEF Logout
  <1> QED
    BY <1>1, <1>2 DEF Logout

-----------------------------------------------------------------------------
(* Every step of the system preserves the invariant. *)
LEMMA NextInv == Inv /\ [Next]_vars => Inv'
  <1> SUFFICES ASSUME Inv, [Next]_vars PROVE Inv'
    OBVIOUS
  <1>1. CASE UNCHANGED vars
    BY <1>1 DEF vars
  <1>2. ASSUME NEW s \in Senders, Sender(s) PROVE Inv'
    BY <1>2, WriteMessageInv, WriteToTwinInv, ClaimSlotInv, QueueFullInv, FillInv,
       RaiseCountInv, SendAckedInv, SendLateInv, SendDownInv DEF Sender
  <1>3. CASE Handler
    BY <1>3, OnDeliverInv, InsertPidInv, InsertFieldsInv, IncrLoadInv,
       IncrStoreInv, WriteRequestInv, DrainInv, DrainFreeInv, DrainResetInv,
       PopShowInv, PopLoadInv, PopStoreInv, PopMoveInv, PopFreeInv, OfoShowInv,
       OfoFlushInv, OfoHistInv, OfoFreeInv, OfoLoadInv, OfoStoreInv,
       TalkFailsInv, TalkResetInv, TalkSlotInv DEF Handler
  <1>4. CASE User
    BY <1>4, PopKeyInv, OfoReplyInv, OfoReplyDoneInv, TalkRequestInv,
       ChangeModeInv, LogoutInv DEF User
  <1> QED
    BY <1>1, <1>2, <1>3, <1>4 DEF Next

HIDE DEF Inv, TypeOK, SenderKnows, DeliverKnows, DrainKnows, PopKnows

(* The invariant holds in every reachable state. *)
LEMMA InvAlways == Spec => []Inv
  BY InitInv, NextInv, PTL DEF Spec

(* Every variable of the queue's specification keeps its type; in particular
   msgcount stays between -1 and MAX_MSGS + 1. *)
THEOREM TypeCorrect == Spec => []TypeOK
  <1>1. Inv => TypeOK
    BY DEF Inv
  <1> QED
    BY <1>1, InvAlways, PTL

(* No handler of the recipient reads or writes an element of msgs[] behind
   gap_4, however the senders' raises and the recipient's unsynchronised
   updates of msgcount interleave. *)
THEOREM NoOverrunHolds == Spec => []NoOverrun
  <1>1. Inv => NoOverrun
    BY DEF NoOverrun, Inv, TypeOK, DeliverKnows, DrainKnows, PopKnows
  <1> QED
    BY <1>1, InvAlways, PTL

-----------------------------------------------------------------------------
(* Where the pop-up is never used, either because the pager is one-for-one or
   because the user stays in modes that do not pop up, msgcount is never
   negative. *)
NoPopUp == Ofo \/ "menu" \notin Modes

NonNegative ==
  /\ msgcount >= 0 /\ popn = 0 /\ rpc \notin PopPC \cup {"corrupt"}
  /\ rpc = "pid" => cnt >= 0

(* Every step keeps it so. *)
LEMMA NextNonNegative ==
  ASSUME NoPopUp, Inv, NonNegative, [Next]_vars PROVE NonNegative'
  <1> USE DEF Inv, TypeOK, SenderKnows, DeliverKnows, DrainKnows, PopKnows
  <1>1. CASE UNCHANGED vars
    BY <1>1 DEF vars, NonNegative
  <1>2. ASSUME NEW s \in Senders, Sender(s) PROVE NonNegative'
    BY <1>2 DEF NonNegative, Sender, WriteMessage, WriteToTwin, ClaimSlot, QueueFull,
       Fill, RaiseCount, SendAcked, SendLate, SendDown
  <1>3. CASE Handler
    <2>1. CASE OnDeliver
      BY <2>1 DEF NonNegative, OnDeliver, OnDeliverUpTo
    <2>2. CASE InsertPid
      BY <2>2 DEF NonNegative, InsertPid
    <2>3. CASE InsertFields
      BY <2>3 DEF NonNegative, InsertFields
    <2>4. CASE IncrLoad
      BY <2>4 DEF NonNegative, IncrLoad
    <2>5. CASE IncrStore
      BY <2>5 DEF NonNegative, IncrStore
    <2>6. CASE WriteRequest
      BY <2>6 DEF NonNegative, WriteRequest, NoPopUp, WriteRequestFrom,
         RequestOfo, RequestPop, RequestDrain, CanPop
    <2>7. CASE Drain
      BY <2>7 DEF NonNegative, Drain
    <2>8. CASE DrainFree
      BY <2>8 DEF NonNegative, DrainFree
    <2>9. CASE DrainReset
      BY <2>9 DEF NonNegative, DrainReset
    <2>10. CASE PopShow
      BY <2>10 DEF NonNegative, PopShow
    <2>11. CASE PopLoad
      BY <2>11 DEF NonNegative, PopLoad
    <2>12. CASE PopStore
      BY <2>12 DEF NonNegative, PopStore
    <2>13. CASE PopMove
      BY <2>13 DEF NonNegative, PopMove
    <2>14. CASE PopFree
      BY <2>14 DEF NonNegative, PopFree
    <2>15. CASE OfoShow
      BY <2>15 DEF NonNegative, OfoShow, OfoShowUpTo
    <2>16. CASE OfoFlush
      BY <2>16 DEF NonNegative, OfoFlush
    <2>17. CASE OfoHist
      BY <2>17 DEF NonNegative, OfoHist
    <2>18. CASE OfoFree
      BY <2>18 DEF NonNegative, OfoFree
    <2>19. CASE OfoLoad
      BY <2>19 DEF NonNegative, OfoLoad
    <2>20. CASE OfoStore
      BY <2>20 DEF NonNegative, OfoStore, OfoSubtract
    <2>21. CASE TalkReset
      BY <2>21 DEF NonNegative, TalkReset
    <2>22. CASE TalkSlot
      BY <2>22 DEF NonNegative, TalkSlot
    <2>23. CASE TalkOff \/ TalkFails
      BY <2>23 DEF NonNegative, TalkOff, TalkFails
    <2> QED
      BY <1>3, <2>1, <2>2, <2>3, <2>4, <2>5, <2>6, <2>7, <2>8, <2>9, <2>10,
         <2>11, <2>12, <2>13, <2>14, <2>15, <2>16, <2>17, <2>18, <2>19, <2>20, <2>23,
         <2>21, <2>22 DEF Handler
  <1>4. CASE User
    BY <1>4 DEF NonNegative, User, PopKey, OfoReply, OfoReplyDone, TalkRequest,
       ChangeMode, Logout
  <1> QED
    BY <1>1, <1>2, <1>3, <1>4 DEF Next

(* Without the pop-up, wmsg_on_deliver never stores in front of msgs[0]. *)
THEOREM NoUnderrunWithoutPopUp ==
  ASSUME NoPopUp PROVE Spec => []NoUnderrun
  <1>1. Init => NonNegative
    BY DEF Init, NonNegative
  <1>2. Inv /\ NonNegative /\ [Next]_vars => NonNegative'
    BY NextNonNegative
  <1>3. NonNegative => NoUnderrun
    BY DEF NonNegative, NoUnderrun
  <1> QED
    BY <1>1, <1>2, <1>3, InvAlways, PTL DEF Spec

-----------------------------------------------------------------------------
(***************************************************************************)
(* At rest the queue is empty and usable, unless ipc.svc was down.  What   *)
(* is left over always has somebody to see to it: a sender that will send  *)
(* its packet, a packet on its way, or the handler that runs; and every    *)
(* packet that is handled ends with slot 0 free.                           *)
(***************************************************************************)
Pending == chan # <<>> \/ \E s \in Senders : spc[s] \in {"fill", "raise", "send"}
Slot0 == mpid[0] \in {None, Caller}

(* Which form of write_request runs, and that it finds something. *)
Shape ==
  /\ rpc \in {"request", "ofoShow", "ofoFlush"} => msgcount >= 1
  /\ rpc \in {"drain", "free", "ofoHist", "ofoFree", "ofoLoad", "ofoStore"} => lim >= 1
  /\ Ofo => popn = 0 /\ rpc \notin PopPC \cup {"drain", "free", "reset"}
  /\ wmofo # "NOTREPLYING" => Ofo
  /\ wmofo = "RECVINREPLYING" => msgcount >= 1 /\ rpc \notin {"talk", "talkSlot"}
  /\ rpc \in {"ofoShow", "ofoFlush"} => wmofo # "REPLYING"
  /\ rpc \in {"ofoHist", "ofoFree", "ofoLoad", "ofoStore"} => wmofo = "NOTREPLYING"

(* Where nothing is pending, what is queued is what the handler or the open
   pop-up still goes through, and slot 0 is free, or will be after that. *)
Quiet ==
  /\ rpc = "vkey" => \/ wmofo = "RECVINREPLYING"
                     \/ msgcount <= 0 /\ Slot0
                     \/ popi < popn /\ msgcount = popn - popi
  /\ rpc = "talkSlot" => msgcount <= 0
  /\ rpc \in {"drain", "free"} /\ idx >= 1 => Slot0
  /\ rpc = "reset" => Slot0
  /\ rpc \in {"popShow", "popLoad"} => (msgcount = 0 /\ Slot0) \/ msgcount = popn - popi
  /\ rpc = "popStore" => (tmp = 0 /\ Slot0) \/ tmp = popn - popi
  /\ rpc \in {"popMove", "popFree"} => msgcount = popn - popi - 1
  /\ rpc \in {"ofoHist", "ofoFree"} => msgcount <= lim /\ (idx >= 1 => Slot0)
  /\ rpc = "ofoLoad" => msgcount <= lim /\ Slot0
  /\ rpc = "ofoStore" => tmp <= lim /\ Slot0

SeenTo == online => Shape /\ (Pending \/ Quiet)

(* At the start there is nothing in the queue. *)
LEMMA InitSeenTo == Init => SeenTo
  BY DEF Init, SeenTo, Shape, Quiet, Slot0

(* The packet that ipc.svc queues is pending. *)
LEMMA Woken ==
  ASSUME Inv, NEW s \in Senders, spc[s] = "send", online, Wake(s)
  PROVE  chan' # <<>>
  <1>1. Msg(s) \in Msgs /\ chan \in Seq(Msgs)
    BY SenderMsg DEF Inv, TypeOK, SenderKnows
  <1>2. PICK m \in Msgs : m = Msg(s)
    BY <1>1
  <1>3. Len(Append(chan, m)) = Len(chan) + 1 /\ Len(chan) \in Nat
    BY <1>1
  <1> QED
    BY <1>2, <1>3 DEF Wake

(* While something is pending, and it is still afterwards, only the shape of
   what runs has to be kept. *)
LEMMA SenderSeenTo ==
  ASSUME "down" \notin Faults, Inv, SeenTo, NEW s \in Senders, Sender(s)
  PROVE  SeenTo'
  <1> USE DEF Inv, TypeOK, SenderKnows, DeliverKnows, DrainKnows, PopKnows, SeenTo, Shape
  <1>1. CASE WriteMessage(s)
    BY <1>1 DEF WriteMessage, Quiet, Slot0, Pending
  <1>2. CASE WriteToTwin(s)
    BY <1>2 DEF WriteToTwin, Quiet, Slot0, Pending
  <1>3. CASE ClaimSlot(s)
    BY <1>3 DEF ClaimSlot, Quiet, Slot0, Pending
  <1>4. CASE QueueFull(s)
    BY <1>4 DEF QueueFull, Quiet, Slot0, Pending
  <1>5. CASE Fill(s)
    BY <1>5 DEF Fill, Quiet, Slot0, Pending
  <1>6. CASE RaiseCount(s)
    BY <1>6 DEF RaiseCount, Quiet, Slot0, Pending
  <1>7. CASE SendAcked(s)
    BY <1>7, Woken DEF SendAcked, Pending
  <1>8. CASE SendLate(s)
    BY <1>8, Woken DEF SendLate, Pending
  <1> QED
    BY <1>1, <1>2, <1>3, <1>4, <1>5, <1>6, <1>7, <1>8 DEF Sender, SendDown

(* The recipient's steps. *)
LEMMA HandlerSeenTo ==
  ASSUME Inv, SeenTo, Handler
  PROVE  SeenTo'
  <1> USE DEF Inv, TypeOK, SenderKnows, DeliverKnows, DrainKnows, PopKnows, SeenTo, Shape,
          Quiet, Slot0, Pending
  <1>1. CASE OnDeliver
    BY <1>1 DEF OnDeliver, OnDeliverUpTo, Queued
  <1>2. CASE InsertPid
    BY <1>2 DEF InsertPid
  <1>3. CASE InsertFields
    BY <1>3 DEF InsertFields
  <1>4. CASE IncrLoad
    BY <1>4 DEF IncrLoad
  <1>5. CASE IncrStore
    BY <1>5 DEF IncrStore
  <1>6. CASE WriteRequest
    BY <1>6 DEF WriteRequest, WriteRequestFrom, RequestOfo, RequestPop,
       RequestDrain, CanPop
  <1>7. CASE Drain
    BY <1>7 DEF Drain
  <1>8. CASE DrainFree
    BY <1>8 DEF DrainFree
  <1>9. CASE DrainReset
    BY <1>9 DEF DrainReset
  <1>10. CASE PopShow
    BY <1>10 DEF PopShow
  <1>11. CASE PopLoad
    BY <1>11 DEF PopLoad
  <1>12. CASE PopStore
    <2>1. CASE tmp - 1 < 0
      BY <1>12, <2>1 DEF PopStore, EndPop
    <2>2. CASE ~(tmp - 1 < 0)
      BY <1>12, <2>2 DEF PopStore
    <2> QED
      BY <2>1, <2>2
  <1>13. CASE PopMove
    BY <1>13 DEF PopMove
  <1>14. CASE PopFree
    BY <1>14 DEF PopFree
  <1>15. CASE OfoShow
    BY <1>15 DEF OfoShow, OfoShowUpTo
  <1>16. CASE OfoFlush
    BY <1>16 DEF OfoFlush
  <1>17. CASE OfoHist
    BY <1>17 DEF OfoHist
  <1>18. CASE OfoFree
    BY <1>18 DEF OfoFree
  <1>19. CASE OfoLoad
    BY <1>19 DEF OfoLoad
  <1>20. CASE OfoStore
    BY <1>20 DEF OfoStore, OfoSubtract
  <1>21. CASE TalkReset
    BY <1>21 DEF TalkReset
  <1>22. CASE TalkSlot
    BY <1>22 DEF TalkSlot
  <1>23. CASE TalkOff
    BY <1>23 DEF TalkOff
  <1>24. CASE TalkFails
    BY <1>24 DEF TalkFails
  <1> QED
    BY <1>1, <1>2, <1>3, <1>4, <1>5, <1>6, <1>7, <1>8, <1>9, <1>10,
       <1>11, <1>12, <1>13, <1>14, <1>15, <1>16, <1>17, <1>18, <1>19, <1>20, <1>21, <1>22, <1>23,
       <1>24 DEF Handler

(* The user's steps. *)
LEMMA UserSeenTo ==
  ASSUME Inv, SeenTo, User
  PROVE  SeenTo'
  <1> USE DEF Inv, TypeOK, SenderKnows, DeliverKnows, DrainKnows, PopKnows, SeenTo, Shape,
          Quiet, Slot0, Pending
  <1>1. CASE PopKey
    BY <1>1 DEF PopKey, EndPop
  <1>2. CASE OfoReply
    BY <1>2 DEF OfoReply
  <1>3. CASE OfoReplyDone
    BY <1>3 DEF OfoReplyDone
  <1>4. CASE TalkRequest
    BY <1>4 DEF TalkRequest
  <1>5. CASE ChangeMode
    BY <1>5 DEF ChangeMode
  <1>6. CASE Logout
    BY <1>6 DEF Logout
  <1> QED
    BY <1>1, <1>2, <1>3, <1>4, <1>5, <1>6 DEF User

(* While ipc.svc is there to wake the recipient, though its answers may be late,
   the queue is empty and usable whenever everything has come to rest, for any
   number of senders, messages and slots: raises and claims that the plain stores
   of write_request and wmsg_on_deliver have overwritten belong to a sender whose
   packet is still to come, and whose handling empties the queue and frees slot 0
   (write_message_full, wmsg_on_deliver, write_request_default, write_request_ofo). *)
THEOREM QueueRestsClean ==
  ASSUME "down" \notin Faults
  PROVE  Spec => []RestsClean
  <1>1. Inv /\ SeenTo /\ [Next]_vars => SeenTo'
    <2> SUFFICES ASSUME Inv, SeenTo, [Next]_vars PROVE SeenTo'
      OBVIOUS
    <2>1. CASE UNCHANGED vars
      BY <2>1 DEF vars, SeenTo, Shape, Quiet, Slot0, Pending
    <2> QED
      BY <2>1, SenderSeenTo, HandlerSeenTo, UserSeenTo DEF Next
  <1>2. Inv /\ SeenTo => RestsClean
    BY DEF Inv, TypeOK, SeenTo, Quiet, Slot0, Pending, RestsClean, RestsEmpty,
       RestsUsable, Quiescent
  <1> QED
    BY <1>1, <1>2, InitSeenTo, InvAlways, PTL DEF Spec
=============================================================================
