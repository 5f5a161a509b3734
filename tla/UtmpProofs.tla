----------------------------- MODULE UtmpProofs -----------------------------
(***************************************************************************)
(* Proofs about UtmpUser and UtmpSvc, for any number of processes, users   *)
(* and slots.  TypeOK is not inductive by itself: the words that           *)
(* clean_marked_nodes loads have a type only if it indexes the arrays      *)
(* within their bounds, and it does so only while its loop counters and    *)
(* the purpose of the call are what CleanOK says.                          *)
(***************************************************************************)
EXTENDS UtmpSvc, FiniteSetTheorems, WellFoundedInduction, TLAPS

Cleaning == {"clean", "headnext", "cuthead", "prev", "curr", "unlink"}

CleanOK ==
  \A p \in Procs :
    /\ pc[p] \in Cleaning \cup {"remove", "mark"}
         => job[p] \in {"evict", "add", "purge"} /\ unum[p] \in Uids
    /\ pc[p] \in Cleaning => attempts[p] < USHM_SIZE
    /\ pc[p] \in {"prev", "curr", "unlink"} => count[p] < USHM_SIZE
    /\ pc[p] = "out" => probes[p] < USHM_SIZE

IInv == TypeOK /\ InBounds /\ CleanOK

USE DEF Valid, At, Goto, Zero, ents, shm, lists, own, walk

\* What the constants' assumptions say about the ranges.
LEMMA Bounds ==
  /\ 0 \in Heads /\ -1 \in Heads /\ Slots \subseteq Heads
  /\ \A h \in Heads : h + 1 \in Words
  /\ 0 \in Words /\ 0 \in Loops /\ 0 < USHM_SIZE
  /\ \A n \in Loops : n \in Int /\ (n < USHM_SIZE => n + 1 \in Loops)
  /\ 0 \in Owners /\ Uids \subseteq Owners
  /\ UserOf \in [Procs -> Uids] /\ Home \in [Uids -> Slots]
  /\ \A s \in Slots : (s + 1) % USHM_SIZE \in Slots
BY SizeAssumption, UtmpAssumption DEF Heads, Words, Loops, Owners, Uids, Slots

\* Decoding and marking a word of next_session.
LEMMA WordsOK ==
  ASSUME NEW w \in Words
  PROVE  DecodeSlot(w) \in Heads /\ MarkDeleted(w) \in Words
BY SizeAssumption DEF Words, Heads, DecodeSlot, MarkDeleted, IsDeleted, DELETED

\* Encoding a slot, or the -1 of an empty list, as a word.
LEMMA EncodeOK ==
  ASSUME NEW s \in Heads
  PROVE  EncodeNext(s) \in Words
BY Bounds DEF EncodeNext

\* Where clean_marked_nodes returns to.
LEMMA ReturnOK ==
  ASSUME NEW p \in Procs, job[p] \in {"evict", "add", "purge"}
  PROVE  Return(p) \in {"setuser", "loadhead", "memset"}
BY DEF Return

\* The invariant holds before anybody logs in.
LEMMA InitOK == Init => IInv
BY Bounds, UtmpAssumption DEF Init, ListEmpty, IInv, TypeOK, TableType,
   OwnType, WalkType,
       PCs, Jobs, InBounds, CleanOK, Cleaning

\* A step of nobody preserves it.
LEMMA StutterOK == IInv /\ UNCHANGED uvars => IInv'
BY DEF IInv, TypeOK, TableType, OwnType, WalkType, InBounds, CleanOK,
       uvars, shm, ents, own, walk

\* Claim preserves the invariant.
LEMMA ClaimOK ==
  ASSUME IInv, NEW p \in Procs, Claim(p)
  PROVE  IInv'
<1>. USE Bounds DEF IInv, TypeOK, Claim
<1>1. TableType'  BY DEF TableType, OwnType
<1>2. OwnType'  BY DEF OwnType, PCs, Jobs
<1>3. WalkType'  BY DEF WalkType, OwnType, TableType
<1>4. InBounds'  BY DEF InBounds, OwnType
<1>5. CleanOK'  BY DEF CleanOK, Cleaning, OwnType
<1>. QED  BY <1>1, <1>2, <1>3, <1>4, <1>5

\* ProbeNext preserves the invariant.
LEMMA ProbeNextOK ==
  ASSUME IInv, NEW p \in Procs, ProbeNext(p)
  PROVE  IInv'
<1>. USE Bounds DEF IInv, TypeOK, ProbeNext
<1>1. TableType'  BY DEF TableType, OwnType
<1>2. OwnType'  BY DEF OwnType, PCs, Jobs, CleanOK, Cleaning
<1>3. WalkType'  BY DEF WalkType, OwnType, TableType
<1>4. InBounds'  BY DEF InBounds, OwnType
<1>5. CleanOK'  BY DEF CleanOK, Cleaning, OwnType
<1>. QED  BY <1>1, <1>2, <1>3, <1>4, <1>5

\* CopyEntry preserves the invariant.
LEMMA CopyEntryOK ==
  ASSUME IInv, NEW p \in Procs, CopyEntry(p)
  PROVE  IInv'
<1>. USE Bounds DEF IInv, TypeOK, CopyEntry
<1>1. TableType'  BY DEF TableType, OwnType
<1>2. OwnType'  BY DEF OwnType, PCs, Jobs
<1>3. WalkType'  BY DEF WalkType, OwnType, TableType
<1>4. InBounds'  BY DEF InBounds, OwnType
<1>5. CleanOK'  BY DEF CleanOK, Cleaning, OwnType
<1>. QED  BY <1>1, <1>2, <1>3, <1>4, <1>5

\* AddBegin preserves the invariant.
LEMMA AddBeginOK ==
  ASSUME IInv, NEW p \in Procs, AddBegin(p)
  PROVE  IInv'
<1>. USE Bounds DEF IInv, TypeOK, AddBegin
<1>1. CASE session_user[slot[p]] \in Uids
  <2>1. TableType'  BY <1>1 DEF TableType, OwnType
  <2>2. OwnType'  BY <1>1 DEF OwnType, PCs, Jobs, TableType
  <2>3. WalkType'  BY <1>1 DEF WalkType, OwnType, TableType
  <2>4. InBounds'  BY <1>1 DEF InBounds, OwnType
  <2>5. CleanOK'  BY <1>1 DEF CleanOK, Cleaning, OwnType, TableType
  <2>. QED  BY <2>1, <2>2, <2>3, <2>4, <2>5
<1>2. CASE ~(session_user[slot[p]] \in Uids)
  <2>1. TableType'  BY <1>2 DEF TableType, OwnType
  <2>2. OwnType'  BY <1>2 DEF OwnType, PCs, Jobs, TableType
  <2>3. WalkType'  BY <1>2 DEF WalkType, OwnType, TableType
  <2>4. InBounds'  BY <1>2 DEF InBounds, OwnType
  <2>5. CleanOK'  BY <1>2 DEF CleanOK, Cleaning, OwnType, TableType
  <2>. QED  BY <2>1, <2>2, <2>3, <2>4, <2>5
<1>. QED  BY <1>1, <1>2

\* SetUser preserves the invariant.
LEMMA SetUserOK ==
  ASSUME IInv, NEW p \in Procs, SetUser(p)
  PROVE  IInv'
<1>. USE Bounds DEF IInv, TypeOK, SetUser
<1>1. TableType'  BY DEF TableType, OwnType
<1>2. OwnType'  BY DEF OwnType, PCs, Jobs
<1>3. WalkType'  BY DEF WalkType, OwnType, TableType
<1>4. InBounds'  BY DEF InBounds, OwnType
<1>5. CleanOK'  BY DEF CleanOK, Cleaning, OwnType, WalkType
<1>. QED  BY <1>1, <1>2, <1>3, <1>4, <1>5

\* LoadHead preserves the invariant.
LEMMA LoadHeadOK ==
  ASSUME IInv, NEW p \in Procs, LoadHead(p)
  PROVE  IInv'
<1>. USE Bounds DEF IInv, TypeOK, LoadHead
<1>1. TableType'  BY DEF TableType, OwnType
<1>2. OwnType'  BY DEF OwnType, PCs, Jobs
<1>3. WalkType'  BY DEF WalkType, OwnType, TableType
<1>4. InBounds'  BY DEF InBounds, OwnType
<1>5. CleanOK'  BY DEF CleanOK, Cleaning, OwnType
<1>. QED  BY <1>1, <1>2, <1>3, <1>4, <1>5

\* Link preserves the invariant.
LEMMA LinkOK ==
  ASSUME IInv, NEW p \in Procs, Link(p)
  PROVE  IInv'
<1>. USE Bounds DEF IInv, TypeOK, Link
<1>1. TableType'  BY EncodeOK DEF TableType, OwnType, WalkType, InBounds
<1>2. OwnType'  BY EncodeOK DEF OwnType, PCs, Jobs
<1>3. WalkType'  BY EncodeOK DEF WalkType, OwnType, TableType
<1>4. InBounds'  BY EncodeOK DEF InBounds, OwnType
<1>5. CleanOK'  BY EncodeOK DEF CleanOK, Cleaning, OwnType
<1>. QED  BY <1>1, <1>2, <1>3, <1>4, <1>5

\* Push preserves the invariant.
LEMMA PushOK ==
  ASSUME IInv, NEW p \in Procs, Push(p)
  PROVE  IInv'
<1>. USE Bounds DEF IInv, TypeOK, Push
<1>1. CASE user_head[UserOf[p]] = node[p]
  <2>1. TableType'  BY <1>1 DEF TableType, OwnType
  <2>2. OwnType'  BY <1>1 DEF OwnType, PCs, Jobs
  <2>3. WalkType'  BY <1>1 DEF WalkType, OwnType, TableType
  <2>4. InBounds'  BY <1>1 DEF InBounds, OwnType, WalkType, TableType
  <2>5. CleanOK'  BY <1>1 DEF CleanOK, Cleaning, OwnType
  <2>. QED  BY <2>1, <2>2, <2>3, <2>4, <2>5
<1>2. CASE ~(user_head[UserOf[p]] = node[p])
  <2>1. TableType'  BY <1>2 DEF TableType, OwnType
  <2>2. OwnType'  BY <1>2 DEF OwnType, PCs, Jobs
  <2>3. WalkType'  BY <1>2 DEF WalkType, OwnType, TableType
  <2>4. InBounds'  BY <1>2 DEF InBounds, OwnType, WalkType, TableType
  <2>5. CleanOK'  BY <1>2 DEF CleanOK, Cleaning, OwnType
  <2>. QED  BY <2>1, <2>2, <2>3, <2>4, <2>5
<1>. QED  BY <1>1, <1>2

\* Started preserves the invariant.
LEMMA StartedOK ==
  ASSUME IInv, NEW p \in Procs, Started(p)
  PROVE  IInv'
<1>. USE Bounds DEF IInv, TypeOK, Started
<1>1. TableType'  BY DEF TableType, OwnType
<1>2. OwnType'  BY DEF OwnType, PCs, Jobs
<1>3. WalkType'  BY DEF WalkType, OwnType, TableType
<1>4. InBounds'  BY DEF InBounds, OwnType
<1>5. CleanOK'  BY DEF CleanOK, Cleaning, OwnType
<1>. QED  BY <1>1, <1>2, <1>3, <1>4, <1>5

\* Logout preserves the invariant.
LEMMA LogoutOK ==
  ASSUME IInv, NEW p \in Procs, Logout(p)
  PROVE  IInv'
<1>. USE Bounds DEF IInv, TypeOK, Logout
<1>1. CASE uuid[slot[p]] = UserOf[p]
  <2>1. TableType'  BY <1>1 DEF TableType, OwnType
  <2>2. OwnType'  BY <1>1 DEF OwnType, PCs, Jobs, TableType
  <2>3. WalkType'  BY <1>1 DEF WalkType, OwnType, TableType
  <2>4. InBounds'  BY <1>1 DEF InBounds, OwnType
  <2>5. CleanOK'  BY <1>1 DEF CleanOK, Cleaning, OwnType, TableType
  <2>. QED  BY <2>1, <2>2, <2>3, <2>4, <2>5
<1>2. CASE ~(uuid[slot[p]] = UserOf[p])
  <2>1. TableType'  BY <1>2 DEF TableType, OwnType
  <2>2. OwnType'  BY <1>2 DEF OwnType, PCs, Jobs, TableType
  <2>3. WalkType'  BY <1>2 DEF WalkType, OwnType, TableType
  <2>4. InBounds'  BY <1>2 DEF InBounds, OwnType
  <2>5. CleanOK'  BY <1>2 DEF CleanOK, Cleaning, OwnType, TableType
  <2>. QED  BY <2>1, <2>2, <2>3, <2>4, <2>5
<1>. QED  BY <1>1, <1>2

\* ClearEntry preserves the invariant.
LEMMA ClearEntryOK ==
  ASSUME IInv, NEW p \in Procs, ClearEntry(p)
  PROVE  IInv'
<1>. USE Bounds DEF IInv, TypeOK, ClearEntry
<1>1. TableType'  BY DEF TableType, OwnType
<1>2. OwnType'  BY DEF OwnType, PCs, Jobs
<1>3. WalkType'  BY DEF WalkType, OwnType, TableType
<1>4. InBounds'  BY DEF InBounds, OwnType
<1>5. CleanOK'  BY DEF CleanOK, Cleaning, OwnType
<1>. QED  BY <1>1, <1>2, <1>3, <1>4, <1>5

\* NeedUpdate preserves the invariant.
LEMMA NeedUpdateOK ==
  ASSUME IInv, NEW p \in Procs, NeedUpdate(p)
  PROVE  IInv'
<1>. USE Bounds DEF IInv, TypeOK, NeedUpdate
<1>1. TableType'  BY DEF TableType, OwnType
<1>2. OwnType'  BY DEF OwnType, PCs, Jobs
<1>3. WalkType'  BY DEF WalkType, OwnType, TableType
<1>4. InBounds'  BY DEF InBounds, OwnType
<1>5. CleanOK'  BY DEF CleanOK, Cleaning, OwnType
<1>. QED  BY <1>1, <1>2, <1>3, <1>4, <1>5

\* Remove preserves the invariant.
LEMMA RemoveOK ==
  ASSUME IInv, NEW p \in Procs, Remove(p)
  PROVE  IInv'
<1>. USE Bounds DEF IInv, TypeOK, Remove
<1>1. TableType'  BY DEF TableType, OwnType
<1>2. OwnType'  BY DEF OwnType, PCs, Jobs
<1>3. WalkType'  BY DEF WalkType, OwnType, TableType
<1>4. InBounds'  BY DEF InBounds, OwnType
<1>5. CleanOK'  BY DEF CleanOK, Cleaning, OwnType
<1>. QED  BY <1>1, <1>2, <1>3, <1>4, <1>5

\* Mark preserves the invariant.
LEMMA MarkOK ==
  ASSUME IInv, NEW p \in Procs, Mark(p)
  PROVE  IInv'
<1>. USE Bounds DEF IInv, TypeOK, Mark
<1>1. TableType'  BY WordsOK DEF TableType, OwnType
<1>2. OwnType'  BY WordsOK DEF OwnType, PCs, Jobs
<1>3. WalkType'  BY WordsOK DEF WalkType, OwnType, TableType
<1>4. InBounds'  BY WordsOK DEF InBounds, OwnType, CleanOK, Cleaning
<1>5. CleanOK'  BY WordsOK DEF CleanOK, Cleaning, OwnType, WalkType
<1>. QED  BY <1>1, <1>2, <1>3, <1>4, <1>5

\* CleanLoadHead preserves the invariant.
LEMMA CleanLoadHeadOK ==
  ASSUME IInv, NEW p \in Procs, CleanLoadHead(p)
  PROVE  IInv'
<1>. USE Bounds DEF IInv, TypeOK, CleanLoadHead
<1>1. TableType'  BY ReturnOK DEF TableType, OwnType, WalkType, InBounds
<1>2. OwnType'  BY ReturnOK DEF OwnType, PCs, Jobs, CleanOK, Cleaning
<1>3. WalkType'  BY ReturnOK DEF WalkType, OwnType, TableType, InBounds,
   CleanOK, Cleaning
<1>4. InBounds'  BY ReturnOK DEF InBounds, OwnType, WalkType, TableType,
   CleanOK, Cleaning
<1>5. CleanOK'  BY ReturnOK DEF CleanOK, Cleaning, OwnType, WalkType
<1>. QED  BY <1>1, <1>2, <1>3, <1>4, <1>5

\* CleanLoadHeadNext preserves the invariant.
LEMMA CleanLoadHeadNextOK ==
  ASSUME IInv, NEW p \in Procs, CleanLoadHeadNext(p)
  PROVE  IInv'
<1>. USE Bounds DEF IInv, TypeOK, CleanLoadHeadNext
<1>1. TableType'  BY DEF TableType, OwnType, WalkType, InBounds
<1>2. OwnType'  BY DEF OwnType, PCs, Jobs, CleanOK, Cleaning
<1>3. WalkType'  BY DEF WalkType, OwnType, TableType, InBounds, CleanOK,
   Cleaning
<1>4. InBounds'  BY DEF InBounds, OwnType, WalkType, TableType, CleanOK,
   Cleaning
<1>5. CleanOK'  BY DEF CleanOK, Cleaning, OwnType, WalkType
<1>. QED  BY <1>1, <1>2, <1>3, <1>4, <1>5

\* CutHead preserves the invariant.
LEMMA CutHeadOK ==
  ASSUME IInv, NEW p \in Procs, CutHead(p)
  PROVE  IInv'
<1>. USE Bounds DEF IInv, TypeOK, CutHead, Restart, CountOn
<1>1. CASE user_head[unum[p]] = node[p]
  <2>1. TableType'  BY <1>1, WordsOK, ReturnOK DEF TableType, OwnType,
     WalkType, InBounds
  <2>2. OwnType'  BY <1>1, WordsOK, ReturnOK DEF OwnType, PCs, Jobs, CleanOK,
     Cleaning
  <2>3. WalkType'  BY <1>1, WordsOK, ReturnOK DEF WalkType, OwnType,
     TableType, InBounds, CleanOK, Cleaning
  <2>4. InBounds'  BY <1>1, WordsOK, ReturnOK DEF InBounds, OwnType, WalkType,
     TableType, CleanOK, Cleaning
  <2>5. CleanOK'  BY <1>1, WordsOK, ReturnOK DEF CleanOK, Cleaning, OwnType,
     WalkType
  <2>. QED  BY <2>1, <2>2, <2>3, <2>4, <2>5
<1>2. CASE ~(user_head[unum[p]] = node[p])
  <2>1. TableType'  BY <1>2, WordsOK, ReturnOK DEF TableType, OwnType,
     WalkType, InBounds
  <2>2. OwnType'  BY <1>2, WordsOK, ReturnOK DEF OwnType, PCs, Jobs, CleanOK,
     Cleaning
  <2>3. WalkType'  BY <1>2, WordsOK, ReturnOK DEF WalkType, OwnType,
     TableType, InBounds, CleanOK, Cleaning
  <2>4. InBounds'  BY <1>2, WordsOK, ReturnOK DEF InBounds, OwnType, WalkType,
     TableType, CleanOK, Cleaning
  <2>5. CleanOK'  BY <1>2, WordsOK, ReturnOK DEF CleanOK, Cleaning, OwnType,
     WalkType
  <2>. QED  BY <2>1, <2>2, <2>3, <2>4, <2>5
<1>. QED  BY <1>1, <1>2

\* CleanLoadPrev preserves the invariant.
LEMMA CleanLoadPrevOK ==
  ASSUME IInv, NEW p \in Procs, CleanLoadPrev(p)
  PROVE  IInv'
<1>. USE Bounds DEF IInv, TypeOK, CleanLoadPrev, Restart, CountOn
<1>1. CASE IsDeleted(next_session[node[p]])
  <2>1. TableType'  BY <1>1, WordsOK, ReturnOK DEF TableType, OwnType,
     WalkType, InBounds
  <2>2. OwnType'  BY <1>1, WordsOK, ReturnOK DEF OwnType, PCs, Jobs, CleanOK,
     Cleaning
  <2>3. WalkType'  BY <1>1, WordsOK, ReturnOK DEF WalkType, OwnType,
     TableType, InBounds, CleanOK, Cleaning
  <2>4. InBounds'  BY <1>1, WordsOK, ReturnOK DEF InBounds, OwnType, WalkType,
     TableType, CleanOK, Cleaning
  <2>5. CleanOK'  BY <1>1, WordsOK, ReturnOK DEF CleanOK, Cleaning, OwnType,
     WalkType
  <2>. QED  BY <2>1, <2>2, <2>3, <2>4, <2>5
<1>2. CASE ~(IsDeleted(next_session[node[p]]))
  <2>1. TableType'  BY <1>2, WordsOK, ReturnOK DEF TableType, OwnType,
     WalkType, InBounds
  <2>2. OwnType'  BY <1>2, WordsOK, ReturnOK DEF OwnType, PCs, Jobs, CleanOK,
     Cleaning
  <2>3. WalkType'  BY <1>2, WordsOK, ReturnOK DEF WalkType, OwnType,
     TableType, InBounds, CleanOK, Cleaning
  <2>4. InBounds'  BY <1>2, WordsOK, ReturnOK DEF InBounds, OwnType, WalkType,
     TableType, CleanOK, Cleaning
  <2>5. CleanOK'  BY <1>2, WordsOK, ReturnOK DEF CleanOK, Cleaning, OwnType,
     WalkType
  <2>. QED  BY <2>1, <2>2, <2>3, <2>4, <2>5
<1>. QED  BY <1>1, <1>2

\* CleanLoadCurr preserves the invariant.
LEMMA CleanLoadCurrOK ==
  ASSUME IInv, NEW p \in Procs, CleanLoadCurr(p)
  PROVE  IInv'
<1>. USE Bounds DEF IInv, TypeOK, CleanLoadCurr, Restart, CountOn
<1>1. CASE IsDeleted(next_session[curr[p]])
  <2>1. TableType'  BY <1>1, WordsOK, ReturnOK DEF TableType, OwnType,
     WalkType, InBounds
  <2>2. OwnType'  BY <1>1, WordsOK, ReturnOK DEF OwnType, PCs, Jobs, CleanOK,
     Cleaning
  <2>3. WalkType'  BY <1>1, WordsOK, ReturnOK DEF WalkType, OwnType,
     TableType, InBounds, CleanOK, Cleaning
  <2>4. InBounds'  BY <1>1, WordsOK, ReturnOK DEF InBounds, OwnType, WalkType,
     TableType, CleanOK, Cleaning
  <2>5. CleanOK'  BY <1>1, WordsOK, ReturnOK DEF CleanOK, Cleaning, OwnType,
     WalkType
  <2>. QED  BY <2>1, <2>2, <2>3, <2>4, <2>5
<1>2. CASE ~(IsDeleted(next_session[curr[p]]))
  <2>1. TableType'  BY <1>2, WordsOK, ReturnOK DEF TableType, OwnType,
     WalkType, InBounds
  <2>2. OwnType'  BY <1>2, WordsOK, ReturnOK DEF OwnType, PCs, Jobs, CleanOK,
     Cleaning
  <2>3. WalkType'  BY <1>2, WordsOK, ReturnOK DEF WalkType, OwnType,
     TableType, InBounds, CleanOK, Cleaning
  <2>4. InBounds'  BY <1>2, WordsOK, ReturnOK DEF InBounds, OwnType, WalkType,
     TableType, CleanOK, Cleaning
  <2>5. CleanOK'  BY <1>2, WordsOK, ReturnOK DEF CleanOK, Cleaning, OwnType,
     WalkType
  <2>. QED  BY <2>1, <2>2, <2>3, <2>4, <2>5
<1>. QED  BY <1>1, <1>2

\* Unlink preserves the invariant.
LEMMA UnlinkOK ==
  ASSUME IInv, NEW p \in Procs, Unlink(p)
  PROVE  IInv'
<1>. USE Bounds DEF IInv, TypeOK, Unlink, Restart, CountOn
<1>1. CASE next_session[node[p]] = EncodeNext(curr[p])
  <2>1. TableType'  BY <1>1, WordsOK, EncodeOK, ReturnOK DEF TableType,
     OwnType, WalkType, InBounds
  <2>2. OwnType'  BY <1>1, WordsOK, EncodeOK, ReturnOK DEF OwnType, PCs, Jobs,
     CleanOK, Cleaning
  <2>3. WalkType'  BY <1>1, WordsOK, EncodeOK, ReturnOK DEF WalkType, OwnType,
     TableType, InBounds, CleanOK, Cleaning
  <2>4. InBounds'  BY <1>1, WordsOK, EncodeOK, ReturnOK DEF InBounds, OwnType,
     WalkType, TableType, CleanOK, Cleaning
  <2>5. CleanOK'  BY <1>1, WordsOK, EncodeOK, ReturnOK DEF CleanOK, Cleaning,
     OwnType, WalkType
  <2>. QED  BY <2>1, <2>2, <2>3, <2>4, <2>5
<1>2. CASE ~(next_session[node[p]] = EncodeNext(curr[p]))
  <2>1. TableType'  BY <1>2, WordsOK, EncodeOK, ReturnOK DEF TableType,
     OwnType, WalkType, InBounds
  <2>2. OwnType'  BY <1>2, WordsOK, EncodeOK, ReturnOK DEF OwnType, PCs, Jobs,
     CleanOK, Cleaning
  <2>3. WalkType'  BY <1>2, WordsOK, EncodeOK, ReturnOK DEF WalkType, OwnType,
     TableType, InBounds, CleanOK, Cleaning
  <2>4. InBounds'  BY <1>2, WordsOK, EncodeOK, ReturnOK DEF InBounds, OwnType,
     WalkType, TableType, CleanOK, Cleaning
  <2>5. CleanOK'  BY <1>2, WordsOK, EncodeOK, ReturnOK DEF CleanOK, Cleaning,
     OwnType, WalkType
  <2>. QED  BY <2>1, <2>2, <2>3, <2>4, <2>5
<1>. QED  BY <1>1, <1>2

\* Crash preserves the invariant.
LEMMA CrashOK ==
  ASSUME IInv, NEW p \in Procs, Crash(p)
  PROVE  IInv'
<1>. USE Bounds DEF IInv, TypeOK, Crash
<1>1. TableType'  BY DEF TableType, OwnType
<1>2. OwnType'  BY DEF OwnType, PCs, Jobs
<1>3. WalkType'  BY DEF WalkType, OwnType, TableType
<1>4. InBounds'  BY DEF InBounds, OwnType
<1>5. CleanOK'  BY DEF CleanOK, Cleaning, OwnType
<1>. QED  BY <1>1, <1>2, <1>3, <1>4, <1>5

\* Every step of a process preserves the inductive invariant ...
LEMMA StepOK ==
  ASSUME IInv, NEW p \in Procs, Step(p) \/ Crash(p)
  PROVE  IInv'
BY ClaimOK, ProbeNextOK, CopyEntryOK, AddBeginOK,
   SetUserOK, LoadHeadOK, LinkOK, PushOK,
   StartedOK, LogoutOK, ClearEntryOK, NeedUpdateOK, RemoveOK,
   MarkOK, CleanLoadHeadOK, CleanLoadHeadNextOK, CutHeadOK,
   CleanLoadPrevOK, CleanLoadCurrOK, UnlinkOK, CrashOK
DEF Step, Login, Leave, Clean

\* ... and so does every step of UtmpUser.
LEMMA NextOK == IInv /\ [Next]_uvars => IInv'
<1>. SUFFICES ASSUME IInv, [Next]_uvars PROVE IInv'
  OBVIOUS
<1>1. CASE UNCHANGED uvars
  BY <1>1, StutterOK
<1>. QED
  BY <1>1, StepOK DEF Next

HIDE DEF IInv

\* The invariant holds always.
LEMMA Inductive == Spec => []IInv
BY InitOK, NextOK, PTL DEF Spec

\* The table and the local variables keep their types, for any number of
\* processes, users and slots.
THEOREM TableTypeCorrect == Spec => []TypeOK
<1>1. IInv => TypeOK
  BY DEF IInv
<1>. QED
  BY <1>1, Inductive, PTL

\* clean_marked_nodes, add_to_utmp_user and remove_from_utmp_user never index
\* the arrays of utmp_user outside their bounds, however they interleave.
THEOREM AccessesInBounds == Spec => []InBounds
<1>1. IInv => InBounds
  BY DEF IInv
<1>. QED
  BY <1>1, Inductive, PTL

\* The steps that work on the lists for an entry that the process has.
ListStep(p) ==
  \/ AddBegin(p) \/ SetUser(p) \/ LoadHead(p) \/ Link(p) \/ Push(p) \/ Started(p)
  \/ Remove(p) \/ Mark(p) \/ Clean(p)

\* They leave the entries alone, and the process keeps its slot.
LEMMA ListStepOK ==
  ASSUME IInv, NEW p \in Procs, ListStep(p)
  PROVE  /\ UNCHANGED <<upid, uuid, slot>>
         /\ pc[p] \in HasEntry /\ pc'[p] \in HasEntry
         /\ \A q \in Procs : q # p => pc'[q] = pc[q]
<1>. USE DEF IInv, TypeOK, OwnType, PCs, HasEntry
<1>1. CASE AddBegin(p) \/ SetUser(p) \/ LoadHead(p) \/ Link(p) \/ Push(p) \/ Started(p)
  BY <1>1 DEF AddBegin, SetUser, LoadHead, Link, Push, Started
<1>2. CASE Remove(p) \/ Mark(p)
  BY <1>2 DEF Remove, Mark
<1>3. CASE Clean(p)
  <2>1. Return(p) \in HasEntry
    BY <1>3, ReturnOK DEF Clean, CleanLoadHead, CleanLoadHeadNext, CutHead, CleanLoadPrev,
       CleanLoadCurr, Unlink, CleanOK, Cleaning
  <2>2. CASE CleanLoadHead(p) \/ CleanLoadHeadNext(p)
    BY <2>1, <2>2 DEF CleanLoadHead, CleanLoadHeadNext
  <2>3. CASE CutHead(p)  BY <2>1, <2>3 DEF CutHead, Restart
  <2>4. CASE CleanLoadPrev(p)  BY <2>1, <2>4 DEF CleanLoadPrev, Restart
  <2>5. CASE CleanLoadCurr(p)  BY <2>1, <2>5 DEF CleanLoadCurr, CountOn
  <2>6. CASE Unlink(p)  BY <2>1, <2>6 DEF Unlink, CountOn, Restart
  <2>. QED  BY <1>3, <2>2, <2>3, <2>4, <2>5, <2>6 DEF Clean
<1>. QED  BY <1>1, <1>2, <1>3 DEF ListStep

\* Every step is one of these, or one that SessionTable knows of.
LEMMA StepKinds ==
  ASSUME NEW p \in Procs, Step(p) \/ Crash(p)
  PROVE  \/ ListStep(p) \/ Claim(p) \/ ProbeNext(p) \/ CopyEntry(p)
         \/ Logout(p) \/ ClearEntry(p) \/ NeedUpdate(p) \/ Crash(p)
BY DEF Step, Login, Leave, ListStep

\* Only its owner gives an entry away.
LEMMA OwnsOK == IInv /\ OwnsEntry /\ [Next]_uvars => OwnsEntry'
<1>. SUFFICES ASSUME IInv, OwnsEntry, [Next]_uvars PROVE OwnsEntry'
  OBVIOUS
<1>1. CASE UNCHANGED uvars
  BY <1>1 DEF OwnsEntry, uvars
<1>2. ASSUME NEW p \in Procs, Step(p) \/ Crash(p) PROVE OwnsEntry'
  <2>1. CASE ListStep(p)
    BY <2>1, ListStepOK DEF OwnsEntry
  <2>. USE UtmpAssumption DEF IInv, TypeOK, OwnType, TableType, OwnsEntry, HasEntry
  <2>2. CASE Claim(p)  BY <2>2 DEF Claim
  <2>3. CASE ProbeNext(p)  BY <2>3 DEF ProbeNext
  <2>4. CASE CopyEntry(p)  BY <2>4 DEF CopyEntry
  <2>5. CASE Logout(p)  BY <2>5 DEF Logout
  <2>6. CASE ClearEntry(p)  BY <2>6 DEF ClearEntry
  <2>7. CASE NeedUpdate(p)  BY <2>7 DEF NeedUpdate
  <2>8. CASE Crash(p)  BY <2>8 DEF Crash
  <2>. QED  BY <1>2, StepKinds, <2>1, <2>2, <2>3, <2>4, <2>5, <2>6, <2>7, <2>8
<1>. QED  BY <1>1, <1>2 DEF Next

\* No two processes share an entry of uinfo[]: from its claim until it clears
\* it, the entry carries the pid of the process that claimed it.
THEOREM EntryIsOwned == Spec => []OwnsEntry
<1>1. Init => OwnsEntry
  BY DEF Init, OwnsEntry, HasEntry
<1>. QED
  BY <1>1, OwnsOK, Inductive, PTL DEF Spec

(***************************************************************************)
(* UtmpUser implements SessionTable.  Besides IInv it takes that an entry  *)
(* keeps the uid of its process: otherwise u_exit would leave it behind.   *)
(***************************************************************************)
Tagged == \A p \in Procs : pc[p] \in HasEntry => uuid[slot[p]] = UserOf[p]

\* An entry keeps its uid: only its owner writes to it.
LEMMA TaggedOK == IInv /\ OwnsEntry /\ Tagged /\ [Next]_uvars => Tagged'
<1>. SUFFICES ASSUME IInv, OwnsEntry, Tagged, [Next]_uvars PROVE Tagged'
  OBVIOUS
<1>1. CASE UNCHANGED uvars
  BY <1>1 DEF Tagged, uvars
<1>2. ASSUME NEW p \in Procs, Step(p) \/ Crash(p) PROVE Tagged'
  <2>1. CASE ListStep(p)
    BY <2>1, ListStepOK DEF Tagged
  <2>. USE DEF Tagged, IInv, TypeOK, OwnType, TableType, OwnsEntry, HasEntry
  <2>2. CASE Claim(p)  BY <2>2 DEF Claim
  <2>3. CASE ProbeNext(p)  BY <2>3 DEF ProbeNext
  <2>4. CASE CopyEntry(p)  BY <2>4 DEF CopyEntry
  <2>5. CASE Logout(p)  BY <2>5 DEF Logout
  <2>6. CASE ClearEntry(p)  BY <2>6 DEF ClearEntry
  <2>7. CASE NeedUpdate(p)  BY <2>7 DEF NeedUpdate
  <2>8. CASE Crash(p)  BY <2>8 DEF Crash
  <2>. QED  BY <1>2, StepKinds, <2>1, <2>2, <2>3, <2>4, <2>5, <2>6, <2>7, <2>8
<1>. QED  BY <1>1, <1>2 DEF Next

\* Every step is a step of the abstract table, or leaves it as it is.
LEMMA TableStep ==
  IInv /\ OwnsEntry /\ Tagged /\ [Next]_uvars => [Table!TNext]_(Table!tvars)
<1>. SUFFICES ASSUME IInv, OwnsEntry, Tagged, [Next]_uvars
     PROVE  [Table!TNext]_(Table!tvars)
  OBVIOUS
<1>1. CASE UNCHANGED uvars
  BY <1>1 DEF uvars, Table!tvars, StatusOf
<1>2. ASSUME NEW p \in Procs, Step(p) \/ Crash(p)
      PROVE  [Table!TNext]_(Table!tvars)
  <2>. USE DEF StatusOf
  <2>1. CASE ListStep(p)
    <3>1. \A q \in Procs : StatusOf(q)' = StatusOf(q)
      BY <2>1, ListStepOK DEF HasEntry
    <3>. QED  BY <2>1, <3>1, ListStepOK DEF Table!tvars
  <2>. USE DEF IInv, TypeOK, OwnType, TableType
  <2>2. CASE Claim(p)
    <3>1. Table!Enter(p, slot[p])
      BY <2>2 DEF Claim, Table!Enter, Table!Become
    <3>. QED  BY <3>1 DEF Table!TNext
  <2>3. CASE ProbeNext(p)
    <3>1. CASE probes[p] + 1 < USHM_SIZE
      BY <2>3, <3>1 DEF ProbeNext, Table!tvars
    <3>2. CASE ~(probes[p] + 1 < USHM_SIZE)
      <4>1. Table!Refuse(p)
        BY <2>3, <3>2 DEF ProbeNext, Table!Refuse, Table!Become
      <4>. QED  BY <4>1 DEF Table!TNext
    <3>. QED  BY <3>1, <3>2
  <2>4. CASE CopyEntry(p)
    BY <2>4 DEF CopyEntry, OwnsEntry, Table!tvars
  <2>5. CASE Logout(p)
    BY <2>5 DEF Logout, Tagged, HasEntry, Table!tvars
  <2>6. CASE ClearEntry(p)
    <3>1. Table!Exit(p, slot[p])
      BY <2>6 DEF ClearEntry, OwnsEntry, HasEntry, Table!Exit, Table!Become
    <3>. QED  BY <3>1 DEF Table!TNext
  <2>7. CASE NeedUpdate(p)
    BY <2>7 DEF NeedUpdate, Table!tvars
  <2>8. CASE Crash(p)
    <3>1. CASE pc[p] = "flag"
      BY <2>8, <3>1 DEF Crash, Table!tvars
    <3>2. CASE pc[p] # "flag"
      <4>1. Table!Die(p)
        BY <2>8, <3>2 DEF Crash, Table!Die, Table!Become
      <4>. QED  BY <4>1 DEF Table!TNext
    <3>. QED  BY <3>1, <3>2
  <2>. QED  BY <1>2, StepKinds, <2>1, <2>2, <2>3, <2>4, <2>5, <2>6, <2>7, <2>8
<1>. QED  BY <1>1, <1>2 DEF Next

\* The table of sessions, with its probing and its lists, is an allocator: a
\* login takes a free entry, nobody else touches it, and who logs out has
\* given it back, for any number of processes, users and slots.
THEOREM ImplementsTable == Spec => KeepsTable
<1>1. Init => Tagged
  BY DEF Init, Tagged, HasEntry
<1>2. Spec => []Tagged
  BY <1>1, TaggedOK, EntryIsOwned, Inductive, PTL DEF Spec
<1>3. Init => Table!TInit
  BY DEF Init, Table!TInit, StatusOf
<1>. QED
  BY <1>2, <1>3, TableStep, EntryIsOwned, Inductive, PTL DEF Spec, KeepsTable, Table!TSpec

(***************************************************************************)
(* utmp.svc.  What it loops over and the user whose list it works on are   *)
(* in range, whatever the processes do meanwhile.                          *)
(***************************************************************************)
Purging == {"purge", "purgemark", "purgehead", "purgeclear", "purgeflag"}

SvcPlaces ==
  /\ spc \in {"fixslots", "cand", "entry", "relink", "rehead", "reuser"} \cup Purging => si \in Slots
  /\ spc \in {"fixheads", "fixhead"} => si \in Uids /\ sjob = "fix"
  /\ spc \in {"relink", "rehead", "reuser"} => suid \in Uids
  /\ spc = "fixslots" => sjob = "fix"
  /\ spc \in {"scan", "cand"} \cup Purging => sjob \in {"fix", "kick"}
  /\ spc \in Purging => cands[si] # NoPid

SvcInv == IInv /\ SvcTypeOK /\ SvcPlaces

(***************************************************************************)
(* While it is not disturbed, what it read from the entries stays true.    *)
(***************************************************************************)
InUse == {s \in Slots : upid[s] # NoPid}

\* An entry names a process that has come to that slot.
EntryHome == \A s \in InUse : slot[upid[s]] = s /\ pc[upid[s]] # "out"

CandsOK ==
  /\ spc \in {"cand"} \cup Purging =>
       \A s \in Slots : cands[s] # NoPid =>
         upid[s] \in {cands[s], NoPid} /\ slot[cands[s]] = s /\ pc[cands[s]] # "out"
  /\ spc \in Purging /\ sjob = "fix" => NoProcess(cands[si])

ApartInv == EntryHome /\ CandsOK

-----------------------------------------------------------------------------
\* The numbers of the service are those of the table.
LEMMA SvcBounds ==
  /\ Slots \subseteq 0 .. USHM_SIZE + MAX_USERS /\ Uids \subseteq 0 .. USHM_SIZE + MAX_USERS
  /\ 0 \in Slots /\ 1 \in Uids /\ 0 \in 0 .. USHM_SIZE + MAX_USERS
  /\ Heads = -1 .. USHM_SIZE - 1 /\ Owners = 0 .. MAX_USERS
BY SizeAssumption DEF Slots, Uids, Heads, Owners

\* There are no more entries in use than slots.
LEMMA CountType ==
  ASSUME NEW f
  PROVE  Cardinality({s \in Slots : f[s] # NoPid}) \in 0 .. USHM_SIZE
<1>1. IsFiniteSet(Slots) /\ Cardinality(Slots) = USHM_SIZE
  <2>1. IsFiniteSet(0 .. USHM_SIZE - 1) /\ Cardinality(0 .. USHM_SIZE - 1) = USHM_SIZE
    <3>1. 0 \in Int /\ USHM_SIZE - 1 \in Int /\ ~(0 > USHM_SIZE - 1) /\ (USHM_SIZE - 1) - 0 + 1 = USHM_SIZE
      BY SizeAssumption
    <3>. QED  BY <3>1, FS_Interval
  <2>. QED  BY <2>1 DEF Slots
<1>2. PICK S : S = {s \in Slots : f[s] # NoPid}
  OBVIOUS
<1>3. S \subseteq Slots
  BY <1>2
<1>4. Cardinality(S) <= USHM_SIZE /\ IsFiniteSet(S)
  BY <1>1, <1>3, FS_Subset
<1>5. Cardinality(S) \in Nat
  BY <1>4, FS_CardinalityType
<1>. QED  BY <1>2, <1>4, <1>5, SizeAssumption

\* A step of the service changes the table and nothing of a process.
LEMMA TableOnly ==
  ASSUME IInv, UNCHANGED procs, TableType'
  PROVE  IInv'
BY DEF IInv, TypeOK, OwnType, WalkType, InBounds, CleanOK, procs

\* The service's own variables have their types and are where they should be.
SvcLocals ==
  /\ spc \in SvcPCs /\ sjob \in {"none", "fix", "kick", "rebuild", "update"}
  /\ starget \in Owners \cup Procs /\ suid \in Owners
  /\ cands \in [Slots -> Procs \cup {NoPid}]
  /\ si \in 0 .. USHM_SIZE + MAX_USERS /\ shead \in Heads
  /\ changed \in {0, 1} /\ served \in 0 .. MaxRequests
  /\ number \in 0 .. USHM_SIZE
  /\ SvcPlaces

\* The invariant in two halves.
LEMMA Halves == SvcInv <=> IInv /\ SvcLocals
BY SvcBounds DEF SvcInv, SvcLocals, SvcTypeOK, IInv

\* The same in the next state.
LEMMA HalvesNext == IInv' /\ SvcLocals' => SvcInv'
BY SvcBounds DEF SvcInv, SvcLocals, SvcTypeOK, IInv

\* The request ends.
LEMMA DoneOK ==
  ASSUME SvcInv, Done, served' = served, number' \in 0 .. USHM_SIZE
  PROVE  SvcLocals'
<1>1. NoCands \in [Slots -> Procs \cup {NoPid}]
  BY DEF NoCands
<1>. QED  BY <1>1, Halves, SvcBounds, Bounds DEF SvcLocals, SvcPlaces, SvcPCs, Done, Purging

\* RunFix and a kick preserve the invariant.
LEMMA RunFixOK ==
  ASSUME SvcInv, RunFix
  PROVE  SvcInv'
<1>. USE Bounds, SvcBounds DEF SvcAt, SvcGoto, procs
<1>1. IInv /\ SvcLocals /\ TableType
  BY Halves DEF IInv, TypeOK
<1>2. ASSUME UNCHANGED procs, TableType', SvcLocals' PROVE SvcInv'
  BY <1>1, <1>2, TableOnly, HalvesNext
<1>. USE DEF SvcLocals, SvcPlaces, SvcPCs, Purging, TableType
<1>3. CASE FixSlot
  <2>1. TableType'
    BY <1>1, <1>3 DEF FixSlot
  <2>2. SvcLocals'
    BY <1>1, <1>3 DEF FixSlot
  <2>. QED  BY <1>2, <1>3, <2>1, <2>2 DEF FixSlot
<1>4. CASE FixHeadLoad
  <2>1. TableType'
    BY <1>1, <1>4 DEF FixHeadLoad, uvars
  <2>2. SvcLocals'
    BY <1>1, <1>4 DEF FixHeadLoad, NextUid
  <2>. QED  BY <1>2, <1>4, <2>1, <2>2 DEF FixHeadLoad, uvars
<1>5. CASE FixHeadClear
  <2>1. TableType'
    BY <1>1, <1>5 DEF FixHeadClear
  <2>2. SvcLocals'
    BY <1>1, <1>5 DEF FixHeadClear, NextUid
  <2>. QED  BY <1>2, <1>5, <2>1, <2>2 DEF FixHeadClear
<1>6. CASE Scan
  <2>1. TableType'
    BY <1>1, <1>6 DEF Scan, uvars
  <2>2. SvcLocals'
    BY <1>1, <1>6 DEF Scan, uvars
  <2>. QED  BY <1>2, <1>6, <2>1, <2>2 DEF Scan, uvars
<1>7. CASE Candidate
  <2>1. TableType'
    BY <1>1, <1>7 DEF Candidate, uvars
  <2>2. SvcLocals'
    BY <1>1, <1>7 DEF Candidate, AfterCand, ToPurge
  <2>. QED  BY <1>2, <1>7, <2>1, <2>2 DEF Candidate, uvars
<1>8. CASE PurgeUser
  <2>1. TableType'
    BY <1>1, <1>8 DEF PurgeUser
  <2>2. SvcLocals'
    BY <1>1, <1>8 DEF PurgeUser
  <2>. QED  BY <1>2, <1>8, <2>1, <2>2 DEF PurgeUser
<1>9. CASE PurgeMark
  <2>1. TableType'
    BY <1>1, <1>9, WordsOK DEF PurgeMark
  <2>2. SvcLocals'
    BY <1>1, <1>9, WordsOK DEF PurgeMark
  <2>. QED  BY <1>2, <1>9, <2>1, <2>2 DEF PurgeMark
<1>10. CASE PurgeHead
  <2>1. TableType'
    BY <1>1, <1>10 DEF PurgeHead
  <2>2. SvcLocals'
    BY <1>1, <1>10 DEF PurgeHead
  <2>. QED  BY <1>2, <1>10, <2>1, <2>2 DEF PurgeHead
<1>11. CASE PurgeClear
  <2>1. TableType'
    BY <1>1, <1>11 DEF PurgeClear
  <2>2. SvcLocals'
    BY <1>1, <1>11 DEF PurgeClear
  <2>. QED  BY <1>2, <1>11, <2>1, <2>2 DEF PurgeClear
<1>13. CASE PurgeFlag
  <2>1. TableType'
    BY <1>1, <1>13 DEF PurgeFlag
  <2>2. SvcLocals'
    BY <1>1, <1>13 DEF PurgeFlag, AfterCand
  <2>. QED  BY <1>2, <1>13, <2>1, <2>2 DEF PurgeFlag
<1>12. CASE Tally
  <2>1. TableType'
    BY <1>1, <1>12 DEF Tally, uvars
  <2>2. CASE changed = 1
    <3>1. SvcLocals'
      BY <1>1, <1>12, <2>2 DEF Tally
    <3>. QED  BY <1>2, <1>12, <2>1, <3>1 DEF Tally, uvars
  <2>3. CASE changed # 1
    <3>1. SvcLocals'
      BY <1>1, <1>12, <2>3, DoneOK DEF Tally
    <3>. QED  BY <1>2, <1>12, <2>1, <3>1 DEF Tally, uvars
  <2>. QED  BY <2>2, <2>3
<1>. QED
  BY <1>3, <1>4, <1>5, <1>6, <1>7, <1>8, <1>9, <1>10, <1>11, <1>12, <1>13 DEF RunFix

\* Where a request begins.
LEMMA AcceptGoes ==
  ASSUME NEW r \in Requests, Accept(r)
  PROVE  /\ r \in {"fix", "kick", "rebuild", "update"}
         /\ r = "fix" => spc' = "fixslots"
         /\ r = "kick" => spc' = "scan"
         /\ r = "rebuild" => spc' = "heads"
         /\ r = "update" => spc' = "update"
<1>1. r \in {"fix", "kick", "rebuild", "update"}
  BY SvcAssumption
<1>2. spc' = CASE r = "fix" -> "fixslots" [] r = "kick" -> "scan"
               [] r = "rebuild" -> "heads" [] r = "update" -> "update"
  BY DEF Accept, SvcGoto
<1>3. r = "fix" => spc' = "fixslots"  BY <1>2, Zenon
<1>4. r = "kick" => spc' = "scan"  BY <1>2, Zenon
<1>5. r = "rebuild" => spc' = "heads"  BY <1>2, Zenon
<1>6. r = "update" => spc' = "update"  BY <1>2, Zenon
<1>. QED  BY <1>1, <1>3, <1>4, <1>5, <1>6

\* So do the rebuild, the count and the ticker, a new request and a reaping.
LEMMA OthersOK ==
  ASSUME SvcInv, \/ Rebuild \/ Update \/ Updated \/ Tick
                 \/ \E r \in Requests : Accept(r)
                 \/ \E s \in Slots : Reap(s)
  PROVE  SvcInv'
<1>. USE Bounds, SvcBounds DEF SvcAt, SvcGoto, procs
<1>1. IInv /\ SvcLocals /\ TableType
  BY Halves DEF IInv, TypeOK
<1>2. ASSUME UNCHANGED procs, TableType', SvcLocals' PROVE SvcInv'
  BY <1>1, <1>2, TableOnly, HalvesNext
<1>. USE DEF SvcLocals, SvcPlaces, SvcPCs, Purging, TableType
<1>3. CASE ClearHeads
  <2>1. TableType'
    BY <1>1, <1>3 DEF ClearHeads
  <2>2. SvcLocals'
    BY <1>1, <1>3 DEF ClearHeads
  <2>. QED  BY <1>2, <1>3, <2>1, <2>2 DEF ClearHeads
<1>4. CASE ClearNexts
  <2>1. TableType'
    BY <1>1, <1>4 DEF ClearNexts
  <2>2. SvcLocals'
    BY <1>1, <1>4 DEF ClearNexts
  <2>. QED  BY <1>2, <1>4, <2>1, <2>2 DEF ClearNexts
<1>5. CASE ClearUsers
  <2>1. TableType'
    BY <1>1, <1>5 DEF ClearUsers
  <2>2. SvcLocals'
    BY <1>1, <1>5 DEF ClearUsers
  <2>. QED  BY <1>2, <1>5, <2>1, <2>2 DEF ClearUsers
<1>6. ASSUME AfterEntry, si \in Slots, UNCHANGED <<served, number>> PROVE SvcLocals'
  <2>1. CASE Done
    BY <1>1, <1>6, <2>1, DoneOK
  <2>2. CASE ~Done
    BY <1>1, <1>6, <2>2 DEF AfterEntry
  <2>. QED  BY <2>1, <2>2
<1>7. CASE RebuildLoad
  <2>1. TableType'
    BY <1>1, <1>7 DEF RebuildLoad, uvars
  <2>2. CASE upid[si] # NoPid /\ uuid[si] \in Uids
    <3>1. SvcLocals'
      BY <1>1, <1>7, <2>2 DEF RebuildLoad
    <3>. QED  BY <1>2, <1>7, <2>1, <3>1 DEF RebuildLoad, uvars
  <2>3. CASE ~(upid[si] # NoPid /\ uuid[si] \in Uids)
    <3>1. SvcLocals'
      BY <1>1, <1>6, <1>7, <2>3 DEF RebuildLoad
    <3>. QED  BY <1>2, <1>7, <2>1, <3>1 DEF RebuildLoad, uvars
  <2>. QED  BY <2>2, <2>3
<1>8. CASE RebuildNext
  <2>1. TableType'
    BY <1>1, <1>8, EncodeOK DEF RebuildNext
  <2>2. SvcLocals'
    BY <1>1, <1>8 DEF RebuildNext
  <2>. QED  BY <1>2, <1>8, <2>1, <2>2 DEF RebuildNext
<1>9. CASE RebuildHead
  <2>1. TableType'
    BY <1>1, <1>9 DEF RebuildHead
  <2>2. SvcLocals'
    BY <1>1, <1>9 DEF RebuildHead
  <2>. QED  BY <1>2, <1>9, <2>1, <2>2 DEF RebuildHead
<1>10. CASE RebuildUser
  <2>1. TableType'
    BY <1>1, <1>10 DEF RebuildUser
  <2>2. SvcLocals'
    BY <1>1, <1>6, <1>10 DEF RebuildUser
  <2>. QED  BY <1>2, <1>10, <2>1, <2>2 DEF RebuildUser
<1>11. CASE Update
  <2>1. TableType'
    BY <1>1, <1>11 DEF Update, uvars
  <2>2. number' \in 0 .. USHM_SIZE
    BY <1>11, CountType DEF Update
  <2>3. SvcLocals'
    BY <1>1, <1>11, <2>2 DEF Update
  <2>. QED  BY <1>2, <1>11, <2>1, <2>3 DEF Update, uvars
<1>12. CASE Updated
  <2>1. TableType'
    BY <1>1, <1>12 DEF Updated
  <2>2. SvcLocals'
    BY <1>1, <1>12, DoneOK DEF Updated
  <2>. QED  BY <1>2, <1>12, <2>1, <2>2 DEF Updated
<1>13. CASE Tick
  <2>1. TableType'
    BY <1>1, <1>13 DEF Tick, uvars
  <2>2. SvcLocals'
    BY <1>1, <1>13 DEF Tick
  <2>. QED  BY <1>2, <1>13, <2>1, <2>2 DEF Tick, uvars
<1>14. ASSUME NEW r \in Requests, Accept(r) PROVE SvcInv'
  <2>1. TableType'
    BY <1>1, <1>14 DEF Accept, uvars
  <2>2. r \in {"fix", "kick", "rebuild", "update"} /\ MaxRequests \in Nat
    BY <1>14, SvcAssumption DEF Accept
  <2>3. /\ r = "fix" => spc' = "fixslots"
        /\ r = "kick" => spc' = "scan"
        /\ r = "rebuild" => spc' = "heads"
        /\ r = "update" => spc' = "update"
    BY <1>14, AcceptGoes
  <2>4. starget' \in Owners \cup Procs
    BY <1>14 DEF Accept
  <2>5. /\ sjob' = r /\ served' = served + 1 /\ served < MaxRequests /\ si' = 0 /\ changed' = 0
        /\ UNCHANGED <<cands, shead, suid, number>>
    BY <1>14 DEF Accept
  <2>6. served' \in 0 .. MaxRequests
    BY <1>1, <2>2, <2>5
  <2>7. SvcPlaces'
    BY <1>1, <2>2, <2>3, <2>5
  <2>8. SvcLocals'
    BY <1>1, <2>2, <2>3, <2>4, <2>5, <2>6, <2>7
  <2>. QED  BY <1>2, <1>14, <2>1, <2>8 DEF Accept, uvars
<1>15. ASSUME NEW s \in Slots, Reap(s) PROVE SvcInv'
  <2>1. TableType'
    BY <1>1, <1>15 DEF Reap
  <2>2. SvcLocals'
    BY <1>1, <1>15 DEF Reap, svars
  <2>. QED  BY <1>2, <1>15, <2>1, <2>2 DEF Reap
<1>. QED
  BY <1>3, <1>4, <1>5, <1>7, <1>8, <1>9, <1>10, <1>11, <1>12, <1>13, <1>14, <1>15 DEF Rebuild

\* Every step of the sessions and the service preserves the invariant.
LEMMA SvcNextOK == SvcInv /\ [SvcNext]_vars => SvcInv'
<1>. SUFFICES ASSUME SvcInv, [SvcNext]_vars PROVE SvcInv'
  OBVIOUS
<1>1. IInv /\ SvcLocals
  BY Halves
<1>2. ASSUME UNCHANGED svars PROVE SvcLocals'
  BY <1>1, <1>2 DEF svars, SvcLocals, SvcPlaces
<1>3. CASE Session
  BY <1>1, <1>2, <1>3, StepOK, HalvesNext DEF Session
<1>4. CASE UNCHANGED vars
  BY <1>1, <1>2, <1>4, StutterOK, HalvesNext DEF vars
<1>. QED  BY <1>3, <1>4, RunFixOK, OthersOK DEF SvcNext, Serve

\* It holds before the first request.
LEMMA SvcInitOK == SvcInit => SvcInv
<1>. SUFFICES ASSUME SvcInit PROVE SvcInv
  OBVIOUS
<1>1. IInv
  BY InitOK DEF SvcInit
<1>2. NoCands \in [Slots -> Procs \cup {NoPid}]
  BY DEF NoCands
<1>3. SvcLocals
  BY <1>2, SvcBounds, Bounds, SvcAssumption, SizeAssumption DEF SvcInit, SvcLocals, SvcPlaces, SvcPCs, Purging
<1>. QED  BY <1>1, <1>3, Halves

\* However fixes, kicks and rebuilds, which rewrite the arrays with plain
\* stores, interleave with logins and logouts that walk the lists: everything
\* keeps its type, and nobody indexes an array outside of its bounds
\* (rebuild_utmp_user, purge_utmp_slot beside clean_marked_nodes).
THEOREM InBoundsBesideService == SvcSpec => []SafeBeside
<1>1. SvcInv => SafeBeside
  BY DEF SvcInv, IInv, SafeBeside
<1>. QED  BY <1>1, SvcInitOK, SvcNextOK, PTL DEF SvcSpec

-----------------------------------------------------------------------------
\* A step of a process while the service has nothing to do.
LEMMA SessionApart ==
  ASSUME SvcInv, ApartInv, NEW p \in Procs, Step(p) \/ Crash(p), spc = "idle", UNCHANGED svars
  PROVE  ApartInv'
<1>. USE UtmpAssumption
<1>0. /\ IInv /\ TableType /\ OwnType /\ NoPid \notin Procs /\ EntryHome /\ spc' = "idle"
  BY DEF SvcInv, SvcTypeOK, IInv, TypeOK, ApartInv, svars
<1>1. CandsOK'
  BY <1>0 DEF CandsOK, Purging
<1>. SUFFICES EntryHome'
  BY <1>1 DEF ApartInv
<1>2. CASE ListStep(p)
  <2>1. /\ UNCHANGED <<upid, uuid, slot>> /\ pc[p] \in HasEntry /\ pc'[p] \in HasEntry
        /\ \A q \in Procs : q # p => pc'[q] = pc[q]
    BY <1>0, <1>2, ListStepOK
  <2>. QED  BY <1>0, <2>1 DEF EntryHome, InUse, HasEntry, TableType
<1>. USE DEF EntryHome, InUse, TableType, OwnType
<1>3. CASE Claim(p)  BY <1>0, <1>3 DEF Claim
<1>4. CASE ProbeNext(p)
  <2>1. \A s \in Slots : upid[s] # p
    BY <1>0, <1>4 DEF ProbeNext
  <2>. QED  BY <1>0, <1>4, <2>1 DEF ProbeNext
<1>5. CASE CopyEntry(p)  BY <1>0, <1>5 DEF CopyEntry
<1>6. CASE Logout(p)
  <2>1. /\ UNCHANGED <<upid, slot>> /\ pc'[p] \in {"remove", "gone"}
        /\ \A q \in Procs : q # p => pc'[q] = pc[q]
    BY <1>0, <1>6 DEF Logout
  <2>. QED  BY <1>0, <2>1
<1>7. CASE ClearEntry(p)  BY <1>0, <1>7 DEF ClearEntry
<1>8. CASE NeedUpdate(p)  BY <1>0, <1>8 DEF NeedUpdate
<1>9. CASE Crash(p)
  <2>1. /\ UNCHANGED <<upid, slot>> /\ pc'[p] \in {"dead", "gone"}
        /\ \A q \in Procs : q # p => pc'[q] = pc[q]
    BY <1>0, <1>9 DEF Crash
  <2>. QED  BY <1>0, <2>1
<1>. QED  BY <1>2, <1>3, <1>4, <1>5, <1>6, <1>7, <1>8, <1>9, StepKinds

\* What the service does while no process moves.
LEMMA ServeApart ==
  ASSUME SvcInv, ApartInv, Serve
  PROVE  ApartInv'
<1>. USE DEF SvcAt, SvcGoto, procs, NoProcess, Purging
<1>0. /\ TableType /\ OwnType /\ SvcPlaces /\ cands \in [Slots -> Procs \cup {NoPid}]
      /\ NoPid \notin Procs /\ EntryHome /\ CandsOK
  BY UtmpAssumption DEF SvcInv, SvcTypeOK, TypeOK, ApartInv
<1>1. ASSUME UNCHANGED <<upid, procs>>, CandsOK' PROVE ApartInv'
  BY <1>0, <1>1 DEF ApartInv, EntryHome, InUse
<1>2. ASSUME UNCHANGED <<upid, procs>>, spc' \notin {"cand"} \cup Purging
      PROVE  ApartInv'
  BY <1>1, <1>2 DEF CandsOK
<1>3. CASE FixSlot \/ FixHeadLoad \/ FixHeadClear
  BY <1>2, <1>3 DEF FixSlot, FixHeadLoad, FixHeadClear, NextUid, uvars
<1>4. CASE Scan
  <2>1. CandsOK'
    BY <1>0, <1>4 DEF Scan, uvars, CandsOK, EntryHome, InUse, TableType
  <2>. QED  BY <1>1, <1>4, <2>1 DEF Scan, uvars
<1>5. CASE Candidate
  <2>1. CandsOK'
    BY <1>0, <1>5 DEF Candidate, uvars, CandsOK, ToPurge, AfterCand
  <2>. QED  BY <1>1, <1>5, <2>1 DEF Candidate, uvars
<1>6. CASE PurgeUser \/ PurgeMark \/ PurgeHead
  <2>1. CandsOK'
    BY <1>0, <1>6 DEF PurgeUser, PurgeMark, PurgeHead, CandsOK
  <2>. QED  BY <1>1, <1>6, <2>1 DEF PurgeUser, PurgeMark, PurgeHead
<1>7. CASE PurgeClear
  <2>1. /\ spc = "purgeclear" /\ si \in Slots /\ upid' = [upid EXCEPT ![si] = NoPid]
        /\ UNCHANGED <<pc, slot, cands, sjob, si>> /\ spc' = "purgeflag"
    BY <1>0, <1>7 DEF PurgeClear, own, SvcPlaces
  <2>2. EntryHome'
    BY <1>0, <2>1 DEF EntryHome, InUse, TableType
  <2>3. CandsOK'
    BY <1>0, <2>1 DEF CandsOK, TableType
  <2>. QED  BY <2>2, <2>3 DEF ApartInv
<1>8. CASE PurgeFlag
  <2>1. CandsOK'
    BY <1>0, <1>8 DEF PurgeFlag, AfterCand, CandsOK
  <2>. QED  BY <1>1, <1>8, <2>1 DEF PurgeFlag
<1>9. CASE Tally
  BY <1>2, <1>9 DEF Tally, Done, uvars
<1>10. CASE ClearHeads \/ ClearNexts \/ ClearUsers \/ RebuildNext \/ RebuildHead
  BY <1>2, <1>10 DEF ClearHeads, ClearNexts, ClearUsers, RebuildNext, RebuildHead
<1>11. CASE RebuildLoad
  BY <1>2, <1>11 DEF RebuildLoad, AfterEntry, Done, uvars
<1>12. CASE RebuildUser
  BY <1>2, <1>12 DEF RebuildUser, AfterEntry, Done
<1>13. CASE Update \/ Updated \/ Tick
  BY <1>2, <1>13 DEF Update, Updated, Tick, Done, uvars
<1>. QED
  BY <1>3, <1>4, <1>5, <1>6, <1>7, <1>8, <1>9, <1>10, <1>11, <1>12, <1>13
  DEF Serve, RunFix, Rebuild

\* A service that finds the entry of a dead process clears it.
LEMMA ReapApart ==
  ASSUME SvcInv, ApartInv, NEW s \in Slots, Reap(s), spc = "idle"
  PROVE  ApartInv'
<1>0. TableType /\ OwnType /\ NoPid \notin Procs /\ EntryHome
  BY UtmpAssumption DEF SvcInv, SvcTypeOK, TypeOK, ApartInv
<1>1. upid' = [upid EXCEPT ![s] = NoPid] /\ pc' = pc /\ slot' = slot /\ spc' = "idle"
  BY DEF Reap, svars, procs, own
<1>2. EntryHome'
  BY <1>0, <1>1 DEF EntryHome, InUse, TableType
<1>3. CandsOK'
  BY <1>1 DEF CandsOK, Purging
<1>. QED  BY <1>2, <1>3 DEF ApartInv

\* Every step, while the service and the sessions keep apart.
LEMMA ApartNextOK ==
  Apart /\ SvcInv /\ ApartInv /\ [SvcNext]_vars => ApartInv'
<1>. SUFFICES ASSUME Apart, SvcInv, ApartInv, [SvcNext]_vars PROVE ApartInv'
  OBVIOUS
<1>1. CASE Session
  BY <1>1, SessionApart DEF Session, SvcAt
<1>2. ASSUME NEW r \in Requests, Accept(r) PROVE ApartInv'
  <2>1. spc' \in {"fixslots", "scan", "heads", "update"}
    BY <1>2, AcceptGoes
  <2>2. UNCHANGED <<upid, pc, slot>>
    BY <1>2 DEF Accept, uvars, shm, ents, own
  <2>3. CandsOK'
    BY <2>1 DEF CandsOK, Purging
  <2>. QED  BY <2>2, <2>3 DEF ApartInv, EntryHome, InUse
<1>3. ASSUME NEW s \in Slots, Reap(s) PROVE ApartInv'
  BY <1>3, ReapApart DEF Reap, SvcAt
<1>4. CASE UNCHANGED vars
  BY <1>4 DEF vars, uvars, svars, ApartInv, EntryHome, CandsOK, NoProcess, InUse
<1>. QED  BY <1>1, <1>2, <1>3, <1>4, ServeApart DEF SvcNext

\* Nobody is logged in at first.
LEMMA ApartInitOK == SvcInit => ApartInv
<1>. SUFFICES ASSUME SvcInit PROVE ApartInv
  OBVIOUS
<1>1. InUse = {} /\ spc = "idle"
  BY DEF SvcInit, Init, InUse
<1>. QED  BY <1>1 DEF ApartInv, EntryHome, CandsOK, Purging

\* The invariant of the service that works alone.
LEMMA ApartInductive ==
  ASSUME Apart
  PROVE  SvcSpec => []ApartInv
<1>1. SvcInv /\ ApartInv /\ [SvcNext]_vars => ApartInv'
  BY ApartNextOK
<1>. QED  BY <1>1, ApartInitOK, SvcInitOK, SvcNextOK, PTL DEF SvcSpec

(***************************************************************************)
(* What a rebuild leaves behind.  It pushes the entries in the order of    *)
(* their slots, so that a user's list runs from the last session down to   *)
(* the first: below each one comes the next lower.  A walk of such a list  *)
(* goes down a step at a time and passes none of them, whatever the lists  *)
(* were before.                                                            *)
(***************************************************************************)
\* h is the last of user u's sessions below slot k, or -1 if there is none.
IsBelow(h, u, k) ==
  /\ h \in Heads /\ h < k
  /\ h # -1 => h \in Sessions(u)
  /\ \A t \in Sessions(u) : t < k => t <= h

\* The entries below slot k have been pushed, and no other.
LinkedTo(k) ==
  \A u \in Uids :
    /\ IsBelow(user_head[u], u, k)
    /\ \A s \in Sessions(u) : s < k => IsBelow(next_session[s] - 1, u, s)

AllLinked == LinkedTo(USHM_SIZE)

\* The entry to be pushed, and the head it is to be linked to.
Pushing == /\ upid[si] # NoPid /\ suid = uuid[si]
           /\ shead = user_head[suid]

RebuildInv ==
  /\ spc \in {"nexts", "users"} => LinkedTo(0)
  /\ spc \in {"entry", "relink", "rehead"} => LinkedTo(si)
  /\ spc \in {"relink", "rehead"} => Pushing
  /\ spc = "rehead" => next_session[si] = EncodeNext(shead)
  /\ spc = "reuser" => LinkedTo(si + 1)
  /\ spc \in {"update", "updated"} /\ sjob # "update" => AllLinked

\* The entries below slot k that are left are of living processes.
LiveBelow(k) == \A s \in InUse : s < k => ~NoProcess(upid[s])

FixInv ==
  /\ spc # "idle" => Resting
  /\ sjob = "fix" /\ spc \in {"cand"} \cup Purging =>
       LiveBelow(si) /\ \A s \in InUse : cands[s] # NoPid
  /\ spc = "purgeflag" => upid[si] = NoPid
  /\ sjob = "fix" /\ spc \in {"tally", "heads", "nexts", "users", "entry", "relink", "rehead",
                              "reuser", "update", "updated"} => LiveBelow(USHM_SIZE)

-----------------------------------------------------------------------------
\* A set of numbers that is not empty has a least one.
LEMMA Least ==
  ASSUME NEW T \in SUBSET Nat, T # {}
  PROVE  \E m \in T : \A n \in T : m <= n
<1>1. PICK R : R = OpToRel(<, Nat)
  OBVIOUS
<1>2. IsWellFoundedOn(R, Nat)
  BY <1>1, NatLessThanWellFounded
<1>3. PICK m \in T : \A n \in T : ~ (<<n, m>> \in R)
  BY <1>2, WFMin
<1>4. \A n \in T : n < m => <<n, m>> \in R
  BY <1>1 DEF OpToRel
<1>5. m \in Nat /\ \A n \in T : n \in Nat /\ ~(n < m)
  BY <1>3, <1>4
<1>. QED  BY <1>3, <1>5

\* Induction, as a statement about sets of numbers.
LEMMA NatInd ==
  ASSUME NEW S \in SUBSET Nat, 0 \in S, \A n \in S : n + 1 \in S
  PROVE  \A n \in Nat : n \in S
<1>. SUFFICES ASSUME Nat \ S # {} PROVE FALSE
  OBVIOUS
<1>1. PICK m \in Nat \ S : \A n \in Nat \ S : m <= n
  BY Least
<1>2. m # 0 /\ m - 1 \in S
  BY <1>1
<1>. QED  BY <1>1, <1>2

\* The step that a walk of user u's list takes from slot s.
Hop(u, s) ==
  IF ~Valid(s) \/ (~IsDeleted(next_session[s]) /\ ~(uuid[s] = u /\ upid[s] # NoPid))
       \/ DecodeSlot(next_session[s]) = s
    THEN -1
    ELSE DecodeSlot(next_session[s])

Walks(f, u) ==
  f = [n \in 0 .. APPLY_MAX |-> IF n = 0 THEN user_head[u] ELSE Hop(u, f[n - 1])]

\* There is a function that takes the steps of a walk.
LEMMA WalkExists ==
  ASSUME NEW u
  PROVE  \E f : Walks(f, u)
<1>. DEFINE N == 0 .. APPLY_MAX
            Upto(f, k) == /\ f = [n \in N |-> f[n]]
                          /\ \A n \in N : n < k => f[n] = IF n = 0 THEN user_head[u] ELSE Hop(u, f[n - 1])
            S == {k \in Nat : \E f : Upto(f, k)}
<1>1. 0 \in S
  <2>1. PICK f : f = [n \in N |-> 0]
    OBVIOUS
  <2>2. Upto(f, 0)
    BY <2>1
  <2>. QED  BY <2>2
<1>2. ASSUME NEW k \in S PROVE k + 1 \in S
  <2>1. PICK f : Upto(f, k)
    OBVIOUS
  <2>2. k \in Nat
    OBVIOUS
  <2>3. PICK g : g = [n \in N |-> IF n < k THEN f[n] ELSE IF n = 0 THEN user_head[u] ELSE Hop(u, f[n - 1])]
    OBVIOUS
  <2>4. \A n \in N : g[n] = IF n < k THEN f[n] ELSE IF n = 0 THEN user_head[u] ELSE Hop(u, f[n - 1])
    BY <2>3
  <2>5. ASSUME NEW n \in N, n < k + 1
        PROVE  g[n] = IF n = 0 THEN user_head[u] ELSE Hop(u, g[n - 1])
    <3>1. n # 0 => n - 1 \in N /\ n - 1 < k
      BY <2>2, <2>5, UtmpAssumption
    <3>2. n # 0 => g[n - 1] = f[n - 1]
      BY <2>4, <3>1
    <3>3. g[n] = IF n = 0 THEN user_head[u] ELSE Hop(u, f[n - 1])
      BY <2>1, <2>4
    <3>. QED  BY <3>2, <3>3
  <2>6. g = [n \in N |-> g[n]]
    BY <2>3
  <2>7. Upto(g, k + 1)
    BY <2>5, <2>6
  <2>. HIDE DEF Upto
  <2>. QED  BY <2>2, <2>7
<1>3. APPLY_MAX + 1 \in S
  <2>1. S \in SUBSET Nat
    OBVIOUS
  <2>2. APPLY_MAX + 1 \in Nat
    BY UtmpAssumption
  <2>. HIDE DEF S
  <2>. QED  BY <1>1, <1>2, <2>1, <2>2, NatInd
<1>4. PICK f : Upto(f, APPLY_MAX + 1)
  BY <1>3
<1>5. \A n \in N : f[n] = IF n = 0 THEN user_head[u] ELSE Hop(u, f[n - 1])
  <2>1. \A n \in N : n < APPLY_MAX + 1
    BY UtmpAssumption
  <2>. QED  BY <1>4, <2>1
<1>6. f = [n \in N |-> f[n]]
  BY <1>4
<1>7. f = [n \in N |-> IF n = 0 THEN user_head[u] ELSE Hop(u, f[n - 1])]
  BY <1>5, <1>6
<1>. QED  BY <1>7 DEF Walks

\* utmp_apply_user counts the sessions that a walk comes to.
LEMMA ApplyIs ==
  ASSUME NEW u
  PROVE  \E f : /\ Walks(f, u)
                /\ ApplyUser(u) = [s \in Slots |-> Cardinality({n \in 0 .. APPLY_MAX - 1 :
                     f[n] = s /\ ~IsDeleted(next_session[s]) /\ (uuid[s] = u /\ upid[s] # NoPid)})]
<1>1. PICK f : /\ f = (CHOOSE g : Walks(g, u))
               /\ ApplyUser(u) = [s \in Slots |-> Cardinality({n \in 0 .. APPLY_MAX - 1 :
                     f[n] = s /\ ~IsDeleted(next_session[s]) /\ (uuid[s] = u /\ upid[s] # NoPid)})]
  BY Zenon DEF ApplyUser, Walks, Hop
<1>2. Walks(f, u)
  BY <1>1, WalkExists
<1>. QED  BY <1>1, <1>2

\* A walk of a rebuilt list goes down from session to session: it starts at
\* the last, passes none and stays at the end.
LEMMA WalkGoesDown ==
  ASSUME TableType, AllLinked, NEW u \in Uids, NEW f, Walks(f, u)
  PROVE  /\ \A n \in 0 .. APPLY_MAX : f[n] = -1 \/ f[n] \in Sessions(u)
         /\ \A t \in Sessions(u) : t <= f[0]
         /\ \A n \in 0 .. APPLY_MAX : n # 0 /\ f[n - 1] = -1 => f[n] = -1
         /\ \A n \in 0 .. APPLY_MAX : n # 0 /\ f[n - 1] \in Sessions(u) => IsBelow(f[n], u, f[n - 1])
<1>. DEFINE N == 0 .. APPLY_MAX
            S == {n \in Nat : n \in N => f[n] = -1 \/ f[n] \in Sessions(u)}
<1>. USE SizeAssumption, UtmpAssumption
<1>0. \A n \in N : f[n] = IF n = 0 THEN user_head[u] ELSE Hop(u, f[n - 1])
  BY DEF Walks
<1>1. Hop(u, -1) = -1
  BY DEF Hop, Slots
<1>2. ASSUME NEW s \in Sessions(u) PROVE IsBelow(Hop(u, s), u, s)
  <2>1. s \in Slots /\ s \in Int /\ s < USHM_SIZE /\ uuid[s] = u /\ upid[s] # NoPid
    BY DEF Sessions, Slots
  <2>2. IsBelow(next_session[s] - 1, u, s)
    BY <2>1 DEF AllLinked, LinkedTo
  <2>3. next_session[s] \in Int /\ next_session[s] <= s
    BY <2>1, <2>2 DEF TableType, Words, IsBelow
  <2>4. ~IsDeleted(next_session[s]) /\ DecodeSlot(next_session[s]) = next_session[s] - 1
    BY <2>1, <2>3 DEF IsDeleted, DELETED, DecodeSlot
  <2>5. Hop(u, s) = next_session[s] - 1
    BY <2>1, <2>3, <2>4 DEF Hop
  <2>. QED  BY <2>2, <2>5
<1>3. IsBelow(user_head[u], u, USHM_SIZE)
  BY DEF AllLinked, LinkedTo
<1>4. 0 \in S
  BY <1>0, <1>3 DEF IsBelow
<1>5. ASSUME NEW n \in S PROVE n + 1 \in S
  <2>1. n \in Nat /\ n + 1 \in Nat /\ n + 1 # 0 /\ (n + 1) - 1 = n
    OBVIOUS
  <2>2. CASE n + 1 \in N
    <3>1. f[n] = -1 \/ f[n] \in Sessions(u)
      BY <2>1, <2>2
    <3>2. f[n + 1] = Hop(u, f[n])
      BY <1>0, <2>1, <2>2
    <3>. QED  BY <1>1, <1>2, <2>1, <3>1, <3>2 DEF IsBelow
  <2>. QED  BY <2>1, <2>2
<1>6. \A n \in N : f[n] = -1 \/ f[n] \in Sessions(u)
  <2>1. S \in SUBSET Nat
    OBVIOUS
  <2>2. \A n \in Nat : n \in S
    <3>. HIDE DEF S
    <3>. QED  BY <1>4, <1>5, <2>1, NatInd
  <2>. QED  BY <2>2
<1>7. \A t \in Sessions(u) : t <= f[0]
  <2>1. f[0] = user_head[u]
    BY <1>0
  <2>2. \A t \in Sessions(u) : t < USHM_SIZE
    BY DEF Sessions, Slots
  <2>. QED  BY <1>3, <2>1, <2>2 DEF IsBelow
<1>8. \A n \in N : n # 0 => f[n] = Hop(u, f[n - 1])
  BY <1>0
<1>. QED  BY <1>1, <1>2, <1>6, <1>7, <1>8

\* It comes to no session twice.
LEMMA WalkOnce ==
  ASSUME TableType, AllLinked, NEW u \in Uids, NEW f, Walks(f, u)
  PROVE  \A m, n \in 0 .. APPLY_MAX : m < n /\ f[n] \in Sessions(u)
           => f[m] \in Sessions(u) /\ f[n] < f[m]
<1>. DEFINE N == 0 .. APPLY_MAX
            S == {n \in Nat : n \in N => \A m \in N : m < n /\ f[n] \in Sessions(u)
                                 => f[m] \in Sessions(u) /\ f[n] < f[m]}
<1>. USE UtmpAssumption
<1>0. /\ \A n \in N : f[n] = -1 \/ f[n] \in Sessions(u)
      /\ \A n \in N : n # 0 /\ f[n - 1] = -1 => f[n] = -1
      /\ \A n \in N : n # 0 /\ f[n - 1] \in Sessions(u) => IsBelow(f[n], u, f[n - 1])
      /\ \A t \in Sessions(u) : t \in Int /\ t # -1
  BY WalkGoesDown, SizeAssumption DEF Sessions, Slots
<1>1. 0 \in S
  OBVIOUS
<1>2. ASSUME NEW n \in S PROVE n + 1 \in S
  <2>1. n \in Nat /\ n + 1 \in Nat /\ n + 1 # 0 /\ (n + 1) - 1 = n
    OBVIOUS
  <2>2. SUFFICES ASSUME n + 1 \in N, f[n + 1] \in Sessions(u), NEW m \in N, m < n + 1
                 PROVE  f[m] \in Sessions(u) /\ f[n + 1] < f[m]
    BY <2>1
  <2>3. n \in N
    BY <2>1, <2>2
  <2>4. f[n] \in Sessions(u)
    BY <1>0, <2>1, <2>2, <2>3
  <2>5. f[n + 1] < f[n]
    BY <1>0, <2>1, <2>2, <2>4 DEF IsBelow
  <2>6. CASE m = n
    BY <2>4, <2>5, <2>6
  <2>7. CASE m < n
    <3>1. f[m] \in Sessions(u) /\ f[n] < f[m]
      BY <2>3, <2>4, <2>7
    <3>. QED  BY <1>0, <2>2, <2>4, <2>5, <3>1
  <2>. QED  BY <2>1, <2>2, <2>6, <2>7
<1>3. S \in SUBSET Nat
  OBVIOUS
<1>4. \A n \in Nat : n \in S
  <2>. HIDE DEF S
  <2>. QED  BY <1>1, <1>2, <1>3, NatInd
<1>. QED  BY <1>4

\* And it comes to all of them, if it may take as many steps: one that it has
\* not come to stays below it, and then there are more than that.
LEMMA WalkFinds ==
  ASSUME TableType, AllLinked, NEW u \in Uids, NEW f, Walks(f, u),
         Cardinality(Sessions(u)) <= APPLY_MAX, NEW s \in Sessions(u)
  PROVE  \E n \in 0 .. APPLY_MAX - 1 : f[n] = s
<1>. DEFINE N == 0 .. APPLY_MAX - 1
            S == {n \in Nat : n \in N => f[n] \in Sessions(u) /\ s < f[n]}
<1>. USE UtmpAssumption
<1>. SUFFICES ASSUME \A n \in N : f[n] # s PROVE FALSE
  OBVIOUS
<1>0. /\ \A n \in N : f[n] = -1 \/ f[n] \in Sessions(u)
      /\ \A t \in Sessions(u) : t <= f[0]
      /\ \A n \in N : n # 0 /\ f[n - 1] \in Sessions(u) => IsBelow(f[n], u, f[n - 1])
      /\ \A t \in Sessions(u) : t \in Int /\ t >= 0
      /\ N \subseteq 0 .. APPLY_MAX
  BY WalkGoesDown, SizeAssumption DEF Sessions, Slots
<1>1. 0 \in S
  BY <1>0
<1>2. ASSUME NEW n \in S PROVE n + 1 \in S
  <2>1. n \in Nat /\ n + 1 \in Nat /\ n + 1 # 0 /\ (n + 1) - 1 = n
    OBVIOUS
  <2>2. SUFFICES ASSUME n + 1 \in N PROVE f[n + 1] \in Sessions(u) /\ s < f[n + 1]
    BY <2>1
  <2>3. f[n] \in Sessions(u) /\ s < f[n]
    BY <2>1, <2>2
  <2>4. s <= f[n + 1] /\ f[n + 1] # s
    BY <1>0, <2>1, <2>2, <2>3 DEF IsBelow
  <2>. QED  BY <1>0, <2>2, <2>4
<1>3. S \in SUBSET Nat
  OBVIOUS
<1>4. \A n \in N : f[n] \in Sessions(u) /\ s < f[n]
  <2>1. \A n \in Nat : n \in S
    <3>. HIDE DEF S
    <3>. QED  BY <1>1, <1>2, <1>3, NatInd
  <2>. QED  BY <2>1
<1>5. IsFiniteSet(Sessions(u))
  <2>1. IsFiniteSet(0 .. USHM_SIZE - 1)
    BY SizeAssumption, FS_Interval
  <2>. QED  BY <2>1, FS_Subset DEF Sessions, Slots
<1>6. PICK T : T = Sessions(u) \ {s}
  OBVIOUS
<1>7. IsFiniteSet(T) /\ Cardinality(T) = Cardinality(Sessions(u)) - 1
  BY <1>5, <1>6, FS_RemoveElement
<1>8. IsFiniteSet(N) /\ Cardinality(N) = APPLY_MAX
  <2>1. CASE APPLY_MAX = 0
    <3>1. N = {}
      BY <2>1
    <3>. QED  BY <2>1, <3>1, FS_EmptySet
  <2>2. CASE APPLY_MAX # 0
    <3>1. 0 \in Int /\ APPLY_MAX - 1 \in Int /\ ~(0 > APPLY_MAX - 1) /\ (APPLY_MAX - 1) - 0 + 1 = APPLY_MAX
      BY <2>2
    <3>. QED  BY <3>1, FS_Interval
  <2>. QED  BY <2>1, <2>2
<1>9. Cardinality(T) < Cardinality(N)
  <2>1. Cardinality(Sessions(u)) \in Nat
    BY <1>5, FS_CardinalityType
  <2>. QED  BY <1>7, <1>8, <2>1
<1>10. PICK g : g = [n \in N |-> f[n]]
  OBVIOUS
<1>11. g \in [N -> T]
  BY <1>0, <1>4, <1>6, <1>10
<1>12. PICK m \in N, n \in N : m # n /\ g[m] = g[n]
  <2>. HIDE DEF N
  <2>. QED  BY <1>7, <1>8, <1>9, <1>11, FS_PigeonHole
<1>13. f[m] = f[n]
  BY <1>10, <1>12
<1>14. CASE m < n
  BY <1>0, <1>4, <1>13, <1>14, WalkOnce
<1>15. CASE n < m
  BY <1>0, <1>4, <1>13, <1>15, WalkOnce
<1>. QED  BY <1>12, <1>14, <1>15

\* What utmp_apply_user finds in rebuilt lists.
LEMMA LinkedIsExact == TypeOK /\ AllLinked => ListsExact
<1>. SUFFICES ASSUME TableType, AllLinked, NEW u \in Uids, Cardinality(Sessions(u)) <= APPLY_MAX,
                     NEW s \in Slots
              PROVE  ApplyUser(u)[s] = IF s \in Sessions(u) THEN 1 ELSE 0
  BY DEF TypeOK, ListsExact
<1>. USE UtmpAssumption
<1>1. PICK f : /\ Walks(f, u)
               /\ ApplyUser(u) = [t \in Slots |-> Cardinality({n \in 0 .. APPLY_MAX - 1 :
                    f[n] = t /\ ~IsDeleted(next_session[t]) /\ (uuid[t] = u /\ upid[t] # NoPid)})]
  BY ApplyIs
<1>2. PICK C : C = {n \in 0 .. APPLY_MAX - 1 :
                    f[n] = s /\ ~IsDeleted(next_session[s]) /\ (uuid[s] = u /\ upid[s] # NoPid)}
  OBVIOUS
<1>3. ApplyUser(u)[s] = Cardinality(C)
  BY <1>1, <1>2
<1>4. CASE s \notin Sessions(u)
  <2>1. C = {}
    BY <1>2, <1>4 DEF Sessions
  <2>. QED  BY <1>3, <1>4, <2>1, FS_EmptySet
<1>5. CASE s \in Sessions(u)
  <2>1. PICK n \in 0 .. APPLY_MAX - 1 : f[n] = s
    BY <1>1, <1>5, WalkFinds
  <2>2. ~IsDeleted(next_session[s])
    <3>1. IsBelow(next_session[s] - 1, u, s)
      BY <1>5, SizeAssumption DEF AllLinked, LinkedTo, Sessions, Slots
    <3>. QED  BY <3>1, SizeAssumption DEF IsBelow, TableType, Words, IsDeleted, DELETED, Slots
  <2>3. n \in C
    BY <1>2, <1>5, <2>1, <2>2 DEF Sessions
  <2>4. ASSUME NEW m \in C PROVE m = n
    <3>1. m \in 0 .. APPLY_MAX - 1 /\ f[m] = s
      BY <1>2
    <3>2. s \in Int /\ m \in 0 .. APPLY_MAX /\ n \in 0 .. APPLY_MAX
      BY <3>1, SizeAssumption DEF Slots
    <3>3. CASE m < n
      BY <1>1, <1>5, <2>1, <3>1, <3>2, <3>3, WalkOnce
    <3>4. CASE n < m
      BY <1>1, <1>5, <2>1, <3>1, <3>2, <3>4, WalkOnce
    <3>. QED  BY <3>2, <3>3, <3>4
  <2>5. C = {n}
    BY <2>3, <2>4
  <2>6. Cardinality(C) = 1
    BY <2>5, FS_Singleton
  <2>. QED  BY <1>3, <1>5, <2>6
<1>. QED  BY <1>4, <1>5

-----------------------------------------------------------------------------
\* LinkedTo speaks of the entries, the heads and the links only.
LEMMA LinkedStays ==
  ASSUME NEW k, LinkedTo(k), UNCHANGED <<upid, uuid, user_head, next_session>>
  PROVE  LinkedTo(k)'
BY DEF LinkedTo, IsBelow, Sessions

\* A slot that is no session of a user needs no push.
LEMMA LinkedSkip ==
  ASSUME LinkedTo(si), si \in Slots, ~(upid[si] # NoPid /\ uuid[si] \in Uids)
  PROVE  LinkedTo(si + 1)
<1>1. \A u \in Uids : \A t \in Sessions(u) : t \in Int /\ t # si
  BY SizeAssumption DEF Sessions, Slots
<1>2. \A h \in Heads : h \in Int
  BY SizeAssumption DEF Heads
<1>. QED  BY <1>1, <1>2, SizeAssumption DEF LinkedTo, IsBelow, Slots

\* The entry that was linked becomes the head of its user's list.
LEMMA LinkedPush ==
  ASSUME SvcInv, LinkedTo(si), Pushing, si \in Slots, suid \in Uids,
         next_session[si] = EncodeNext(shead), RebuildHead
  PROVE  LinkedTo(si + 1)'
<1>0. /\ upid' = upid /\ uuid' = uuid /\ next_session' = next_session /\ si' = si
      /\ user_head' = [user_head EXCEPT ![suid] = si]
      /\ user_head \in [Uids -> Heads] /\ next_session \in [Slots -> Words]
  BY DEF RebuildHead, SvcInv, SvcTypeOK, TypeOK, TableType
<1>1. /\ si \in Int /\ si >= 0 /\ si \in Heads
      /\ \A h \in Heads : h \in Int /\ h >= -1 /\ (h # -1 => h \in Slots)
      /\ \A t \in Slots : t \in Int /\ t >= 0
  BY SizeAssumption DEF Slots, Heads
<1>2. next_session[si] - 1 = user_head[suid]
  BY <1>0, <1>1 DEF Pushing, EncodeNext
<1>3. \A u \in Uids : Sessions(u)' = Sessions(u) /\ Sessions(u) \subseteq Slots
                      /\ (si \in Sessions(u) <=> u = suid)
  BY <1>0 DEF Sessions, Pushing
<1>. SUFFICES ASSUME NEW u \in Uids
              PROVE  /\ IsBelow(user_head'[u], u, si + 1)
                     /\ \A s \in Sessions(u) : s < si + 1 => IsBelow(next_session[s] - 1, u, s)
  BY <1>0, <1>3 DEF LinkedTo, IsBelow
<1>4. IsBelow(user_head[u], u, si) /\ \A s \in Sessions(u) : s < si => IsBelow(next_session[s] - 1, u, s)
  BY DEF LinkedTo
<1>5. \A t \in Sessions(u) : t \in Int /\ t >= 0 /\ (t < si + 1 => t < si \/ t = si)
  BY <1>1 DEF Sessions
<1>6. CASE u = suid
  <2>1. user_head'[u] = si
    BY <1>0, <1>6
  <2>2. \A t \in Sessions(u) : t < si + 1 => t <= si
    BY <1>1, <1>5
  <2>3. IsBelow(si, u, si + 1)
    BY <1>1, <1>3, <1>6, <2>2 DEF IsBelow
  <2>4. ASSUME NEW s \in Sessions(u), s < si + 1 PROVE IsBelow(next_session[s] - 1, u, s)
    <3>1. CASE s = si
      BY <1>2, <1>4, <1>6, <3>1
    <3>2. CASE s # si
      BY <1>4, <1>5, <2>4, <3>2
    <3>. QED  BY <3>1, <3>2
  <2>. QED  BY <2>1, <2>3, <2>4
<1>7. CASE u # suid
  <2>1. user_head'[u] = user_head[u]
    BY <1>0, <1>7
  <2>2. \A t \in Sessions(u) : t < si + 1 => t < si
    BY <1>3, <1>7, <1>5
  <2>3. user_head[u] < si + 1
    <3>1. user_head[u] < si /\ user_head[u] \in Int
      BY <1>1, <1>4 DEF IsBelow
    <3>. QED  BY <1>1, <3>1
  <2>4. IsBelow(user_head[u], u, si + 1)
    BY <1>4, <2>2, <2>3 DEF IsBelow
  <2>. QED  BY <1>4, <2>1, <2>2, <2>4
<1>. QED  BY <1>6, <1>7

\* Pushing or passing a slot brings the rebuild to the next one, or to its end.
LEMMA AfterEntryLinks ==
  ASSUME SvcInv, LinkedTo(si + 1), si \in Slots, AfterEntry,
         UNCHANGED <<upid, uuid, user_head, next_session>>
  PROVE  /\ RebuildInv'
         /\ spc' = "idle" => AllLinked'
<1>. USE DEF SvcGoto
<1>1. PICK k : k = si + 1
  OBVIOUS
<1>2. LinkedTo(k)'
  BY <1>1, LinkedStays
<1>3. CASE si + 1 \in Slots
  <2>1. si' = k /\ spc' = "entry"
    BY <1>1, <1>3 DEF AfterEntry
  <2>2. LinkedTo(si)'
    BY <1>2, <2>1
  <2>. QED  BY <2>1, <2>2 DEF RebuildInv
<1>4. CASE si + 1 \notin Slots
  <2>1. k = USHM_SIZE
    BY <1>1, <1>4, SizeAssumption DEF Slots
  <2>2. AllLinked'
    BY <1>2, <2>1 DEF AllLinked
  <2>3. spc' \in {"idle", "update"}
    BY <1>4 DEF AfterEntry, Done
  <2>. QED  BY <2>2, <2>3 DEF RebuildInv
<1>. QED  BY <1>3, <1>4

\* A step of the service, while no process moves.
LEMMA ServeLinks ==
  ASSUME SvcInv, RebuildInv, Serve
  PROVE  /\ RebuildInv'
         /\ spc' = "idle" /\ (spc = "tally" => changed = 1) /\ sjob # "update" => AllLinked'
<1>. USE DEF SvcAt, SvcGoto
<1>0. SvcPlaces /\ TableType
  BY DEF SvcInv, SvcTypeOK, TypeOK
<1>1. CASE FixSlot \/ FixHeadLoad \/ FixHeadClear
  BY <1>1 DEF FixSlot, FixHeadLoad, FixHeadClear, NextUid, RebuildInv
<1>2. CASE Scan \/ Candidate
  BY <1>2 DEF Scan, Candidate, AfterCand, RebuildInv
<1>3. CASE PurgeUser \/ PurgeMark \/ PurgeHead \/ PurgeClear \/ PurgeFlag
  BY <1>3 DEF PurgeUser, PurgeMark, PurgeHead, PurgeClear, PurgeFlag, AfterCand, RebuildInv
<1>4. CASE Tally
  BY <1>4 DEF Tally, Done, RebuildInv
<1>5. CASE ClearHeads
  <2>1. spc' = "nexts" /\ user_head' = [u \in Uids |-> -1]
    BY <1>5 DEF ClearHeads
  <2>2. LinkedTo(0)'
    BY <2>1, Bounds, SizeAssumption DEF LinkedTo, IsBelow, Sessions, Slots
  <2>. QED  BY <2>1, <2>2 DEF RebuildInv
<1>6. CASE ClearNexts
  <2>1. spc' = "users" /\ UNCHANGED <<upid, uuid, user_head>> /\ LinkedTo(0)
    BY <1>6 DEF ClearNexts, RebuildInv
  <2>2. \A u \in Uids : \A t \in Sessions(u) : ~(t < 0)
    BY SizeAssumption DEF Sessions, Slots
  <2>3. LinkedTo(0)'
    BY <2>1, <2>2 DEF LinkedTo, IsBelow, Sessions
  <2>. QED  BY <2>1, <2>3 DEF RebuildInv
<1>7. CASE ClearUsers
  <2>1. spc' = "entry" /\ si' = 0 /\ UNCHANGED <<upid, uuid, user_head, next_session>> /\ LinkedTo(0)
    BY <1>7 DEF ClearUsers, RebuildInv
  <2>2. LinkedTo(0)'
    BY <2>1, LinkedStays
  <2>3. LinkedTo(si)'
    BY <2>1, <2>2
  <2>. QED  BY <2>1, <2>3 DEF RebuildInv
<1>8. CASE RebuildLoad
  <2>1. /\ spc = "entry" /\ LinkedTo(si) /\ si \in Slots
        /\ UNCHANGED <<upid, uuid, user_head, next_session>>
    BY <1>0, <1>8 DEF RebuildLoad, RebuildInv, SvcPlaces, uvars
  <2>2. CASE upid[si] # NoPid /\ uuid[si] \in Uids
    <3>1. spc' = "relink" /\ si' = si /\ suid' = uuid[si] /\ shead' = user_head[uuid[si]]
      BY <1>8, <2>2 DEF RebuildLoad
    <3>2. PICK k : k = si
      OBVIOUS
    <3>3. LinkedTo(k)'
      BY <2>1, <3>2, LinkedStays
    <3>4. LinkedTo(si)'
      BY <3>1, <3>2, <3>3
    <3>5. Pushing'
      BY <2>1, <2>2, <3>1 DEF Pushing
    <3>. QED  BY <3>1, <3>4, <3>5 DEF RebuildInv
  <2>3. CASE ~(upid[si] # NoPid /\ uuid[si] \in Uids)
    <3>1. AfterEntry
      BY <1>8, <2>3 DEF RebuildLoad
    <3>. QED  BY <2>1, <2>3, <3>1, LinkedSkip, AfterEntryLinks
  <2>. QED  BY <2>2, <2>3
<1>9. CASE RebuildNext
  <2>1. /\ spc = "relink" /\ LinkedTo(si) /\ Pushing /\ si \in Slots
        /\ UNCHANGED <<upid, uuid, user_head, si, suid, shead>> /\ spc' = "rehead"
        /\ next_session' = [next_session EXCEPT ![si] = EncodeNext(shead)]
        /\ next_session \in [Slots -> Words]
    BY <1>0, <1>9 DEF RebuildNext, RebuildInv, SvcPlaces, TableType
  <2>2. next_session'[si] = EncodeNext(shead) /\ \A s \in Slots : s # si => next_session'[s] = next_session[s]
    BY <2>1
  <2>3. \A u \in Uids : \A s \in Sessions(u) : s \in Slots /\ (s < si => s # si)
    BY SizeAssumption DEF Sessions, Slots
  <2>4. LinkedTo(si)'
    BY <2>1, <2>2, <2>3 DEF LinkedTo, IsBelow, Sessions
  <2>5. Pushing'
    BY <2>1 DEF Pushing
  <2>. QED  BY <2>1, <2>2, <2>4, <2>5 DEF RebuildInv, EncodeNext
<1>10. CASE RebuildHead
  <2>1. /\ spc = "rehead" /\ LinkedTo(si) /\ Pushing /\ si \in Slots /\ suid \in Uids
        /\ next_session[si] = EncodeNext(shead) /\ spc' = "reuser"
    BY <1>0, <1>10 DEF RebuildHead, RebuildInv, SvcPlaces
  <2>2. LinkedTo(si + 1)'
    BY <1>10, <2>1, LinkedPush
  <2>. QED  BY <2>1, <2>2 DEF RebuildInv
<1>11. CASE RebuildUser
  <2>1. /\ spc = "reuser" /\ LinkedTo(si + 1) /\ si \in Slots /\ AfterEntry
        /\ UNCHANGED <<upid, uuid, user_head, next_session>>
    BY <1>0, <1>11 DEF RebuildUser, RebuildInv, SvcPlaces
  <2>. QED  BY <2>1, AfterEntryLinks
<1>12. CASE Update \/ Updated
  <2>1. /\ spc \in {"update", "updated"} /\ UNCHANGED <<upid, uuid, user_head, next_session>>
        /\ \/ spc' = "updated" /\ sjob' = sjob
           \/ spc' = "idle"
    BY <1>12 DEF Update, Updated, Done, uvars
  <2>2. sjob # "update" => LinkedTo(USHM_SIZE)'
    BY <2>1, LinkedStays DEF RebuildInv, AllLinked
  <2>. QED  BY <2>1, <2>2 DEF RebuildInv, AllLinked
<1>13. CASE Tick
  BY <1>13 DEF Tick, RebuildInv
<1>. QED
  BY <1>1, <1>2, <1>3, <1>4, <1>5, <1>6, <1>7, <1>8, <1>9, <1>10, <1>11, <1>12, <1>13
  DEF Serve, RunFix, Rebuild

\* A fix looks at every entry that there is, and nothing brings one back.
LEMMA ServeFixes ==
  ASSUME SvcInv, CandsOK, FixInv, Serve, Apart
  PROVE  /\ FixInv'
         /\ spc' = "idle" /\ sjob = "fix" => LiveBelow(USHM_SIZE)' /\ Resting'
<1>. USE DEF SvcAt, SvcGoto, procs, Purging
<1>0. /\ SvcPlaces /\ TableType /\ sjob \in {"none", "fix", "kick", "rebuild", "update"}
      /\ Heads = -1 .. USHM_SIZE - 1 /\ \A s \in Slots : s \in Int /\ s >= 0 /\ s < USHM_SIZE
      /\ NoPid \notin Procs
  BY SizeAssumption, UtmpAssumption DEF SvcInv, SvcTypeOK, TypeOK, Slots, Heads
<1>1. ASSUME pc' = pc, spc # "idle" PROVE Resting'
  BY <1>1 DEF FixInv, Resting
<1>2. ASSUME NEW k, LiveBelow(k), UNCHANGED <<upid, pc>> PROVE LiveBelow(k)'
  BY <1>2 DEF LiveBelow, InUse, NoProcess
<1>3. CASE FixSlot \/ FixHeadLoad \/ FixHeadClear
  <2>1. pc' = pc /\ spc # "idle" /\ spc' \in {"fixslots", "fixheads", "fixhead", "scan"}
    BY <1>3 DEF FixSlot, FixHeadLoad, FixHeadClear, NextUid, uvars
  <2>. QED  BY <1>1, <2>1 DEF FixInv
<1>4. CASE Scan
  <2>1. /\ spc = "scan" /\ spc' = "cand" /\ upid' = upid /\ pc' = pc /\ si' = 0 /\ sjob' = sjob
        /\ sjob = "fix" => cands' = upid
    BY <1>0, <1>4 DEF Scan, uvars, TableType
  <2>2. LiveBelow(si)'
    BY <1>0, <2>1 DEF LiveBelow, InUse
  <2>3. sjob = "fix" => \A s \in InUse' : cands'[s] # NoPid
    BY <2>1 DEF InUse
  <2>. QED  BY <1>1, <2>1, <2>2, <2>3 DEF FixInv
<1>5. ASSUME AfterCand, spc \in {"cand"} \cup Purging, sjob' = sjob, cands' = cands, pc' = pc, si \in Slots,
             \A s \in Slots : upid'[s] \in {upid[s], NoPid},
             sjob = "fix" => (upid'[si] # NoPid => ~NoProcess(upid'[si]))
      PROVE  FixInv' /\ spc' # "idle"
  <2>1. spc' \in {"cand", "tally"} /\ Resting'
    BY <1>1, <1>5 DEF AfterCand
  <2>. SUFFICES ASSUME sjob = "fix"
                PROVE  /\ spc' = "cand" => LiveBelow(si)' /\ \A s \in InUse' : cands'[s] # NoPid
                       /\ spc' = "tally" => LiveBelow(USHM_SIZE)'
    BY <1>5, <2>1 DEF FixInv
  <2>2. LiveBelow(si) /\ \A s \in InUse : cands[s] # NoPid
    BY <1>5 DEF FixInv
  <2>3. \A s \in InUse' : s \in InUse /\ upid'[s] = upid[s]
    BY <1>5 DEF InUse
  <2>4. \A s \in InUse' : cands'[s] # NoPid
    BY <1>5, <2>2, <2>3
  <2>5. \A s \in InUse' : s < si + 1 => ~NoProcess(upid[s])'
    <3>. SUFFICES ASSUME NEW s \in InUse', s < si + 1 PROVE pc[upid'[s]] \notin {"gone", "dead"}
      BY <1>5 DEF NoProcess
    <3>1. CASE s = si
      BY <1>5, <3>1 DEF InUse, NoProcess
    <3>2. CASE s # si
      <4>1. s < si
        BY <1>0, <1>5, <3>2 DEF InUse
      <4>. QED  BY <2>2, <2>3, <4>1 DEF LiveBelow, NoProcess
    <3>. QED  BY <3>1, <3>2
  <2>6. CASE si + 1 \in Slots
    <3>1. si' = si + 1 /\ spc' = "cand"
      BY <1>5, <2>6 DEF AfterCand
    <3>. QED  BY <2>4, <2>5, <3>1 DEF LiveBelow
  <2>7. CASE si + 1 \notin Slots
    <3>1. spc' = "tally" /\ si + 1 = USHM_SIZE
      BY <1>5, <2>7, SizeAssumption DEF AfterCand, Slots
    <3>. QED  BY <2>5, <3>1 DEF LiveBelow
  <2>. QED  BY <2>6, <2>7
<1>6. CASE Candidate
  <2>1. /\ spc = "cand" /\ si \in Slots /\ upid' = upid /\ pc' = pc /\ sjob' = sjob /\ cands' = cands
    BY <1>0, <1>6 DEF Candidate, SvcPlaces, uvars
  <2>2. CASE ToPurge
    <3>1. spc' = "purge" /\ si' = si
      BY <1>6, <2>2 DEF Candidate
    <3>. QED  BY <1>1, <2>1, <3>1 DEF FixInv, LiveBelow, InUse, NoProcess
  <2>3. CASE ~ToPurge
    <3>1. AfterCand
      BY <1>6, <2>3 DEF Candidate
    <3>2. sjob = "fix" => (upid[si] # NoPid => ~NoProcess(upid[si]))
      <4>. SUFFICES ASSUME sjob = "fix", upid[si] # NoPid PROVE ~NoProcess(upid[si])
        OBVIOUS
      <4>1. cands[si] # NoPid
        BY <2>1 DEF FixInv, InUse
      <4>2. ~NoProcess(cands[si]) /\ upid[si] = cands[si]
        BY <2>1, <2>3, <4>1 DEF ToPurge, CandsOK
      <4>. QED  BY <4>2
    <3>3. sjob = "fix" => (upid'[si] # NoPid => ~NoProcess(upid'[si]))
      BY <2>1, <3>2
    <3>. QED  BY <1>5, <2>1, <3>1, <3>3
  <2>. QED  BY <2>2, <2>3
<1>7. CASE PurgeUser \/ PurgeMark \/ PurgeHead
  <2>1. /\ spc \in Purging /\ spc' \in Purging \ {"purgeflag"} /\ upid' = upid /\ pc' = pc
        /\ sjob' = sjob /\ cands' = cands /\ si' = si
    BY <1>7 DEF PurgeUser, PurgeMark, PurgeHead
  <2>. QED  BY <1>1, <2>1 DEF FixInv, LiveBelow, InUse, NoProcess
<1>8. CASE PurgeClear
  <2>1. /\ spc \in Purging /\ spc' \in Purging /\ si \in Slots /\ upid' = [upid EXCEPT ![si] = NoPid]
        /\ pc' = pc /\ sjob' = sjob /\ cands' = cands /\ si' = si
    BY <1>0, <1>8 DEF PurgeClear, SvcPlaces
  <2>2. \A s \in Slots : upid'[s] \in {upid[s], NoPid}
    BY <1>0, <2>1 DEF TableType
  <2>3. \A s \in InUse' : s \in InUse /\ upid'[s] = upid[s]
    BY <2>2 DEF InUse
  <2>4. upid'[si'] = NoPid
    BY <1>0, <2>1 DEF TableType
  <2>. QED  BY <1>1, <2>1, <2>3, <2>4 DEF FixInv, LiveBelow, NoProcess
<1>12. CASE PurgeFlag
  <2>1. /\ spc = "purgeflag" /\ si \in Slots /\ upid' = upid /\ pc' = pc /\ sjob' = sjob
        /\ cands' = cands /\ AfterCand
    BY <1>0, <1>12 DEF PurgeFlag, SvcPlaces
  <2>2. upid'[si] = NoPid
    BY <2>1 DEF FixInv
  <2>. QED  BY <1>5, <2>1, <2>2
<1>9. CASE Tally
  <2>1. /\ spc = "tally" /\ upid' = upid /\ pc' = pc
        /\ \/ spc' = "heads" /\ sjob' = sjob
           \/ spc' = "idle" /\ sjob' = "none"
    BY <1>9 DEF Tally, Done, uvars
  <2>2. sjob = "fix" => LiveBelow(USHM_SIZE)'
    BY <1>2, <2>1 DEF FixInv
  <2>. QED  BY <1>1, <2>1, <2>2 DEF FixInv
<1>10. CASE Rebuild \/ Update \/ Updated
  <2>1. /\ spc \in {"heads", "nexts", "users", "entry", "relink", "rehead", "reuser", "update", "updated"}
        /\ upid' = upid /\ pc' = pc
        /\ \/ spc' = "idle" /\ sjob' = "none"
           \/ /\ sjob' = sjob
              /\ spc' \in {"nexts", "users", "entry", "relink", "rehead", "reuser", "update",
                           "updated"}
    <3>1. CASE ClearHeads \/ ClearNexts \/ ClearUsers \/ RebuildNext \/ RebuildHead
      BY <3>1 DEF ClearHeads, ClearNexts, ClearUsers, RebuildNext, RebuildHead
    <3>2. CASE RebuildLoad \/ RebuildUser
      BY <3>2 DEF RebuildLoad, RebuildUser, AfterEntry, Done, uvars
    <3>3. CASE Update \/ Updated
      BY <3>3 DEF Update, Updated, Done, uvars
    <3>. QED  BY <1>10, <3>1, <3>2, <3>3 DEF Rebuild
  <2>2. sjob = "fix" => LiveBelow(USHM_SIZE)'
    BY <1>2, <2>1 DEF FixInv
  <2>. QED  BY <1>1, <2>1, <2>2 DEF FixInv
<1>11. CASE Tick
  <2>1. spc = "idle" /\ sjob' = "update" /\ spc' = "update" /\ pc' = pc /\ Resting
    BY <1>11 DEF Tick, uvars
  <2>. QED  BY <2>1 DEF FixInv, Resting
<1>. QED
  BY <1>3, <1>4, <1>6, <1>7, <1>8, <1>9, <1>10, <1>11, <1>12 DEF Serve, RunFix

\* Both are inductive while the service and the sessions keep apart, and say
\* what an ended request leaves.
LEMMA RepairStep ==
  ASSUME Apart, SvcInv, ApartInv, RebuildInv, FixInv, [SvcNext]_vars
  PROVE  /\ RebuildInv' /\ FixInv'
         /\ spc # "idle" /\ spc' = "idle" =>
              /\ sjob = "fix" => LiveBelow(USHM_SIZE)' /\ Resting'
              /\ (spc = "tally" => changed = 1) /\ sjob # "update" => AllLinked'
<1>. USE DEF SvcAt, SvcGoto
<1>1. CASE Session \/ \E s \in Slots : Reap(s)
  BY <1>1 DEF Session, Reap, svars, RebuildInv, FixInv, Purging
<1>2. ASSUME NEW r \in Requests, Accept(r) PROVE RebuildInv' /\ FixInv' /\ spc = "idle"
  <2>1. sjob' = r
    BY <1>2 DEF Accept
  <2>2. /\ spc' \in {"fixslots", "scan", "heads", "update"}
        /\ spc' \in {"heads", "update"} => sjob' # "fix"
        /\ spc' = "update" => sjob' = "update"
    BY <1>2, <2>1, AcceptGoes
  <2>3. pc' = pc /\ Resting /\ spc = "idle"
    BY <1>2 DEF Accept, uvars
  <2>. QED  BY <2>2, <2>3 DEF RebuildInv, FixInv, Purging, Resting
<1>3. CASE Serve
  BY <1>3, ServeLinks, ServeFixes DEF ApartInv
<1>4. CASE UNCHANGED vars
  <2>1. UNCHANGED <<upid, uuid, user_head, next_session, pc, spc, si, sjob, cands, suid, shead>>
    BY <1>4 DEF vars, uvars, svars
  <2>2. RebuildInv'
    BY <2>1 DEF RebuildInv, AllLinked, LinkedTo, IsBelow, Sessions, Pushing, EncodeNext
  <2>3. FixInv'
    BY <2>1 DEF FixInv, Resting, LiveBelow, InUse, NoProcess
  <2>. QED  BY <2>1, <2>2, <2>3
<1>. QED  BY <1>1, <1>2, <1>3, <1>4 DEF SvcNext

\* An entry that is left is of a process that is online.
LEMMA LeftIsAlive == TypeOK /\ EntryHome /\ LiveBelow(USHM_SIZE) /\ Resting => EntriesAlive
<1>. SUFFICES ASSUME TypeOK, EntryHome, LiveBelow(USHM_SIZE), Resting, NEW s \in Slots, upid[s] # NoPid
              PROVE  pc[upid[s]] = "online"
  BY DEF EntriesAlive
<1>1. s \in InUse /\ s < USHM_SIZE /\ upid[s] \in Procs
  BY SizeAssumption DEF InUse, Slots, TypeOK, TableType
<1>. QED  BY <1>1 DEF EntryHome, LiveBelow, NoProcess, Resting

\* Whatever has become of the lists, a rebuild that no login or logout ran
\* into makes them exact for every user with no more sessions than
\* utmp_apply_user looks at, and a fix leaves no entry of a dead process: for
\* any number of processes, users, slots and requests, and however many
\* sessions were lost before (RunFix, init_utmp_user, utmp_apply_user).
THEOREM ServiceDoesRepair == SvcSpec => ServiceRepairs
<1>. DEFINE Left == TypeOK /\ EntryHome /\ LiveBelow(USHM_SIZE) /\ Resting
            Whole == TypeOK /\ AllLinked
<1>1. CASE Apart
  <2>1. SvcInv /\ ApartInv /\ (RebuildInv /\ FixInv) /\ [SvcNext]_vars => (RebuildInv /\ FixInv)'
    BY <1>1, RepairStep
  <2>2. SvcInit => RebuildInv /\ FixInv
    BY DEF SvcInit, RebuildInv, FixInv, Purging
  <2>3. SvcSpec => []SvcInv
    BY SvcInitOK, SvcNextOK, PTL DEF SvcSpec
  <2>4. SvcSpec => []ApartInv
    BY <1>1, ApartInductive
  <2>5. SvcSpec => [](RebuildInv /\ FixInv)
    BY <2>1, <2>2, <2>3, <2>4, PTL DEF SvcSpec
  <2>6. ASSUME SvcInv, ApartInv, RebuildInv /\ FixInv, SvcInv', ApartInv', [SvcNext]_vars
        PROVE  spc # "idle" /\ spc' = "idle"
                 => (sjob = "fix" => Left') /\ ((spc = "tally" => changed = 1) /\ sjob # "update" => Whole')
    <3>1. TypeOK' /\ EntryHome'
      BY <2>6 DEF SvcInv, SvcTypeOK, ApartInv
    <3>. QED  BY <1>1, <2>6, <3>1, RepairStep
  <2>7. Left => EntriesAlive
    BY LeftIsAlive
  <2>8. Whole => ListsExact
    BY LinkedIsExact
  <2>9. Left' => EntriesAlive'
    BY <2>7, PTL
  <2>10. Whole' => ListsExact'
    BY <2>8, PTL
  <2>. HIDE DEF Left, Whole
  <2>11. SvcInv /\ ApartInv /\ (RebuildInv /\ FixInv) /\ SvcInv' /\ ApartInv' /\ [SvcNext]_vars
          => [Apart /\ spc # "idle" /\ spc' = "idle"
                => /\ sjob = "fix" => EntriesAlive'
                   /\ (spc = "tally" => changed = 1) /\ sjob # "update" => ListsExact']_vars
    BY <2>6, <2>9, <2>10
  <2>. QED  BY <2>3, <2>4, <2>5, <2>11, PTL DEF SvcSpec, ServiceRepairs
<1>2. CASE ~Apart
  <2>1. Apart /\ spc # "idle" /\ spc' = "idle"
          => /\ sjob = "fix" => EntriesAlive'
             /\ (spc = "tally" => changed = 1) /\ sjob # "update" => ListsExact'
    BY <1>2
  <2>. QED  BY <2>1, PTL DEF ServiceRepairs
<1>. QED  BY <1>1, <1>2
=============================================================================
