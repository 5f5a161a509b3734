------------------------------ MODULE UtmpUser ------------------------------
(***************************************************************************)
(* The table of login sessions.  Every mbbsd process claims one slot of    *)
(* SHM->uinfo[] when its user logs in and links it into SHM->utmp_user, a  *)
(* singly linked list per user (common/bbs/cache.c), which utmp_apply_user *)
(* walks to find a user's sessions.  The list has no lock: a slot is       *)
(* removed by marking its next_session word and unlinked later by whoever  *)
(* cleans the list.  Each atomic load, store and compare-and-swap is a     *)
(* step; the load/compare-and-swap loop that marks a word is one step,     *)
(* since it repeats until the word it read is the word it replaces.        *)
(***************************************************************************)
EXTENDS Integers, FiniteSets

CONSTANTS
  Procs,        \* mbbsd processes; a process is identified with its pid
  NoPid,        \* pid 0
  UserOf,       \* the uid of the user that logs in with the process
  Home,         \* StringHash(userid) % USHM_SIZE of each uid
  MAX_USERS,    \* uids are 1 .. MAX_USERS; 0 is no user
  USHM_SIZE,    \* include/config.h
  APPLY_MAX,    \* the bound of utmp_apply_user's loop (32 in the code)
  MayCrash      \* the processes that may die without logging out

Uids  == 1 .. MAX_USERS
Slots == 0 .. USHM_SIZE - 1

ASSUME SizeAssumption == USHM_SIZE \in Nat \ {0} /\ MAX_USERS \in Nat \ {0}
ASSUME UtmpAssumption ==
  /\ NoPid \notin Procs /\ MayCrash \subseteq Procs /\ APPLY_MAX \in Nat
  /\ UserOf \in [Procs -> Uids] /\ Home \in [Uids -> Slots]

(***************************************************************************)
(* A word of next_session: 0 is the end of the list, slot + 1 a link, and  *)
(* DELETED stands for the top bit of the word, which marks its own slot.   *)
(***************************************************************************)
DELETED == USHM_SIZE + 1
Words   == 0 .. 2 * USHM_SIZE + 1

EncodeNext(s)  == s + 1
IsDeleted(w)   == w >= DELETED
MarkDeleted(w) == IF IsDeleted(w) THEN w ELSE w + DELETED
DecodeSlot(w)  == (IF IsDeleted(w) THEN w - DELETED ELSE w) - 1
Valid(s)       == s \in Slots

Heads  == -1 .. USHM_SIZE - 1    \* -1 is the empty list
Loops  == 0 .. USHM_SIZE
Owners == 0 .. MAX_USERS         \* 0 is nobody

VARIABLES
  upid, uuid,      \* SHM->uinfo[].pid and .uid
  user_head,       \* SHM->utmp_user.user_head[]
  next_session,    \* SHM->utmp_user.next_session[]
  session_user,    \* SHM->utmp_user.session_user[]
  needupdate,      \* SHM->UTMPneedupdate
  pc,              \* each process: where it is
  slot,            \* each process: the slot it probes or has (currutmp)
  probes,          \* each process: slots probed so far (i of getnewutmpent)
  job,             \* each process: what its call of clean_marked_nodes is for
  unum,            \* each process: the user whose list it works on
  node, curr, val, \* each process: head or prev, curr, the word last loaded
  attempts, count  \* each process: the loop counters of clean_marked_nodes

ents   == <<upid, uuid, needupdate>>
shm    == <<ents, user_head, next_session, session_user>>
lists  == <<user_head, next_session, session_user>>
walk   == <<node, curr, val, attempts, count>>
own    == <<slot, probes, job, unum>>
uvars  == <<shm, pc, own, walk>>

ListEmpty == /\ user_head = [u \in Uids |-> -1]
             /\ next_session = [s \in Slots |-> 0]
             /\ session_user = [s \in Slots |-> 0]

Init ==
  /\ upid = [s \in Slots |-> NoPid] /\ uuid = [s \in Slots |-> 0]
  /\ ListEmpty /\ needupdate = 0
  /\ pc = [p \in Procs |-> "out"]
  /\ slot = [p \in Procs |-> Home[UserOf[p]]] /\ probes = [p \in Procs |-> 0]
  /\ job = [p \in Procs |-> "none"] /\ unum = [p \in Procs |-> 0]
  /\ node = [p \in Procs |-> 0] /\ curr = [p \in Procs |-> 0]
  /\ val = [p \in Procs |-> 0]
  /\ attempts = [p \in Procs |-> 0] /\ count = [p \in Procs |-> 0]

Zero(f, p) == [f EXCEPT ![p] = 0]

At(p, l)   == pc[p] = l
Goto(p, l) == pc' = [pc EXCEPT ![p] = l]

(***************************************************************************)
(* getnewutmpent: probe the slots from the user's hash on, taking the      *)
(* first whose pid is 0.                                                   *)
(***************************************************************************)
Claim(p) ==
  /\ At(p, "out") /\ upid[slot[p]] = NoPid
  /\ upid' = [upid EXCEPT ![slot[p]] = p]
  /\ Goto(p, "memcpy")
  /\ UNCHANGED <<uuid, needupdate, lists, own, walk>>

\* The slot is taken; after USHM_SIZE of them the process exits.
ProbeNext(p) ==
  /\ At(p, "out") /\ upid[slot[p]] # NoPid
  /\ probes' = [probes EXCEPT ![p] = @ + 1]
  /\ slot' = [slot EXCEPT ![p] = (@ + 1) % USHM_SIZE]
  /\ Goto(p, IF probes[p] + 1 < USHM_SIZE THEN "out" ELSE "gone")
  /\ UNCHANGED <<shm, job, unum, walk>>

\* memcpy of the whole entry: uid and once more the pid
CopyEntry(p) ==
  /\ At(p, "memcpy")
  /\ uuid' = [uuid EXCEPT ![slot[p]] = UserOf[p]]
  /\ upid' = [upid EXCEPT ![slot[p]] = p]
  /\ Goto(p, "add")
  /\ UNCHANGED <<needupdate, lists, own, walk>>

(***************************************************************************)
(* add_to_utmp_user.  A slot that still says it is in a list is taken out  *)
(* of that list first.                                                     *)
(***************************************************************************)
AddBegin(p) ==
  /\ At(p, "add")
  /\ IF session_user[slot[p]] \in Uids
       THEN /\ job' = [job EXCEPT ![p] = "evict"]
            /\ unum' = [unum EXCEPT ![p] = session_user[slot[p]]]
            /\ Goto(p, "remove")
       ELSE /\ Goto(p, "setuser")
            /\ UNCHANGED <<job, unum>>
  /\ UNCHANGED <<shm, slot, probes, walk>>

SetUser(p) ==
  /\ At(p, "setuser")
  /\ session_user' = [session_user EXCEPT ![slot[p]] = UserOf[p]]
  /\ job' = [job EXCEPT ![p] = "add"]
  /\ unum' = [unum EXCEPT ![p] = UserOf[p]]
  /\ attempts' = [attempts EXCEPT ![p] = 0]
  /\ Goto(p, "clean")
  /\ UNCHANGED <<ents, user_head, next_session, slot, probes,
                 node, curr, val, count>>

LoadHead(p) ==
  /\ At(p, "loadhead")
  /\ node' = [node EXCEPT ![p] = user_head[UserOf[p]]]
  /\ Goto(p, IF user_head[UserOf[p]] = slot[p] THEN "started" ELSE "link")
  /\ curr' = Zero(curr, p) /\ val' = Zero(val, p)
  /\ attempts' = Zero(attempts, p) /\ count' = Zero(count, p)
  /\ UNCHANGED <<shm, own>>

Link(p) ==
  /\ At(p, "link")
  /\ next_session' = [next_session EXCEPT ![slot[p]] = EncodeNext(node[p])]
  /\ Goto(p, "push")
  /\ UNCHANGED <<ents, user_head, session_user, own, walk>>

\* Mutant: the head is stored, not compared and swapped.
PushBlindly(p) ==
  /\ At(p, "push")
  /\ user_head' = [user_head EXCEPT ![UserOf[p]] = slot[p]]
  /\ node' = Zero(node, p)
  /\ Goto(p, "started")
  /\ UNCHANGED <<ents, next_session, session_user, own,
                 curr, val, attempts, count>>

\* Mutant: a failed compare-and-swap is retried with the old head.
PushNoReload(p) ==
  /\ At(p, "push")
  /\ user_head[UserOf[p]] = node[p]
  /\ user_head' = [user_head EXCEPT ![UserOf[p]] = slot[p]]
  /\ node' = Zero(node, p)
  /\ Goto(p, "started")
  /\ UNCHANGED <<ents, next_session, session_user, own,
                 curr, val, attempts, count>>

Push(p) ==
  /\ At(p, "push")
  /\ IF user_head[UserOf[p]] = node[p]
       THEN /\ user_head' = [user_head EXCEPT ![UserOf[p]] = slot[p]]
            /\ node' = Zero(node, p)
            /\ Goto(p, "started")
       ELSE /\ Goto(p, "loadhead")
            /\ UNCHANGED <<user_head, node>>
  /\ UNCHANGED <<ents, next_session, session_user, own,
                 curr, val, attempts, count>>

\* setup_utmp, after getnewutmpent
Started(p) ==
  /\ At(p, "started")
  /\ needupdate' = 1
  /\ Goto(p, "online")
  /\ UNCHANGED <<upid, uuid, lists, own, walk>>

(***************************************************************************)
(* u_exit: the process looks whether the entry is still its user's, and if *)
(* so calls purge_utmp, which removes the slot and clears the entry.       *)
(***************************************************************************)
\* Mutant: the process ends without purge_utmp.
LogoutNoPurge(p) ==
  /\ At(p, "online")
  /\ Goto(p, "gone")
  /\ UNCHANGED <<shm, own, walk>>

Logout(p) ==
  /\ At(p, "online")
  /\ IF uuid[slot[p]] = UserOf[p]
       THEN /\ job' = [job EXCEPT ![p] = "purge"]
            /\ unum' = [unum EXCEPT ![p] = uuid[slot[p]]]
            /\ Goto(p, "remove")
       ELSE /\ Goto(p, "gone")
            /\ UNCHANGED <<job, unum>>
  /\ UNCHANGED <<shm, slot, probes, walk>>

ClearEntry(p) ==
  /\ At(p, "memset")
  /\ upid' = [upid EXCEPT ![slot[p]] = NoPid]
  /\ uuid' = [uuid EXCEPT ![slot[p]] = 0]
  /\ node' = Zero(node, p) /\ curr' = Zero(curr, p) /\ val' = Zero(val, p)
  /\ attempts' = Zero(attempts, p) /\ count' = Zero(count, p)
  /\ Goto(p, "flag")
  /\ UNCHANGED <<needupdate, lists, own>>

NeedUpdate(p) ==
  /\ At(p, "flag")
  /\ needupdate' = 1
  /\ Goto(p, "gone")
  /\ UNCHANGED <<upid, uuid, lists, own, walk>>

(***************************************************************************)
(* remove_from_utmp_user                                                   *)
(***************************************************************************)
Remove(p) ==
  /\ At(p, "remove")
  /\ session_user' = [session_user EXCEPT ![slot[p]] = 0]
  /\ Goto(p, "mark")
  /\ UNCHANGED <<ents, user_head, next_session, own, walk>>

Mark(p) ==
  /\ At(p, "mark")
  /\ next_session' = [next_session EXCEPT ![slot[p]] = MarkDeleted(@)]
  /\ attempts' = [attempts EXCEPT ![p] = 0]
  /\ Goto(p, "clean")
  /\ UNCHANGED <<ents, user_head, session_user, own, node, curr, val, count>>

(***************************************************************************)
(* clean_marked_nodes(unum).  Return is where the caller goes on; a failed *)
(* compare-and-swap or a marked prev starts the next attempt.              *)
(***************************************************************************)
Return(p) == CASE job[p] = "evict" -> "setuser"
               [] job[p] = "add"   -> "loadhead"
               [] job[p] = "purge" -> "memset"

Restart(p) ==
  /\ attempts' = [attempts EXCEPT ![p] = @ + 1]
  /\ Goto(p, IF attempts[p] + 1 < USHM_SIZE THEN "clean" ELSE Return(p))

CleanLoadHead(p) ==
  /\ At(p, "clean")
  /\ node' = [node EXCEPT ![p] = user_head[unum[p]]]
  /\ Goto(p, IF Valid(user_head[unum[p]]) THEN "headnext" ELSE Return(p))
  /\ UNCHANGED <<shm, own, curr, val, attempts, count>>

CleanLoadHeadNext(p) ==
  /\ At(p, "headnext")
  /\ val' = [val EXCEPT ![p] = next_session[node[p]]]
  /\ count' = [count EXCEPT ![p] = 0]
  /\ Goto(p, IF IsDeleted(next_session[node[p]]) THEN "cuthead" ELSE "prev")
  /\ UNCHANGED <<shm, own, node, curr, attempts>>

\* The head is marked: swing user_head to its successor, if it still is head.
CutHead(p) ==
  LET next == DecodeSlot(val[p])
      last == next = node[p] \/ ~Valid(next)
  IN /\ At(p, "cuthead")
     /\ user_head' = IF user_head[unum[p]] = node[p]
                       THEN [user_head EXCEPT ![unum[p]] = IF last THEN -1 ELSE next]
                       ELSE user_head
     /\ IF last THEN Goto(p, Return(p)) /\ UNCHANGED attempts
                ELSE Restart(p)
     /\ UNCHANGED <<ents, next_session, session_user, own,
                    node, curr, val, count>>

\* Mutant: the end of the list is not recognised.
CleanLoadPrevPastEnd(p) ==
  LET w == next_session[node[p]]
  IN /\ At(p, "prev")
     /\ \/ /\ IsDeleted(w)
           /\ Restart(p)
           /\ UNCHANGED curr
        \/ /\ ~IsDeleted(w)
           /\ curr' = [curr EXCEPT ![p] = DecodeSlot(w)]
           /\ Goto(p, "curr")
           /\ UNCHANGED attempts
     /\ UNCHANGED <<shm, own, node, val, count>>

CleanLoadPrev(p) ==
  LET w == next_session[node[p]]
      c == DecodeSlot(w)
  IN /\ At(p, "prev")
     /\ \/ /\ IsDeleted(w)
           /\ Restart(p)
           /\ UNCHANGED curr
        \/ /\ ~IsDeleted(w)
           /\ curr' = [curr EXCEPT ![p] = c]
           /\ Goto(p, IF Valid(c) /\ c # node[p] THEN "curr" ELSE Return(p))
           /\ UNCHANGED attempts
     /\ UNCHANGED <<shm, own, node, val, count>>

CountOn(p) ==
  /\ count' = [count EXCEPT ![p] = @ + 1]
  /\ Goto(p, IF count[p] + 1 < USHM_SIZE THEN "prev" ELSE Return(p))

CleanLoadCurr(p) ==
  LET w == next_session[curr[p]]
  IN /\ At(p, "curr")
     /\ val' = [val EXCEPT ![p] = w]
     /\ \/ /\ IsDeleted(w)
           /\ Goto(p, "unlink")
           /\ UNCHANGED <<node, count>>
        \/ /\ ~IsDeleted(w)
           /\ node' = [node EXCEPT ![p] = curr[p]]
           /\ CountOn(p)
     /\ UNCHANGED <<shm, own, curr, attempts>>

\* curr is marked: take it out behind prev, if prev still points to it.
Unlink(p) ==
  LET s    == DecodeSlot(val[p])
      succ == IF s = curr[p] \/ s = node[p] THEN -1 ELSE s
  IN /\ At(p, "unlink")
     /\ \/ /\ next_session[node[p]] = EncodeNext(curr[p])
           /\ next_session' = [next_session EXCEPT ![node[p]] = EncodeNext(succ)]
           /\ CountOn(p)
           /\ UNCHANGED attempts
        \/ /\ next_session[node[p]] # EncodeNext(curr[p])
           /\ Restart(p)
           /\ UNCHANGED <<next_session, count>>
     /\ UNCHANGED <<ents, user_head, session_user, own, node, curr, val>>

Clean(p) ==
  \/ CleanLoadHead(p) \/ CleanLoadHeadNext(p) \/ CutHead(p)
  \/ CleanLoadPrev(p) \/ CleanLoadCurr(p) \/ Unlink(p)

\* The process dies where it is: SIGKILL, or an error in its own exit path.
\* One whose entry is cleared already leaves nothing in the table.
Crash(p) ==
  /\ p \in MayCrash /\ pc[p] \notin {"out", "gone", "dead"}
  /\ Goto(p, IF At(p, "flag") THEN "gone" ELSE "dead")
  /\ UNCHANGED <<shm, own, walk>>

Login(p) == \/ Claim(p) \/ ProbeNext(p) \/ CopyEntry(p) \/ AddBegin(p)
            \/ SetUser(p) \/ LoadHead(p) \/ Link(p) \/ Push(p)
            \/ Started(p)
Leave(p) == Logout(p) \/ ClearEntry(p) \/ NeedUpdate(p)
Step(p)  == Login(p) \/ Leave(p) \/ Remove(p) \/ Mark(p) \/ Clean(p)

Next == \E p \in Procs : Step(p) \/ Crash(p)

Spec     == Init /\ [][Next]_uvars
\* Every process that has begun to log in or out is scheduled again.
FairSpec == Spec /\ \A p \in Procs : WF_uvars(pc[p] # "online" /\ Step(p))

(***************************************************************************)
(* utmp_apply_user: what a walk of user u's list finds, as the number of   *)
(* times each slot is handed to the callback.  A live node of another user *)
(* ends the walk.                                                          *)
(***************************************************************************)
ApplyUser(u) ==
  LET Live(s) == ~IsDeleted(next_session[s])
      Mine(s) == uuid[s] = u /\ upid[s] # NoPid
      at[n \in 0 .. APPLY_MAX] ==
        IF n = 0 THEN user_head[u]
        ELSE LET s == at[n - 1]
             IN IF ~Valid(s) \/ (Live(s) /\ ~Mine(s))
                     \/ DecodeSlot(next_session[s]) = s
                  THEN -1
                  ELSE DecodeSlot(next_session[s])
      Calls(s) == {n \in 0 .. APPLY_MAX - 1 : at[n] = s /\ Live(s) /\ Mine(s)}
  IN [s \in Slots |-> Cardinality(Calls(s))]

(***************************************************************************)
(* Properties                                                              *)
(***************************************************************************)
Jobs == {"none", "evict", "add", "purge"}
PCs == {"out", "memcpy", "add", "remove", "mark", "setuser", "clean",
        "headnext", "cuthead", "prev", "curr", "unlink", "loadhead", "link",
        "push", "started", "online", "memset", "flag", "gone", "dead"}

TableType ==
  /\ upid \in [Slots -> Procs \cup {NoPid}]
  /\ uuid \in [Slots -> Owners] /\ needupdate \in {0, 1}
  /\ user_head \in [Uids -> Heads]
  /\ next_session \in [Slots -> Words]
  /\ session_user \in [Slots -> Owners]

OwnType ==
  /\ pc \in [Procs -> PCs]
  /\ slot \in [Procs -> Slots] /\ probes \in [Procs -> Loops]
  /\ job \in [Procs -> Jobs] /\ unum \in [Procs -> Owners]

WalkType ==
  /\ node \in [Procs -> Heads]
  /\ curr \in [Procs -> Heads]
  /\ val \in [Procs -> Words]
  /\ attempts \in [Procs -> Loops] /\ count \in [Procs -> Loops]

\* Type invariant: the table and the processes' local variables.
TypeOK == TableType /\ OwnType /\ WalkType

HasEntry == {"add", "remove", "mark", "setuser", "clean", "headnext", "cuthead",
             "prev", "curr", "unlink", "loadhead", "link", "push",
             "started", "online", "memset"}

\* From the claim of its slot until it clears it, the entry of a live process
\* carries that process's pid: no two processes share an entry, and nobody
\* purges it while the process lives (getnewutmpent's compare-and-swap,
\* purge_utmp's memset).
OwnsEntry ==
  \A p \in Procs : pc[p] \in HasEntry \cup {"memcpy"} => upid[slot[p]] = p

\* The list code never indexes user_head[] or next_session[] with the -1 that
\* ends a list or with a slot it has not checked.
InBounds ==
  \A p \in Procs :
    /\ pc[p] \in {"headnext", "cuthead", "prev", "curr", "unlink"} => Valid(node[p])
    /\ pc[p] \in {"curr", "unlink"} => Valid(curr[p])
    /\ pc[p] \in {"clean", "headnext", "cuthead", "prev", "curr", "unlink"}
         => unum[p] \in Uids

AtRest == \A p \in Procs : pc[p] \in {"out", "online", "gone"}

\* When no login or logout is in progress, walking a user's list finds each
\* of the user's sessions, and finds it once (utmp_apply_user).
Listed ==
  AtRest => \A u \in Uids, s \in Slots :
              ApplyUser(u)[s] = IF uuid[s] = u /\ upid[s] # NoPid THEN 1 ELSE 0

\* A login or logout that has begun ends: no list is so broken that a walk
\* of it, or the retries of its compare-and-swaps, go on for ever.
Settles == \A p \in Procs :
  pc[p] \notin {"out", "online"} ~> pc[p] \in {"online", "gone", "dead"}

StatusOf(p) == IF pc[p] \in {"out", "gone", "dead"} THEN pc[p]
               ELSE IF pc[p] = "flag" THEN "gone" ELSE "in"

Table == INSTANCE SessionTable
           WITH entry <- upid, status <- [p \in Procs |-> StatusOf(p)]

\* Probing, copying, linking, marking and cleaning hide a simple table: a
\* login takes a free entry in one step, nobody else touches it, and who logs
\* out has given it back (getnewutmpent, u_exit, purge_utmp).
KeepsTable == Table!TSpec
=============================================================================
