------------------------------ MODULE UtmpSvc -------------------------------
(***************************************************************************)
(* utmp.svc beside the sessions of UtmpUser: RunFix, which clears the      *)
(* entries of processes that died, the operator's kick and rebuild, and    *)
(* the reaping of dead entries that the other services do through          *)
(* get_online_session.  utmp.svc handles one request at a time (s.mu), but *)
(* nothing keeps it and the mbbsd processes apart.                         *)
(***************************************************************************)
EXTENDS UtmpUser

CONSTANTS
  Requests,    \* which of "fix", "kick", "rebuild", "update" are made
  MaxRequests, \* bound: requests served
  MayReap,     \* whether some service calls get_online_session
  Apart        \* requests are made and served only while no session moves

ASSUME SvcAssumption ==
  /\ Requests \subseteq {"fix", "kick", "rebuild", "update"} /\ MaxRequests \in Nat
  /\ MayReap \in BOOLEAN /\ Apart \in BOOLEAN

VARIABLES
  spc,       \* utmp.svc: where it is
  sjob,      \* the request it serves
  starget,   \* the uid or the pid a kick is for
  cands,     \* GetUtmpCandidates: the pid read from each slot
  si,        \* the slot or uid its current loop is at
  shead,     \* the next slot or the head it has loaded
  suid,      \* the uid purge_utmp_slot has read
  changed,   \* 1 if the table was fixed or an entry was purged
  served,    \* requests begun so far
  number     \* SHM->UTMPnumber

svars == <<spc, sjob, starget, cands, si, shead, suid, changed, served, number>>
vars  == <<uvars, svars>>

NoCands == [s \in Slots |-> NoPid]

SvcInit ==
  /\ Init
  /\ spc = "idle" /\ sjob = "none" /\ starget = 0 /\ cands = NoCands
  /\ si = 0 /\ shead = 0 /\ suid = 0 /\ changed = 0
  /\ served = 0 /\ number = 0

\* kill(pid, 0) == -1 && errno == ESRCH
NoProcess(p) == pc[p] \in {"gone", "dead"}

Resting == \A p \in Procs : pc[p] \in {"out", "online", "gone", "dead"}

\* The request is answered; its local variables are gone.
Done ==
  /\ spc' = "idle" /\ sjob' = "none" /\ starget' = 0 /\ cands' = NoCands
  /\ si' = 0 /\ shead' = 0 /\ suid' = 0 /\ changed' = 0

SvcAt(l)   == spc = l
SvcGoto(l) == spc' = l
procs      == <<pc, own, walk>>

(***************************************************************************)
(* A request arrives.                                                      *)
(***************************************************************************)
Accept(r) ==
  /\ SvcAt("idle") /\ r \in Requests /\ served < MaxRequests
  /\ Apart => Resting
  /\ sjob' = r /\ served' = served + 1
  /\ starget' \in (IF r = "kick" THEN Uids \cup Procs ELSE {0})
  /\ SvcGoto(CASE r = "fix" -> "fixslots" [] r = "kick" -> "scan"
               [] r = "rebuild" -> "heads" [] r = "update" -> "update")
  /\ si' = 0 /\ changed' = 0
  /\ UNCHANGED <<uvars, cands, shead, suid, number>>

(***************************************************************************)
(* fix_utmp_user_table: a slot that links to itself, and a head whose slot *)
(* is not a session of the user.                                           *)
(***************************************************************************)
FixSlot ==
  /\ SvcAt("fixslots")
  /\ LET loop == DecodeSlot(next_session[si]) = si
     IN /\ next_session' = IF loop THEN [next_session EXCEPT ![si] = 0]
                                   ELSE next_session
        /\ changed' = IF loop THEN 1 ELSE changed
  /\ IF si + 1 \in Slots THEN si' = si + 1 /\ UNCHANGED spc
                         ELSE si' = 1 /\ SvcGoto("fixheads")
  /\ UNCHANGED <<ents, user_head, session_user, procs,
                 sjob, starget, cands, shead, suid, served, number>>

NextUid == IF si + 1 \in Uids THEN si' = si + 1 /\ SvcGoto("fixheads")
                              ELSE si' = 0 /\ SvcGoto("scan")

FixHeadLoad ==
  /\ SvcAt("fixheads")
  /\ LET h   == user_head[si]
         bad == Valid(h) /\ (session_user[h] # si \/ uuid[h] # si \/ upid[h] = NoPid)
     IN \/ bad /\ SvcGoto("fixhead") /\ UNCHANGED si
        \/ ~bad /\ NextUid
  /\ UNCHANGED <<uvars, sjob, starget, cands, shead, suid, changed, served, number>>

FixHeadClear ==
  /\ SvcAt("fixhead")
  /\ user_head' = [user_head EXCEPT ![si] = -1]
  /\ changed' = 1
  /\ NextUid
  /\ UNCHANGED <<ents, next_session, session_user, procs,
                 sjob, starget, cands, shead, suid, served, number>>

(***************************************************************************)
(* GetUtmpCandidates, and the loop over what it returned.  A fix purges    *)
(* the entries whose process is gone, a kick those of the target.          *)
(***************************************************************************)
Scan ==
  /\ SvcAt("scan")
  /\ cands' = [s \in Slots |->
                 IF sjob = "kick" /\ starget \notin {uuid[s], upid[s]}
                   THEN NoPid ELSE upid[s]]
  /\ si' = 0
  /\ SvcGoto("cand")
  /\ UNCHANGED <<uvars, sjob, starget, shead, suid, changed, served, number>>

ToPurge == /\ cands[si] # NoPid
           /\ sjob = "fix" => NoProcess(cands[si])

AfterCand == IF si + 1 \in Slots
               THEN si' = si + 1 /\ SvcGoto("cand")
               ELSE si' = 0 /\ SvcGoto("tally")

Candidate ==
  /\ SvcAt("cand")
  /\ IF ToPurge
       THEN SvcGoto("purge") /\ suid' = uuid[si] /\ UNCHANGED si
       ELSE AfterCand /\ UNCHANGED suid
  /\ UNCHANGED <<uvars, sjob, starget, cands, shead, changed, served, number>>

\* purge_utmp_slot
PurgeUser ==
  /\ SvcAt("purge")
  /\ session_user' = [session_user EXCEPT ![si] = 0]
  /\ SvcGoto("purgemark")
  /\ UNCHANGED <<ents, user_head, next_session, procs,
                 sjob, starget, cands, si, shead, suid, changed, served, number>>

PurgeMark ==
  /\ SvcAt("purgemark")
  /\ next_session' = [next_session EXCEPT ![si] = MarkDeleted(@)]
  /\ shead' = LET n == DecodeSlot(next_session[si])
              IN IF n = si \/ ~Valid(n) THEN -1 ELSE n
  /\ SvcGoto("purgehead")
  /\ UNCHANGED <<ents, user_head, session_user, procs,
                 sjob, starget, cands, si, suid, changed, served, number>>

PurgeHead ==
  /\ SvcAt("purgehead")
  /\ user_head' = IF suid \in Uids /\ user_head[suid] = si
                    THEN [user_head EXCEPT ![suid] = shead] ELSE user_head
  /\ SvcGoto("purgeclear")
  /\ UNCHANGED <<ents, next_session, session_user, procs,
                 sjob, starget, cands, si, shead, suid, changed, served, number>>

PurgeClear ==
  /\ SvcAt("purgeclear") /\ SvcGoto("purgeflag")
  /\ upid' = [upid EXCEPT ![si] = NoPid] /\ uuid' = [uuid EXCEPT ![si] = 0]
  /\ UNCHANGED <<needupdate, lists, procs, sjob, starget, cands, si, shead, suid,
                 changed, served, number>>

\* UTMPneedupdate.  The SIGHUP that a kick sends makes the process log out,
\* which it may do at any time.
PurgeFlag ==
  /\ SvcAt("purgeflag")
  /\ changed' = 1 /\ needupdate' = 1
  /\ AfterCand
  /\ UNCHANGED <<upid, uuid, lists, procs, sjob, starget, cands, shead, suid,
                 served, number>>

\* The rebuild follows only if something was purged or fixed.
Tally ==
  /\ SvcAt("tally")
  /\ IF changed = 1
       THEN SvcGoto("heads") /\ UNCHANGED <<sjob, starget, cands, si, shead, suid, changed>>
       ELSE Done
  /\ UNCHANGED <<uvars, served, number>>

(***************************************************************************)
(* rebuild_utmp_user = init_utmp_user: clear the three arrays, then push   *)
(* every entry in use, with plain loads and stores.                        *)
(***************************************************************************)
ClearHeads ==
  /\ SvcAt("heads") /\ SvcGoto("nexts")
  /\ user_head' = [u \in Uids |-> -1]
  /\ UNCHANGED <<ents, next_session, session_user, procs,
                 sjob, starget, cands, si, shead, suid, changed, served, number>>

ClearNexts ==
  /\ SvcAt("nexts") /\ SvcGoto("users")
  /\ next_session' = [s \in Slots |-> 0]
  /\ UNCHANGED <<ents, user_head, session_user, procs,
                 sjob, starget, cands, si, shead, suid, changed, served, number>>

ClearUsers ==
  /\ SvcAt("users") /\ SvcGoto("entry")
  /\ session_user' = [s \in Slots |-> 0]
  /\ si' = 0
  /\ UNCHANGED <<ents, user_head, next_session, procs,
                 sjob, starget, cands, shead, suid, changed, served, number>>

AfterEntry ==
  IF si + 1 \in Slots
    THEN /\ si' = si + 1 /\ SvcGoto("entry")
         /\ UNCHANGED <<sjob, starget, cands, shead, suid, changed>>
    ELSE IF sjob = "rebuild" THEN Done
    ELSE /\ si' = 0 /\ SvcGoto("update")
         /\ UNCHANGED <<sjob, starget, cands, shead, suid, changed>>

RebuildLoad ==
  /\ SvcAt("entry")
  /\ IF upid[si] # NoPid /\ uuid[si] \in Uids
       THEN /\ suid' = uuid[si] /\ shead' = user_head[uuid[si]]
            /\ SvcGoto("relink")
            /\ UNCHANGED <<si, sjob, starget, cands, changed>>
       ELSE AfterEntry
  /\ UNCHANGED <<uvars, served, number>>

\* Mutant: the entry becomes the whole list.
RebuildNextAlone ==
  /\ SvcAt("relink") /\ SvcGoto("rehead")
  /\ next_session' = [next_session EXCEPT ![si] = 0]
  /\ UNCHANGED <<ents, user_head, session_user, procs,
                 sjob, starget, cands, si, shead, suid, changed, served, number>>

RebuildNext ==
  /\ SvcAt("relink") /\ SvcGoto("rehead")
  /\ next_session' = [next_session EXCEPT ![si] = EncodeNext(shead)]
  /\ UNCHANGED <<ents, user_head, session_user, procs,
                 sjob, starget, cands, si, shead, suid, changed, served, number>>

RebuildHead ==
  /\ SvcAt("rehead") /\ SvcGoto("reuser")
  /\ user_head' = [user_head EXCEPT ![suid] = si]
  /\ UNCHANGED <<ents, next_session, session_user, procs,
                 sjob, starget, cands, si, shead, suid, changed, served, number>>

RebuildUser ==
  /\ SvcAt("reuser")
  /\ session_user' = [session_user EXCEPT ![si] = suid]
  /\ AfterEntry
  /\ UNCHANGED <<ents, user_head, next_session, procs, served, number>>

(***************************************************************************)
(* utmp_update counts the entries in use; SetUtmpNeedUpdate(0) follows it. *)
(* The ticker does the same whenever UTMPneedupdate is set.                *)
(***************************************************************************)
Update ==
  /\ SvcAt("update") /\ SvcGoto("updated")
  /\ number' = Cardinality({s \in Slots : upid[s] # NoPid})
  /\ UNCHANGED <<uvars, sjob, starget, cands, si, shead, suid, changed, served>>

Updated ==
  /\ SvcAt("updated")
  /\ needupdate' = 0
  /\ Done
  /\ UNCHANGED <<upid, uuid, lists, procs, served, number>>

Tick ==
  /\ "update" \in Requests /\ SvcAt("idle") /\ needupdate = 1
  /\ Apart => Resting
  /\ sjob' = "update" /\ SvcGoto("update")
  /\ UNCHANGED <<uvars, starget, cands, si, shead, suid, changed, served, number>>

RunFix  == FixSlot \/ FixHeadLoad \/ FixHeadClear \/ Scan \/ Candidate
             \/ PurgeUser \/ PurgeMark \/ PurgeHead \/ PurgeClear
             \/ PurgeFlag \/ Tally
Rebuild == ClearHeads \/ ClearNexts \/ ClearUsers
             \/ RebuildLoad \/ RebuildNext \/ RebuildHead \/ RebuildUser
Serve   == RunFix \/ Rebuild \/ Update \/ Updated \/ Tick

(***************************************************************************)
(* get_online_session, in whichever service looks at the slot: the entry   *)
(* of a dead process is cleared, the lists are left alone.                 *)
(***************************************************************************)
Reap(s) ==
  /\ MayReap
  /\ Apart => SvcAt("idle") /\ Resting
  /\ upid[s] # NoPid /\ uuid[s] # 0 /\ NoProcess(upid[s])
  /\ upid' = [upid EXCEPT ![s] = NoPid] /\ uuid' = [uuid EXCEPT ![s] = 0]
  /\ needupdate' = 1
  /\ UNCHANGED <<lists, procs, svars>>

Session == /\ Apart => SvcAt("idle")
           /\ \E p \in Procs : Step(p) \/ Crash(p)
           /\ UNCHANGED svars

SvcNext == \/ Session
           \/ \E r \in Requests : Accept(r)
           \/ Serve
           \/ \E s \in Slots : Reap(s)

SvcSpec == SvcInit /\ [][SvcNext]_vars

(***************************************************************************)
(* Properties                                                              *)
(***************************************************************************)
SvcPCs == {"idle", "fixslots", "fixheads", "fixhead", "scan", "cand", "purge",
           "purgemark", "purgehead", "purgeclear", "purgeflag", "tally", "heads",
           "nexts", "users", "entry", "relink", "rehead", "reuser", "update", "updated"}

\* Type invariant of the sessions and the service together.
SvcTypeOK ==
  /\ TypeOK
  /\ spc \in SvcPCs /\ sjob \in {"none", "fix", "kick", "rebuild", "update"}
  /\ starget \in 0 .. MAX_USERS \cup Procs /\ suid \in 0 .. MAX_USERS
  /\ cands \in [Slots -> Procs \cup {NoPid}]
  /\ si \in 0 .. USHM_SIZE + MAX_USERS /\ shead \in -1 .. USHM_SIZE - 1
  /\ changed \in {0, 1} /\ served \in 0 .. MaxRequests
  /\ number \in 0 .. USHM_SIZE

EntriesAlive == \A s \in Slots : upid[s] # NoPid => pc[upid[s]] = "online"

Sessions(u) == {s \in Slots : uuid[s] = u /\ upid[s] # NoPid}

\* The lists say exactly what the entries say, of every user who has no more
\* sessions than a walk looks at.
ListsExact ==
  \A u \in Uids : Cardinality(Sessions(u)) <= APPLY_MAX =>
    \A s \in Slots : ApplyUser(u)[s] = IF s \in Sessions(u) THEN 1 ELSE 0

\* Whatever state the lists are in, also when sessions were lost from them or
\* processes died while they were changing them: a rebuild that no login or
\* logout ran into makes them exact, be it an operator's or that of a fix or a
\* kick that has purged or fixed anything; and a fix leaves no entry of a dead
\* process, whether or not it came to a rebuild (RunFix, init_utmp_user).
ServiceRepairs ==
  [][Apart /\ spc # "idle" /\ spc' = "idle"
       => /\ sjob = "fix" => EntriesAlive'
          /\ (spc = "tally" => changed = 1) /\ sjob # "update" => ListsExact']_vars

\* Whatever utmp.svc stores into the table while logins and logouts walk it,
\* everything keeps its type and the list code indexes no array with -1 or an
\* unchecked slot (purge_utmp_slot and init_utmp_user beside
\* clean_marked_nodes).
SafeBeside == SvcTypeOK /\ InBounds
=============================================================================
