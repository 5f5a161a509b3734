----------------------------- MODULE BoardCache -----------------------------
(***************************************************************************)
(* The board cache in shared memory (common/bbs/cache.c): the file of      *)
(* board headers FN_BOARD, its copy bcache, the number of boards and the   *)
(* index bsorted by name, kept by every mbbsd process that adds, changes   *)
(* or deletes a board (mbbsd/admin.c) and by shmctl (util/shmctl.c).       *)
(* Bbusystate guards the whole, busystate_b one header.  A process that    *)
(* finds them taken mostly gives up, and may be killed while it has them.  *)
(*                                                                         *)
(* An operation is the list of the accesses it still makes.  A header is   *)
(* its name, a number in place of a string; 0 is the name of an empty      *)
(* slot.  All boards are in the root class and none is a link.             *)
(***************************************************************************)
EXTENDS Integers, Sequences, FiniteSets, SequencesExt, TLC

CONSTANTS
  Procs,
  NumNames,   \* bound: names of boards
  MaxBoard,   \* MAX_BOARD
  Tries,      \* seconds to wait for Bbusystate, 10
  MaxOps,     \* bound: operations
  MaxTime,    \* bound: the clock; one tick is the 10 seconds after which a lock is old
  MaxDeaths   \* bound: processes killed

ASSUME BoardCacheAssumption ==
  /\ IsFiniteSet(Procs) /\ NumNames \in Nat \ 0 .. 1 /\ MaxBoard \in Nat \ 0 .. 1
  /\ Tries \in Nat \ {0}
  /\ MaxOps \in Nat /\ MaxTime \in Nat \ {0} /\ MaxDeaths \in Nat

VARIABLES
  file,         \* FN_BOARD
  bcache, Bnumber, bsorted,
  Bbusystate,
  busystate_b,  \* 0 or the time of the lock
  proc,         \* what each process does
  now, ops, deaths,
  blame,        \* ghost: why the cache may differ from the file
  stolen,       \* ghost: Bbusystate was taken from a living process
  leaked        \* ghost: the locks whose owner was killed: of a header, or -1 for Bbusystate

vars == <<file, bcache, Bnumber, bsorted, Bbusystate, busystate_b, proc, now, ops, deaths,
          blame, stolen, leaked>>
cache == <<bcache, Bnumber, bsorted>>
locks == <<Bbusystate, busystate_b>>
env == <<now, ops, deaths>>
ghosts == <<blame, stolen, leaked>>

Names == 1 .. NumNames
Headers == {0} \cup Names
(* the arrays, and what is behind them when processes add the last board at once *)
Slots == 0 .. MaxBoard + MaxOps - 1

Idle == [op |-> "idle", todo |-> <<>>, name |-> 0, old |-> 0, b |-> 0, t |-> 0, n |-> 0,
         tries |-> 0, alone |-> FALSE]

Header(b) == IF b < Len(file) THEN file[b + 1] ELSE 0

(* cmpboardname; boards of the same name stay in their order *)
Before(c, b) == bcache[c] < bcache[b] \/ (bcache[c] = bcache[b] /\ c < b)
(* qsort of the first n boards: at i is the one that has i others before it *)
Rank(b, n) == Cardinality({c \in 0 .. n - 1 : Before(c, b)})
ByName(n, i) == CHOOSE b \in 0 .. n - 1 : Rank(b, n) = i
Sorted == [i \in Slots |-> IF i < Bnumber THEN ByName(Bnumber, i) ELSE bsorted[i]]

(* two boards, or one and the slot of a deleted one, loaded and sorted *)
Init ==
  /\ file \in {<<2, 1>>, <<2, 0>>}
  /\ bcache = [b \in Slots |-> Header(b)] /\ Bnumber = 2
  /\ bsorted = [i \in Slots |-> CASE i = 0 -> 1 [] i = 1 -> 0 [] OTHER -> 0]
  /\ Bbusystate = 0 /\ busystate_b = [b \in Slots |-> 0]
  /\ proc = [p \in Procs |-> Idle]
  /\ now = 1 /\ ops = 0 /\ deaths = 0
  /\ blame = {} /\ stolen = FALSE /\ leaked = {}

-----------------------------------------------------------------------------
(* getbnum: binary search in bsorted, 0 when there is no such board *)

getbnum(n) ==
  LET search[r \in Slots \X Slots] ==  \* start and end
        LET i == (r[1] + r[2]) \div 2
            x == bcache[bsorted[i]]
        IN IF n = x THEN bsorted[i] + 1
           ELSE IF r[1] = r[2] THEN 0
           ELSE IF i = r[1] THEN search[<<r[2], r[2]>>]
           ELSE IF n > x THEN search[<<i, r[2]>>] ELSE search[<<r[1], i>>]
  IN search[<<0, Bnumber - 1>>]

-----------------------------------------------------------------------------
(* operations *)

ResetBoard == <<"busy", "lock_b", "load_b", "free_b">>
SortBcache == <<"lock", "sort", "free">>
ReloadBcache == <<"rlock", "load", "number", "free">> \o SortBcache

Program ==
  [add    |-> <<"lookup", "slot">>,
   rename |-> <<"lookup", "check", "substitute">> \o ResetBoard \o SortBcache,
   delete |-> <<"check", "substitute">> \o ResetBoard \o SortBcache,
   reload |-> ReloadBcache,
   fix    |-> <<"fix">>,
   init   |-> <<"clear">> \o ReloadBcache]

Alone(p) == \A q \in Procs \ {p} : proc[q] = Idle

Start(p, op, r) ==
  /\ proc[p] = Idle /\ ops < MaxOps /\ \A q \in Procs : proc[q].op # "init"
  /\ ops' = ops + 1
  /\ proc' = [q \in Procs |-> IF q = p THEN [r EXCEPT !.op = op, !.todo = Program[op]]
                              ELSE [proc[q] EXCEPT !.alone = FALSE]]
  /\ UNCHANGED <<file, cache, locks, now, deaths, ghosts>>

(* a board to change is one that getbnum finds; init runs while no one else does *)
Operate(p) ==
  \/ \E n \in Names : Start(p, "add", [Idle EXCEPT !.name = n])
  \/ \E o \in Names, n \in Headers :
       /\ n # o /\ getbnum(o) > 0
       /\ Start(p, IF n = 0 THEN "delete" ELSE "rename",
                [Idle EXCEPT !.name = n, !.old = o, !.b = getbnum(o) - 1])
  \/ Start(p, "reload", Idle)
  \/ Start(p, "fix", Idle)
  \/ Alone(p) /\ Start(p, "init", Idle)

At(p, access) == proc[p].todo # <<>> /\ Head(proc[p].todo) = access
Goto(p, r, todo) ==
  proc' = [proc EXCEPT ![p] = IF todo = <<>> THEN Idle ELSE [r EXCEPT !.todo = todo]]
Continue(p, r) == Goto(p, r, Tail(r.todo))
Leave(p) == proc' = [proc EXCEPT ![p] = Idle]
Blame(what, is) == blame' = IF is THEN blame \cup {what} ELSE blame

-----------------------------------------------------------------------------
(* m_newbrd, add_board_record, m_mod_board *)

(* the new name must not be taken *)
lookup(p) ==
  /\ At(p, "lookup")
  /\ IF getbnum(proc[p].name) > 0 THEN Leave(p) ELSE Continue(p, proc[p])
  /\ UNCHANGED <<file, cache, locks, env, ghosts>>

(* mod_board_still_allowed, after the prompts *)
check(p) ==
  /\ At(p, "check")
  /\ IF bcache[proc[p].b] = proc[p].old THEN Continue(p, proc[p])
     ELSE Leave(p)
  /\ UNCHANGED <<file, cache, locks, env, ghosts>>

(* free_board_slot: the first empty slot of the cache, otherwise a new one *)
slot(p) ==
  /\ At(p, "slot")
  /\ LET free == {b \in Slots : b < Bnumber /\ bcache[b] = 0}
         first == CHOOSE b \in free : \A c \in free : b <= c
     IN IF free # {}
        THEN Goto(p, [proc[p] EXCEPT !.b = first], <<"substitute">> \o ResetBoard \o SortBcache)
        ELSE IF Bnumber >= MaxBoard THEN Leave(p)
        ELSE Goto(p, [proc[p] EXCEPT !.n = Bnumber],
                  <<"append", "inc1", "inc2", "num">> \o ResetBoard \o SortBcache)
  /\ UNCHANGED <<file, cache, locks, env, ghosts>>

substitute(p) ==
  /\ At(p, "substitute")
  /\ file' = [i \in 1 .. (IF proc[p].b < Len(file) THEN Len(file) ELSE proc[p].b + 1) |->
                IF i = proc[p].b + 1 THEN proc[p].name ELSE Header(i - 1)]
  /\ Continue(p, proc[p])
  /\ UNCHANGED <<cache, locks, env, ghosts>>

(* an append by another process makes the number of boards that q has wrong *)
Numbering(q) ==
  Contains(proc[q].todo, "num") /\ ~Contains(proc[q].todo, "append")

append_record(p) ==
  /\ At(p, "append")
  /\ file' = Append(file, proc[p].name)
  /\ Blame("counted", \/ Bnumber # proc[p].n
                      \/ \E q \in Procs \ {p} : Numbering(q) \/ At(q, "number"))
  /\ Continue(p, proc[p])
  /\ UNCHANGED <<cache, locks, env, stolen, leaked>>

(* Bnumber++ *)
inc1(p) ==
  /\ At(p, "inc1") /\ Continue(p, [proc[p] EXCEPT !.n = Bnumber])
  /\ UNCHANGED <<file, cache, locks, env, ghosts>>
inc2(p) ==
  /\ At(p, "inc2") /\ Continue(p, proc[p])
  /\ Bnumber' = proc[p].n + 1
  /\ UNCHANGED <<file, bcache, bsorted, locks, env, ghosts>>

(* reset_board(num_boards()) *)
num(p) ==
  /\ At(p, "num") /\ Continue(p, [proc[p] EXCEPT !.b = Bnumber - 1])
  /\ UNCHANGED <<file, cache, locks, env, ghosts>>

-----------------------------------------------------------------------------
(* reset_board: one header is read again *)

Refused(p) == Goto(p, proc[p], SortBcache) /\ Blame("refused", TRUE)

busy(p) ==
  /\ At(p, "busy")
  /\ IF proc[p].b >= MaxBoard \/ Bbusystate # 0 THEN Refused(p)
     ELSE Continue(p, [proc[p] EXCEPT !.t = now]) /\ UNCHANGED blame
  /\ UNCHANGED <<file, cache, locks, env, stolen, leaked>>

(* an old lock is taken over, if it is still the one that was seen *)
lock_b(p) ==
  LET r == proc[p] IN
  /\ At(p, "lock_b")
  /\ \/ /\ busystate_b[r.b] = 0
        /\ busystate_b' = [busystate_b EXCEPT ![r.b] = r.t]
        /\ Continue(p, r) /\ UNCHANGED blame
     \/ /\ busystate_b[r.b] # 0
        /\ IF r.t > busystate_b[r.b]
           THEN Goto(p, [r EXCEPT !.n = busystate_b[r.b]], <<"steal_b">> \o Tail(r.todo))
                /\ UNCHANGED blame
           ELSE Refused(p)
        /\ UNCHANGED busystate_b
  /\ UNCHANGED <<file, cache, Bbusystate, env, stolen, leaked>>

steal_b(p) ==
  LET r == proc[p] IN
  /\ At(p, "steal_b")
  /\ IF busystate_b[r.b] = r.n
     THEN busystate_b' = [busystate_b EXCEPT ![r.b] = r.t] /\ Continue(p, r) /\ UNCHANGED blame
     ELSE Refused(p) /\ UNCHANGED busystate_b
  /\ UNCHANGED <<file, cache, Bbusystate, env, stolen, leaked>>

(* nothing is read behind the end of the file *)
load_b(p) ==
  /\ At(p, "load_b") /\ Continue(p, proc[p])
  /\ bcache' = IF proc[p].b < Len(file) THEN [bcache EXCEPT ![proc[p].b] = Header(proc[p].b)]
               ELSE bcache
  /\ UNCHANGED <<file, Bnumber, bsorted, locks, env, ghosts>>

(* .BRD cannot be opened: the header stays as it is *)
load_b_fails(p) ==
  /\ At(p, "load_b") /\ Continue(p, proc[p]) /\ Blame("unread", TRUE)
  /\ UNCHANGED <<file, cache, locks, env, stolen, leaked>>

(* mutant: the lock is left when there is nothing to read *)
free_b_early(p) ==
  /\ At(p, "free_b") /\ Continue(p, proc[p])
  /\ busystate_b' = IF Header(proc[p].b) = 0 THEN busystate_b
                    ELSE [busystate_b EXCEPT ![proc[p].b] = 0]
  /\ UNCHANGED <<file, cache, Bbusystate, env, ghosts>>

free_b(p) ==
  /\ At(p, "free_b") /\ Continue(p, proc[p])
  /\ busystate_b' = [busystate_b EXCEPT ![proc[p].b] = 0]
  /\ UNCHANGED <<file, cache, Bbusystate, env, ghosts>>

-----------------------------------------------------------------------------
(* sort_bcache and reload_bcache *)

lock(p) ==
  /\ At(p, "lock")
  /\ IF Bbusystate = 0 THEN Bbusystate' = 1 /\ Continue(p, proc[p]) /\ UNCHANGED blame
     ELSE Leave(p) /\ Blame("refused", TRUE) /\ UNCHANGED Bbusystate
  /\ UNCHANGED <<file, cache, busystate_b, env, stolen, leaked>>

(* mutant: the number of boards is taken for the last index *)
sort_short(p) ==
  /\ At(p, "sort") /\ Continue(p, proc[p])
  /\ bsorted' = [i \in Slots |-> IF i < Bnumber - 1 THEN ByName(Bnumber - 1, i) ELSE bsorted[i]]
  /\ UNCHANGED <<file, bcache, Bnumber, locks, env, ghosts>>

sort(p) ==
  /\ At(p, "sort") /\ Continue(p, proc[p])
  /\ bsorted' = Sorted
  /\ UNCHANGED <<file, bcache, Bnumber, locks, env, ghosts>>

(* a reload that no one else ran into has repaired the cache *)
free(p) ==
  /\ At(p, "free") /\ Continue(p, proc[p])
  /\ Bbusystate' = 0
  /\ blame' = IF proc[p].op \in {"reload", "init"} /\ proc[p].alone /\ proc[p].todo = <<"free">>
              THEN {} ELSE blame
  /\ UNCHANGED <<file, cache, busystate_b, env, stolen, leaked>>

(* mutant: waits as long as it takes *)
rlock_forever(p) ==
  /\ At(p, "rlock") /\ Bbusystate = 0
  /\ Bbusystate' = 1 /\ Continue(p, proc[p])
  /\ UNCHANGED <<file, cache, busystate_b, env, ghosts>>

rlock(p) ==
  /\ At(p, "rlock")
  /\ IF Bbusystate = 0
     THEN Bbusystate' = 1 /\ Continue(p, proc[p]) /\ UNCHANGED blame
     ELSE /\ IF proc[p].tries + 1 < Tries
             THEN proc' = [proc EXCEPT ![p].tries = @ + 1] /\ UNCHANGED blame
             ELSE Leave(p) /\ Blame("refused", TRUE)
          /\ UNCHANGED Bbusystate
  /\ UNCHANGED <<file, cache, busystate_b, env, stolen, leaked>>

load(p) ==
  LET n == IF Len(file) < MaxBoard THEN Len(file) ELSE MaxBoard IN
  /\ At(p, "load") /\ Continue(p, [proc[p] EXCEPT !.n = n, !.alone = Alone(p)])
  /\ bcache' = [b \in Slots |-> IF b < n THEN Header(b) ELSE bcache[b]]
  /\ Blame("counted", \E q \in Procs : Numbering(q))
  /\ UNCHANGED <<file, Bnumber, bsorted, locks, env, stolen, leaked>>

(* .BRD cannot be opened: headers and number stay as they are *)
load_fails(p) ==
  /\ At(p, "load") /\ Goto(p, [proc[p] EXCEPT !.alone = FALSE], <<"free">> \o SortBcache)
  /\ Blame("unread", TRUE)
  /\ UNCHANGED <<file, cache, locks, env, stolen, leaked>>

number(p) ==
  /\ At(p, "number") /\ Continue(p, proc[p])
  /\ Bnumber' = proc[p].n
  /\ UNCHANGED <<file, bcache, bsorted, locks, env, ghosts>>

(* do_shm_init of shmctl *)
clear(p) ==
  /\ At(p, "clear") /\ Continue(p, proc[p])
  /\ Bbusystate' = 0 /\ leaked' = leaked \ {-1}
  /\ UNCHANGED <<file, cache, busystate_b, env, blame, stolen>>

-----------------------------------------------------------------------------
(* fixbcache: the headers whose names differ, one by one *)

fix(p) ==
  LET r == proc[p] IN
  /\ At(p, "fix")
  /\ IF r.b >= Len(file) \/ r.b >= MaxBoard
     THEN Goto(p, r, IF r.tries > 0 THEN SortBcache ELSE <<>>)
     ELSE IF Header(r.b) = bcache[r.b] THEN proc' = [proc EXCEPT ![p].b = @ + 1]
     ELSE Goto(p, [r EXCEPT !.name = Header(r.b), !.n = 0],
               <<"fixlock", "fixset", "fixfree", "fix">>)
  /\ UNCHANGED <<file, cache, locks, env, ghosts>>

InSection(p) == \E a \in {"sort", "free", "load", "number", "fixset", "fixfree"} : At(p, a)

(* lockbcache takes the lock in the end; n counts its tries *)
fixlock(p) ==
  /\ At(p, "fixlock")
  /\ IF Bbusystate # 0 /\ proc[p].n < Tries
     THEN proc' = [proc EXCEPT ![p].n = @ + 1] /\ UNCHANGED <<Bbusystate, stolen, leaked>>
     ELSE /\ Bbusystate' = 1 /\ Continue(p, proc[p]) /\ leaked' = leaked \ {-1}
          /\ stolen' = (stolen \/ \E q \in Procs : InSection(q))
  /\ UNCHANGED <<file, cache, busystate_b, env, blame>>

fixset(p) ==
  /\ At(p, "fixset") /\ Continue(p, proc[p])
  /\ bcache' = [bcache EXCEPT ![proc[p].b] = proc[p].name]
  /\ Blame("overtaken", proc[p].name # Header(proc[p].b))
  /\ UNCHANGED <<file, Bnumber, bsorted, locks, env, stolen, leaked>>

(* tries now says that something was changed *)
fixfree(p) ==
  /\ At(p, "fixfree") /\ Continue(p, [proc[p] EXCEPT !.b = @ + 1, !.tries = 1])
  /\ Bbusystate' = 0
  /\ UNCHANGED <<file, cache, busystate_b, env, ghosts>>

-----------------------------------------------------------------------------
Die(p) ==
  /\ proc[p] # Idle /\ deaths < MaxDeaths
  /\ deaths' = deaths + 1
  /\ Leave(p)
  /\ Blame("died", TRUE)
  /\ leaked' = leaked \cup (IF InSection(p) THEN {-1} ELSE {})
                      \cup (IF At(p, "load_b") \/ At(p, "free_b") THEN {proc[p].b} ELSE {})
  /\ UNCHANGED <<file, cache, locks, now, ops, stolen>>

Tick ==
  /\ now < MaxTime /\ now' = now + 1
  /\ UNCHANGED <<file, cache, locks, proc, ops, deaths, ghosts>>

Changing(p) == lookup(p) \/ check(p) \/ slot(p) \/ substitute(p) \/ append_record(p) \/ inc1(p)
  \/ inc2(p) \/ num(p)
Resetting(p) == busy(p) \/ lock_b(p) \/ steal_b(p) \/ load_b(p) \/ load_b_fails(p) \/ free_b(p)
Loading(p) == lock(p) \/ sort(p) \/ free(p) \/ rlock(p) \/ load(p) \/ load_fails(p) \/ number(p)
  \/ clear(p)
Fixing(p) == fix(p) \/ fixlock(p) \/ fixset(p) \/ fixfree(p)
Step(p) == Changing(p) \/ Resetting(p) \/ Loading(p) \/ Fixing(p)

Next == (\E p \in Procs : Operate(p) \/ Step(p) \/ Die(p)) \/ Tick

(* the kernel schedules every process *)
Spec == Init /\ [][Next]_vars /\ \A p \in Procs : WF_vars(Step(p))

-----------------------------------------------------------------------------
(* Properties *)

(* Type invariant of the file, the cache, the locks and the processes. *)
TypeOK ==
  /\ file \in Seq(Headers) /\ bcache \in [Slots -> Headers] /\ bsorted \in [Slots -> Slots]
  /\ Bnumber \in 0 .. MaxBoard + MaxOps
  /\ Bbusystate \in {0, 1} /\ busystate_b \in [Slots -> 0 .. MaxTime]
  /\ \A p \in Procs : proc[p].b \in 0 .. MaxBoard + MaxOps /\ proc[p].tries \in 0 .. Tries - 1 \cup {1}

AtRest == \A p \in Procs : proc[p] = Idle

(* When no one is at work the cache is what the file says and the index is in
   order, unless a process gave up because a lock was taken, could not open
   the file or was killed half-way, two of them counted a new board at once, or
   shmctl wrote a header that had been changed since it read it.  After any of
   these a reload that runs alone and can read the file sets everything right
   (reload_bcache, reset_board, sort_bcache, addbrd_touchcache, fixbcache). *)
CacheCurrent ==
  AtRest /\ blame = {} =>
    /\ Bnumber = (IF Len(file) < MaxBoard THEN Len(file) ELSE MaxBoard)
    /\ \A b \in 0 .. Bnumber - 1 : bcache[b] = Header(b)
    /\ bsorted = Sorted

(* getbnum finds exactly the boards that the cache has, in any table that a
   history without such an accident can leave. *)
FindsAll ==
  AtRest /\ blame = {} =>
    \A n \in Names :
      IF \E b \in 0 .. Bnumber - 1 : bcache[b] = n
      THEN getbnum(n) > 0 /\ bcache[getbnum(n) - 1] = n
      ELSE getbnum(n) = 0

(* The number of boards stays within the arrays, unless two processes add the
   last board at once: add_board_record compares Bnumber long before it is
   raised. *)
NumberInBounds == Bnumber <= MaxBoard \/ "counted" \in blame

(* One process at a time sorts, reloads or repairs, until shmctl takes the
   lock of a living process. *)
Exclusive ==
  ~stolen => \A p, q \in Procs : InSection(p) /\ InSection(q) => p = q

(* A lock that is set has an owner that will release it, or its owner was
   killed: no way through reset_board, sort_bcache, reload_bcache and
   fixbcache ends with a lock left behind, also when one was taken over. *)
NoLeak ==
  /\ Bbusystate = 1 => -1 \in leaked \/ \E p \in Procs : InSection(p)
  /\ \A b \in Slots : busystate_b[b] # 0 =>
       b \in leaked \/ \E p \in Procs : proc[p].b = b /\ (At(p, "load_b") \/ At(p, "free_b"))

(* Every operation ends, whoever was killed while he had a lock. *)
Settles == \A p \in Procs : proc[p].op # "idle" ~> proc[p].op = "idle"

(* Cache, number and index are those of the file, and a look-up by name finds
   what is there, in every history without an accident that blame names. *)
CacheExact == TypeOK /\ CacheCurrent /\ FindsAll /\ NumberInBounds

(* The busy flags work as locks: one process in the section that Bbusystate
   guards, and none of them left set by a process that lives. *)
LocksOwned == Exclusive /\ NoLeak
=============================================================================
