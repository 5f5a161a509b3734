---------------------------- MODULE SessionTable ----------------------------
(***************************************************************************)
(* What the table of sessions promises the rest of the system, without the *)
(* probing, the lists and the steps of a login: a process gets an entry    *)
(* that is free, is the only one to have it and gives it back when it      *)
(* leaves.  Only a process that dies leaves its entry behind, for utmp.svc *)
(* to find.  UtmpUser implements it.                                       *)
(***************************************************************************)
CONSTANTS Procs, Slots, NoPid

VARIABLES
  entry,   \* the process that has each slot, or NoPid
  status   \* of each process: "out", "in", "gone", "dead"

tvars == <<entry, status>>

TInit == entry = [s \in Slots |-> NoPid] /\ status = [p \in Procs |-> "out"]

Become(p, from, to) == status[p] = from /\ status' = [status EXCEPT ![p] = to]

Enter(p, s) ==
  /\ entry[s] = NoPid /\ entry' = [entry EXCEPT ![s] = p]
  /\ Become(p, "out", "in")

(* no slot was found; the table may have one by now *)
Refuse(p) == Become(p, "out", "gone") /\ UNCHANGED entry

Exit(p, s) ==
  /\ entry[s] = p /\ entry' = [entry EXCEPT ![s] = NoPid]
  /\ Become(p, "in", "gone")

Die(p) == Become(p, "in", "dead") /\ UNCHANGED entry

TNext ==
  \E p \in Procs :
    \/ Refuse(p) \/ Die(p)
    \/ \E s \in Slots : Enter(p, s) \/ Exit(p, s)

TSpec == TInit /\ [][TNext]_tvars
=============================================================================
