------------------------------ MODULE PostStore ------------------------------
(***************************************************************************)
(* One article in the post service (service/post/storage/engine.go).  Its  *)
(* text, comments, votes and old revisions are records of four Pebble      *)
(* stores; a row of SQLite holds what lists need, counters included.  The  *)
(* daemon serves every connection in a goroutine of its own, so that       *)
(* requests interleave between any two accesses.  Counters reach SQLite    *)
(* through dirtyDeltas and a ticker.  The process may die at any time;     *)
(* SQLite can then be rebuilt from Pebble while the service is down.       *)
(*                                                                         *)
(* A request is the list of the accesses it still makes.  Texts are the    *)
(* numbers of the requests that wrote them.                                *)
(***************************************************************************)
EXTENDS Integers, Sequences, FiniteSets, SequencesExt, FiniteSetsExt

CONSTANTS
  Procs,       \* goroutines
  Users,
  None,
  MaxReqs,     \* bound: requests
  MaxTime,     \* bound: seconds of the clock
  MaxCrashes   \* bound: deaths of the process

ASSUME PostStoreAssumption ==
  /\ IsFiniteSet(Procs) /\ IsFiniteSet(Users) /\ None \notin Users
  /\ MaxReqs \in Nat /\ MaxTime \in Nat \ {0} /\ MaxCrashes \in Nat

VARIABLES
  db,      \* Pebble, see Pebble
  row,     \* the row of posts in SQLite, None when there is none
  mem,     \* dirtyDeltas and postSeqs
  req,     \* what each goroutine does
  up,      \* the service runs
  now, reqs, crashes,
  stale,   \* ghost: what was overwritten by somebody who knew an older value
  lost,    \* ghost: a crash or a failed flush has separated SQLite and Pebble
  acked    \* ghost: texts whose writer was told that they are stored

vars == <<db, row, mem, req, up, now, reqs, crashes, stale, lost, acked>>
env == <<up, now, reqs, crashes>>
ghosts == <<stale, lost, acked>>

Ids == 0 .. MaxReqs
Seqs == 1 .. MaxReqs + 1
Times == Nat
Votes == {"none", "up", "down"}
Zero == [num |-> 0, up |-> 0, down |-> 0]
Delta == [DOMAIN Zero -> Int]
Post == [title : Ids, mode : Ids, del : BOOLEAN, mod : Times, body : Ids]
Comment == [by : Users, text : SUBSET Ids, del : BOOLEAN, mod : Times]
Row == [title : Ids, mode : Ids, del : BOOLEAN, mod : Times,
        num : Int, up : Int, down : Int, xp : Nat]

(* None is no record, number or vote *)
ASSUME NoneAssumption ==
  None \notin Post \cup Comment \cup Row \cup Nat \cup Votes

Present(f) == {n \in DOMAIN f : f[n] # None}
MaxSequence(f) == IF Present(f) = {} THEN 0 ELSE Max(Present(f))
Voted(v) == Cardinality({u \in Users : db.votes[u] = v})

Idle == [op |-> "idle", id |-> 0, todo |-> <<>>, user |-> None, vote |-> "none",
         old |-> None, post |-> None, seq |-> 0, rev |-> 0, at |-> 0, view |-> None]
NewPost == [title |-> 0, mode |-> 0, del |-> FALSE, mod |-> now, body |-> 0]
NewRow == [title |-> 0, mode |-> 0, del |-> FALSE, mod |-> now,
           num |-> 0, up |-> 0, down |-> 0, xp |-> 0]

(* the article is not there yet, or it is and has a comment *)
Init ==
  /\ now = 1 /\ up = TRUE /\ reqs = 0 /\ crashes = 0
  /\ \E there \in BOOLEAN, by \in Users :
       /\ db = [post |-> IF there THEN NewPost ELSE None,
                comments |-> [n \in Seqs |-> IF there /\ n = 1
                    THEN [by |-> by, text |-> {0}, del |-> FALSE, mod |-> 0] ELSE None],
                votes |-> [u \in Users |-> "none"],
                hist |-> [o \in {0} \cup Seqs |-> <<>>],  \* 0 is the article
                xposts |-> {}]
       /\ row = IF there THEN [NewRow EXCEPT !.num = 1] ELSE None
  /\ mem = [dirty |-> Zero, seq |-> None]
  /\ req = [p \in Procs |-> Idle]
  /\ stale = {} /\ lost = FALSE /\ acked = {}

-----------------------------------------------------------------------------
(* requests *)

Program ==
  [create   |-> <<"lookup">>,
   comment  |-> <<"choose">>,
   vote     |-> <<"getvote", "setvote", "count">>,
   reset    |-> <<"delvotes", "zerodirty", "zerorow">>,
   edit     |-> <<"getrow", "getbody", "nextrev", "archive", "setpost", "setrow">>,
   title    |-> <<"getrow", "getbody", "nextrev", "archive", "setrow">>,
   delete   |-> <<"getrow", "getbody", "nextrev", "archive", "setpost", "setrow">>,
   undelete |-> <<"getrow", "getbody", "setpost", "setrow">>,
   setmeta  |-> <<"setmode", "getrow", "getbody", "setpost">>,
   cross    |-> <<"getrow", "getbody", "addcross", "numcross", "setcross", "setpost">>,
   cedit    |-> <<"getcomment", "nextrev", "archive", "setcomment", "touch">>,
   cdelete  |-> <<"getcomment", "nextrev", "archive", "setcomment">>,
   cundelete |-> <<"getcomment", "setcomment">>,
   purge    |-> <<"getrow", "getbody", "take", "apply", "delrow", "list", "forget", "delpost",
                 "delcomments", "dropvotes", "delhist">>]

Start(p, op, r) ==
  /\ up /\ req[p].op = "idle" /\ reqs < MaxReqs
  /\ reqs' = reqs + 1
  /\ req' = [req EXCEPT ![p] = [r EXCEPT !.op = op, !.id = reqs + 1, !.todo = Program[op]]]
  /\ UNCHANGED <<db, row, mem, up, now, crashes, ghosts>>

(* An editor is shown the article; UpdatePost sends its time back. *)
Fetch(p) ==
  /\ up /\ req[p] = Idle /\ row # None /\ db.post # None /\ reqs < MaxReqs
  /\ req' = [req EXCEPT ![p].view = [mod |-> row.mod, body |-> db.post.body]]
  /\ UNCHANGED <<db, row, mem, env, ghosts>>

Request(p) ==
  \/ Start(p, "create", Idle)
  \/ row # None /\ Start(p, "edit", req[p])   \* without a view expectedModified is 0
  \/ row # None /\
     \/ \E u \in Users : Start(p, "comment", [Idle EXCEPT !.user = u])
     \/ \E u \in Users, v \in Votes : Start(p, "vote", [Idle EXCEPT !.user = u, !.vote = v])
     \/ \E op \in {"reset", "title", "delete", "undelete", "setmeta", "cross", "purge"} :
          Start(p, op, Idle)
     \/ \E s \in Present(db.comments), op \in {"cedit", "cdelete", "cundelete"} :
          Start(p, op, [Idle EXCEPT !.seq = s])

(* p makes the first access of its list; r is what it knows afterwards *)
Here(r) == IF r.todo = <<>> THEN "none" ELSE Head(r.todo)
At(p, access) == up /\ Here(req[p]) = access
Continue(p, r) ==
  req' = [req EXCEPT ![p] = IF Len(r.todo) = 1 THEN Idle ELSE [r EXCEPT !.todo = Tail(@)]]
Refuse(p) == req' = [req EXCEPT ![p] = Idle]
Answer(p) ==
  acked' = IF Len(req[p].todo) = 1 /\ req[p].op \in {"comment", "edit", "cedit"}
           THEN acked \cup {req[p].id} ELSE acked
Stale(what, is) == stale' = IF is THEN stale \cup what ELSE stale
Later(mod) == IF now > mod THEN now ELSE mod + 1
(* metaWriteMu: a purge holds it to its end *)
MetaFree(p) == \A q \in Procs \ {p} : req[q].op = "purge" => Contains(req[q].todo, "delrow")
InRow(change) == row' = IF row = None THEN None ELSE change

-----------------------------------------------------------------------------
(* CreatePost *)

lookup(p) ==
  /\ At(p, "lookup")
  /\ req' = [req EXCEPT ![p].todo = IF row = None THEN <<"insert", "setnew">> ELSE <<"setnew">>]
  /\ UNCHANGED <<db, row, mem, env, ghosts>>

(* fails when the article is there; one made after a purge is another one *)
insert(p) ==
  /\ At(p, "insert") /\ MetaFree(p)
  /\ IF row = None /\ "purged" \notin stale THEN row' = NewRow /\ Continue(p, req[p])
     ELSE Refuse(p) /\ UNCHANGED row
  /\ UNCHANGED <<db, mem, env, ghosts>>

(* an article that is there already is stored again all the same *)
setnew(p) ==
  /\ At(p, "setnew")
  /\ db' = [db EXCEPT !.post = NewPost]
  /\ Stale({"post"}, row # NewRow \/ db.post \notin {None, NewPost})
  /\ Continue(p, req[p])
  /\ UNCHANGED <<row, mem, env, lost, acked>>

-----------------------------------------------------------------------------
(* AddComment *)

(* under seqMu: the comment before it, if it is of the same user, recent and
   short enough, is read to be continued; otherwise the sequence is taken *)
choose(p) ==
  /\ At(p, "choose")
  /\ LET last == IF mem.seq # None THEN mem.seq ELSE MaxSequence(db.comments)
         prev == IF last = 0 THEN None ELSE db.comments[last]
     IN \/ /\ prev # None /\ prev.by = req[p].user /\ ~prev.del
           /\ req' = [req EXCEPT ![p].seq = last, ![p].old = prev, ![p].todo = <<"setcomment">>]
           /\ mem' = [mem EXCEPT !.seq = last]
        \/ /\ last <= MaxReqs
           /\ req' = [req EXCEPT ![p].seq = last + 1, ![p].todo = <<"newcomment", "count">>]
           /\ mem' = [mem EXCEPT !.seq = last + 1]
  /\ UNCHANGED <<db, row, env, ghosts>>

newcomment(p) ==
  /\ At(p, "newcomment")
  /\ db' = [db EXCEPT !.comments[req[p].seq] =
              [by |-> req[p].user, text |-> {req[p].id}, del |-> FALSE, mod |-> 0]]
  /\ Stale({"comments"}, row = None)
  /\ Continue(p, req[p])
  /\ UNCHANGED <<row, mem, env, lost, acked>>

(* what the request changes in a counter *)
Gain(r, f) ==
  IF r.op = "comment" THEN IF f = "num" THEN 1 ELSE 0
  ELSE (IF r.vote = f THEN 1 ELSE 0) - (IF r.old = f THEN 1 ELSE 0)

(* the change is registered in dirtyDeltas *)
count(p) ==
  /\ At(p, "count")
  /\ mem' = [mem EXCEPT !.dirty = [f \in DOMAIN Zero |-> @[f] + Gain(req[p], f)]]
  /\ Continue(p, req[p]) /\ Answer(p)
  /\ UNCHANGED <<db, row, env, stale, lost>>

-----------------------------------------------------------------------------
(* UpdateComment, DeleteComment, UndeleteComment, and AddComment's merge *)

getcomment(p) ==
  /\ At(p, "getcomment")
  /\ LET c == db.comments[req[p].seq] IN
     IF c = None \/ req[p].op = (IF c.del THEN "cdelete" ELSE "cundelete")
     THEN Refuse(p) ELSE Continue(p, [req[p] EXCEPT !.old = c])
  /\ UNCHANGED <<db, row, mem, env, ghosts>>

Changed(r) ==
  CASE r.op = "comment" -> [r.old EXCEPT !.text = @ \cup {r.id}]
    [] r.op = "cedit" -> [r.old EXCEPT !.text = {r.id}, !.mod = r.at]
    [] OTHER -> [r.old EXCEPT !.del = (r.op = "cdelete")]

setcomment(p) ==
  /\ At(p, "setcomment")
  /\ db' = [db EXCEPT !.comments[req[p].seq] = Changed(req[p])]
  /\ Stale({"comments"}, db.comments[req[p].seq] # req[p].old)
  /\ Continue(p, req[p]) /\ Answer(p)
  /\ UNCHANGED <<row, mem, env, lost>>

(* modified becomes the clock read before, and only in SQLite *)
touch(p) ==
  /\ At(p, "touch") /\ MetaFree(p)
  /\ IF db.post = None THEN UNCHANGED row ELSE InRow([row EXCEPT !.mod = req[p].at])
  /\ Stale({"clock"}, row # None /\ row.mod >= req[p].at)
  /\ Continue(p, req[p]) /\ Answer(p)
  /\ UNCHANGED <<db, mem, env, lost>>

-----------------------------------------------------------------------------
(* VotePost and ResetVotes *)

getvote(p) ==
  /\ At(p, "getvote")
  /\ LET prev == db.votes[req[p].user] IN
     IF prev = req[p].vote THEN Refuse(p) ELSE Continue(p, [req[p] EXCEPT !.old = prev])
  /\ UNCHANGED <<db, row, mem, env, ghosts>>

setvote(p) ==
  /\ At(p, "setvote")
  /\ db' = [db EXCEPT !.votes[req[p].user] = req[p].vote]
  /\ Stale({"votes"}, \/ row = None \/ db.votes[req[p].user] # req[p].old
                      \/ \E q \in Procs : req[q].op = "reset")
  /\ Continue(p, req[p])
  /\ UNCHANGED <<row, mem, env, lost, acked>>

(* an access of ResetVotes that others notice, or that misses them *)
Disturbed(p) ==
  \/ \E q \in Procs \ {p} : req[q].op \in {"vote", "reset", "flush", "purge"}
  \/ Here(req[p]) # "delvotes" /\ Voted("none") # Cardinality(Users)

delvotes(p) ==
  /\ At(p, "delvotes") /\ Stale({"votes"}, Disturbed(p)) /\ Continue(p, req[p])
  /\ db' = [db EXCEPT !.votes = [u \in Users |-> "none"]]
  /\ UNCHANGED <<row, mem, env, lost, acked>>

(* mutant: the votes that were not flushed yet come back *)
zerodirty_not(p) ==
  /\ At(p, "zerodirty") /\ Stale({"votes"}, Disturbed(p)) /\ Continue(p, req[p])
  /\ UNCHANGED <<db, row, mem, env, lost, acked>>

zerodirty(p) ==
  /\ At(p, "zerodirty") /\ Stale({"votes"}, Disturbed(p)) /\ Continue(p, req[p])
  /\ mem' = [mem EXCEPT !.dirty.up = 0, !.dirty.down = 0]
  /\ UNCHANGED <<db, row, env, lost, acked>>

zerorow(p) ==
  /\ At(p, "zerorow") /\ MetaFree(p) /\ Stale({"votes"}, Disturbed(p)) /\ Continue(p, req[p])
  /\ InRow([row EXCEPT !.up = 0, !.down = 0])
  /\ UNCHANGED <<db, mem, env, lost, acked>>

-----------------------------------------------------------------------------
(* UpdatePost, UpdatePostTitle, DeletePost, UndeletePost, SetPostMeta,
   AddCrosspost *)

(* GetPost: first the row *)
getrow(p) ==
  /\ At(p, "getrow")
  /\ IF row = None THEN Refuse(p)
     ELSE Continue(p, [req[p] EXCEPT !.post = [title |-> row.title, mode |-> row.mode,
                         del |-> row.del, mod |-> row.mod, body |-> 0]])
  /\ UNCHANGED <<db, row, mem, env, ghosts>>

Wanted(r, post) ==
  CASE r.op = "edit" -> r.view = None \/ post.mod = r.view.mod   \* else ConflictError
    [] r.op = "delete" -> ~post.del
    [] r.op = "undelete" -> post.del
    [] OTHER -> TRUE

(* mutant: an edit is not compared with what the editor was shown *)
getbody_unchecked(p) ==
  /\ At(p, "getbody")
  /\ IF db.post = None THEN Refuse(p)
     ELSE Continue(p, [req[p] EXCEPT !.post.body = db.post.body, !.post.del = @ \/ db.post.del,
                                     !.old = db.post])
  /\ UNCHANGED <<db, row, mem, env, ghosts>>

(* without a record the text is taken from the file in the board's directory,
   if there is one, and stored *)
import(p) ==
  /\ At(p, "getbody") /\ db.post = None
  /\ db' = [db EXCEPT !.post = req[p].post]
  /\ Stale({"post"}, TRUE)
  /\ UNCHANGED <<row, mem, req, env, lost, acked>>

(* then the record, and the checks of the caller *)
getbody(p) ==
  /\ At(p, "getbody")
  /\ IF db.post = None THEN Refuse(p)
     ELSE LET post == [req[p].post EXCEPT !.body = db.post.body, !.del = @ \/ db.post.del]
          IN IF Wanted(req[p], post)
             THEN Continue(p, [req[p] EXCEPT !.post = post, !.old = db.post])
             ELSE Refuse(p)
  /\ UNCHANGED <<db, row, mem, env, ghosts>>

(* of the article (0) or of a comment *)
nextrev(p) ==
  /\ At(p, "nextrev")
  /\ Continue(p, [req[p] EXCEPT !.rev = Len(db.hist[req[p].seq]) + 1])
  /\ UNCHANGED <<db, row, mem, env, ghosts>>

(* mutant: the text that is stored next is archived *)
archive_new(p) ==
  /\ At(p, "archive")
  /\ db' = [db EXCEPT !.hist[req[p].seq] =
              IF req[p].rev > Len(@) THEN Append(@, {req[p].id})
              ELSE [@ EXCEPT ![req[p].rev] = {req[p].id}]]
  /\ Continue(p, [req[p] EXCEPT !.at = IF req[p].post = None THEN now ELSE Later(req[p].post.mod)])
  /\ UNCHANGED <<row, mem, env, ghosts>>

(* The old text is archived under the revision read before.  The time of a
   change of the article is later than the last one, whatever the clock says. *)
archive(p) ==
  LET r == req[p]
      text == IF r.post = None THEN r.old.text ELSE {r.post.body}
  IN
  /\ At(p, "archive")
  /\ db' = [db EXCEPT !.hist[r.seq] =
              IF r.rev > Len(@) THEN Append(@, text) ELSE [@ EXCEPT ![r.rev] = text]]
  /\ Continue(p, [r EXCEPT !.at = IF r.post = None THEN now ELSE Later(r.post.mod)])
  /\ Stale({"post", "comments"},
           row = None \/ (r.rev <= Len(db.hist[r.seq]) /\ db.hist[r.seq][r.rev] # text))
  /\ UNCHANGED <<row, mem, env, lost, acked>>

Record(r) ==
  CASE r.op = "edit" -> [r.post EXCEPT !.body = r.id, !.mod = r.at]
    [] r.op = "delete" -> [r.post EXCEPT !.del = TRUE, !.mod = r.at]
    [] r.op = "undelete" -> [r.post EXCEPT !.del = FALSE, !.mod = now]
    [] OTHER -> r.post

(* another request has changed the article since p read it *)
Overtaken(r) ==
  row = None \/ <<row.title, row.mode, row.del>> # <<r.post.title, r.post.mode, r.post.del>>

(* or since p stored its record *)
Replaced(r) ==
  r.op # "title" /\ db.post # None /\ db.post.del # (r.op = "delete" \/ (r.op = "edit" /\ r.post.del))

(* mutant: the record is put together from what Pebble had *)
setpost_old(p) ==
  /\ At(p, "setpost")
  /\ db' = [db EXCEPT !.post = IF @ = None THEN Record(req[p])
                               ELSE [Record(req[p]) EXCEPT !.mode = db.post.mode]]
  /\ Stale({"post"}, Overtaken(req[p]) \/ db.post # req[p].old)
  /\ Continue(p, [req[p] EXCEPT !.at = Record(req[p]).mod]) /\ Answer(p)
  /\ UNCHANGED <<row, mem, env, lost>>

setpost(p) ==
  /\ At(p, "setpost")
  /\ db' = [db EXCEPT !.post = Record(req[p])]
  /\ LET over == Overtaken(req[p]) \/ db.post # req[p].old
     IN stale' = (stale \ {"title"}) \cup (IF over THEN {"post"} ELSE {})
                   \cup (IF row # None /\ row.mod # req[p].post.mod THEN {"clock"} ELSE {})
  /\ Continue(p, [req[p] EXCEPT !.at = Record(req[p]).mod]) /\ Answer(p)
  /\ UNCHANGED <<row, mem, env, lost>>

(* UPDATE posts; UpdatePostTitle leaves it at that *)
setrow(p) ==
  LET r == req[p] IN
  /\ At(p, "setrow") /\ MetaFree(p)
  /\ InRow(CASE r.op = "edit" -> [row EXCEPT !.title = r.post.title, !.mod = r.at]
             [] r.op = "title" -> [row EXCEPT !.title = r.id, !.mod = r.at]
             [] OTHER -> [row EXCEPT !.del = (r.op = "delete"), !.mod = r.at])
  /\ Stale((IF r.op = "title" THEN {"title"} ELSE {})
             \cup (IF Overtaken(r) \/ Replaced(r) THEN {"post"} ELSE {})
             \cup (IF row # None /\ row.mod >= r.at THEN {"clock"} ELSE {})
             \cup (IF db.post # None /\ db.post.mod # r.at THEN {"clock"} ELSE {}), TRUE)
  /\ Continue(p, r) /\ Answer(p)
  /\ UNCHANGED <<db, mem, env, lost>>

setmode(p) ==
  /\ At(p, "setmode") /\ MetaFree(p)
  /\ InRow([row EXCEPT !.mode = req[p].id])
  /\ Continue(p, req[p])
  /\ UNCHANGED <<db, mem, env, ghosts>>

addcross(p) ==
  /\ At(p, "addcross") /\ MetaFree(p)
  /\ InRow([row EXCEPT !.xp = @ + 1])
  /\ Continue(p, req[p])
  /\ UNCHANGED <<db, mem, env, ghosts>>

(* the count is read again after metaWriteMu is released, 0 without a row *)
numcross(p) ==
  /\ At(p, "numcross")
  /\ Continue(p, [req[p] EXCEPT !.rev = IF row = None THEN 0 ELSE row.xp])
  /\ UNCHANGED <<db, row, mem, env, ghosts>>

setcross(p) ==
  /\ At(p, "setcross")
  /\ db' = [db EXCEPT !.xposts = @ \cup {req[p].rev}]
  /\ Stale({"post"}, row = None \/ req[p].rev \in db.xposts)
  /\ Continue(p, req[p])
  /\ UNCHANGED <<row, mem, env, lost, acked>>

-----------------------------------------------------------------------------
(* FlushDirtyDeltas and purgePostRecord *)

Flush(p) ==
  /\ up /\ req[p] = Idle /\ mem.dirty # Zero
  /\ req' = [req EXCEPT ![p] = [Idle EXCEPT !.op = "flush", !.todo = <<"apply">>, !.old = mem.dirty]]
  /\ mem' = [mem EXCEPT !.dirty = Zero]
  /\ UNCHANGED <<db, row, env, ghosts>>

(* the flush of a purge *)
take(p) ==
  /\ At(p, "take")
  /\ Continue(p, [req[p] EXCEPT !.old = mem.dirty])
  /\ mem' = [mem EXCEPT !.dirty = Zero]
  /\ UNCHANGED <<db, row, env, ghosts>>

Added(r, d) == [r EXCEPT !.num = @ + d.num, !.up = @ + d.up, !.down = @ + d.down]

apply(p) ==
  /\ At(p, "apply") /\ MetaFree(p)
  /\ InRow(Added(row, req[p].old))
  /\ Continue(p, req[p])
  /\ UNCHANGED <<db, mem, env, ghosts>>

(* the transaction fails; the deltas are gone *)
ApplyFails(p) ==
  /\ At(p, "apply") /\ MetaFree(p)
  /\ Continue(p, req[p])
  /\ lost' = (lost \/ req[p].old # Zero)
  /\ UNCHANGED <<db, row, mem, env, stale, acked>>

delrow(p) ==
  /\ At(p, "delrow") /\ MetaFree(p)
  /\ row' = None
  /\ Stale({"purged"}, TRUE)
  /\ Continue(p, req[p])
  /\ UNCHANGED <<db, mem, env, lost, acked>>

(* the iterators: what is there now will be deleted.  They run one after the
   other; a write between two of them, like one after them all, is made when
   the row is gone. *)
list(p) ==
  /\ At(p, "list")
  /\ Continue(p, [req[p] EXCEPT !.old =
       [xposts |-> db.xposts, comments |-> Present(db.comments),
        hist |-> [o \in {0} \cup Seqs |->
                    IF o \in {0} \cup Present(db.comments) THEN Len(db.hist[o]) ELSE 0],
        votes |-> {u \in Users : db.votes[u] # "none"}]])
  /\ UNCHANGED <<db, row, mem, env, ghosts>>

forget(p) ==
  /\ At(p, "forget")
  /\ mem' = [dirty |-> Zero, seq |-> None]
  /\ Continue(p, req[p])
  /\ UNCHANGED <<db, row, env, ghosts>>

(* the first n revisions are deleted; an empty text is a revision that is gone *)
Dropped(h, n) ==
  IF Len(h) <= n THEN <<>> ELSE [i \in 1 .. Len(h) |-> IF i <= n THEN {} ELSE h[i]]

(* one batch for each store, with the keys that were listed *)
delpost(p) ==
  /\ At(p, "delpost")
  /\ db' = [db EXCEPT !.post = None, !.xposts = @ \ req[p].old.xposts]
  /\ Continue(p, req[p])
  /\ UNCHANGED <<row, mem, env, ghosts>>

delcomments(p) ==
  /\ At(p, "delcomments")
  /\ db' = [db EXCEPT !.comments = [s \in Seqs |-> IF s \in req[p].old.comments THEN None ELSE @[s]]]
  /\ Continue(p, req[p])
  /\ UNCHANGED <<row, mem, env, ghosts>>

dropvotes(p) ==
  /\ At(p, "dropvotes")
  /\ db' = [db EXCEPT !.votes = [u \in Users |-> IF u \in req[p].old.votes THEN "none" ELSE @[u]]]
  /\ Continue(p, req[p])
  /\ UNCHANGED <<row, mem, env, ghosts>>

delhist(p) ==
  /\ At(p, "delhist")
  /\ db' = [db EXCEPT !.hist = [o \in {0} \cup Seqs |-> Dropped(@[o], req[p].old.hist[o])]]
  /\ Continue(p, req[p])
  /\ UNCHANGED <<row, mem, env, ghosts>>

-----------------------------------------------------------------------------
(* the process *)

AtRest == mem.dirty = Zero /\ \A p \in Procs : req[p].todo = <<>>

(* the process dies, or Close has flushed and handlers are still running *)
Crash ==
  /\ up /\ crashes < MaxCrashes
  /\ up' = FALSE /\ crashes' = crashes + 1
  /\ req' = [p \in Procs |-> Idle] /\ mem' = [dirty |-> Zero, seq |-> None]
  /\ lost' = (lost \/ ~AtRest)
  /\ Stale({"comments"}, row = None /\ \E p \in Procs : req[p].op = "purge")
  /\ UNCHANGED <<db, row, now, reqs, acked>>

Restart ==
  /\ ~up /\ up' = TRUE
  /\ UNCHANGED <<db, row, mem, req, now, reqs, crashes, ghosts>>

Counted ==
  [num |-> Cardinality(Present(db.comments)), up |-> Voted("up"), down |-> Voted("down"),
   xp |-> Cardinality(db.xposts)]

(* the row as Pebble gives it back *)
Rebuilt ==
  IF db.post = None THEN None
  ELSE [title |-> db.post.title, mode |-> db.post.mode, del |-> db.post.del,
        mod |-> Max({db.post.mod} \cup {db.comments[s].mod : s \in Present(db.comments)}),
        num |-> Counted.num, up |-> Counted.up,
        down |-> Counted.down, xp |-> Counted.xp]

RebuildSQLiteFromPebble ==
  /\ ~up
  /\ row' = Rebuilt
  /\ lost' = (lost /\ Rebuilt = None)
  /\ stale' = IF Rebuilt = None THEN stale ELSE stale \ {"title", "votes", "clock", "purged"}
  /\ UNCHANGED <<db, mem, req, up, now, reqs, crashes, acked>>

Tick ==
  /\ now < MaxTime /\ now' = now + 1
  /\ UNCHANGED <<db, row, mem, req, up, reqs, crashes, ghosts>>

-----------------------------------------------------------------------------
Comments(p) == choose(p) \/ newcomment(p) \/ count(p) \/ getcomment(p) \/ setcomment(p) \/ touch(p)
Voting(p) == getvote(p) \/ setvote(p) \/ delvotes(p) \/ zerodirty(p) \/ zerorow(p)
Article(p) ==
  \/ lookup(p) \/ insert(p) \/ setnew(p) \/ getrow(p) \/ import(p) \/ getbody(p) \/ nextrev(p) \/ archive(p)
  \/ setpost(p) \/ setrow(p) \/ setmode(p) \/ addcross(p) \/ numcross(p) \/ setcross(p)
Purging(p) == take(p) \/ apply(p) \/ ApplyFails(p) \/ delrow(p) \/ list(p) \/ forget(p)
  \/ delpost(p) \/ delcomments(p) \/ dropvotes(p) \/ delhist(p)

Next ==
  \/ \E p \in Procs :
       Request(p) \/ Fetch(p) \/ Flush(p) \/ Comments(p) \/ Voting(p) \/ Article(p) \/ Purging(p)
  \/ Crash \/ Restart \/ RebuildSQLiteFromPebble \/ Tick

Spec == Init /\ [][Next]_vars

-----------------------------------------------------------------------------
(* Properties *)

(* Type invariant of the stores, the memory of the engine and the requests. *)
TypeOK ==
  /\ db \in [post : Post \cup {None}, comments : [Seqs -> Comment \cup {None}],
            votes : [Users -> Votes], hist : [{0} \cup Seqs -> Seq(SUBSET Ids)],
            xposts : {X \in SUBSET Nat : IsFiniteSet(X)}]
  /\ row \in Row \cup {None} /\ mem \in [dirty : Delta, seq : Seqs \cup {None}]
  /\ \A p \in Procs : req[p].op \in DOMAIN Program \cup {"idle", "flush"} /\ req[p].id \in Ids
  /\ up \in BOOLEAN /\ now \in Times /\ reqs \in Ids /\ acked \subseteq Ids /\ lost \in BOOLEAN

(* what is on its way into a counter of SQLite: registered, taken by a flush,
   or written to Pebble and not registered yet *)
Carried(r, f) ==
  CASE Here(r) = "count" -> Gain(r, f)
    [] Here(r) = "apply" -> r.old[f]
    [] OTHER -> 0
UnderWay(f) == mem.dirty[f] + SumFunction([p \in Procs |-> Carried(req[p], f)])

(* The counters that SQLite shows, with what is under way, are at every moment
   the number of records in Pebble: no comment or vote is counted twice or
   missed by AddComment, VotePost, ResetVotes and FlushDirtyDeltas.  Three
   things are excepted.  Of votes nothing is claimed once two votes of one user
   have met, or while a reset runs and once it has met votes or a flush
   ("votes" in stale); of comments and votes nothing once deltas were lost in a
   crash or a failed flush (lost), until a rebuild. *)
CountersExact ==
  row # None /\ ~lost =>
    /\ row.num + UnderWay("num") = Counted.num
    /\ "votes" \notin stale /\ (\A p \in Procs : req[p].op # "reset") =>
         row.up + UnderWay("up") = Counted.up /\ row.down + UnderWay("down") = Counted.down

(* A new comment never takes the place of another one: sequences are given
   out once, also after a restart has emptied postSeqs (AddComment,
   lookupMaxSequence), as long as the article has not been purged. *)
SequenceFresh ==
  \A p \in Procs : At(p, "newcomment") /\ req'[p] # req[p] /\ up' /\ row # None
    => db.comments[req[p].seq] = None

(* A text whose writer was told that it is stored is the current one or in
   the history: edits, merges, deletions and restorations of the article and
   its comments never drop one, unless a request wrote over a version that it
   had not seen. *)
NothingForgotten ==
  {"post", "comments", "purged"} \cap stale = {} =>
    \A id \in acked :
      \/ db.post # None /\ db.post.body = id
      \/ \E s \in Present(db.comments) : id \in db.comments[s].text
      \/ \E o \in DOMAIN db.hist : \E i \in DOMAIN db.hist[o] : id \in db.hist[o][i]

(* "SQLite holds nothing Pebble cannot give back" (rebuild_test.go): when
   nothing is under way a rebuild would write the row that is there, but for
   a title set by UpdatePostTitle and its time, and the time when two
   changes fell into one second or wrote one comment at once. *)
RebuildGivesBack ==
  AtRest /\ up /\ row # None /\ ~lost /\ {"post", "votes"} \cap stale = {} =>
    row = IF "title" \in stale THEN [Rebuilt EXCEPT !.title = row.title, !.mod = row.mod]
          ELSE IF {"clock", "comments"} \cap stale # {} THEN [Rebuilt EXCEPT !.mod = row.mod] ELSE Rebuilt

(* p stores the text of an edit that was sent with the time of a version *)
Replaces(p) ==
  /\ At(p, "setpost") /\ req[p].op = "edit" /\ req[p].view # None
  /\ req'[p].op = "edit" /\ req'[p] # req[p]

(* The time that UpdatePost compares stands for the text: the text that an
   accepted edit replaces, and archives, is the one that its editor was shown.
   Not so when somebody has stored the article since UpdatePost read it ("post":
   two edits of one version that are compared before either is stored are both
   accepted), when its time has changed since, or stands for two changes in one
   second because the second one stored the clock ("clock": UndeletePost,
   UpdateComment), and while another change is between Pebble and SQLite. *)
EditSawLatest ==
  [][\A p \in Procs :
       Replaces(p) /\ {"post", "clock"} \cap stale' = {} /\ (\A q \in Procs : Here(req[q]) # "setrow")
         => db.post.body = req[p].view.body]_vars

(* A purge leaves nothing behind: no text, comment, vote, cross-post or
   revision.  The exceptions are what others write after it has deleted the
   row, which its lists may miss (a revision archived by an edit of a comment
   too), and what is left when a crash cuts it short. *)
PurgedIsGone ==
  AtRest /\ up /\ "purged" \in stale /\ ~lost /\ {"post", "comments", "votes"} \cap stale = {} =>
    /\ db.post = None /\ Present(db.comments) = {} /\ Voted("none") = Cardinality(Users)
    /\ db.xposts = {} /\ \A o \in DOMAIN db.hist : db.hist[o] = <<>>

(* When nothing is under way the two databases say the same of the article:
   SQLite what a rebuild from Pebble would give, or both of them nothing when
   it was purged. *)
StoresAgree == TypeOK /\ RebuildGivesBack /\ PurgedIsGone

(* Of what a user was told to be stored nothing is forgotten until a request
   writes over a version that it has not seen, and no new comment takes the
   place of another one. *)
TextsKept == [][NothingForgotten' /\ SequenceFresh]_vars
=============================================================================
