------------------------------- MODULE Xchatd -------------------------------
(***************************************************************************)
(* The chat room server (util/xchatd.c): one process, one select loop, and *)
(* pointers between the objects it allocates.  mainuser is a list of       *)
(* connections, each points to the room it is in; a room counts its        *)
(* occupants and is freed when the last one leaves.  While the loop walks  *)
(* the list and serves a connection, a command may move or throw out any   *)
(* other connection, also the one the loop looks at next.                  *)
(*                                                                         *)
(* A room stands for its name: croom_by_roomid finds at most one of each.  *)
(* What is only said, shown or ignored changes nothing here.               *)
(***************************************************************************)
EXTENDS Integers, Sequences, FiniteSets, Functions

CONSTANTS
  Conns,      \* ChatUser objects
  Users,      \* accounts; Sysops have PERM_SYSOP or PERM_CHATROOM, Guests no flag
  Sysops, Guests,
  Rooms, Main,
  ChatIds,
  None,       \* NULL, userno 0, no chatid
  MaxLines,   \* bound: commands in one recv
  MaxOob      \* bound: exceptional conditions reported by select

ASSUME XchatdAssumption ==
  /\ Main \in Rooms /\ Sysops \subseteq Users /\ Guests \subseteq Users \ Sysops
  /\ None \notin Conns \cup Users \cup Rooms \cup ChatIds
  /\ MaxLines \in Nat \ {0} /\ MaxOob \in Nat /\ IsFiniteSet(Conns)

VARIABLES
  list,       \* mainuser and the unext after it
  user, chatid,
  chat,       \* the rooms and who is in them, see ChatType
  dead, deadusers,
  old,        \* unnamed connections whose CHAT_LOGIN_TIMEOUT is over
  pc,         \* "select", "serve", "cmd" (in cuser_serve) or "reap"
  cur, nxt,   \* cu and cunext of the loop
  lines,      \* commands left in the buffer of cu
  stray       \* ghost: users that select's exceptions took out of each room

loop == <<pc, cur, nxt, lines>>
conn == <<list, user, chatid>>
vars == <<conn, chat, dead, deadusers, old, loop, stray>>

ChatType ==
  [room : [Conns -> Rooms \cup {None}],    \* ChatUser.room
   op : SUBSET Conns,                      \* PERM_ROOMOP
   grant : [Conns -> Rooms \cup {None}],   \* ghost: the room it was given in
   rooms : SUBSET Rooms,                   \* mainroom and the list behind it
   occ : [Rooms -> Nat],                   \* occupants
   locked : SUBSET Rooms,
   invite : [Rooms -> SUBSET (Users \ Sysops)],  \* lists by name; a sysop's
   ban : [Rooms -> SUBSET (Users \ Sysops)]]     \* entry decides nothing

Init ==
  /\ list = <<>>
  /\ user = [c \in Conns |-> None] /\ chatid = [c \in Conns |-> None]
  /\ chat = [room |-> [c \in Conns |-> None], op |-> {},
             grant |-> [c \in Conns |-> None], rooms |-> {Main},
             occ |-> [r \in Rooms |-> 0], locked |-> {},
             invite |-> [r \in Rooms |-> {}], ban |-> [r \in Rooms |-> {}]]
  /\ dead = {} /\ deadusers = 0 /\ old = {}
  /\ pc = "select" /\ cur = None /\ nxt = None /\ lines = 0
  /\ stray = [r \in Rooms |-> 0]

Conn == Range(list)
Sysop(c) == user[c] \in Sysops
RoomOp(c) == c \in chat.op \/ Sysop(c)
Restricted(c) == user[c] \in Guests /\ c \notin chat.op   \* uflag is 0
After(c) ==
  LET i == CHOOSE n \in DOMAIN list : list[n] = c
  IN IF i = Len(list) THEN None ELSE list[i + 1]

(* mainuser after these were unlinked *)
Without(l, gone) ==
  LET keep == {i \in 1 .. Len(l) : l[i] \notin gone}
      rank(i) == Cardinality({j \in keep : j <= i})
  IN [k \in 1 .. Cardinality(keep) |-> l[CHOOSE i \in keep : rank(i) = k]]

-----------------------------------------------------------------------------
(* rooms, as functions from one state of the rooms to the next *)

(* mutant: the invitation is kept for the next time *)
exit_room_keeps_invite(s, c) ==
  LET r == s.room[c]
      left == [s EXCEPT !.room[c] = None, !.op = @ \ {c}, !.grant[c] = None, !.occ[r] = @ - 1]
  IN IF r = None THEN s
     ELSE IF left.occ[r] = 0 /\ r # Main
     THEN [left EXCEPT !.rooms = @ \ {r}, !.locked = @ \ {r},
                       !.invite[r] = {}, !.ban[r] = {}]
     ELSE left

(* the last one out frees the room; what is invited is invited once *)
exit_room(s, c) ==
  LET r == s.room[c]
      left == [s EXCEPT !.room[c] = None, !.op = @ \ {c}, !.grant[c] = None, !.occ[r] = @ - 1]
  IN IF r = None THEN s
     ELSE IF left.occ[r] > 0 THEN [left EXCEPT !.invite[r] = @ \ {user[c]}]
     ELSE IF r # Main
     THEN [left EXCEPT !.rooms = @ \ {r}, !.locked = @ \ {r},
                       !.invite[r] = {}, !.ban[r] = {}]
     ELSE left

arrive_room(s, c, r) == [s EXCEPT !.room[c] = r, !.occ[r] = @ + 1]

MayEnter(s, c, r) ==
  \/ Sysop(c)
  \/ user[c] \notin s.ban[r] /\ (r \in s.locked => user[c] \in s.invite[r])

(* a room that is not there is made, and whoever made it is its op *)
enter_room(s, c, r) ==
  IF r \notin s.rooms
  THEN LET in == arrive_room(exit_room([s EXCEPT !.rooms = @ \cup {r}], c), c, r)
       IN [in EXCEPT !.op = @ \cup {c}, !.grant[c] = r]
  ELSE IF s.room[c] = r \/ ~MayEnter(s, c, r) THEN s
  ELSE arrive_room(exit_room(s, c), c, r)

-----------------------------------------------------------------------------
(* logout_user(c), with chat s before it: c is unlinked and freed *)

Freed(c) ==
  /\ list' = Without(list, {c})
  /\ user' = [user EXCEPT ![c] = None] /\ chatid' = [chatid EXCEPT ![c] = None]
  /\ old' = old \ {c}

logout_user(s, c) ==
  /\ Freed(c)
  /\ chat' = [s EXCEPT !.room[c] = None, !.op = @ \ {c}, !.grant[c] = None]
  /\ dead' = dead \ {c}
  /\ deadusers' = IF c \in dead THEN deadusers - 1 ELSE deadusers

(* the loop goes on with cunext *)
GoOn == pc' = "serve" /\ cur' = nxt /\ nxt' = None /\ lines' = 0

-----------------------------------------------------------------------------
(* commands of cu; each takes a line out of the buffer *)

Line == pc = "cmd" /\ cur \notin dead /\ lines > 0 /\ lines' = lines - 1
Command == Line /\ chat.room[cur] # None /\ UNCHANGED <<pc, cur, nxt, old, stray>>
Free(id) == \A c \in Conn \ dead : chatid[c] # id

(* login_user: the account is there and the chatid valid.  An id in use
   changes nothing. *)
login_user(u, id) ==
  /\ Line /\ chat.room[cur] = None
  /\ IF Free(id)
     THEN /\ user' = [user EXCEPT ![cur] = u] /\ chatid' = [chatid EXCEPT ![cur] = id]
          /\ chat' = arrive_room([chat EXCEPT !.op = @ \ {cur}, !.grant[cur] = None], cur, Main)
          /\ old' = old \ {cur}
     ELSE UNCHANGED <<user, chatid, chat, old>>
  /\ UNCHANGED <<list, dead, deadusers, pc, cur, nxt, stray>>

(* no such account, or anything but a login: the connection is closed *)
Rejected ==
  /\ Line /\ chat.room[cur] = None
  /\ logout_user(chat, cur)
  /\ pc' = "serve" /\ cur' = nxt /\ nxt' = None
  /\ UNCHANGED stray

Changes(s) == chat' = s /\ UNCHANGED <<conn, dead, deadusers>>

chat_join(r) ==
  /\ Command /\ ~Restricted(cur)
  /\ Changes(enter_room(chat, cur, r))

chat_goodbye == Command /\ Changes(exit_room(chat, cur))

chat_nick(id) ==
  /\ Command
  /\ \A c \in (Conn \ dead) \ {cur} : chatid[c] # id
  /\ chatid' = [chatid EXCEPT ![cur] = id]
  /\ UNCHANGED <<list, user, chat, dead, deadusers>>

(* the one that a chatid names, if it is in the room of cu *)
Here(x) == x \in Conn \ dead /\ chat.room[x] = chat.room[cur]

(* mutant: who is kicked out of the main room is logged out on the spot *)
kick_frees(x) ==
  /\ Line /\ chat.room[cur] # None /\ RoomOp(cur) /\ Here(x) /\ ~Sysop(x) /\ x # cur
  /\ IF chat.room[cur] = Main
     THEN logout_user(exit_room(chat, x), x)
     ELSE chat' = enter_room(exit_room(chat, x), x, Main)
          /\ UNCHANGED <<conn, dead, deadusers, old>>
  /\ UNCHANGED <<pc, cur, nxt, stray>>

(* out of the main room for good, out of another into the main room, which
   may refuse: then x is in no room *)
chat_kick(x) ==
  /\ Line /\ chat.room[cur] # None /\ RoomOp(cur) /\ Here(x) /\ ~Sysop(x)
  /\ IF chat.room[cur] = Main
     THEN /\ chat' = exit_room(chat, x)
          /\ dead' = dead \cup {x} /\ deadusers' = deadusers + 1
     ELSE /\ chat' = enter_room(exit_room(chat, x), x, Main)
          /\ UNCHANGED <<dead, deadusers>>
  /\ UNCHANGED <<conn, old, pc, cur, nxt, stray>>

(* a sysop who is cloaked is not found *)
chat_makeop(x) ==
  /\ Command /\ RoomOp(cur) /\ Here(x) /\ x # cur
  /\ Changes(IF x \in chat.op
             THEN [chat EXCEPT !.op = @ \ {x}, !.grant[x] = None]
             ELSE [chat EXCEPT !.op = @ \cup {x}, !.grant[x] = chat.room[cur]])

chat_invite(x) ==
  /\ Command /\ RoomOp(cur) /\ x \in Conn \ dead /\ user[x] \in Users \ Sysops
  /\ Changes([chat EXCEPT !.invite[chat.room[cur]] = @ \cup {user[x]}])

chat_ban(u) ==
  /\ Command /\ RoomOp(cur)
  /\ Changes([chat EXCEPT !.ban[chat.room[cur]] = @ \cup {u}])

chat_unban(u) ==
  /\ Command /\ RoomOp(cur)
  /\ Changes([chat EXCEPT !.ban[chat.room[cur]] = @ \ {u}])

(* of the flags only ROOM_LOCKED decides anything *)
chat_setroom ==
  /\ Command /\ RoomOp(cur)
  /\ LET r == chat.room[cur] IN
     Changes([chat EXCEPT !.locked = IF r \in @ THEN @ \ {r} ELSE @ \cup {r}])

-----------------------------------------------------------------------------
(* the main loop *)

Accept(c) ==
  /\ pc = "select" /\ c \notin Conn
  /\ list' = <<c>> \o list
  /\ pc' = "serve" /\ cur' = c
  /\ UNCHANGED <<user, chatid, chat, dead, deadusers, old, nxt, lines, stray>>

(* somebody is ready, and nobody new *)
Ready ==
  /\ pc = "select" /\ list # <<>>
  /\ pc' = "serve" /\ cur' = Head(list)
  /\ UNCHANGED <<conn, chat, dead, deadusers, old, nxt, lines, stray>>

(* mutant: the check is for connections without a room *)
ExpireIdle ==
  LET gone == {c \in old : chat.room[c] = None /\ user[c] # None} IN
  /\ pc = "select" /\ gone # {}
  /\ list' = Without(list, gone) /\ old' = old \ gone
  /\ UNCHANGED <<user, chatid, chat, dead, deadusers, loop, stray>>

(* connections that have not logged in in time *)
Expire ==
  LET gone == {c \in old : user[c] = None} IN
  /\ pc = "select" /\ gone # {}
  /\ list' = Without(list, gone) /\ old' = old \ gone
  /\ UNCHANGED <<user, chatid, chat, dead, deadusers, loop, stray>>

(* cu has nothing to say, or is dead *)
Skip ==
  /\ pc = "serve" /\ cur # None
  /\ cur' = After(cur)
  /\ UNCHANGED <<conn, chat, dead, deadusers, old, pc, nxt, lines, stray>>

(* select reports an exception: logout_user without exit_room *)
Exception ==
  /\ pc = "serve" /\ cur # None /\ cur \notin dead
  /\ LET r == chat.room[cur] IN
       /\ r # None => FoldFunction(+, 0, stray) < MaxOob
       /\ stray' = IF r = None THEN stray ELSE [stray EXCEPT ![r] = @ + 1]
  /\ logout_user(chat, cur)
  /\ cur' = After(cur)
  /\ UNCHANGED <<pc, nxt, lines>>

Receive ==
  /\ pc = "serve" /\ cur # None /\ cur \notin dead
  /\ pc' = "cmd" /\ nxt' = After(cur) /\ lines' = MaxLines
  /\ UNCHANGED <<conn, chat, dead, deadusers, old, cur, stray>>

(* mutant: the room is not told that the connection is lost *)
HangupSilently ==
  /\ pc = "serve" /\ cur # None /\ cur \notin dead
  /\ logout_user(chat, cur)
  /\ cur' = After(cur)
  /\ UNCHANGED <<pc, nxt, lines, stray>>

(* recv fails *)
Hangup ==
  /\ pc = "serve" /\ cur # None /\ cur \notin dead
  /\ logout_user(exit_room(chat, cur), cur)
  /\ cur' = After(cur)
  /\ UNCHANGED <<pc, nxt, lines, stray>>

(* the buffer is used up, perhaps in the middle of a line *)
Served ==
  /\ pc = "cmd" /\ cur \notin dead
  /\ GoOn
  /\ UNCHANGED <<conn, chat, dead, deadusers, old, stray>>

(* cu has kicked itself out *)
ServedDead ==
  /\ pc = "cmd" /\ cur \in dead
  /\ logout_user(chat, cur)
  /\ GoOn
  /\ UNCHANGED stray

AllServed ==
  /\ pc = "serve" /\ cur = None
  /\ pc' = "reap"
  /\ UNCHANGED <<conn, chat, dead, deadusers, old, cur, nxt, lines, stray>>

(* the users kicked out of the main room while serving *)
Reap ==
  /\ pc = "reap"
  /\ IF deadusers > 0 /\ dead # {}
     THEN /\ \E c \in dead : logout_user(chat, c)
          /\ UNCHANGED pc
     ELSE pc' = "select" /\ UNCHANGED <<conn, chat, dead, deadusers, old>>
  /\ UNCHANGED <<cur, nxt, lines, stray>>

(* CHAT_LOGIN_TIMEOUT passes *)
Age(c) ==
  /\ c \in Conn \ old /\ user[c] = None /\ old' = old \cup {c}
  /\ UNCHANGED <<conn, chat, dead, deadusers, loop, stray>>

-----------------------------------------------------------------------------
Serve ==
  \/ \E u \in Users, id \in ChatIds : login_user(u, id)
  \/ \E r \in Rooms : chat_join(r)
  \/ \E id \in ChatIds : chat_nick(id)
  \/ \E x \in Conns : chat_kick(x) \/ chat_makeop(x) \/ chat_invite(x)
  \/ \E u \in Users \ Sysops : chat_ban(u) \/ chat_unban(u)
  \/ chat_goodbye \/ chat_setroom \/ Rejected
MainLoop ==
  Expire \/ Skip \/ Exception \/ Receive \/ Hangup \/ Served \/ ServedDead
  \/ AllServed \/ Reap

Next ==
  \/ Serve \/ MainLoop \/ Ready
  \/ \E c \in Conns : Accept(c) \/ Age(c)

Spec == Init /\ [][Next]_vars

(* The process runs: it ends each turn of its loop, and time passes.  Nothing
   is assumed of those who are connected; they may never send anything. *)
Fairness ==
  /\ WF_vars(Served) /\ WF_vars(ServedDead) /\ WF_vars(Skip) /\ WF_vars(AllServed)
  /\ WF_vars(Reap) /\ SF_vars(Expire) /\ \A c \in Conns : WF_vars(Age(c))

FairSpec == Spec /\ Fairness

-----------------------------------------------------------------------------
(* Properties *)

(* Type invariant of the server. *)
TypeOK ==
  /\ list \in Seq(Conns)
  /\ user \in [Conns -> Users \cup {None}] /\ chatid \in [Conns -> ChatIds \cup {None}]
  /\ chat \in ChatType
  /\ dead \subseteq Conns /\ deadusers \in Nat /\ old \subseteq Conns
  /\ pc \in {"select", "serve", "cmd", "reap"}
  /\ {cur, nxt} \subseteq Conns \cup {None} /\ lines \in 0 .. MaxLines
  /\ stray \in [Rooms -> Nat]

In(r) == {c \in Conns : chat.room[c] = r}

(* No connection points to a room that was freed, and the rooms that are left
   have somebody in them: occupants is the number of connections in a room.
   The exception is select's exceptional condition, whose logout_user is not
   preceded by exit_room; each such exit leaves the count one too high, so
   that the room stays for good (exit_room, enter_room, chat_kick, main). *)
RoomsAgree ==
  \A r \in Rooms :
    /\ chat.occ[r] = Cardinality(In(r)) + stray[r]
    /\ r \in chat.rooms <=> (r = Main \/ chat.occ[r] > 0)

(* The two pointers of the loop are connections that were not freed: a
   command that throws out the connection served next, or the one that is
   being served, leaves both in the list ("leave freeing it to main()",
   chat_kick), and nobody is in a room without being in the list. *)
NoDangling ==
  /\ {cur, nxt} \subseteq Conn \cup {None}
  /\ \A c \in Conns \ Conn : chat.room[c] = None /\ c \notin dead

(* The counter that stops main's second loop is the number of the dead, so
   that it finds all of them and ends (chat_kick, logout_user). *)
DeadCounted == deadusers = Cardinality(dead)

(* Whoever holds the op flag got it in the room he is in: it is lost with
   every way out of a room, so that the maker of one room is nobody in the
   next (exit_room, enter_room, chat_makeop, login_user). *)
OpIsLocal == \A c \in chat.op : chat.grant[c] = chat.room[c]

(* Two connections never answer to the same chatid, also while one of them is
   in no room (chat_nick, login_user). *)
NickUnique ==
  \A c, d \in Conn \ dead : c # d /\ chatid[c] # None => chatid[c] # chatid[d]

(* An invitation is good for one visit: whoever has left a room is not on its
   list any more, whether he went to another room, said goodbye, was kicked
   or lost his connection, and the list of a room that is freed goes with it.
   Two ways out keep the invitation: select's exception, after which
   logout_user is not preceded by exit_room, and being the last one out of
   the main room, for whom exit_room does not look at the list. *)
InviteSpent ==
  \A c \in Conns :
    LET r == chat.room[c] IN
    r # None /\ chat'.room[c] # r /\ user[c] \in chat'.invite[r]
      => stray'[r] > stray[r] \/ (r = Main /\ chat'.occ[r] = 0)

(* Who is kicked out of the main room is disconnected before the loop serves
   anybody again. *)
KickedLeaves == pc = "select" => dead = {}

(* A connection on which nobody logs in does not stay. *)
UnnamedLeaves ==
  \A c \in Conns : (c \in Conn /\ user[c] = None) ~> (c \notin Conn \/ user[c] # None)

(* Rooms, connections and names say the same: who is where, how many are
   there, and who answers to which chatid. *)
ChattersAgree == TypeOK /\ RoomsAgree /\ NickUnique

(* Kicking is safe for the loop that is in the middle of its list: nothing it
   holds is freed, and all who were kicked are freed before the next turn. *)
KickIsSafe == NoDangling /\ DeadCounted /\ KickedLeaves

(* What a chatter was granted in a room ends with the visit: the op flag on
   every way out, the invitation on every way but an exception of select and
   being the last one out of the main room (see InviteSpent). *)
PrivilegesEnd == [][OpIsLocal' /\ InviteSpent]_vars
=============================================================================
