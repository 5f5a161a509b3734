------------------------------- MODULE Logind -------------------------------
(***************************************************************************)
(* daemon/logind/logind.c: the daemon that accepts connections, asks for   *)
(* userid, password and second factor, asks activity.svc for a verdict and *)
(* hands the socket over to mbbsd through a tunnel.                        *)
(*                                                                         *)
(* The daemon is one libevent loop, so every callback is one action.  What *)
(* makes it hard is what happens between callbacks: a connection is known  *)
(* by the ADDRESS of its login_conn_ctx, in the acknowledgement queue, in  *)
(* the list of connections that wait for a verdict, in the timers and in   *)
(* the acknowledgements that mbbsd sends back, and the address is used     *)
(* again after free().  Every connection has a serial number here that the *)
(* program does not have.                                                  *)
(*                                                                         *)
(* Only the default g_async_ack = 1 is modelled.  Typing is one step per   *)
(* Enter, except that the digits of a code are in the buffer before it.    *)
(* Every callback that reads g_overload or g_banned has called reload_data *)
(* first, and the outcome depends on load, users and files: it is a choice *)
(* of the action and not kept.  Screens, encodings, statistics and the log *)
(* are left out.                                                           *)
(***************************************************************************)
EXTENDS Integers, Sequences, FiniteSets, FiniteSetsExt

CONSTANTS
  Addrs,                   \* addresses malloc() may return
  Null,                    \* the null pointer; no connection, no user
  MaxConns,                \* bound: connections accepted
  MaxTunnels,              \* bound: tunnels that mbbsd opens
  MaxTotal,                \* bound: connections and tunnels together
  Ips,                     \* client addresses
  Userids,                 \* what may be typed at the userid prompt
  Account,                 \* kind of account of each of them
  LastHost,                \* userec_t.lasthost of each of them
  Home,                    \* first slot that a client address hashes to
  LOGINATTEMPTS,           \* include/config.h:468
  LOGIND_ACKQUEUE_BOUND,   \* logind.c:64
  ACTIVITY_TARPIT_SLOTS,   \* logind.c:1511
  ACTIVITY_TARPIT_PER_IP,  \* include/activity.h:69
  ACTIVITY_TARPIT_MAX      \* include/activity.h:70

AccountKinds == {"free", "guest", "empty", "invalid", "nobody", "plain", "2fa", "newip"}
Slots == 0 .. ACTIVITY_TARPIT_SLOTS - 1
Tunnels == 1 .. MaxTunnels

(* login_conn_ctx and the login_ctx in it; totp: there are digits of a code in
   the buffer.  Not in the program: the serial number of the connection, what was
   verified on it, and failed attempts *)
Conns ==
  [id : 1 .. MaxConns, ip : Ips \cup {Null}, state : {"CONNDATA", "TERMINAL", "TUNNEL"},
   st : {"INIT", "USERID", "PASSWD", "2FA", "AUTH", "WAITACK", "ACTIVITY_WAIT"},
   ev : {"client", "verdict", "end"}, user : Userids \cup {Null},
   retry : 0 .. LOGINATTEMPTS, reqid : Nat, tarpit : BOOLEAN, totp : BOOLEAN,
   known : SUBSET {"passwd", "code"}, fails : Nat]

ASSUME LogindAssumption ==
  /\ Null \notin Addrs /\ Null \notin Userids /\ Null \notin Ips /\ Null \notin Conns
  /\ MaxConns \in Nat /\ MaxTunnels \in Nat /\ ACTIVITY_TARPIT_SLOTS \in Nat
  /\ ACTIVITY_TARPIT_PER_IP \in Nat /\ ACTIVITY_TARPIT_MAX \in Nat
  /\ Account \in [Userids -> AccountKinds]
  /\ LastHost \in [Userids -> Ips]
  /\ Home \in [Ips -> Slots]
  /\ LOGINATTEMPTS \in Nat \ {0}
  /\ LOGIND_ACKQUEUE_BOUND \in Nat

VARIABLES
  conn,       \* Addrs -> login_conn_ctx, or Null where the memory is free
  ackq,       \* g_ack_queue: the array up to size, and the count reuse
  waiting,    \* g_activity_waiting, the first element first
  tarpit,     \* g_activity_tarpit and g_activity_tarpit_total
  g_tunnel,   \* the tunnel in use, 0 for none
  watched,    \* the tunnel that ev_ack was last added for, 0 for none
  reqid,      \* the number of the last request to activity.svc
  tunnels,    \* tunnels opened so far
  open,       \* tunnels whose descriptor logind has open
  up,         \* tunnels whose mbbsd is alive
  inflight,   \* Tunnels -> handed over and not acknowledged yet, in order
  asked,      \* requests that activity.svc has not answered
  serial,     \* connections accepted so far
  dropped     \* ghost: retry_service has dropped a tunnel

svc  == <<asked, reqid>>
tun  == <<g_tunnel, watched, open, up, inflight, tunnels, dropped>>
vars == <<conn, ackq, waiting, tarpit, svc, tun, serial>>

Live(a)  == conn[a] # Null
LiveSet  == {a \in Addrs : Live(a)}
Set(a, c) == conn' = [conn EXCEPT ![a] = c]

-----------------------------------------------------------------------------
(* ackq_add, ackq_del, ackq_gc: an array with holes *)
ackq_gc(Q) == IF Q.reuse = Len(Q.queue) THEN [queue |-> <<>>, reuse |-> 0] ELSE Q
ackq_size == Len(ackq.queue) - ackq.reuse

ackq_add(Q, a) ==
  IF Q.reuse > 0
  THEN LET i == CHOOSE i \in 1 .. Len(Q.queue) :
                  Q.queue[i] = Null /\ \A j \in 1 .. i - 1 : Q.queue[j] # Null
       IN ackq_gc([queue |-> [Q.queue EXCEPT ![i] = a], reuse |-> Q.reuse - 1])
  ELSE ackq_gc([queue |-> Append(Q.queue, a), reuse |-> Q.reuse])

InQueue(Q, a) == \E i \in 1 .. Len(Q.queue) : Q.queue[i] = a

(* as a bug would have it: the last element leaves a hole as the others do,
   and the array shrinks as well *)
ackq_delBoth(Q, a) ==
  LET i == CHOOSE i \in 1 .. Len(Q.queue) : Q.queue[i] = a
      n == Len(Q.queue)
  IN IF ~InQueue(Q, a) THEN Q
     ELSE ackq_gc([queue |-> IF i = n THEN SubSeq(Q.queue, 1, n - 1)
                                      ELSE [Q.queue EXCEPT ![i] = Null],
                   reuse |-> Q.reuse + 1])

ackq_del(Q, a) ==
  LET i == CHOOSE i \in 1 .. Len(Q.queue) :
             Q.queue[i] = a /\ \A j \in 1 .. i - 1 : Q.queue[j] # a
      n == Len(Q.queue)
  IN IF ~InQueue(Q, a) THEN Q
     ELSE IF i = n THEN ackq_gc([queue |-> SubSeq(Q.queue, 1, n - 1), reuse |-> Q.reuse])
     ELSE ackq_gc([queue |-> [Q.queue EXCEPT ![i] = Null], reuse |-> Q.reuse + 1])

-----------------------------------------------------------------------------
(* activity_tarpit_slot_of: open addressing; a slot whose count is 0 may be
   taken over by another address *)
Probe(ip, i) == (Home[ip] + i) % ACTIVITY_TARPIT_SLOTS
Probes == 0 .. ACTIVITY_TARPIT_SLOTS - 1

(* the probes made before the first empty slot, or all of them *)
Probed(T, ip) == {i \in Probes : \A j \in 0 .. i - 1 : T[Probe(ip, j)].ip # Null}
Found(T, ip)  == {Probe(ip, i) : i \in {i \in Probed(T, ip) : T[Probe(ip, i)].ip = ip}}
Reusable(T, ip) == {i \in Probed(T, ip) : T[Probe(ip, i)].n = 0}

slot_of(T, ip) ==
  IF Found(T, ip) # {} THEN CHOOSE s \in Found(T, ip) : TRUE
  ELSE IF Reusable(T, ip) = {} THEN Null ELSE Probe(ip, Min(Reusable(T, ip)))

(* the count of the slot as slot_of(.., create) returns it *)
CountOf(T, ip) == IF Found(T, ip) = {} THEN 0 ELSE T[slot_of(T, ip)].n

(* activity_tarpit_acquire *)
MayHold(ip) ==
  /\ tarpit.total < ACTIVITY_TARPIT_MAX
  /\ slot_of(tarpit.slot, ip) # Null
  /\ CountOf(tarpit.slot, ip) < ACTIVITY_TARPIT_PER_IP

Acquire(T, ip) ==
  [slot |-> [T.slot EXCEPT ![slot_of(T.slot, ip)] =
               [ip |-> ip, n |-> CountOf(T.slot, ip) + 1]],
   total |-> T.total + 1]

(* activity_tarpit_release *)
Release(T, c) ==
  IF ~c.tarpit THEN T
  ELSE [slot  |-> [s \in Slots |-> IF s \in Found(T.slot, c.ip) /\ T.slot[s].n > 0
                                   THEN [T.slot[s] EXCEPT !.n = @ - 1] ELSE T.slot[s]],
        total |-> T.total - 1]

-----------------------------------------------------------------------------
(* login_ctx_init and the rest of a fresh login_conn_ctx *)
NewConn(ip, kind) ==
  [id |-> serial + 1, ip |-> ip, state |-> kind, st |-> "INIT", ev |-> "client",
   user |-> Null, retry |-> 0, reqid |-> 0, tarpit |-> FALSE, totp |-> FALSE,
   known |-> {}, fails |-> 0]

(* login_conn_remove with a delay: only the timer of endconn_cb is left, and
   what is forgotten here is not looked at again *)
Ending(c) == [c EXCEPT !.ev = "end", !.st = "AUTH", !.ip = Null, !.user = Null,
                       !.known = {}, !.retry = 0, !.fails = 0, !.totp = FALSE]

(* a connection is taken off g_activity_waiting, if it is on it *)
activity_waiting_del(list, a) ==
  LET n == Len(list)
      i == CHOOSE i \in 1 .. n : list[i] = a
  IN IF \A k \in 1 .. n : list[k] # a THEN list
     ELSE [j \in 1 .. n - 1 |-> IF j < i THEN list[j] ELSE list[j + 1]]

(* endconn_cb *)
endconn(a) ==
  /\ ackq' = IF conn[a].st = "WAITACK" THEN ackq_del(ackq, a) ELSE ackq
  /\ waiting' = IF conn[a].st = "ACTIVITY_WAIT"
                THEN activity_waiting_del(waiting, a) ELSE waiting
  /\ tarpit' = Release(tarpit, conn[a])
  /\ Set(a, Null)

(* login_ctx_retry *)
Retry(c) == [c EXCEPT !.st = "USERID", !.user = Null, !.known = {}, !.totp = FALSE,
                      !.retry = @ + 1]

(* auth_fail; AUTH_RESULT_STOP has its caller remove the connection later *)
auth_fail(c) ==
  LET r == [Retry(c) EXCEPT !.fails = @ + 1]
  IN IF r.retry >= LOGINATTEMPTS THEN Ending(r) ELSE r

(* the branch for AUTH_RESULT_FAIL_2FA of auth_start *)
fail_2fa(c) ==
  LET r == [c EXCEPT !.retry = @ + 1, !.fails = @ + 1, !.st = "2FA", !.totp = FALSE]
  IN IF r.retry >= LOGINATTEMPTS THEN Ending(r) ELSE r

(* what is in the buffers is taken for a code, not for a password *)
ByCode(c) == c.st = "2FA" \/ c.totp

(* as a bug would have it: U_2FA_NEWIP does not look at the address *)
auth_user_challengeAnyHost(c, right) ==
  IF Account[c.user] = "newip" /\ right THEN "OK"
  ELSE LET kind == Account[c.user]
  IN IF kind \in {"free", "guest"} THEN "FREEID"
     ELSE IF kind \in {"empty", "invalid"} THEN "INVALID_ID"
     ELSE IF kind = "nobody" THEN "FAIL"
     ELSE IF ByCode(c) THEN (IF right THEN "OK" ELSE "FAIL_2FA")
     ELSE IF ~right THEN "FAIL"
     ELSE IF kind = "2fa" THEN "NEED_2FA" ELSE "OK"

(* auth_user_challenge: what typing a password or a code leads to.  An account
   whose 2FA credential is missing is healed to a plain one, and is one here *)
auth_user_challenge(c, right) ==
  LET kind == Account[c.user]
  IN IF kind \in {"free", "guest"} THEN "FREEID"
     ELSE IF kind \in {"empty", "invalid"} THEN "INVALID_ID"
     ELSE IF kind = "nobody" THEN "FAIL"
     ELSE IF ByCode(c) THEN (IF right THEN "OK" ELSE "FAIL_2FA")
     ELSE IF ~right THEN "FAIL"
     ELSE IF kind = "2fa" \/ (kind = "newip" /\ LastHost[c.user] # c.ip) THEN "NEED_2FA"
     ELSE "OK"

(* what auth_user_challenge leaves: no code; ghost: what has been verified for
   the userid of this connection *)
Verified(c, right) ==
  [c EXCEPT !.totp = FALSE,
            !.known = IF right THEN @ \cup {IF ByCode(c) THEN "code" ELSE "passwd"} ELSE @]

(* start_service, login_conn_end_ack, and retry_service when it failed, which
   it may although mbbsd is alive *)
auth_finish(a, c) ==
  \/ /\ g_tunnel \in up
     /\ Set(a, [Ending(c) EXCEPT !.state = "TUNNEL", !.st = "WAITACK",
                                 !.ip = c.ip, !.user = c.user, !.known = c.known])
     /\ ackq' = ackq_add(ackq, a)
     /\ inflight' = [inflight EXCEPT ![g_tunnel] = Append(@, a)]
     /\ UNCHANGED <<g_tunnel, watched, open, up, tunnels, dropped>>
  \/ /\ Set(a, Ending(c))
     /\ g_tunnel' = 0
     /\ dropped' = (dropped \/ g_tunnel # 0)
     /\ UNCHANGED <<ackq, watched, open, up, inflight, tunnels>>

(* is_tunnel_available, as far as it depends on the queue, and the other
   reasons of is_activity_check_paused *)
Available == ackq_size <= LOGIND_ACKQUEUE_BOUND
Paused    == g_tunnel = 0 \/ ~Available

(* activity_start_query *)
activity_start_query(a, c) ==
  /\ reqid' = reqid + 1
  /\ asked' = asked \cup {[reqid |-> reqid + 1, id |-> c.id]}
  /\ waiting' = <<a>> \o waiting
  /\ Set(a, [c EXCEPT !.st = "ACTIVITY_WAIT", !.reqid = reqid + 1, !.ev = "verdict",
                      !.retry = 0, !.fails = 0])
  /\ UNCHANGED <<ackq, tun>>

(* auth_start for an authenticated or a free userid: turned away because of the
   load, the send buffer of the tunnel or the queue; waiting for a verdict; or
   handed over, without one for a free userid and when activity.svc cannot be
   asked *)
Admit(a, c, isfree) ==
  \/ Set(a, Ending(c)) /\ UNCHANGED <<ackq, waiting, svc, tun>>
  \/ Available /\ ~isfree /\ ~Paused /\ activity_start_query(a, c)
  \/ Available /\ auth_finish(a, c) /\ UNCHANGED <<waiting, svc>>

(* auth_start *)
auth_start(a, c, right) ==
  LET result == auth_user_challenge(c, right)
      v      == Verified(c, right)
      Becomes(r) == /\ Set(a, r)
                    /\ UNCHANGED <<ackq, waiting, svc, tun>>
  IN \/ result = "NEED_2FA" /\ Becomes([v EXCEPT !.st = "2FA"])
     \/ result = "FAIL_2FA" /\ Becomes(fail_2fa(c))
     \/ result \in {"INVALID_ID", "FAIL"} /\ Becomes(auth_fail(c))
     \/ result = "FREEID" /\ Account[c.user] = "guest" /\ Becomes(Ending(c))
     \/ result = "FREEID" /\ Account[c.user] = "free" /\ Admit(a, c, TRUE)
     \/ result = "OK" /\ Admit(a, v, FALSE)

-----------------------------------------------------------------------------
(* login_ctx_activate: the BAN file or a shutdown, a banned address, overload;
   or the userid prompt *)
Activated(c) == {Ending(c), c}

(* listen_cb *)
Accept(a) ==
  /\ serial < MaxConns /\ serial + tunnels < MaxTotal /\ ~Live(a)
  /\ serial' = serial + 1
  /\ \/ \E ip \in Ips : \E r \in Activated(NewConn(ip, "TERMINAL")) : Set(a, r)
     \/ Set(a, NewConn(Null, "CONNDATA"))
  /\ UNCHANGED <<ackq, waiting, tarpit, svc, tun>>

(* login_conn_handle_conndata: the record of the proxy is complete; a bad one
   ends the connection at once *)
ConnData(a) ==
  /\ Live(a) /\ conn[a].ev = "client" /\ conn[a].state = "CONNDATA"
  /\ \/ endconn(a)
     \/ /\ \E ip \in Ips :
             \E r \in Activated([conn[a] EXCEPT !.ip = ip, !.state = "TERMINAL"]) : Set(a, r)
        /\ UNCHANGED <<ackq, waiting, tarpit>>
  /\ UNCHANGED <<svc, tun, serial>>

(* reject_if_system_banned says that there is a ban: the connection is held
   for a minute *)
Banned(a, c) ==
  /\ Set(a, Ending(c))
  /\ UNCHANGED <<ackq, waiting, svc, tun>>

Typing(a, st) ==
  /\ Live(a) /\ conn[a].ev = "client" /\ conn[a].state = "TERMINAL"
  /\ conn[a].st \in st

(* LOGIN_HANDLE_START_AUTH *)
StartAuth(a, c, right) ==
  Banned(a, c) \/ auth_start(a, c, right)

(* LOGIN_HANDLE_PROMPT_PASSWD: free userids and an empty one go on without a
   password *)
EnterUserid(a, u) ==
  LET c == [conn[a] EXCEPT !.user = u, !.st = "PASSWD"]
  IN /\ Typing(a, {"INIT", "USERID"})
     /\ \/ Banned(a, c)
        \/ /\ Account[u] \notin {"free", "guest", "empty"}
           /\ Set(a, c)
           /\ UNCHANGED <<ackq, waiting, svc, tun>>
        \/ /\ Account[u] \in {"free", "guest", "empty"}
           /\ StartAuth(a, [c EXCEPT !.st = "AUTH"], FALSE)
     /\ UNCHANGED <<tarpit, serial>>

(* Enter at the password prompt *)
EnterPasswd(a, right) ==
  /\ Typing(a, {"PASSWD"})
  /\ StartAuth(a, [conn[a] EXCEPT !.st = "AUTH"], right)
  /\ UNCHANGED <<tarpit, serial>>

(* a digit of the code is typed, or one is erased *)
TypeCode(a) ==
  /\ Typing(a, {"2FA"})
  /\ \E digits \in BOOLEAN : Set(a, [conn[a] EXCEPT !.totp = digits])
  /\ UNCHANGED <<ackq, waiting, tarpit, svc, tun, serial>>

(* Enter after a code, which auth_user_challenge tells from a password by the
   code being there *)
EnterCode(a, right) ==
  /\ Typing(a, {"2FA"}) /\ conn[a].totp
  /\ StartAuth(a, [conn[a] EXCEPT !.st = "AUTH"], right)
  /\ UNCHANGED <<tarpit, serial>>

(* LOGIN_HANDLE_CANCEL_2FA: Enter without a code *)
CancelCode(a) ==
  /\ Typing(a, {"2FA"}) /\ ~conn[a].totp
  /\ Set(a, auth_fail(conn[a]))
  /\ UNCHANGED <<ackq, waiting, tarpit, svc, tun, serial>>

(* client_cb: the client has closed the connection; endconn_cb_buffer: writing
   to it failed, in whatever state it is *)
Lost(a) ==
  /\ Live(a) /\ endconn(a)
  /\ UNCHANGED <<svc, tun, serial>>

-----------------------------------------------------------------------------
(* activity_resume *)
Hold(a, c, hold) ==
  IF hold /\ MayHold(c.ip)
  THEN tarpit' = Acquire(tarpit, c.ip) /\ Set(a, [Ending(c) EXCEPT !.tarpit = TRUE, !.ip = c.ip])
  ELSE Set(a, Ending(c)) /\ UNCHANGED tarpit

activity_resume(a, deny) ==
  LET c == [conn[a] EXCEPT !.st = "AUTH", !.reqid = 0]
  IN /\ waiting' = activity_waiting_del(waiting, a)
     /\ \/ /\ deny
           /\ \E hold \in BOOLEAN : Hold(a, c, hold)
           /\ UNCHANGED <<ackq, tun>>
        \/ /\ ~deny
           /\ auth_finish(a, c)
           /\ UNCHANGED tarpit

(* as a bug would have it: any waiting connection *)
AskerAny(q) == {a \in Addrs : \E i \in 1 .. Len(waiting) : waiting[i] = a}

(* activity_verdict: the connection is looked up by the request; an answer
   that nobody waits for is dropped *)
Asker(q) == {a \in Addrs : Live(a) /\ \E i \in 1 .. Len(waiting) :
                             waiting[i] = a /\ conn[a].reqid = q.reqid}

Verdict(q, deny) ==
  /\ asked' = asked \ {q}
  /\ \/ Asker(q) = {} /\ UNCHANGED <<conn, ackq, waiting, tarpit, tun>>
     \/ \E a \in Asker(q) : activity_resume(a, deny)
  /\ UNCHANGED <<reqid, serial>>

(* as a bug would have it: no timer is set while a verdict is awaited *)
TimeoutNoVerdict(a) ==
  /\ Live(a) /\ conn[a].ev \in {"client", "end"}
  /\ endconn(a)
  /\ UNCHANGED <<svc, tun, serial>>

(* the timer of a connection: client_cb with EV_TIMEOUT, activity_timeout_cb
   (no verdict in time: accept) or endconn_cb *)
Timeout(a) ==
  /\ Live(a)
  /\ \/ conn[a].ev \in {"client", "end"} /\ endconn(a) /\ UNCHANGED tun
     \/ conn[a].ev = "verdict" /\ activity_resume(a, FALSE)
  /\ UNCHANGED <<svc, serial>>

-----------------------------------------------------------------------------
(* stop_g_tunnel: what ev_ack is added for afterwards *)
StopWatching == IF g_tunnel = 0 THEN watched ELSE 0

(* tunnel_cb: mbbsd connects, and a tunnel in use is closed with the
   acknowledgements in it.  ev_ack may still be added for a tunnel that
   retry_service dropped and ack_cb then closed; event_set() on it spoils
   libevent's table, and the new tunnel is not watched if it happens to get
   the same descriptor *)
NewTunnel ==
  LET t == tunnels + 1
  IN /\ tunnels < MaxTunnels /\ serial + tunnels < MaxTotal
     /\ tunnels' = t /\ g_tunnel' = t
     /\ open' = (open \ {g_tunnel}) \cup {t}
     /\ up' = (up \ {g_tunnel}) \cup {t}
     /\ inflight' = [s \in Tunnels |-> IF s = g_tunnel THEN <<>> ELSE inflight[s]]
     /\ watched' \in IF StopWatching \in (open \ {g_tunnel}) \cup {0} THEN {t} ELSE {0, t}
  /\ UNCHANGED <<conn, ackq, waiting, tarpit, svc, serial, dropped>>

(* mbbsd dies, and what it has not read is lost *)
MbbsdDies(t) ==
  /\ t \in up
  /\ up' = up \ {t}
  /\ \E n \in 0 .. Len(inflight[t]) : inflight' = [inflight EXCEPT ![t] = SubSeq(@, 1, n)]
  /\ UNCHANGED <<conn, ackq, waiting, tarpit, svc, serial,
                 g_tunnel, watched, open, tunnels, dropped>>

(* ack_cb: mbbsd has taken over the oldest connection that it was handed.
   Whatever waits in the queue at that address is ended *)
Ack ==
  LET t == watched
  IN /\ t \in open /\ inflight[t] # <<>>
     /\ inflight' = [inflight EXCEPT ![t] = Tail(@)]
     /\ LET a == Head(inflight[t])
        IN \/ ~InQueue(ackq, a) /\ UNCHANGED <<conn, ackq, tarpit>>
           \/ /\ InQueue(ackq, a)
              /\ ackq' = ackq_del(ackq, a)
              /\ tarpit' = Release(tarpit, conn[a])
              /\ Set(a, Null)
     /\ UNCHANGED <<waiting, svc, serial,
                    g_tunnel, watched, open, up, tunnels, dropped>>

(* get_tunnel_ack finds the tunnel closed: stop_tunnel *)
TunnelEof ==
  /\ watched \in open \ up /\ inflight[watched] = <<>>
  /\ open' = open \ {watched}
  /\ IF watched = g_tunnel THEN g_tunnel' = 0 /\ watched' = 0
                           ELSE UNCHANGED <<g_tunnel, watched>>
  /\ UNCHANGED <<conn, ackq, waiting, tarpit, svc, serial,
                 up, inflight, tunnels, dropped>>

-----------------------------------------------------------------------------
Init ==
  /\ conn = [a \in Addrs |-> Null]
  /\ ackq = [queue |-> <<>>, reuse |-> 0] /\ waiting = <<>>
  /\ tarpit = [slot |-> [s \in Slots |-> [ip |-> Null, n |-> 0]], total |-> 0]
  /\ g_tunnel = 0 /\ watched = 0 /\ open = {} /\ up = {} /\ tunnels = 0
  /\ inflight = [t \in Tunnels |-> <<>>]
  /\ reqid = 0 /\ asked = {} /\ serial = 0 /\ dropped = FALSE

Next ==
  \/ \E a \in Addrs :
       \/ Accept(a) \/ ConnData(a) \/ TypeCode(a) \/ CancelCode(a) \/ Lost(a) \/ Timeout(a)
       \/ \E u \in Userids : EnterUserid(a, u)
       \/ \E right \in BOOLEAN : EnterPasswd(a, right) \/ EnterCode(a, right)
  \/ \E q \in asked, deny \in BOOLEAN : Verdict(q, deny)
  \/ NewTunnel \/ Ack \/ TunnelEof
  \/ \E t \in Tunnels : MbbsdDies(t)

Spec == Init /\ [][Next]_vars

(* The event loop runs and the clock goes on, so a timer that is set once goes
   off in the end: that of a connection that waits for a verdict or for its end.
   The idle timer of a client starts again with every byte (EV_PERSIST), and so
   need not.  Nothing is assumed of clients, mbbsd and activity.svc *)
FairSpec ==
  Spec /\ \A a \in Addrs : WF_vars(Live(a) /\ conn[a].ev # "client" /\ Timeout(a))

-----------------------------------------------------------------------------
(* Type invariant; the counts of the tarpit stay within its limits *)
TypeOK ==
  /\ conn \in [Addrs -> Conns \cup {Null}]
  /\ ackq.queue \in Seq(Addrs \cup {Null}) /\ ackq.reuse \in Nat
  /\ waiting \in Seq(Addrs)
  /\ tarpit.slot \in [Slots -> [ip : Ips \cup {Null}, n : 0 .. ACTIVITY_TARPIT_PER_IP]]
  /\ tarpit.total \in 0 .. ACTIVITY_TARPIT_MAX
  /\ g_tunnel \in Tunnels \cup {0} /\ watched \in Tunnels \cup {0}
  /\ open \subseteq Tunnels /\ up \subseteq Tunnels
  /\ asked \subseteq [reqid : Nat, id : 1 .. MaxConns]

(* The pointers kept between callbacks are those of the connections in the
   state that goes with them, each once: g_ack_queue holds the connections in
   WAITACK and reuse counts its holes, g_activity_waiting holds the ones in
   ACTIVITY_WAIT.  Anything else is memory that was freed, or a connection that
   no acknowledgement or verdict finds *)
PointersLive ==
  /\ \A a \in Addrs :
       Cardinality({i \in 1 .. Len(ackq.queue) : ackq.queue[i] = a})
         = IF Live(a) /\ conn[a].st = "WAITACK" THEN 1 ELSE 0
  /\ ackq.reuse = Cardinality({i \in 1 .. Len(ackq.queue) : ackq.queue[i] = Null})
  /\ \A a \in Addrs :
       Cardinality({i \in 1 .. Len(waiting) : waiting[i] = a})
         = IF Live(a) /\ conn[a].st = "ACTIVITY_WAIT" THEN 1 ELSE 0

(* what the account of a user demands of somebody at this address *)
Demands(u, ip) ==
  CASE Account[u] \in {"free", "guest"} -> {}
    [] Account[u] = "2fa" \/ (Account[u] = "newip" /\ LastHost[u] # ip) -> {"passwd", "code"}
    [] OTHER -> {"passwd"}

(* mbbsd, which asks for no password, is only handed connections on which this
   user's password and, where the account wants it, code were verified after
   the userid was typed *)
HandedIsVerified ==
  \A a \in LiveSet :
    conn[a].state = "TUNNEL" =>
      conn[a].user \in Userids /\ Demands(conn[a].user, conn[a].ip) \subseteq conn[a].known

(* Wrong passwords, wrong codes, given-up codes and bad userids all count: a
   connection on which LOGINATTEMPTS of them were made takes no more input *)
AttemptsBounded ==
  \A a \in LiveSet : conn[a].ev = "client" => conn[a].fails < LOGINATTEMPTS

(* The tarpit counts are those of the connections that are held, in total and
   per client address, although addresses share slots and take over each
   other's: neither can a limit be passed nor a count be left behind that keeps
   later connections out *)
TarpitExact ==
  LET Held(ip) == Cardinality({a \in LiveSet : conn[a].tarpit /\ conn[a].ip = ip})
  IN /\ tarpit.total = Cardinality({a \in LiveSet : conn[a].tarpit})
     /\ \A ip \in Ips : CountOf(tarpit.slot, ip) = Held(ip)
     /\ \A ip \in Ips : Held(ip) <= ACTIVITY_TARPIT_PER_IP

(* An acknowledgement ends only connections that were handed over: one that
   comes after its connection was freed may hit another connection at the same
   address (the FIXME of ack_cb), but never one whose user is still typing *)
AckEndsHanded ==
  [][\A a \in LiveSet :
       inflight' # inflight /\ conn'[a] = Null => conn[a].state = "TUNNEL"]_vars

(* A verdict decides the login that it was asked for, however late it comes and
   whoever uses the memory of that login by then *)
VerdictFindsItsLogin ==
  [][\A q \in asked, a \in Addrs :
       q \notin asked' /\ conn'[a] # conn[a] => Live(a) /\ conn[a].id = q.id]_vars

(* Acknowledgements are read from the tunnel that connections are handed to,
   unless a hand-over has failed and retry_service has dropped its tunnel *)
TunnelWatched == watched # g_tunnel => dropped

(* A connection that has left the prompts ends: whether it waits for a verdict,
   for mbbsd or for its end, and whatever its client, mbbsd and activity.svc do or
   fail to do, some timer is set that leads to its end and gives the memory and
   the descriptor back.  One that goes on typing at the prompts need not end *)
Ends == \A a \in Addrs : (Live(a) /\ conn[a].ev # "client") ~> ~Live(a)

(* The books of the daemon are those of the connections it has: both lists of
   pointers, the tarpit and the tunnel that is watched. *)
BooksAgree == TypeOK /\ PointersLive /\ TarpitExact /\ TunnelWatched

(* Nobody gets past the login without what the account demands, nor more tries
   at it than LOGINATTEMPTS. *)
LoginIsEarned == HandedIsVerified /\ AttemptsBounded

(* What arrives late, a verdict or an acknowledgement, does no harm to a login
   that has nothing to do with it, although the memory is used again. *)
LateAnswersHarmless == AckEndsHanded /\ VerdictFindsItsLogin
=============================================================================
