----------------------------- MODULE ChessBroker ----------------------------
(***************************************************************************)
(* The session broker of ipc.svc for talk and chess                        *)
(* (service/ipc/daemon/chess.go): the caller connects and sends CREATE,    *)
(* the callee, when it accepts, connects and sends JOIN, and the broker    *)
(* copies bytes between the two connections until one of them ends.        *)
(*                                                                         *)
(* One goroutine per connection, and one per game for the copying.  A      *)
(* section under s.mu is one step, and so is each write and close outside  *)
(* it.  A session is named by the connection of its caller.                *)
(***************************************************************************)
EXTENDS Integers, FiniteSets

CONSTANTS
  Callers, Callees,  \* connections that send CREATE and JOIN
  Keys,              \* caller:callee pairs
  MayLeave, MaySend, \* bounds: connections whose peer may leave, may send during a game
  Reading,           \* connections whose peer reads what it is sent
  None

ASSUME ChessAssumption == Callers \cap Callees = {} /\ None \notin Callers \cup Callees \cup Keys

Conns == Callers \cup Callees

VARIABLES
  pc,        \* the goroutine of each connection
  key,       \* the pair that it named
  sess,      \* JOIN: the session it found; a caller's own session is itself
  callee,    \* ChessSession.CalleeConn
  pending, active,  \* ChessServer
  joined,    \* sessions whose joinChan is closed
  closed,    \* connections the broker has closed
  gone,      \* connections whose peer has closed them
  told,      \* what was written to a connection before the copying
  proxy,     \* the goroutine of each game
  pipe,      \* of a game's two other goroutines, the one that reads a connection
  stop       \* Stop: "run", "sweep", "wait", "stopped"

local == <<key, sess, callee>>
table == <<pending, active>>
game  == <<proxy, pipe>>
brokerVars  == <<pc, key, sess, callee, pending, active, joined, closed, gone, told,
           game, stop>>

BrokerInit ==
  /\ pc = [c \in Conns |-> "none"] /\ key = [c \in Conns |-> None]
  /\ sess = [c \in Callees |-> None] /\ callee = [s \in Callers |-> None]
  /\ pending = [k \in Keys |-> None] /\ active = {}
  /\ joined = {} /\ closed = {} /\ gone = {}
  /\ told = [c \in Conns |-> {}]
  /\ proxy = [s \in Callers |-> "none"] /\ pipe = [c \in Conns |-> "none"]
  /\ stop = "run"

Proceed(c, at) == pc' = [pc EXCEPT ![c] = at]
Close(cs) == closed' = closed \cup cs
Tell(c, word) == told' = [told EXCEPT ![c] = @ \cup {word}]
Broken(c) == c \in closed \cup gone

-----------------------------------------------------------------------------
(* acceptLoop, and the command line *)

AcceptPlayer(c) ==
  /\ stop = "run" /\ pc[c] = "none"
  /\ Proceed(c, "read")
  /\ UNCHANGED <<local, table, joined, closed, gone, told, game, stop>>

(* on a connection that the broker has closed it makes no difference *)
PlayerLeaves(c) ==
  /\ c \in MayLeave /\ pc[c] # "none" /\ ~Broken(c)
  /\ gone' = gone \cup {c}
  /\ UNCHANGED <<pc, local, table, joined, closed, told, game, stop>>

(* no line before the end of the stream, or a line that is no command *)
NoCommand(c) ==
  /\ pc[c] = "read"
  /\ IF Broken(c) THEN UNCHANGED told ELSE Tell(c, "ERR")
  /\ Close({c}) /\ Proceed(c, "ended")
  /\ UNCHANGED <<local, table, joined, gone, game, stop>>

-----------------------------------------------------------------------------
(* CREATE: takes the place of an earlier session that nobody has joined *)

Create(c, k) ==
  /\ c \in Callers /\ pc[c] = "read" /\ ~Broken(c)
  /\ key' = [key EXCEPT ![c] = k]
  /\ Close({pending[k]} \ {None})
  /\ pending' = [pending EXCEPT ![k] = c]
  /\ Proceed(c, "ok")
  /\ UNCHANGED <<sess, callee, active, joined, gone, told, game, stop>>

Forget(c) ==
  pending' = [k \in Keys |-> IF k = key[c] /\ pending[k] = c THEN None ELSE pending[k]]

(* the OK is written, or fails and the session is withdrawn *)
CreateOk(c) ==
  /\ pc[c] = "ok"
  /\ IF Broken(c)
     THEN Proceed(c, "withdraw") /\ UNCHANGED told
     ELSE Tell(c, "OK") /\ Proceed(c, "wait")
  /\ UNCHANGED <<local, table, joined, closed, gone, game, stop>>

(* the select: a callee has joined ... *)
WaitJoined(c) ==
  /\ pc[c] = "wait" /\ c \in joined
  /\ Proceed(c, "ended")
  /\ UNCHANGED <<local, table, joined, closed, gone, told, game, stop>>

(* ... 15 seconds are over ... *)
WaitTimer(c) ==
  /\ pc[c] = "wait"
  /\ Proceed(c, "withdraw")
  /\ UNCHANGED <<local, table, joined, closed, gone, told, game, stop>>

(* ... or the server stops *)
WaitStopped(c) ==
  /\ pc[c] = "wait" /\ stop # "run"
  /\ Close({c}) /\ Proceed(c, "ended")
  /\ UNCHANGED <<local, table, joined, gone, told, game, stop>>

(* mutant: whatever session is pending under the key is dropped *)
WithdrawAny(c) ==
  /\ pc[c] = "withdraw"
  /\ pending' = [pending EXCEPT ![key[c]] = None]
  /\ Close({c}) /\ Proceed(c, "ended")
  /\ UNCHANGED <<local, active, joined, gone, told, game, stop>>

(* mutant: the session is dropped and the caller not told *)
WithdrawSilently(c) ==
  /\ pc[c] = "withdraw"
  /\ Forget(c)
  /\ Proceed(c, "ended")
  /\ UNCHANGED <<local, active, joined, closed, gone, told, game, stop>>

(* mutant: a session that was joined in the meantime is cleaned up as well *)
WithdrawJoined(c) ==
  /\ pc[c] = "withdraw"
  /\ Forget(c)
  /\ active' = active \ {c} /\ callee' = [callee EXCEPT ![c] = None]
  /\ Close({c}) /\ Proceed(c, "ended")
  /\ UNCHANGED <<key, sess, joined, gone, told, game, stop>>

(* after a timeout or a failed OK: forget the session if it is still the
   pending one, and close the connection in any case *)
Withdraw(c) ==
  /\ pc[c] = "withdraw"
  /\ Forget(c)
  /\ Close({c}) /\ Proceed(c, "ended")
  /\ UNCHANGED <<local, active, joined, gone, told, game, stop>>

-----------------------------------------------------------------------------
(* JOIN *)

JoinLeaving(c, k, left) ==
  /\ c \in Callees /\ pc[c] = "read" /\ ~Broken(c)
  /\ pending' = [pending EXCEPT ![k] = left]
  /\ sess' = [sess EXCEPT ![c] = pending[k]]
  /\ callee' = [callee EXCEPT ![pending[k]] = c]
  /\ active' = active \cup {pending[k]}
  /\ Proceed(c, "release")
  /\ UNCHANGED <<key, joined, closed, gone, told, game, stop>>

Join(c, k) == pending[k] # None /\ JoinLeaving(c, k, None)

JoinNothing(c, k) ==
  /\ c \in Callees /\ pc[c] = "read" /\ ~Broken(c) /\ pending[k] = None
  /\ Tell(c, "ERR") /\ Close({c}) /\ Proceed(c, "ended")
  /\ UNCHANGED <<local, table, joined, gone, game, stop>>

(* close(joinChan) *)
Release(c) ==
  /\ pc[c] = "release"
  /\ joined' = joined \cup {sess[c]}
  /\ Proceed(c, "ready")
  /\ UNCHANGED <<local, table, closed, gone, told, game, stop>>

(* READY to the caller; if it has gone the callee is turned away *)
Ready(c) ==
  /\ pc[c] = "ready"
  /\ IF Broken(sess[c])
     THEN /\ active' = active \ {sess[c]}
          /\ Tell(c, "ERR") /\ Close({c}) /\ Proceed(c, "ended")
     ELSE /\ Tell(sess[c], "READY") /\ Proceed(c, "callee")
          /\ UNCHANGED <<active, closed>>
  /\ UNCHANGED <<local, pending, joined, gone, game, stop>>

(* OK to the callee, and the copying starts; or it has gone *)
CalleeOk(c) ==
  /\ pc[c] = "callee"
  /\ Proceed(c, "ended")
  /\ IF Broken(c)
     THEN /\ active' = active \ {sess[c]}
          /\ Close({sess[c], c})
          /\ UNCHANGED <<told, game>>
     ELSE /\ Tell(c, "OK")
          /\ proxy' = [proxy EXCEPT ![sess[c]] = "copy"]
          /\ pipe' = [pipe EXCEPT ![sess[c]] = "read", ![c] = "read"]
          /\ UNCHANGED <<active, closed>>
  /\ UNCHANGED <<local, pending, joined, gone, stop>>

-----------------------------------------------------------------------------
(* proxySession: two pipes, each of which reads one player's connection and
   writes what it read to the other's *)

Players(s) == {s, callee[s]}
Partner(c) == IF c \in Callers THEN callee[c] ELSE sess[c]

(* the player sends something, and its pipe reads it (what it sends before it
   leaves counts as read before it leaves) *)
PipeRead(c) ==
  /\ c \in MaySend /\ pipe[c] = "read" /\ ~Broken(c)
  /\ pipe' = [pipe EXCEPT ![c] = "write"]
  /\ UNCHANGED <<pc, local, table, joined, closed, gone, told, proxy, stop>>

(* dst.Write returns when the partner has room for it, and there is no
   deadline: a partner that does not read may hold it up for ever *)
PipeWrite(c) ==
  /\ pipe[c] = "write" /\ ~Broken(Partner(c))
  /\ pipe' = [pipe EXCEPT ![c] = "read"]
  /\ UNCHANGED <<pc, local, table, joined, closed, gone, told, proxy, stop>>

(* Read or Write fails; the first pipe that ends closes both connections *)
CloseBoth(c) ==
  /\ \/ pipe[c] = "read" /\ Broken(c)
     \/ pipe[c] = "write" /\ Broken(Partner(c))
  /\ Close({c, Partner(c)})
  /\ pipe' = [pipe EXCEPT ![c] = "done"]
  /\ UNCHANGED <<pc, local, table, joined, gone, told, proxy, stop>>

(* wg.Wait: both pipes are over *)
ProxyEnds(s) ==
  /\ proxy[s] = "copy" /\ \A c \in Players(s) : pipe[c] = "done"
  /\ active' = active \ {s}
  /\ Close(Players(s))
  /\ proxy' = [proxy EXCEPT ![s] = "ended"]
  /\ UNCHANGED <<pc, local, pending, joined, gone, told, pipe, stop>>

-----------------------------------------------------------------------------
(* Stop *)

BrokerStops ==
  /\ stop = "run"
  /\ stop' = "sweep"
  /\ UNCHANGED <<pc, local, table, joined, closed, gone, told, game>>

Sweep ==
  /\ stop = "sweep"
  /\ Close(({pending[k] : k \in Keys} \cup UNION {Players(s) : s \in active}) \ {None})
  /\ pending' = [k \in Keys |-> None] /\ active' = {}
  /\ stop' = "wait"
  /\ UNCHANGED <<pc, local, joined, gone, told, game>>

BrokerStopped ==
  /\ stop = "wait"
  /\ \A c \in Conns : pc[c] \in {"none", "ended"}
  /\ \A s \in Callers : proxy[s] \in {"none", "ended"}
  /\ stop' = "stopped"
  /\ UNCHANGED <<pc, local, table, joined, closed, gone, told, game>>

-----------------------------------------------------------------------------
(* what goes on without the peers *)
Run(c) ==
  \/ Broken(c) /\ NoCommand(c)
  \/ CreateOk(c) \/ WaitJoined(c) \/ WaitTimer(c) \/ WaitStopped(c) \/ Withdraw(c)
  \/ Release(c) \/ Ready(c) \/ CalleeOk(c)
Pipe(c) == (Partner(c) \in Reading /\ PipeWrite(c)) \/ CloseBoth(c)
Command(c) ==
  \/ NoCommand(c)
  \/ \E k \in Keys : Create(c, k) \/ Join(c, k) \/ JoinNothing(c, k)

BrokerNext ==
  \/ \E c \in Conns : AcceptPlayer(c) \/ PlayerLeaves(c) \/ Command(c) \/ Run(c)
  \/ \E c \in Conns : PipeRead(c) \/ PipeWrite(c) \/ CloseBoth(c)
  \/ \E s \in Callers : ProxyEnds(s)
  \/ BrokerStops \/ Sweep \/ BrokerStopped

BrokerSpec == BrokerInit /\ [][BrokerNext]_brokerVars

(***************************************************************************)
(* The Go scheduler runs goroutines that can run, and timers expire.  A    *)
(* write to a player in Reading returns; nothing else is assumed of the    *)
(* peers, nor that Stop is called.                                         *)
(***************************************************************************)
BrokerFairness ==
  /\ \A c \in Conns : WF_brokerVars(Run(c))
  /\ \A c \in Conns : WF_brokerVars(Pipe(c))
  /\ \A s \in Callers : WF_brokerVars(ProxyEnds(s))

BrokerFairSpec == BrokerSpec /\ BrokerFairness

-----------------------------------------------------------------------------
(* Properties *)

(* Type invariant of the broker. *)
BrokerTypeOK ==
  /\ pc \in [Conns -> {"none", "read", "ok", "wait", "withdraw", "release",
                       "ready", "callee", "ended"}]
  /\ key \in [Conns -> Keys \cup {None}]
  /\ sess \in [Callees -> Callers \cup {None}]
  /\ callee \in [Callers -> Callees \cup {None}]
  /\ pending \in [Keys -> Callers \cup {None}] /\ active \subseteq Callers
  /\ joined \subseteq Callers /\ closed \subseteq Conns /\ gone \subseteq Conns
  /\ told \in [Conns -> SUBSET {"OK", "READY", "ERR"}]
  /\ proxy \in [Callers -> {"none", "copy", "ended"}]
  /\ pipe \in [Conns -> {"none", "read", "write", "done"}]
  /\ stop \in {"run", "sweep", "wait", "stopped"}

(* A caller that was told its session exists, that nobody has joined and that
   is still connected, is found by a JOIN: neither the timer of the session it
   replaced nor a failed write of another goroutine removes it. *)
Findable ==
  \A s \in Callers :
    stop = "run" /\ pc[s] = "wait" /\ callee[s] = None /\ s \notin closed
      => pending[key[s]] = s

(* active holds a session only while a JOIN or a proxy still works on it, and
   will take it out: the games that `GetStats` counts exist. *)
ActiveIsLive ==
  \A s \in active :
    \/ proxy[s] = "copy"
    \/ pc[callee[s]] \in {"release", "ready", "callee"}

(* At most one callee plays with a caller, and each side of a game that is
   being copied was told so: caller READY, callee OK and no error. *)
Paired ==
  /\ \A s \in Callers : proxy[s] # "none" =>
       "READY" \in told[s] /\ told[callee[s]] = {"OK"}
  /\ \A c, d \in Callees : sess[c] # None /\ sess[c] = sess[d] => c = d

(* A caller that was told OK hears READY, or its connection is closed, or it
   leaves: it is not left waiting. *)
CallerHears ==
  \A s \in Callers :
    ("OK" \in told[s]) ~> ("READY" \in told[s] \/ Broken(s))

(* When one player leaves a partner that reads what it is sent, the other
   one's connection is closed and the game is no longer counted.  (A partner
   that does not read can hold the leaver's pipe in dst.Write, and then nobody
   looks at the connection that has ended.) *)
LeaverEndsGame ==
  \A s \in Callers :
    (proxy[s] = "copy" /\ Players(s) \cap gone # {} /\ Players(s) \subseteq gone \cup Reading)
      ~> (s \notin active /\ Players(s) \subseteq closed)

(* the game of caller s in the terms of Matchmaker *)
GameStatus(s) ==
  CASE key[s] = None -> "idle"
    [] key[s] # None /\ callee[s] = None ->
         IF pending[key[s]] = s THEN "waiting" ELSE "over"
    [] OTHER ->
         CASE proxy[s] = "copy" -> "playing"
           [] pc[callee[s]] \in {"release", "ready", "callee"} -> "matched"
           [] OTHER -> "over"

Game == INSTANCE Matchmaker WITH
  status <- [s \in Callers |-> GameStatus(s)],
  pair <- [s \in Callers |-> key[s]],
  partner <- callee,
  left <- gone,
  stopping <- stop # "run"

(* The broker keeps the promises of Matchmaker: goroutines, tables and timers
   hide one game per caller that moves forward only, with one partner that
   never changes, one open offer to a pair, and an end to every wait
   that depends on players who read (handleConnection, proxySession, Stop). *)
PlaysByTheRules == Game!MSpec

(* The tables pending and active agree with the goroutines that work on them:
   who waits is found, what is counted is played, and games have two players
   that know of it. *)
TablesAgree == BrokerTypeOK /\ Findable /\ ActiveIsLive /\ Paired

(* Nobody is left alone on an open connection: neither a caller whose offer
   came to nothing nor, as long as it reads, a player whose partner has left. *)
NobodyLeftWaiting == CallerHears /\ LeaverEndsGame
=============================================================================
