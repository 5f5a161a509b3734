----------------------------- MODULE Matchmaker -----------------------------
(***************************************************************************)
(* What the session broker of service/ipc/daemon/chess.go promises, without *)
(* connections, goroutines and tables.  A caller offers a game to a pair;   *)
(* the offer is taken by one callee, replaced by a newer one, or given up;  *)
(* the game that was agreed begins or is called off, and ends.  ChessBroker *)
(* implements it.                                                           *)
(***************************************************************************)
EXTENDS Integers

CONSTANTS Callers, Callees, Keys, Reading, None

VARIABLES
  status,    \* of each caller's game
  pair,      \* the pair that it was offered to
  partner,   \* the callee that took it
  left,      \* players that have left
  stopping   \* the service is being stopped

mvars == <<status, pair, partner, left, stopping>>

Waiting == {s \in Callers : status[s] = "waiting"}
Become(ss, what) == status' = [s \in Callers |-> IF s \in ss THEN what ELSE status[s]]

MInit ==
  /\ status = [s \in Callers |-> "idle"] /\ pair = [s \in Callers |-> None]
  /\ partner = [s \in Callers |-> None]
  /\ left = {} /\ stopping = FALSE

(* one offer to a pair at a time: the newer one counts *)
Offer(s, k) ==
  /\ status[s] = "idle"
  /\ pair' = [pair EXCEPT ![s] = k]
  /\ status' = [t \in Callers |-> IF t = s THEN "waiting"
                                  ELSE IF t \in Waiting /\ pair[t] = k THEN "over"
                                  ELSE status[t]]
  /\ UNCHANGED <<partner, left, stopping>>

(* a callee takes one offer in its life *)
Match(s, c) ==
  /\ status[s] = "waiting" /\ \A t \in Callers : partner[t] # c
  /\ partner' = [partner EXCEPT ![s] = c]
  /\ Become({s}, "matched")
  /\ UNCHANGED <<pair, left, stopping>>

GiveUp(s) ==
  /\ status[s] \in {"waiting", "matched"}
  /\ Become({s}, "over")
  /\ UNCHANGED <<pair, partner, left, stopping>>

Begin(s) ==
  /\ status[s] = "matched"
  /\ Become({s}, "playing")
  /\ UNCHANGED <<pair, partner, left, stopping>>

End(s) ==
  /\ status[s] = "playing"
  /\ Become({s}, "over")
  /\ UNCHANGED <<pair, partner, left, stopping>>

Quit(c) ==
  /\ left' = left \cup {c}
  /\ UNCHANGED <<status, pair, partner, stopping>>

Stop ==
  /\ ~stopping /\ stopping' = TRUE
  /\ UNCHANGED <<status, pair, partner, left>>

(* all offers are withdrawn, games go on until their connections end *)
WithdrawAll ==
  /\ stopping
  /\ Become(Waiting, "over")
  /\ UNCHANGED <<pair, partner, left, stopping>>

MNext ==
  \/ \E s \in Callers :
       \/ \E k \in Keys : Offer(s, k)
       \/ \E c \in Callees : Match(s, c)
       \/ GiveUp(s) \/ Begin(s) \/ End(s)
  \/ \E c \in Callers \cup Callees : Quit(c)
  \/ Stop \/ WithdrawAll

(* an offer does not wait for ever, an agreed game starts or is called off,
   and a game that a player has left ends if who stays reads what it is sent *)
MLive ==
  \A s \in Callers :
    /\ status[s] = "waiting" ~> status[s] # "waiting" \/ stopping
    /\ status[s] = "matched" ~> status[s] \in {"playing", "over"}
    /\ /\ status[s] = "playing" /\ {s, partner[s]} \cap left # {}
       /\ {s, partner[s]} \subseteq left \cup Reading
       ~> status[s] = "over"

MSafe == MInit /\ [][MNext]_mvars
MSpec == MSafe /\ MLive
=============================================================================
