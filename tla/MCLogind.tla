------------------------------ MODULE MCLogind ------------------------------
(* Instance of Logind for TLC: accounts of every kind, two client addresses that
   hash to the same slot *)
EXTENDS Logind, TLC

MCUserids  == {"carol", "new", "guest", "x"}
MCAccount  == ("carol" :> "newip")
              @@ ("new" :> "free") @@ ("guest" :> "guest") @@ ("x" :> "empty")
MCLastHost == [u \in MCUserids |-> "ip1"]
MCHome     == [ip \in {"ip1", "ip2"} |-> 0]
=============================================================================
