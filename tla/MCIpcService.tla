---------------------------- MODULE MCIpcService ----------------------------
\* Instances of IpcService for TLC: c1 is a session that comes and goes and
\* follows a live post, c2 one that sends; both may be the same process.
EXTENDS IpcService

CONSTANTS c1, c2

Roles == [c \in Clients |->
  IF c = c1 THEN {"register", "unregister", "sub", "unsub"}
            ELSE {"register", "send", "pub", "broadcast", "query"}]
Bounds == [c \in Clients |-> 2]
=============================================================================
