----------------------------- MODULE MCUtmpUser -----------------------------
\* Instances of UtmpUser: which process logs in which user, and the hashes.
EXTENDS UtmpUser

CONSTANTS p1, p2, p3, p4

OneUser  == [p \in Procs |-> 1]
TwoUsers == [p \in Procs |-> IF p \in {p1, p2} THEN 1 ELSE 2]
SameHome == [u \in Uids |-> USHM_SIZE - 1]
=============================================================================
