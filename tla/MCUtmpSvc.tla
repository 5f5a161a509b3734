----------------------------- MODULE MCUtmpSvc ------------------------------
\* Instances of UtmpSvc: which process logs in which user, and the hashes.
EXTENDS UtmpSvc, TLC

CONSTANTS p1, p2, p3

TwoUsers == [p \in Procs |-> IF p \in {p1, p2} THEN 1 ELSE 2]
SameHome == [u \in Uids |-> USHM_SIZE - 1]
=============================================================================
