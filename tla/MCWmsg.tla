------------------------------- MODULE MCWmsg -------------------------------
(* Instances of Wmsg for TLC *)
EXTENDS Wmsg
=============================================================================
