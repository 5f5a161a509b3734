---------------------------- MODULE MCIpcClient ----------------------------
(* A small instance of IpcClient *)
EXTENDS IpcClient
=============================================================================
