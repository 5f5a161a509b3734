---------------------------- MODULE MCBoardCache ----------------------------
\* Instances of BoardCache for TLC.
EXTENDS BoardCache
=============================================================================
