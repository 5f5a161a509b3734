--------------------------- MODULE MCChessBroker ----------------------------
\* Instances of ChessBroker for TLC.
EXTENDS ChessBroker
=============================================================================
