---------------------------- MODULE MCPostStore ----------------------------
\* Instances of PostStore for TLC.
EXTENDS PostStore
=============================================================================
