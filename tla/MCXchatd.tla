------------------------------ MODULE MCXchatd ------------------------------
\* Instances of Xchatd for TLC.
EXTENDS Xchatd
=============================================================================
