--------------------------- MODULE MCCallMetadata ---------------------------
(* Instances of CallMetadata for TLC.                                      *)
EXTENDS CallMetadata

CONSTANTS c1, w1, w2
=============================================================================
