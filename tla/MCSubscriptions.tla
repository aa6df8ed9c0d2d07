--------------------------- MODULE MCSubscriptions ---------------------------
(* Instances of Subscriptions for TLC.                                     *)
EXTENDS Subscriptions

CONSTANTS o1, o2, r1, r2
=============================================================================
