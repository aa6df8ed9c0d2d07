---------------------------- MODULE MCUsageLedger ----------------------------
(* Instances of UsageLedger for TLC.                                       *)
EXTENDS UsageLedger, TLC

CONSTANTS o1, o2, r1, k1, k2, k3

\* Every plan, the trial's included, allows one unit.
OneEach == [o \in Orders \union {NULL} |-> 1]

\* The trial allows one unit, a paid plan two.
PaidTwo == [o \in Orders \union {NULL} |-> IF o = NULL THEN 1 ELSE 2]

KeySymmetry == Permutations(Reservations)
=============================================================================
