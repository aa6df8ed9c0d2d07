----------------------------- MODULE MCSearchRun -----------------------------
(* Instances of SearchRun for TLC.                                         *)
EXTENDS SearchRun, TLC

CONSTANTS o1, r1, k1, k2

\* Every plan, the trial's included, allows one search.
OneEach == [o \in Orders \union {NULL} |-> 1]

KeySymmetry == Permutations(Reservations)
=============================================================================
