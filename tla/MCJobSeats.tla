----------------------------- MODULE MCJobSeats -----------------------------
(* Instances of JobSeats for TLC.                                          *)
EXTENDS JobSeats, TLC

CONSTANTS o1, r1, k1, k2, k3, j1, j2, a1, a2

\* Every plan, the trial's included, allows one seat.
OneSeat == [o \in Orders \union {NULL} |-> 1]

SeatSymmetry ==
    Permutations(Reservations) \union Permutations(Jobs)
    \union Permutations(Requests)

\* States without the flag of a requested cancellation, which no guard of the
\* jobs looks at.
NoCancelRequested == \A i \in DOMAIN subs : ~subs[i].cancelRequested
=============================================================================
