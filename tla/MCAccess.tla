------------------------------ MODULE MCAccess ------------------------------
(* Instances of Access for TLC.                                            *)
EXTENDS Access, TLC

CONSTANTS u1, u2, u3, t1, t2, i1, i2, i3, q1, q2

AccessSymmetry ==
    Permutations(Invitations) \union Permutations(Requests)
        \union Permutations(Tenants) \union Permutations(Users \ Admins)
=============================================================================
