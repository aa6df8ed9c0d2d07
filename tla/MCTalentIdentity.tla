-------------------------- MODULE MCTalentIdentity --------------------------
(* Instances of TalentIdentity for TLC.                                    *)
EXTENDS TalentIdentity, TLC

CONSTANTS a, b, c, s1, s2

TalentSymmetry == Permutations(Ids) \union Permutations(Searches)
=============================================================================
