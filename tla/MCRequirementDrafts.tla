------------------------ MODULE MCRequirementDrafts ------------------------
(* Instances of RequirementDrafts for TLC.                                 *)
EXTENDS RequirementDrafts, TLC

CONSTANTS m1, m2, i1, i2

\* Only the first draft reaches MaxRevision: it may be of the first schema, and is
\* upgraded and settled before it is confirmed.
LaterDraftsShort ==
    \A d \in DOMAIN drafts : d > 1 => drafts[d].revision < MaxRevision

DraftSymmetry == Permutations(Members) \union Permutations(Items)
=============================================================================
