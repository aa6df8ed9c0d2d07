------------------------- MODULE MCLlmConfiguration -------------------------
(* Instances of LlmConfiguration for TLC.                                  *)
EXTENDS LlmConfiguration, TLC

CONSTANTS a1, a2, w1, w2

ConfigSymmetry == Permutations(Attempts) \union Permutations(Workers)
=============================================================================
