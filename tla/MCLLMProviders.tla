--------------------------- MODULE MCLLMProviders ---------------------------
(***************************************************************************)
(* The instances of LLMProviders that TLC checks.                          *)
(***************************************************************************)
EXTENDS LLMProviders, TLC

Symmetry == Permutations(Requests)
=============================================================================
