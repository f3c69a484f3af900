--------------------------- MODULE MCRefreshTokens ---------------------------
(***************************************************************************)
(* Instances of RefreshTokens for TLC.                                     *)
(***************************************************************************)
EXTENDS RefreshTokens, TLC

\* Requests differ in nothing but their names, and only safety is checked.
RequestSymmetry == Permutations(Requests)
=============================================================================
