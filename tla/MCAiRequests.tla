---------------------------- MODULE MCAiRequests -----------------------------
(***************************************************************************)
(* The instance of AiRequests that TLC checks; calls and users are         *)
(* interchangeable.                                                        *)
(***************************************************************************)
EXTENDS AiRequests, TLC

NameSymmetry == Permutations(Calls) \cup Permutations(Users)

=============================================================================
