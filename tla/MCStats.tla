------------------------------- MODULE MCStats -------------------------------
(***************************************************************************)
(* The instance of Stats that TLC checks; users are interchangeable, and   *)
(* so are rebuilds.                                                        *)
(***************************************************************************)
EXTENDS Stats, TLC

StatsSymmetry == Permutations(Users) \cup Permutations(Rebuilds)

=============================================================================
