------------------------------ MODULE MCPrompts ------------------------------
(***************************************************************************)
(* The instance of Prompts that TLC checks; administrators are             *)
(* interchangeable.                                                        *)
(***************************************************************************)
EXTENDS Prompts, TLC

AdminSymmetry == Permutations(Admins)

=============================================================================
