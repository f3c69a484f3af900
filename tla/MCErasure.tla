------------------------------ MODULE MCErasure ------------------------------
(***************************************************************************)
(* Instances of Erasure for TLC.                                           *)
(***************************************************************************)
EXTENDS Erasure, TLC

\* Jobs and workers differ in nothing but their names, and only safety is checked.
NameSymmetry == Permutations(Jobs) \cup Permutations(Workers)

\* Bound: one upload at a time is under way.
OpenUploads == {d \in Docs : upload[d] \in {"begun", "stored", "committed"}}
OneUploadAtATime == Cardinality(OpenUploads) <= 1
=============================================================================
