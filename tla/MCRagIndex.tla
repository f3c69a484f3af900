----------------------------- MODULE MCRagIndex ------------------------------
(***************************************************************************)
(* The instance of RagIndex that TLC checks; indexings are                 *)
(* interchangeable.                                                        *)
(***************************************************************************)
EXTENDS RagIndex, TLC

IndexingSymmetry == Permutations(Indexings)

=============================================================================
