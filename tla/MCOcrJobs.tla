----------------------------- MODULE MCOcrJobs ------------------------------
(***************************************************************************)
(* Instances of OcrJobs for TLC.                                           *)
(***************************************************************************)
EXTENDS OcrJobs
==============================================================================
