---------------------------- MODULE MCJobPolling ----------------------------
(***************************************************************************)
(* Instances of JobPolling for TLC.                                        *)
(***************************************************************************)
EXTENDS JobPolling
==============================================================================
