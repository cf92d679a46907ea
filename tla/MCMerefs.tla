------------------------------ MODULE MCMerefs ------------------------------
(* Small instances of Merefs for TLC.                                      *)
EXTENDS Merefs
=============================================================================
