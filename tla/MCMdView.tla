------------------------------ MODULE MCMdView ------------------------------
(* Small instances of MdView for TLC.                                      *)
EXTENDS MdView
=============================================================================
