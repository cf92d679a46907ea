------------------------------ MODULE MCMdLink ------------------------------
(* Small instances of MdLink for TLC.                                      *)
EXTENDS MdLink
=============================================================================
