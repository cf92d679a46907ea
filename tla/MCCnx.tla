------------------------------- MODULE MCCnx --------------------------------
(* Small instances of Cnx for TLC.                                         *)
EXTENDS Cnx
=============================================================================
