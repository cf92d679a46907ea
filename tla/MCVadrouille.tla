---------------------------- MODULE MCVadrouille ----------------------------
(* Small instances of Vadrouille for TLC.                                  *)
EXTENDS Vadrouille
=============================================================================
