------------------------------- MODULE MCJnl --------------------------------
(* Small instances of Jnl for TLC.                                         *)
EXTENDS Jnl
=============================================================================
