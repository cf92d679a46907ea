------------------------------- MODULE Errors -------------------------------
(***************************************************************************)
(* The stack of errors of a thread: lib/error.c.  Every function tells its *)
(* caller of a failure through it, and cleans up between error_save and    *)
(* error_restore.                                                          *)
(***************************************************************************)
EXTENDS Integers, SequencesExt

CONSTANTS
  Codes,
  MaxErrors,   \* the size of err_stack: a push beyond it aborts
  MaxAcks      \* the size of ack_stack: a save beyond it aborts

ASSUME ErrorsAssumption == MaxErrors \in Nat /\ MaxAcks \in Nat \ {0}

VARIABLES
  eb,      \* struct errbuf: the codes of the errors, the expected counts
  noted    \* what the caller of each error_save had before it

errvars == <<eb, noted>>

(* errbuf_new.                                                             *)
ErrInit == eb = [errors |-> <<>>, acks |-> <<0>>] /\ noted = <<>>

nb_expected_errors == Last(eb.acks)
is_error           == Len(eb.errors) > nb_expected_errors

error_push(code) ==
  /\ Len(eb.errors) < MaxErrors
  /\ eb' = [eb EXCEPT !.errors = Append(@, code)]
  /\ UNCHANGED noted

error_save ==
  /\ Len(eb.acks) < MaxAcks
  /\ eb' = [eb EXCEPT !.acks = Append(@, Len(eb.errors))]
  /\ noted' = Append(noted, eb.errors)

(* Mutant: every error is cleared.                                         *)
error_clear_All ==
  eb' = [eb EXCEPT !.errors = <<>>] /\ UNCHANGED noted

(* The errors since the last error_save.                                   *)
error_clear ==
  eb' = [eb EXCEPT !.errors = SubSeq(@, 1, nb_expected_errors)] /\ UNCHANGED noted

(* Callers restore what they have saved.                                   *)
error_restore ==
  /\ noted # <<>>
  /\ eb' = [errors |-> SubSeq(eb.errors, 1, nb_expected_errors), acks |-> Front(eb.acks)]
  /\ noted' = Front(noted)

ErrNext == (\E c \in Codes : error_push(c)) \/ error_save \/ error_clear \/ error_restore

-----------------------------------------------------------------------------
(* What a function does about its own errors between error_save and        *)
(* error_restore, however deep it calls others that do the same, leaves    *)
(* the errors that its caller had: each is still the one that was there.   *)
SavedErrorsKept ==
  /\ Len(eb.acks) = Len(noted) + 1
  /\ \A k \in DOMAIN noted : eb.acks[k + 1] = Len(noted[k]) /\ IsPrefix(noted[k], eb.errors)
=============================================================================
