----------------------------- MODULE VersionLog -----------------------------
(***************************************************************************)
(* What lib/mdir.c promises to its callers about the journals of one mdir: *)
(* a log numbered 1, 2, 3, ... without a hole, in which nothing ever moves *)
(* and the only thing that can happen to a recorded patch is that its      *)
(* deletion turns an addition into a blank entry.                          *)
(*                                                                         *)
(* A patch is a record [tag, type, ref] (the first byte of the journal     *)
(* record, and of the header only what the journals themselves look at).   *)
(* Module Jnl implements this specification with journal and index files.  *)
(***************************************************************************)
EXTENDS Naturals, Sequences

CONSTANT Adds   \* the additions that callers make: records [tag, type, ref]

VARIABLE log    \* log[v] is the patch of version v

IsAdd(p)   == p.tag = "+"
IsBlank(p) == p.tag = "%"
IsRem(p)   == p.tag = "-"

-----------------------------------------------------------------------------

Init == log = <<>>

(* A new addition takes the next version. *)
Add == \E p \in Adds : log' = Append(log, p)

(* A version that is known to be gone elsewhere is recorded as a blank.    *)
Blank == log' = Append(log, [tag |-> "%", type |-> "none", ref |-> 0])

(* Only an addition can be erased, and it stays in place, unreadable.      *)
Erase == \E v \in DOMAIN log : /\ IsAdd(log[v])
                               /\ log' = [log EXCEPT ![v].tag = "%"]

(* The removal is itself recorded, after its target has been erased.       *)
Rem == \E v \in DOMAIN log : /\ IsBlank(log[v])
                             /\ log' = Append(log, [tag |-> "-", type |-> "del", ref |-> v])

Next == Add \/ Blank \/ Erase \/ Rem

Spec == Init /\ [][Next]_log
=============================================================================
