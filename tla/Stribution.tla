----------------------------- MODULE Stribution -----------------------------
(***************************************************************************)
(* stribution: a thread per folder files its messages along the rules that *)
(* the last configuration message of the folder holds.  The thread of the  *)
(* folder of one user is modelled; inbox (Smtpd) is what it lists.         *)
(*                                                                         *)
(* A rule is a test: the mails it matches (condition_eval, module Rules)   *)
(* and an action.  Requests are versions at once here; how long mdsyncc    *)
(* takes is the subject of MdSync, save for removals, which blank a        *)
(* message some time after they were requested.                            *)
(*                                                                         *)
(* strib_new may refuse a configuration.  As strib_parser.y stands it      *)
(* refuses every one: conf_write ends the text with an empty line, which   *)
(* the grammar has no rule for.  The steps behind a configuration that is  *)
(* accepted are those the rest of the code takes once that is mended.      *)
(***************************************************************************)
EXTENDS Smtpd, SequencesExt

CONSTANTS
  Owner,      \* whose folder it is
  Confs,      \* configurations a user may write: sequences of tests
  MaxNotes    \* bound: configurations and marks put into the folder

ASSUME StributionAssumption ==
  /\ Owner \in Users /\ MaxNotes \in Nat
  /\ \A n \in DOMAIN Confs : Confs[n] \in Seq(Range(Confs[n]))

VARIABLES
  strib,     \* struct strib_mdir and where its thread is
  saved,     \* STRIB_LAST_DONE_VERSION of the secret file
  made,      \* the destination folder exists
  filed,     \* messages requested in it: [v, t], in order
  rems,      \* versions whose removal was requested
  erased,    \* versions blanked by the removal
  killed     \* stribution once ended without saving

stribution == <<strib, saved, made, filed, rems, erased, killed>>

Off == [run |-> "off", cursor |-> 0, done |-> 0, conf |-> <<>>, job |-> 0, t |-> 0, pc |-> "test",
        err |-> FALSE]

StribInit ==
  /\ strib = Off /\ saved = 0 /\ made = FALSE
  /\ filed = <<>> /\ rems = {} /\ erased = {} /\ killed = FALSE

-----------------------------------------------------------------------------
(* The owner of the folder writes rules and marks messages; mdsyncc brings *)
(* removals.                                                               *)

Notes == Cardinality({i \in DOMAIN inbox : inbox[i].kind \in {"conf", "mark"}})

Note(kind, target) ==
  inbox' = Append(inbox, [kind |-> kind, to |-> Owner, from |-> NoOne, mail |-> NoOne, target |-> target])

Configure(n) ==
  /\ n \in DOMAIN Confs /\ Notes < MaxNotes
  /\ Note("conf", n)
  /\ UNCHANGED <<env, wire, stored, faults, stribution>>

mdir_mark(v) ==
  /\ v \in DOMAIN inbox \ erased /\ Notes < MaxNotes
  /\ inbox[v].to = Owner /\ inbox[v].kind # "mark"
  /\ Note("mark", v)
  /\ UNCHANGED <<env, wire, stored, faults, stribution>>

Blank(v) ==
  /\ v \in rems \ erased /\ erased' = erased \cup {v}
  /\ UNCHANGED <<smtpd, faults, strib, saved, made, filed, rems, killed>>

-----------------------------------------------------------------------------
(* The process.                                                            *)

(* smdir_alloc reads the versions back; stribution stays NULL.             *)
smdir_alloc ==
  /\ strib.run = "off"
  /\ strib' = [Off EXCEPT !.run = "run", !.cursor = saved, !.done = saved]
  /\ UNCHANGED <<smtpd, faults, saved, made, filed, rems, erased, killed>>

(* Mutant: the last version is not saved.                                  *)
smdir_free_Forgets ==
  /\ strib.run = "ended"
  /\ strib' = Off /\ saved' = saved
  /\ UNCHANGED <<smtpd, faults, made, filed, rems, erased, killed>>

(* smdir_free, which runs when the last thread has ended.                  *)
smdir_free ==
  /\ strib.run = "ended"
  /\ strib' = Off /\ saved' = strib.done
  /\ UNCHANGED <<smtpd, faults, made, filed, rems, erased, killed>>

Dies == strib' = Off /\ killed' = TRUE

StribKilled ==
  /\ strib.run # "off" /\ Dies
  /\ faults < MaxFaults /\ faults' = faults + 1
  /\ UNCHANGED <<smtpd, saved, made, filed, rems, erased>>

-----------------------------------------------------------------------------
(* The thread: mdir_patch_list calls process_put on the next version.      *)

IsNext(v) ==
  LET Listed(w) == inbox[w].to = Owner /\ w \notin erased
  IN  v > strib.cursor /\ Listed(v) /\ \A w \in strib.cursor + 1 .. v - 1 : ~ Listed(w)

(* The message whose fields decide: that itself, or the one a mark is on.  *)
Subject(v) == IF inbox[v].kind = "mark" THEN inbox[v].target ELSE v

Passed(v) == [strib EXCEPT !.cursor = v, !.done = v, !.job = 0, !.t = 0]

(* process_put and process_put_rec.  jnl_read gives no header and no error *)
(* for a marked message that was blanked, and header_find does not survive *)
(* that.                                                                   *)
process_put ==
  /\ strib.run = "run" /\ strib.job = 0
  /\ \E v \in DOMAIN inbox :
       /\ IsNext(v)
       /\ LET s == Subject(v)
          IN  \/ /\ s \in erased
                 /\ Dies
              \/ /\ s \notin erased /\ inbox[s].kind = "dir"
                 /\ strib' = Passed(v) /\ UNCHANGED killed
              \/ /\ s \notin erased /\ inbox[s].kind = "conf"
                 /\ strib' = IF s = v THEN [Passed(v) EXCEPT !.conf = Confs[inbox[v].target]] ELSE Passed(v)
                 /\ UNCHANGED killed
              \/ /\ s \notin erased /\ inbox[s].kind = "mail"
                 /\ strib' = [strib EXCEPT !.done = v, !.job = v, !.t = 1, !.pc = "test"]
                 /\ UNCHANGED killed
  /\ UNCHANGED <<smtpd, faults, saved, made, filed, rems, erased>>

(* strib_new fails on a configuration: mdir_mark_error says so with a mark *)
(* on it, and the rules before it stay.                                    *)
strib_new_fails ==
  /\ strib.run = "run" /\ strib.job = 0 /\ Notes < MaxNotes
  /\ \E v \in DOMAIN inbox :
       /\ IsNext(v) /\ inbox[v].kind = "conf"
       /\ strib' = Passed(v) /\ Note("mark", v)
  /\ UNCHANGED <<env, wire, stored, faults, saved, made, filed, rems, erased, killed>>

Working(pc) == strib.run = "run" /\ strib.job # 0 /\ strib.t <= Len(strib.conf) /\ strib.pc = pc
Test        == strib.conf[strib.t]
Next_test   == [strib EXCEPT !.t = @ + 1, !.pc = "test"]

(* strib_eval: every test in turn, whatever the ones before it did.        *)
strib_eval ==
  /\ Working("test")
  /\ strib' = IF inbox[Subject(strib.job)].mail \notin Test.when THEN Next_test
              ELSE [strib EXCEPT !.pc = IF Test.act = "delete" THEN "delete" ELSE "lookup"]
  /\ UNCHANGED <<smtpd, faults, saved, made, filed, rems, erased, killed>>

(* do_copy_string looks the folder up, and creates it when that fails or   *)
(* when an error of an earlier test is still on the stack.                 *)
do_copy_string ==
  /\ Working("lookup")
  /\ strib' = [strib EXCEPT !.pc = "copy", !.err = FALSE]
  /\ IF made /\ ~ strib.err THEN UNCHANGED <<inbox, made>>
     ELSE Note("dir", 0) /\ made' = TRUE
  /\ UNCHANGED <<env, wire, stored, faults, saved, filed, rems, erased, killed>>

(* mdir_patch_request in the destination.                                  *)
CopyObject ==
  /\ Working("copy")
  /\ filed' = Append(filed, [v |-> strib.job, t |-> strib.t])
  /\ strib' = IF Test.act = "move" THEN [strib EXCEPT !.pc = "delete"] ELSE Next_test
  /\ UNCHANGED <<smtpd, faults, saved, made, rems, erased, killed>>

(* Mutant: MOVE deletes whether the copy succeeded or not.                 *)
CopyFails_Deletes ==
  /\ Working("copy")
  /\ faults < MaxFaults /\ faults' = faults + 1
  /\ strib' = IF Test.act = "move" THEN [strib EXCEPT !.pc = "delete", !.err = TRUE]
              ELSE [Next_test EXCEPT !.err = TRUE]
  /\ UNCHANGED <<smtpd, saved, made, filed, rems, erased, killed>>

(* The copy fails: MOVE does not delete, and the next test has its turn.   *)
CopyFails ==
  /\ Working("copy")
  /\ faults < MaxFaults /\ faults' = faults + 1
  /\ strib' = [Next_test EXCEPT !.err = TRUE]
  /\ UNCHANGED <<smtpd, saved, made, filed, rems, erased, killed>>

do_delete ==
  /\ Working("delete")
  /\ rems' = rems \cup {strib.job}
  /\ strib' = Next_test
  /\ UNCHANGED <<smtpd, faults, saved, made, filed, erased, killed>>

(* The message is done with; an error that is left ends the thread.        *)
ProcessEnd ==
  /\ strib.run = "run" /\ strib.job # 0 /\ strib.t > Len(strib.conf)
  /\ strib' = [Passed(strib.job) EXCEPT !.run = IF strib.err THEN "ended" ELSE "run"]
  /\ UNCHANGED <<smtpd, faults, saved, made, filed, rems, erased, killed>>

smdir_thread == process_put \/ strib_new_fails \/ strib_eval \/ do_copy_string \/ CopyObject \/ do_delete \/ ProcessEnd

StribNext ==
  \/ \E n \in DOMAIN Confs : Configure(n)
  \/ \E v \in DOMAIN inbox : mdir_mark(v) \/ Blank(v)
  \/ smdir_alloc \/ smdir_free \/ StribKilled
  \/ smdir_thread \/ CopyFails

-----------------------------------------------------------------------------
IsConf(i) == inbox[i].to = Owner /\ inbox[i].kind = "conf"

(* A configuration that precedes v has a rule to delete it.                *)
Deletes(v) ==
  \E i \in 1 .. v - 1 :
    /\ IsConf(i)
    /\ \E t \in DOMAIN Confs[inbox[i].target] :
         LET test == Confs[inbox[i].target][t]
         IN  test.act = "delete" /\ inbox[Subject(v)].mail \in test.when

(* What stribution removes from a folder it has filed before, unless a     *)
(* rule says to drop it, and it files a message once per test: whatever    *)
(* copies fail, errors are cleared by a later test, threads end by an      *)
(* error and are started again.  An end of the process without smdir_free  *)
(* loses no message either, but may file some again.                       *)
FiledOnce ==
  /\ \A v \in rems : Deletes(v) \/ \E i \in DOMAIN filed : filed[i].v = v
  /\ ~ killed => \A i, j \in DOMAIN filed : filed[i] = filed[j] => i = j
=============================================================================
