------------------------------- MODULE MdView -------------------------------
(***************************************************************************)
(* A program on the client's host that shows the content of the mdir, next *)
(* to the mdsyncc that synchronises it: mdir_patch_list of lib/mdir.c and  *)
(* the message list of lib/mdirc.c, composed with module MdSync.           *)
(*                                                                         *)
(* mdirc_update lists what is new since its cursor: the journal, then the  *)
(* files of .tmp, then those of .err.  It runs in a process of its own and *)
(* holds no lock, so mdsyncc and other programs act between its steps.     *)
(***************************************************************************)
EXTENDS MdSync

VARIABLES
  pc,       \* where mdir_patch_list is: idle, opendir, transients or errors
  cursor,   \* [sync, unsync]: last_listed_sync and last_listed_unsync
  todo,     \* what readdir(.tmp) has yet to deliver
  msgs,     \* versions in mdirc->msgs; a transient message has its number negated
  failed    \* messages whose status err_msg set

view  == <<pc, cursor, todo, msgs, failed>>
vvars == <<vars, view>>

-----------------------------------------------------------------------------
(* add_msg puts a message at the end of the list, rem_msg takes it out if  *)
(* it is there.                                                            *)

(* Mutant: the cursor's own localid is not withdrawn.                      *)
synch_list_Strict ==
  LET new  == {v \in cursor.sync + 1 .. Len(clog) : clog[v].tag # "%"}
      adds == {v \in new : clog[v].tag = "+"}
      rems == {clog[v].ref : v \in new \ adds}
      locals == {-clog[v].lid : v \in {w \in adds : /\ clog[w].lid # 0
                                                    /\ clog[w].lid < cursor.unsync}}
  IN  /\ pc = "idle"
      /\ pc' = "opendir"
      /\ msgs' = (msgs \ (rems \cup locals)) \cup adds
      /\ cursor' = [cursor EXCEPT !.sync = IF new = {} THEN @
                                           ELSE CHOOSE v \in new : \A w \in new : w <= v]
      /\ UNCHANGED <<todo, failed, vars>>

(* synch_list: versions after the cursor.  A removal withdraws its target; *)
(* an addition with a localid that may have been listed withdraws the      *)
(* transient first.  Blank versions do not move the cursor.                *)
synch_list ==
  LET new  == {v \in cursor.sync + 1 .. Len(clog) : clog[v].tag # "%"}
      adds == {v \in new : clog[v].tag = "+"}
      rems == {clog[v].ref : v \in new \ adds}
      locals == {-clog[v].lid : v \in {w \in adds : /\ clog[w].lid # 0
                                                    /\ clog[w].lid <= cursor.unsync}}
  IN  /\ pc = "idle"
      /\ pc' = "opendir"
      /\ msgs' = (msgs \ (rems \cup locals)) \cup adds
      /\ cursor' = [cursor EXCEPT !.sync = IF new = {} THEN @
                                           ELSE CHOOSE v \in new : \A w \in new : w <= v]
      /\ UNCHANGED <<todo, failed, vars>>

(* transient_list: the numbers after last_listed_unsync_start are to be    *)
(* listed.  A file created while readdir runs is left to the next call.    *)
opendir ==
  /\ pc = "opendir"
  /\ pc' = "transients"
  /\ todo' = {f \in tmp : f.id > cursor.unsync}
  /\ UNCHANGED <<cursor, msgs, failed, vars>>

(* Mutant: a file that is gone is tried for ever.                          *)
transient_list_Retries(f) ==
  /\ pc = "transients"
  /\ f \in todo
  /\ cursor' = [cursor EXCEPT !.unsync = IF f.id > @ THEN f.id ELSE @]
  /\ IF f \in tmp
     THEN /\ todo' = todo \ {f}
          /\ msgs' = IF f.tag = "-" THEN msgs \ {f.ref} ELSE msgs \cup {-f.id}
     ELSE UNCHANGED <<todo, msgs>>
  /\ UNCHANGED <<pc, failed, vars>>

(* One file of transient_list, in any order.  If the file is gone by now   *)
(* the error ends the listing.                                             *)
transient_list(f) ==
  /\ pc = "transients"
  /\ f \in todo
  /\ cursor' = [cursor EXCEPT !.unsync = IF f.id > @ THEN f.id ELSE @]
  /\ IF f \in tmp
     THEN /\ todo' = todo \ {f}
          /\ msgs' = IF f.tag = "-" THEN msgs \ {f.ref} ELSE msgs \cup {-f.id}
          /\ UNCHANGED pc
     ELSE /\ todo' = {}
          /\ pc' = "idle"
          /\ UNCHANGED msgs
  /\ UNCHANGED <<failed, vars>>

transient_end ==
  /\ pc = "transients" /\ todo = {}
  /\ pc' = "errors"
  /\ UNCHANGED <<cursor, todo, msgs, failed, vars>>

(* Mutant: the file is unlinked without a report.                          *)
err_list_Silent ==
  /\ pc = "errors"
  /\ \E n \in err : err' = err \ {n}
  /\ UNCHANGED <<pc, cursor, todo, msgs, failed, server, clog, drafts, tmp, nextLocal, memory, net>>

(* err_list and err_msg: report a refused patch, then unlink its file.     *)
err_list ==
  /\ pc = "errors"
  /\ \E n \in err :
       /\ failed' = IF -n \in msgs THEN failed \cup {-n} ELSE failed
       /\ err' = err \ {n}
  /\ UNCHANGED <<pc, cursor, todo, msgs, server, clog, drafts, tmp, nextLocal, memory, net>>

err_end ==
  /\ pc = "errors" /\ err = {}
  /\ pc' = "idle"
  /\ UNCHANGED <<cursor, todo, msgs, failed, vars>>

mdirc_update ==
  \/ synch_list
  \/ opendir
  \/ \E f \in todo : transient_list(f)
  \/ transient_end
  \/ err_list
  \/ err_end

-----------------------------------------------------------------------------

ViewInit ==
  /\ Init
  /\ pc = "idle" /\ cursor = [sync |-> 0, unsync |-> 0]
  /\ todo = {} /\ msgs = {} /\ failed = {}

(* The program shares no more than the files of the host with mdsyncc.     *)
ViewNext ==
  \/ mdirc_update /\ UNCHANGED <<server, memory, net>>
  \/ Next /\ UNCHANGED view

ViewSpec == ViewInit /\ [][ViewNext]_vvars

(* mdsyncc and mdsyncd are scheduled as in MdSync; the program calls       *)
(* mdirc_update again and again, and each call runs to its end.            *)
ViewFairSpec ==
  /\ ViewSpec
  /\ WF_vvars(ServeQuery /\ UNCHANGED view) /\ WF_vvars(SendAnswer /\ UNCHANGED view)
  /\ WF_vvars(SendNextPatch /\ UNCHANGED view)
  /\ WF_vvars(WriterSub /\ UNCHANGED view)
  /\ WF_vvars(finalize_sub /\ UNCHANGED view) /\ WF_vvars(finalize_putrem /\ UNCHANGED view)
  /\ WF_vvars(SaveError /\ UNCHANGED view)
  /\ WF_vvars(patch_service /\ UNCHANGED view)
  /\ WF_vvars((ApplyOne \/ ApplyEnd) /\ UNCHANGED view)
  /\ \A n \in 1 .. MaxLocal :
       WF_vvars((\E f \in tmp : f.id = n /\ WriterSend(f)) /\ UNCHANGED view)
  /\ WF_vvars(mdirc_update)

-----------------------------------------------------------------------------
(* Properties.                                                             *)

Live(log) == {v \in DOMAIN log : log[v].tag = "+"}

Local(n) == n \in 1 .. MaxLocal

(* A program never shows a message twice, as a transient and under its     *)
(* version: whichever order the file, the ack, the patch and the listing   *)
(* come in, the transient is withdrawn when the version is listed.         *)
NoDuplicate ==
  \A v \in msgs : v > 0 /\ Local(clog[v].org) => -clog[v].org \notin msgs

(* A message the server refused does not keep looking like one that waits: *)
(* as long as it is shown, its file is in .tmp or .err, or on its way      *)
(* there, or the server has recorded it, or the program was told of the    *)
(* refusal.  What mdsyncc could not save in .err nobody can be told of.    *)
RefusalShown ==
  \A n \in 1 .. nextLocal - 1 :
    -n \in msgs => \/ \E f \in tmp : f.id = n
                   \/ n \in err \cup unsaved \cup unreported
                   \/ \E v \in DOMAIN slog : slog[v].org = n
                   \/ -n \in failed

(* The versions a program shows are eventually the server's, and stay so,  *)
(* once nobody changes the mdir any more: neither the order of the three   *)
(* listings nor a listing that fails half way loses a version for ever.    *)
Converges == <>[]({v \in msgs : v > 0} = Live(slog))
=============================================================================
