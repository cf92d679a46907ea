----------------------------- MODULE Vadrouille -----------------------------
(***************************************************************************)
(* The folder browser: the messages of a folder, their count and the       *)
(* marks of what was read (vadrouille/mdirb.c), the panel of news          *)
(* (vadrouille/browser.c), and a window that shows the folder              *)
(* (vadrouille/calendar.c), next to the mdsyncc of module MdSync.  Like    *)
(* mdirc_update, mdirb_refresh runs without a lock in a process of its     *)
(* own; within that process GTK runs one callback at a time, except that   *)
(* the timer goes on while the user is asked to confirm.                   *)
(*                                                                         *)
(* A mark is an addition with a target (ref); the marks here say that the  *)
(* program's user has read it.  Messages are of the types that are news.   *)
(* A message object is its version and the number of times the list was    *)
(* emptied before it was allocated, which tells a new object from a freed  *)
(* one.                                                                    *)
(***************************************************************************)
EXTENDS MdView, SequencesExt

CONSTANT Programs   \* the programs of which one runs: "mdirc", "vadrouille"

VARIABLES
  prog,     \* the program that runs on this host
  step,     \* where mdirb_refresh is: idle, errors, synch, opendir, transients, notify, display
  folder,   \* struct mdirb: [msgs, read, nb_msgs, nb_unread], its news, and mdirb_refresh's changed
  cur,      \* mdirb->cursor
  left,     \* what readdir(.tmp) has yet to deliver
  gen,      \* how often mdirb_del_all_msgs was called
  shown,    \* is there a window on the folder?
  rows,     \* the messages it points to: day2events and event_store
  marked,   \* cmsg->marked: the messages it has already marked as read
  editor,   \* the editor of an event: none, or the replaced_version (0 for a new event)
  dialog,   \* the version whose removal the user is to confirm, or none; or reset
  written   \* numbers of the events written here: their header says that the user has read them

window  == <<shown, rows, marked, editor, dialog, written>>
browser == <<prog, step, folder, cur, left, gen, window>>
bvars   == <<vvars, browser>>

-----------------------------------------------------------------------------
(* The callbacks of mdir_patch_list.                                       *)

(* sc_msg_ctor: has the user read the message, according to its header?    *)
was_read(org) == org \in written

(* The browser's panel of news when messages come, unless read, or go.     *)
new_message_notif(news, added, removed) == (news \ removed) \cup added

find_msg_by_version(F, v) == {o \in F.msgs : o.v = v}

rem_msg(F, v) ==
  LET found == find_msg_by_version(F, v)
  IN  [F EXCEPT !.msgs = @ \ found, !.read = @ \ found,
                !.news = new_message_notif(@, {}, found),
                !.nb_msgs = @ - Cardinality(found), !.nb_unread = @ - Cardinality(found \ F.read),
                !.changed = @ \/ found # {}]

(* A read mark: its target is read from now on, and no news.               *)
Mark(F, target) ==
  LET found == find_msg_by_version(F, target) \ F.read
  IN  [F EXCEPT !.read = @ \cup found, !.news = new_message_notif(@, {}, found),
                !.nb_unread = @ - Cardinality(found), !.changed = TRUE]

NewMsg(F, v, org) ==
  LET o    == [v |-> v, gen |-> gen]
      read == IF was_read(org) THEN {o} ELSE {}
  IN  [F EXCEPT !.msgs = @ \cup {o}, !.read = @ \cup read,
                !.news = new_message_notif(@, {o} \ read, {}),
                !.nb_msgs = @ + 1, !.nb_unread = @ + 1 - Cardinality(read), !.changed = TRUE]

(* Mutant: a mark leaves its target among the news.                        *)
add_msg_Quiet(F, v, ref, org) ==
  IF ref # 0 THEN [Mark(F, ref) EXCEPT !.news = F.news] ELSE NewMsg(F, v, org)

add_msg(F, v, ref, org) == IF ref # 0 THEN Mark(F, ref) ELSE NewMsg(F, v, org)

-----------------------------------------------------------------------------
(* mdirb_refresh, which the browser calls every second.                    *)

(* The program's own mdir_patch_request.                                   *)
Request(tag, ref) ==
  /\ nextLocal <= MaxLocal
  /\ tmp' = tmp \cup {[id |-> nextLocal, tag |-> tag, ref |-> ref]}
  /\ nextLocal' = nextLocal + 1
  /\ UNCHANGED <<server, clog, drafts, err, memory, net>>

mdirb_refresh ==
  /\ step = "idle"
  /\ step' = "errors"
  /\ folder' = [folder EXCEPT !.changed = FALSE]
  /\ UNCHANGED <<prog, cur, left, gen, window, vars>>

(* err_list with err_msg: the user is told and the file unlinked.          *)
err_msg ==
  /\ step = "errors"
  /\ \E n \in err : err' = err \ {n}
  /\ folder' = [folder EXCEPT !.changed = TRUE]
  /\ UNCHANGED <<prog, step, cur, left, gen, window, server, clog, drafts, tmp,
                 nextLocal, memory, net>>

NoMsgs == [msgs |-> {}, read |-> {}, nb_msgs |-> 0, nb_unread |-> 0, news |-> {}, changed |-> FALSE]

(* Mutant: refusals are reported and nothing is undone.                    *)
mdirb_del_all_msgs_Never ==
  /\ step = "errors" /\ err = {}
  /\ step' = "synch"
  /\ folder' = [folder EXCEPT !.changed = FALSE]
  /\ UNCHANGED <<prog, cur, gen, left, window, vars>>

(* After a refusal the list is built again from nothing.                   *)
mdirb_del_all_msgs ==
  /\ step = "errors" /\ err = {}
  /\ step' = "synch"
  /\ IF folder.changed
     THEN folder' = NoMsgs /\ cur' = [sync |-> 0, unsync |-> 0] /\ gen' = gen + 1
     ELSE UNCHANGED <<folder, cur, gen>>
  /\ UNCHANGED <<prog, left, window, vars>>

(* synch_list: removals withdraw their target, additions the transient     *)
(* they were requested as.  Blank versions are skipped and do not move the *)
(* cursor.                                                                 *)
ListVersion(F, v) ==
  LET e == clog[v]
  IN  IF e.tag = "%" THEN F
      ELSE IF e.tag = "-" THEN rem_msg(F, e.ref)
      ELSE add_msg(IF e.lid # 0 /\ e.lid <= cur.unsync THEN rem_msg(F, -e.lid) ELSE F, v, e.ref, e.org)

ListJournal ==
  LET later == [i \in 1 .. Len(clog) - cur.sync |-> cur.sync + i]
      new   == {v \in cur.sync + 1 .. Len(clog) : clog[v].tag # "%"}
  IN  /\ step = "synch"
      /\ step' = "opendir"
      /\ folder' = FoldLeft(ListVersion, folder, later)
      /\ cur' = [cur EXCEPT !.sync = IF new = {} THEN @ ELSE Max(new)]
      /\ UNCHANGED <<prog, left, gen, window, vars>>

OpenTransients ==
  /\ step = "opendir"
  /\ step' = "transients"
  /\ left' = {f \in tmp : f.id > cur.unsync}
  /\ UNCHANGED <<prog, folder, cur, gen, window, vars>>

(* A file of .tmp; if it is gone by now the error ends the listing.        *)
ListTransient(f) ==
  /\ step = "transients"
  /\ f \in left
  /\ cur' = [cur EXCEPT !.unsync = IF f.id > @ THEN f.id ELSE @]
  /\ IF f \in tmp
     THEN /\ left' = left \ {f}
          /\ folder' = IF f.tag = "-" THEN rem_msg(folder, f.ref) ELSE add_msg(folder, -f.id, f.ref, f.id)
          /\ UNCHANGED step
     ELSE left' = {} /\ step' = "notify" /\ UNCHANGED folder
  /\ UNCHANGED <<prog, gen, window, vars>>

EndTransients ==
  /\ step = "transients" /\ left = {}
  /\ step' = "notify"
  /\ UNCHANGED <<prog, folder, cur, left, gen, window, vars>>

none  == -1
reset == -2

(* The events of the month (module Dates has their days).                  *)
reset_month == folder.msgs

(* Mutant: the windows are told only when the number of messages changed.  *)
Notify_Count ==
  /\ step = "notify"
  /\ IF shown /\ folder.changed /\ Cardinality(rows) # folder.nb_msgs
     THEN rows' = reset_month /\ step' = "display"
     ELSE UNCHANGED rows /\ step' = "idle"
  /\ dialog' = IF dialog = reset THEN none ELSE dialog
  /\ UNCHANGED <<prog, folder, cur, left, gen, shown, marked, editor, written, vars>>

(* The listeners are told (dir_listener_cb); the caller may reset the      *)
(* month in any case.                                                      *)
Notify ==
  /\ step = "notify"
  /\ IF shown /\ (folder.changed \/ dialog = reset) THEN rows' = reset_month /\ step' = "display"
                                                    ELSE UNCHANGED rows /\ step' = "idle"
  /\ dialog' = IF dialog = reset THEN none ELSE dialog
  /\ UNCHANGED <<prog, folder, cur, left, gen, shown, marked, editor, written, vars>>

-----------------------------------------------------------------------------
(* The window.                                                             *)

(* Opened on the folder (function_add_to_cal), or closed.                  *)
OpenView ==
  /\ step = "idle" /\ ~ shown /\ dialog = none
  /\ shown' = TRUE /\ rows' = reset_month /\ step' = "display"
  /\ UNCHANGED <<prog, folder, cur, left, gen, marked, editor, dialog, written, vars>>

CloseView ==
  /\ step = "idle" /\ shown /\ dialog = none
  /\ shown' = FALSE /\ rows' = {}
  /\ UNCHANGED <<prog, step, folder, cur, left, gen, marked, editor, dialog, written, vars>>

(* reset_day shows the events of one day, which the user may change.  A    *)
(* row of a folder that was emptied is a freed message (see RowsCurrent).  *)
reset_day ==
  /\ step = "idle" /\ shown /\ dialog = none /\ rows \subseteq folder.msgs
  /\ step' = "display"
  /\ UNCHANGED <<prog, folder, cur, left, gen, window, vars>>

(* display_event marks as read what it shows, once.                        *)
display_event ==
  /\ step = "display"
  /\ \E o \in rows \ (folder.read \cup marked) :
       /\ marked' = marked \cup {o}
       /\ Request("+", o.v)
  /\ UNCHANGED <<prog, step, folder, cur, left, gen, shown, rows, editor, dialog, written>>

(* The other rows are those of other days.                                 *)
EndOfDay ==
  /\ step = "display"
  /\ step' = "idle"
  /\ UNCHANGED <<prog, folder, cur, left, gen, window, vars>>

(* del_cb: transients cannot be deleted.  While the user is asked, the     *)
(* message may be freed; its version is then taken from freed memory.      *)
del_cb ==
  /\ step = "idle" /\ shown /\ dialog = none
  /\ dialog' \in {o.v : o \in {p \in rows \cap folder.msgs : p.v > 0}}
  /\ UNCHANGED <<prog, step, folder, cur, left, gen, shown, rows, marked, editor, written, vars>>

(* Confirmed: the request, mdirb_refresh, reset_month.                     *)
Confirmed ==
  /\ step = "idle" /\ dialog > 0
  /\ CanPatch(clog, "-", dialog) /\ Request("-", dialog)
  /\ dialog' = reset
  /\ step' = "errors"
  /\ folder' = [folder EXCEPT !.changed = FALSE]
  /\ UNCHANGED <<prog, cur, left, gen, shown, rows, marked, editor, written>>

Cancelled ==
  /\ step = "idle" /\ dialog > 0
  /\ dialog' = none
  /\ UNCHANGED <<prog, step, folder, cur, left, gen, shown, rows, marked, editor, written, vars>>

(* edit_cb opens the editor on a new event or on one that has a version.   *)
edit_cb ==
  /\ step = "idle" /\ shown /\ dialog = none /\ editor = none
  /\ editor' \in {0} \cup {o.v : o \in {p \in rows \cap folder.msgs : p.v > 0}}
  /\ UNCHANGED <<prog, step, folder, cur, left, gen, shown, rows, marked, dialog, written, vars>>

(* send_cb: the new event first, unless no date was entered, of which the   *)
(* user is told; then the removal of the event it replaces, as it was when *)
(* the editor was opened; then mdirb_refresh.                              *)
send_cb(dated) ==
  /\ step = "idle" /\ dialog = none /\ editor # none
  /\ LET new == IF dated THEN {[id |-> nextLocal, tag |-> "+", ref |-> 0]} ELSE {}
         rem == IF editor # 0 /\ CanPatch(clog, "-", editor)
                THEN {[id |-> nextLocal + Cardinality(new), tag |-> "-", ref |-> editor]} ELSE {}
     IN  /\ nextLocal + Cardinality(new \cup rem) <= MaxLocal + 1
         /\ tmp' = tmp \cup new \cup rem
         /\ nextLocal' = nextLocal + Cardinality(new \cup rem)
         /\ written' = written \cup {f.id : f \in new}
  /\ editor' = none
  /\ step' = "errors"
  /\ folder' = [folder EXCEPT !.changed = FALSE]
  /\ UNCHANGED <<prog, cur, left, gen, shown, rows, marked, dialog, server, clog, drafts, err, memory, net>>

-----------------------------------------------------------------------------

BrowserInit ==
  /\ ViewInit
  /\ prog \in Programs
  /\ step = "idle" /\ folder = NoMsgs /\ cur = [sync |-> 0, unsync |-> 0] /\ left = {}
  /\ gen = 0 /\ shown = FALSE /\ rows = {} /\ marked = {}
  /\ editor = none /\ dialog = none /\ written = {}

vadrouille ==
  \/ mdirb_refresh \/ err_msg \/ mdirb_del_all_msgs
  \/ ListJournal \/ OpenTransients \/ (\E f \in left : ListTransient(f)) \/ EndTransients
  \/ Notify \/ OpenView \/ CloseView \/ reset_day \/ display_event \/ EndOfDay
  \/ del_cb \/ Confirmed \/ Cancelled \/ edit_cb \/ (\E dated \in BOOLEAN : send_cb(dated))

BrowserNext ==
  \/ prog = "vadrouille" /\ vadrouille /\ UNCHANGED view
  \/ prog = "mdirc" /\ mdirc_update /\ UNCHANGED browser
  \/ Next /\ UNCHANGED <<view, browser>>

BrowserSpec == BrowserInit /\ [][BrowserNext]_bvars

-----------------------------------------------------------------------------
(* Properties.                                                             *)

(* The counts that the tree of folders shows are those of its list, and    *)
(* the panel of news holds exactly the unread messages, none of them       *)
(* freed: through marks, replaced transients, removals and the rebuilding  *)
(* of the list after a refusal.                                            *)
CountsRight ==
  /\ folder.nb_msgs = Cardinality(folder.msgs)
  /\ folder.nb_unread = Cardinality(folder.msgs \ folder.read)
  /\ folder.news = folder.msgs \ folder.read

Marks(log) == {v \in DOMAIN log : log[v].tag = "+" /\ log[v].ref # 0}

(* "so that the user view corresponds to the reality" (mdirb.c): between   *)
(* two refreshes, a message or a read mark that the server refused is not  *)
(* shown, unless the refusal is still in .err, on its way there, or could  *)
(* not be saved there; and a version that the journal marks as read up to  *)
(* the cursor is shown as read.                                            *)
ReadIsReal ==
  step = "idle" =>
    /\ \A o \in folder.msgs :
         o.v < 0 => \/ \E f \in tmp : f.id = -o.v
                    \/ -o.v \in err \cup unsaved \cup unreported
                    \/ \E v \in DOMAIN slog : slog[v].org = -o.v
    /\ \A o \in folder.read :
         \/ (o.v > 0 /\ was_read(clog[o.v].org)) \/ was_read(-o.v)
         \/ err \cup unsaved \cup unreported # {}
         \/ \E f \in tmp : f.tag = "+" /\ f.ref = o.v
         \/ \E v \in DOMAIN slog : slog[v].tag # "-" /\ slog[v].ref = o.v
    /\ \A m \in Marks(clog), o \in folder.msgs :
         m <= cur.sync /\ clog[m].ref = o.v /\ o.v > 0 => o \in folder.read

(* "so that they all get notified when the mdir content changes"           *)
(* (mdirb.h): between two refreshes the window has a row for each message  *)
(* of the list and none for a freed one, unless the list is empty.         *)
RowsCurrent ==
  step = "idle" /\ shown /\ folder.msgs # {} => rows = folder.msgs
=============================================================================
