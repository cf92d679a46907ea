------------------------------- MODULE MdSync -------------------------------
(***************************************************************************)
(* The synchronisation of one mdir between the metadata server (mdsyncd)   *)
(* and one client host (mdsyncc), over one connection.                     *)
(*                                                                         *)
(* Server side, one thread reads and executes the queries of the           *)
(* connection (mdsyncd/queries.c), and one thread per subscription sends   *)
(* the patches the client lacks (mdsyncd/sub.c); both write to the socket  *)
(* under the mutex wfd.  Client side, the writer thread sends the patches  *)
(* that plugins left in .tmp (mdsyncc/writer.c) and the reader thread      *)
(* handles answers and received patches (mdsyncc/reader.c).  Threads are   *)
(* cooperative (GNU pth): they give way only where they block.             *)
(*                                                                         *)
(* The other connections of the server appear as patches that are not ours *)
(* (ForeignPatch), the plugins of the client's host as requests            *)
(* (mdir_patch_request).  An mdir is the version log that module Jnl       *)
(* implements.  What two patches are about does not matter here, so a      *)
(* patch is its tag, the version it removes (ref), and its origin (org):   *)
(* the number of the .tmp file it was sent from, or above MaxLocal for the *)
(* patches of others.                                                      *)
(***************************************************************************)
EXTENDS Integers, Sequences, FiniteSets

CONSTANTS
  MaxLocal,     \* bound: patches requested on the client's host
  MaxForeign,   \* bound: patches of other hosts
  MaxBreaks,    \* bound: lost connections, client restarts and failed writes
  Contention,   \* do other subscriptions share the connection?
  Denials,      \* may the server refuse queries (permissions)?
  Incomplete    \* may the server fail after it has recorded a patch?

ASSUME MdSyncAssumption ==
  /\ MaxLocal \in Nat
  /\ MaxForeign \in Nat
  /\ MaxBreaks \in Nat
  /\ Contention \in BOOLEAN
  /\ Denials \in BOOLEAN
  /\ Incomplete \in BOOLEAN

VARIABLES
  slog,       \* the server's mdir
  answer,     \* the answer that the handler of the connection has yet to write
  sub,        \* the subscription: [on, version]
  orphans,    \* queries left in the socket of a connection the client lost
  clog,       \* the client's mdir, with the localid mdsyncc adds
  drafts,     \* transient patches that are numbered but have no file yet
  tmp,        \* files of .tmp: requested patches
  err,        \* files of .err: refused patches
  nextLocal,  \* the sequence that numbers transient patches
  commands,   \* mdirc->commands: queries without an answer yet
  acks,       \* mdirc->nb_pending_acks
  c2l,        \* mdirc->c2l_maps: [central, local]
  patches,    \* mdirc->patches: received patches, by old version
  applying,   \* is the reader thread within try_apply?
  subscribed, \* mdirc->subscribed
  quarantine, \* is mdirc->quarantine in the future?
  unsaved,    \* the refused patch that is in .tmp no more and not yet in .err
  unreported, \* history: refused patches that mdsyncc could not save in .err
  up, down,   \* the two directions of the connection
  link,       \* is the connection of this client up?
  breaks      \* lost connections, restarts and failed writes so far

server == <<slog, answer, sub, orphans>>
files  == <<clog, drafts, tmp, err, nextLocal>>
refusals == <<unsaved, unreported>>
memory == <<commands, acks, c2l, patches, applying, subscribed, quarantine, refusals>>
net    == <<up, down, link, breaks>>
vars   == <<server, files, memory, net>>

-----------------------------------------------------------------------------
(* The version log, seen through mdir_patch.                               *)

Entry(tag, ref, org, lid) == [tag |-> tag, ref |-> ref, org |-> org, lid |-> lid]
BlankEntry == Entry("%", 0, 0, 0)

(* Mutant: a target that is gone already is refused.                       *)
CanPatch_Strict(log, tag, ref) == tag = "-" => ref \in DOMAIN log /\ log[ref].tag = "+"

(* mdir_prepare_rem accepts a removal if its target exists and is not      *)
(* itself a removal; a target that is blank already is accepted.           *)
CanPatch(log, tag, ref) == tag = "-" => ref \in DOMAIN log /\ log[ref].tag # "-"

Erase(log, tag, ref) == IF tag = "-" THEN [log EXCEPT ![ref].tag = "%"] ELSE log

(* Mutant: insert_blank_patches inserts one too many.                      *)
Blanks_Extra(n) == [i \in 1 .. n + 1 |-> BlankEntry]

Blanks(n) == [i \in 1 .. n |-> BlankEntry]

(* mdir_patch(mdir, action, header, nb_deleted) when CanPatch holds once   *)
(* the blanks are in.                                                      *)
mdir_patch(log, e, nb_deleted) == Append(Erase(log \o Blanks(nb_deleted), e.tag, e.ref), e)

(* mdir_read_next: the first version after v that is not blank.            *)
mdir_read_next(log, v) ==
  LET later == {w \in DOMAIN log : w > v /\ log[w].tag # "%"}
  IN  CHOOSE w \in later : \A x \in later : w <= x

-----------------------------------------------------------------------------
(* Messages.                                                               *)

Query(kw, id, ref) == [kw |-> kw, id |-> id, ref |-> ref]
Answer(kw, id, status, version) ==
  [kw |-> kw, id |-> id, status |-> status, version |-> version]
Patch(old, new, e) == [kw |-> "patch", old |-> old, new |-> new, tag |-> e.tag,
                       ref |-> e.ref, org |-> e.org]

NoAnswer == <<>>

-----------------------------------------------------------------------------
(* The plugins of the client's host.                                       *)

(* mdir_patch_request: a removal is refused unless its target could be     *)
(* removed here (mdir_prepare_rem, transient); then the sequence numbers   *)
(* the patch...                                                            *)
mdir_patch_request(tag, ref) ==
  /\ nextLocal <= MaxLocal
  /\ CanPatch(clog, tag, ref)
  /\ drafts' = drafts \cup {[id |-> nextLocal, tag |-> tag, ref |-> ref]}
  /\ nextLocal' = nextLocal + 1
  /\ UNCHANGED <<server, clog, tmp, err, memory, net>>

(* ... and its file is created in .tmp.  Plugins are separate processes,   *)
(* so a later number may get its file first.                               *)
CreateTransient ==
  /\ \E f \in drafts : tmp' = tmp \cup {f} /\ drafts' = drafts \ {f}
  /\ UNCHANGED <<server, clog, err, nextLocal, memory, net>>

-----------------------------------------------------------------------------
(* The writer thread of mdsyncc.                                           *)

kw(f) == IF f.tag = "+" THEN "put" ELSE "rem"

(* parse_dir_rec: subscribe, unless done, in progress or quarantined.      *)
WriterSub ==
  /\ link /\ ~applying /\ unsaved = {}
  /\ ~subscribed /\ ~quarantine
  /\ \A c \in commands : c.kw # "sub"
  /\ commands' = commands \cup {[kw |-> "sub", id |-> 0]}
  /\ up' = Append(up, Query("sub", 0, Len(clog)))
  /\ UNCHANGED <<server, files, acks, c2l, patches, applying, subscribed, quarantine, refusals,
                 down, link, breaks>>

(* Mutants: the file is sent again at each turn of the writer, or unlinked *)
(* as soon as it is sent.                                                  *)
WriterSend_Again(f) ==
  /\ link /\ ~applying /\ unsaved = {}
  /\ f \in tmp
  /\ commands' = commands \cup {[kw |-> kw(f), id |-> f.id]}
  /\ acks' = acks + 1
  /\ up' = Append(up, Query(kw(f), f.id, f.ref))
  /\ UNCHANGED <<server, files, c2l, patches, applying, subscribed, quarantine, refusals,
                 down, link, breaks>>
WriterSend_Unlinks(f) ==
  /\ link /\ ~applying /\ unsaved = {}
  /\ f \in tmp
  /\ tmp' = tmp \ {f}
  /\ commands' = commands \cup {[kw |-> kw(f), id |-> f.id]}
  /\ acks' = acks + 1
  /\ up' = Append(up, Query(kw(f), f.id, f.ref))
  /\ UNCHANGED <<server, clog, drafts, err, nextLocal, c2l, patches, applying, subscribed,
                 quarantine, refusals, down, link, breaks>>

(* ls_transients: send the file unless there is already a command for it.  *)
WriterSend(f) ==
  /\ link /\ ~applying /\ unsaved = {}
  /\ f \in tmp
  /\ [kw |-> kw(f), id |-> f.id] \notin commands
  /\ commands' = commands \cup {[kw |-> kw(f), id |-> f.id]}
  /\ acks' = acks + 1
  /\ up' = Append(up, Query(kw(f), f.id, f.ref))
  /\ UNCHANGED <<server, files, c2l, patches, applying, subscribed, quarantine, refusals,
                 down, link, breaks>>

(* The five minutes of quarantine are over.                                *)
QuarantineEnds ==
  /\ quarantine
  /\ quarantine' = FALSE
  /\ UNCHANGED <<server, files, commands, acks, c2l, patches, applying, subscribed, refusals, net>>

-----------------------------------------------------------------------------
(* The handler thread of the connection in mdsyncd.  It executes a query   *)
(* and then waits for wfd to write the answer.                             *)

exec_sub(q, granted) ==
  /\ sub' = IF sub.on THEN [sub EXCEPT !.version = IF q.ref > @ THEN @ ELSE q.ref]
            ELSE IF granted THEN [on |-> TRUE, version |-> q.ref]
            ELSE sub
  /\ answer' = <<Answer("sub", 0, IF sub.on THEN 304 ELSE IF granted THEN 200 ELSE 403, 0)>>
  /\ UNCHANGED slog

(* add_header: permissions, then mdir_patch.                               *)
Accepts(q, granted) ==
  granted /\ CanPatch(slog, IF q.kw = "put" THEN "+" ELSE "-", q.ref)

add_header(q) ==
  mdir_patch(slog, Entry(IF q.kw = "put" THEN "+" ELSE "-", q.ref, q.id, 0), 0)

(* Mutant: a patch that was recorded gets no answer.                       *)
exec_putrem_Silent(q, granted, confirmed) ==
  /\ IF Accepts(q, granted)
     THEN slog' = add_header(q) /\ UNCHANGED answer
     ELSE UNCHANGED slog /\ answer' = <<Answer(q.kw, q.id, 502, 0)>>
  /\ UNCHANGED sub

(* An addition may fail after it is recorded: mdir_confirm_add, the target *)
(* of a mark, set_default_perms.  It is then answered as a refusal.        *)
exec_putrem(q, granted, confirmed) ==
  /\ IF Accepts(q, granted)
     THEN /\ slog' = add_header(q)
          /\ answer' = IF confirmed \/ q.kw = "rem"
                       THEN <<Answer(q.kw, q.id, 200, Len(slog) + 1)>>
                       ELSE <<Answer(q.kw, q.id, 502, 0)>>
     ELSE /\ answer' = <<Answer(q.kw, q.id, 502, 0)>>
          /\ UNCHANGED slog
  /\ UNCHANGED sub

ServeQuery ==
  /\ up # <<>> /\ answer = NoAnswer
  /\ up' = Tail(up)
  /\ \E granted \in {TRUE, ~Denials}, confirmed \in {TRUE, ~Incomplete} :
       IF Head(up).kw = "sub" THEN exec_sub(Head(up), granted)
                              ELSE exec_putrem(Head(up), granted, confirmed)
  /\ UNCHANGED <<orphans, files, memory, down, link, breaks>>

(* answer(): wfd is ours.                                                  *)
SendAnswer ==
  /\ answer # NoAnswer
  /\ down' = Append(down, Head(answer))
  /\ answer' = NoAnswer
  /\ UNCHANGED <<slog, sub, orphans, files, memory, up, link, breaks>>

-----------------------------------------------------------------------------
(* The subscription thread.  It sends one patch each time it gets wfd.     *)

client_needs_patch == sub.on /\ sub.version < Len(slog)

(* An answer that waits for wfd can be overtaken only if a third thread    *)
(* held wfd: the subscription to another mdir on the same connection.      *)
SendNextPatch ==
  /\ client_needs_patch
  /\ Contention \/ answer = NoAnswer
  /\ LET next == mdir_read_next(slog, sub.version)
     IN  /\ down' = Append(down, Patch(sub.version, next, slog[next]))
         /\ sub' = [sub EXCEPT !.version = next]
  /\ UNCHANGED <<slog, answer, orphans, files, memory, up, link, breaks>>

(* The handlers of the other connections patch the same mdir.              *)
ForeignPatch ==
  /\ LET org == 1 + Cardinality({v \in DOMAIN slog : slog[v].org > MaxLocal}) + MaxLocal
     IN  /\ org <= MaxLocal + MaxForeign
         /\ \/ slog' = mdir_patch(slog, Entry("+", 0, org, 0), 0)
            \/ \E t \in DOMAIN slog :
                 /\ CanPatch(slog, "-", t)
                 /\ slog' = mdir_patch(slog, Entry("-", t, org, 0), 0)
  /\ UNCHANGED <<answer, sub, orphans, files, memory, net>>

-----------------------------------------------------------------------------
(* The reader thread of mdsyncc.                                           *)

Receives(k) == /\ link /\ ~applying /\ unsaved = {}
               /\ down # <<>> /\ Head(down).kw \in k
               /\ down' = Tail(down)

finalize_sub ==
  /\ Receives({"sub"})
  /\ subscribed' = (subscribed \/ Head(down).status = 200)
  /\ quarantine' = (quarantine \/ Head(down).status # 200)
  /\ commands' = commands \ {[kw |-> "sub", id |-> 0]}
  /\ UNCHANGED <<server, files, acks, c2l, patches, applying, refusals, up, link, breaks>>

(* Mutant: remove_local_file is called for refused patches only.           *)
finalize_putrem_Keeps ==
  /\ Receives({"put", "rem"})
  /\ LET a == Head(down)
     IN  /\ acks' = acks - 1
         /\ commands' = commands \ {[kw |-> a.kw, id |-> a.id]}
         /\ IF a.status = 200
            THEN /\ c2l' = c2l \cup {[central |-> a.version, local |-> a.id]}
                 /\ UNCHANGED <<tmp, unsaved>>
            ELSE /\ tmp' = {f \in tmp : f.id # a.id}
                 /\ unsaved' = {a.id}
                 /\ UNCHANGED c2l
  /\ UNCHANGED <<server, clog, drafts, err, nextLocal, patches, applying, subscribed, quarantine,
                 unreported, up, link, breaks>>

(* finalize_put, finalize_rem and fin_putrem: the file leaves .tmp; the    *)
(* central version of an accepted one is remembered, and a refused one is  *)
(* to be saved in .err.  The command is deleted last, but no other thread  *)
(* of mdsyncc runs before that.                                            *)
finalize_putrem ==
  /\ Receives({"put", "rem"})
  /\ LET a == Head(down)
     IN  /\ acks' = acks - 1
         /\ commands' = commands \ {[kw |-> a.kw, id |-> a.id]}
         /\ tmp' = {f \in tmp : f.id # a.id}
         /\ IF a.status = 200
            THEN /\ c2l' = c2l \cup {[central |-> a.version, local |-> a.id]}
                 /\ UNCHANGED unsaved
            ELSE /\ unsaved' = {a.id}
                 /\ UNCHANGED c2l
  /\ UNCHANGED <<server, clog, drafts, err, nextLocal, patches, applying, subscribed, quarantine,
                 unreported, up, link, breaks>>

(* fin_putrem: header_to_file writes the file of .err...                   *)
SaveError ==
  /\ unsaved # {}
  /\ err' = err \cup unsaved
  /\ unsaved' = {}
  /\ UNCHANGED <<server, clog, drafts, tmp, nextLocal, commands, acks, c2l, patches, applying,
                 subscribed, quarantine, unreported, net>>

(* ... or fails, which error_clear forgets.                                *)
SaveErrorFails ==
  /\ unsaved # {} /\ breaks < MaxBreaks
  /\ breaks' = breaks + 1
  /\ unreported' = unreported \cup unsaved
  /\ unsaved' = {}
  /\ UNCHANGED <<server, files, commands, acks, c2l, patches, applying, subscribed, quarantine,
                 up, down, link>>

(* The list of received patches is sorted by old version; a newcomer goes  *)
(* after its equals.                                                       *)
Insert(p) ==
  LET n == Cardinality({i \in DOMAIN patches : patches[i].old <= p.old})
  IN  SubSeq(patches, 1, n) \o <<p>> \o SubSeq(patches, n + 1, Len(patches))

(* patch_service: patch_ctor looks up the local version once, on arrival,  *)
(* and forgets it; then try_apply, which does nothing while acks are due.  *)
patch_service ==
  /\ Receives({"patch"})
  /\ LET p == Head(down)
         maps == {m \in c2l : m.central = p.new}
         lid == IF maps = {} THEN 0 ELSE (CHOOSE m \in maps : TRUE).local
     IN  /\ patches' = Insert([old |-> p.old, new |-> p.new,
                               e |-> Entry(p.tag, p.ref, p.org, lid)])
         /\ c2l' = c2l \ maps
  /\ applying' = (acks = 0)
  /\ UNCHANGED <<server, files, commands, acks, subscribed, quarantine, refusals, up, link, breaks>>

CanApply == patches # <<>> /\ Head(patches).old = Len(clog)

(* One turn of the loop of try_apply.  If mdir_patch fails the blanks are  *)
(* in, the patch stays in the list, and the error ends the reader thread.  *)
ApplyOne ==
  /\ applying /\ CanApply
  /\ LET p == Head(patches)
         nb_deleted == p.new - p.old - 1
     IN  IF CanPatch(clog \o Blanks(nb_deleted), p.e.tag, p.e.ref)
         THEN /\ clog' = mdir_patch(clog, p.e, nb_deleted)
              /\ patches' = Tail(patches)
              /\ UNCHANGED <<applying, link>>
         ELSE /\ clog' = clog \o Blanks(nb_deleted)
              /\ applying' = FALSE
              /\ link' = FALSE
              /\ UNCHANGED patches
  /\ UNCHANGED <<server, drafts, tmp, err, nextLocal, commands, acks, c2l, subscribed, quarantine,
                 refusals, up, down, breaks>>

ApplyEnd ==
  /\ applying /\ ~CanApply
  /\ applying' = FALSE
  /\ UNCHANGED <<server, files, commands, acks, c2l, patches, subscribed, quarantine, refusals, net>>

-----------------------------------------------------------------------------
(* Failures.                                                               *)

(* Mutant: cnx_env_del leaves the subscriptions in place.                  *)
Disconnect_KeepsSub ==
  /\ breaks < MaxBreaks
  /\ breaks' = breaks + 1
  /\ answer' = NoAnswer
  /\ orphans' = orphans \o up
  /\ up' = <<>>
  /\ down' = <<>>
  /\ UNCHANGED <<slog, sub>>

(* The server's side of a connection that is gone: its subscriptions are   *)
(* deleted (cnx_env_del), but queries that had arrived may still be read   *)
(* and executed before the handler meets the end of the stream.            *)
Disconnect ==
  /\ breaks < MaxBreaks
  /\ breaks' = breaks + 1
  /\ sub' = [on |-> FALSE, version |-> 0]
  /\ answer' = NoAnswer
  /\ orphans' = orphans \o up
  /\ up' = <<>>
  /\ down' = <<>>
  /\ UNCHANGED slog

(* The connection is lost.  The reader thread of mdsyncc ends, and nothing *)
(* connects again: connecter_thread waits for ever.                        *)
LinkBreaks ==
  /\ link /\ ~applying /\ unsaved = {}
  /\ Disconnect
  /\ link' = FALSE
  /\ UNCHANGED <<files, memory>>

(* mdsyncc stops, or crashes, and is started again: the files are all it   *)
(* remembers.                                                              *)
ClientRestarts ==
  /\ Disconnect
  /\ link' = TRUE
  /\ commands' = {} /\ acks' = 0 /\ c2l' = {} /\ patches' = <<>>
  /\ applying' = FALSE /\ subscribed' = FALSE /\ quarantine' = FALSE
  /\ unreported' = unreported \cup unsaved /\ unsaved' = {}
  /\ UNCHANGED files

(* A query of a lost connection is executed; nobody gets the answer, and a *)
(* subscription goes with the connection.                                  *)
ServeOrphan ==
  /\ orphans # <<>>
  /\ orphans' = Tail(orphans)
  /\ \E granted \in {TRUE, ~Denials} :
       slog' = IF Head(orphans).kw # "sub" /\ Accepts(Head(orphans), granted)
               THEN add_header(Head(orphans)) ELSE slog
  /\ UNCHANGED <<answer, sub, files, memory, net>>

(* Or it is lost with the socket.                                          *)
LoseOrphan ==
  /\ orphans # <<>>
  /\ orphans' = <<>>
  /\ UNCHANGED <<slog, answer, sub, files, memory, net>>

-----------------------------------------------------------------------------

Init ==
  /\ slog = <<>> /\ answer = NoAnswer /\ sub = [on |-> FALSE, version |-> 0]
  /\ orphans = <<>>
  /\ clog = <<>> /\ drafts = {} /\ tmp = {} /\ err = {} /\ nextLocal = 1
  /\ commands = {} /\ acks = 0 /\ c2l = {} /\ patches = <<>>
  /\ applying = FALSE /\ subscribed = FALSE /\ quarantine = FALSE
  /\ unsaved = {} /\ unreported = {}
  /\ up = <<>> /\ down = <<>> /\ link = TRUE /\ breaks = 0

Server == ServeQuery \/ SendAnswer \/ SendNextPatch
Client ==
  \/ WriterSub \/ QuarantineEnds
  \/ \E f \in tmp : WriterSend(f)
  \/ finalize_sub \/ finalize_putrem \/ SaveError \/ patch_service \/ ApplyOne \/ ApplyEnd
Environment ==
  \/ mdir_patch_request("+", 0)
  \/ \E t \in DOMAIN clog : mdir_patch_request("-", t)
  \/ CreateTransient
  \/ ForeignPatch
  \/ SaveErrorFails \/ LinkBreaks \/ ClientRestarts \/ ServeOrphan \/ LoseOrphan

Next == Server \/ Client \/ Environment

Spec == Init /\ [][Next]_vars

(* Every thread that can run eventually does (pth schedules round robin,   *)
(* the writer polls every ten seconds and the subscription every second);  *)
(* users, other hosts and failures promise nothing.                        *)
Fairness ==
  /\ WF_vars(ServeQuery) /\ WF_vars(SendAnswer) /\ WF_vars(SendNextPatch)
  /\ WF_vars(WriterSub) /\ WF_vars(QuarantineEnds)
  /\ \A n \in 1 .. MaxLocal : WF_vars(\E f \in tmp : f.id = n /\ WriterSend(f))
  /\ WF_vars(finalize_sub) /\ WF_vars(finalize_putrem) /\ WF_vars(SaveError)
  /\ WF_vars(patch_service)
  /\ WF_vars(ApplyOne) /\ WF_vars(ApplyEnd)

FairSpec == Spec /\ Fairness

-----------------------------------------------------------------------------
(* Properties.                                                             *)

(* The client's mdir is the server's, up to the client's last version, and *)
(* as it was at some time: what the client still has the server has too,   *)
(* unless it was removed since; what is gone on the client is gone on the  *)
(* server.  mdir_patch with nb_deleted, and the removals, must agree with  *)
(* what happened on the server however the threads interleave.             *)
ReplicaPrefix ==
  /\ Len(clog) <= Len(slog)
  /\ \A v \in DOMAIN clog :
       IF clog[v].tag = "%" THEN slog[v].tag = "%"
       ELSE /\ slog[v].tag \in {clog[v].tag, "%"}
            /\ slog[v].ref = clog[v].ref /\ slog[v].org = clog[v].org

(* The version that the received patches lead to, and whether those that   *)
(* arrive before the i-th message of the connection lead to v.             *)
Received == IF patches = <<>> THEN Len(clog) ELSE patches[Len(patches)].new

LeadTo(i, v) ==
  \/ v = Received /\ \A k \in 1 .. i - 1 : down[k].kw # "patch"
  \/ \E k \in 1 .. i - 1 : /\ down[k].kw = "patch" /\ v = down[k].new
                           /\ \A m \in k + 1 .. i - 1 : down[m].kw # "patch"

(* Patches on their way, received or not, link the client's last version   *)
(* to the version of its subscription without a hole or an overlap, so     *)
(* that the head of mdirc->patches is always the next one to apply; and    *)
(* applying it never fails, which would end the reader thread: a removal   *)
(* finds its target among the client's versions.                           *)
PatchChain ==
  /\ link /\ sub.on =>
       /\ \A i \in DOMAIN patches :
            patches[i].old = IF i = 1 THEN Len(clog) ELSE patches[i - 1].new
       /\ \A i \in DOMAIN down : down[i].kw = "patch" => LeadTo(i, down[i].old)
       /\ LeadTo(Len(down) + 1, sub.version)
  /\ applying /\ CanApply =>
       LET p == Head(patches)
       IN  CanPatch(clog \o Blanks(p.new - p.old - 1), p.e.tag, p.e.ref)

(* The messages of s that are about command c.                             *)
About(s, c) == {i \in DOMAIN s : s[i].kw = c.kw /\ s[i].id = c.id}

Outstanding(c) ==
  Cardinality(About(up, c)) + Cardinality(About(answer, c)) + Cardinality(About(down, c))

(* While the connection holds every command awaits exactly one message,    *)
(* and nb_pending_acks counts the commands that are not subscriptions: the *)
(* assertion nb_pending_acks > 0 holds and no answer is unexpected.        *)
AnswersMatchCommands ==
  link =>
    /\ acks = Cardinality({c \in commands : c.kw # "sub"})
    /\ \A c \in commands : Outstanding(c) = 1
    /\ \A q \in {m \in {up[i] : i \in DOMAIN up} \cup {answer[i] : i \in DOMAIN answer}
                       \cup {down[i] : i \in DOMAIN down} : m.kw # "patch"} :
         [kw |-> q.kw, id |-> q.id] \in commands

(* A patch requested on the client is not lost, whatever breaks: its file  *)
(* waits in .tmp, or the server has recorded it, or it is in .err or about *)
(* to be.  The one exception is a patch that the server answered with a    *)
(* refusal, if mdsyncc ends between unlinking it in .tmp and writing .err, *)
(* or fails to write: one patch for each such break.                       *)
RequestNotLost ==
  /\ \A n \in 1 .. nextLocal - 1 :
       \/ \E f \in tmp \cup drafts : f.id = n
       \/ n \in err \cup unsaved \cup unreported
       \/ \E v \in DOMAIN slog : slog[v].org = n
  /\ Cardinality(unreported) <= breaks

(* "headers are unique per directory, by construction" (doc/mdird.txt): a  *)
(* request becomes at most one version, as long as the connection holds.   *)
AtMostOnce ==
  \A v, w \in DOMAIN slog : slog[v].org = slog[w].org => v = w

(* Every patch the server records reaches the client, as long as the       *)
(* connection holds.                                                       *)
PatchesReach ==
  \A n \in 1 .. MaxForeign + MaxLocal :
    Len(slog) >= n ~> Len(clog) >= n \/ ~link

(* Every requested patch is eventually settled, accepted or refused, as    *)
(* long as the connection holds.                                           *)
RequestSettled ==
  \A n \in 1 .. MaxLocal :
    (\E f \in tmp : f.id = n) ~> (\A f \in tmp : f.id # n) \/ ~link
=============================================================================
