---------------------------- MODULE MdViewProofs ----------------------------
(***************************************************************************)
(* Theorems about modules MdView and Vadrouille: programs that list an     *)
(* mdir next to the mdsyncc that synchronises it, for every number of      *)
(* requests, of foreign patches and of listings, which may fail half way.  *)
(* The first part is about the message list of MdView, the second, from    *)
(* OriginsIn on, about the folder and the window of Vadrouille.            *)
(***************************************************************************)
EXTENDS Vadrouille, MdSyncProofs

-----------------------------------------------------------------------------
(* A step of the listing changes no more of the host than the files of     *)
(* .err, which it unlinks.                                                 *)

Unlinks ==
  /\ err' \subseteq err
  /\ UNCHANGED <<slog, answer, sub, orphans, clog, drafts, tmp, nextLocal, commands, acks, c2l, patches,
                 applying, subscribed, quarantine, unsaved, unreported, up, down, link, breaks>>

(* No step of mdirc_update does more than that.                            *)
LEMMA ListingUnlinks ==
  ASSUME mdirc_update PROVE Unlinks
<1>1. CASE err_list
  BY <1>1 DEF err_list, Unlinks, server, memory, refusals, net
<1>2. CASE mdirc_update /\ ~ err_list
  <2>1. UNCHANGED vars
    BY <1>2 DEF mdirc_update, synch_list, opendir, transient_list, transient_end, err_end
  <2> QED
    BY <2>1 DEF vars, server, files, memory, refusals, net, Unlinks
<1> QED
  BY <1>1, <1>2

(* So the invariants of MdSyncProofs, which say no more of .err than its   *)
(* type, survive the listing.                                              *)
LEMMA UnlinksKeeps ==
  ASSUME Unlinks
  PROVE  /\ TypeInv => TypeInv'
         /\ AckedRecorded => AckedRecorded'
         /\ SyncInv => SyncInv'
         /\ Unbroken => Unbroken'
<1>1. TypeInv => TypeInv'
  BY DEF Unlinks, TypeInv, ServerTypes, FileTypes, MemoryTypes, NetTypes, Forward
<1>2. AckedRecorded => AckedRecorded'
  BY DEF Unlinks, AckedRecorded
<1>3. Matching => Matching'
  BY DEF Unlinks, Matching, Expected, OnceEach, Answered, AcksCount
<1>4. Synced => Synced'
  BY DEF Unlinks, Synced, Offline, SubState, NoPatches, PatchesTrue, PatchesSorted, Chain, Replica
<1>5. Unbroken => Unbroken'
  BY DEF Unlinks, Unbroken, Numbers, OneFile, CommandFiles, Fresh
<1> QED
  BY <1>1, <1>2, <1>3, <1>4, <1>5 DEF SyncInv

-----------------------------------------------------------------------------
(* The list of messages.                                                   *)

(* A set of numbers with an upper bound has a greatest element.            *)
LEMMA GreatestNumber ==
  ASSUME NEW len \in Nat, NEW T, T \subseteq 0 .. len, T # {} PROVE \E x \in T : \A y \in T : y <= x
<1> DEFINE M == {len - x : x \in T}
<1>1. M \subseteq Nat /\ M # {}
  <2>1. \A x \in T : x \in Nat /\ x <= len
    OBVIOUS
  <2>2. \A x \in T : len - x \in Nat
    BY <2>1
  <2> QED
    BY <2>2
<1>2. PICK m \in M : \A y \in M : m <= y
  BY <1>1, LeastNumber
<1>3. PICK x \in T : m = len - x
  BY <1>2
<1>4. ASSUME NEW y \in T PROVE y <= x
  <2>1. m <= len - y
    BY <1>2
  <2>2. x \in 0 .. len /\ y \in 0 .. len
    BY <1>3
  <2> QED
    BY <1>3, <2>1, <2>2
<1> QED
  BY <1>4

(* Cursors and messages are numbers; a version that is shown is one of the *)
(* client's mdir, and a transient message has been passed by the cursor.   *)
ListTypes ==
  /\ cursor \in [sync : Nat, unsync : Nat]
  /\ msgs \subseteq Int
  /\ \A m \in msgs : m <= Len(clog)
  /\ \A n \in Nat : -n \in msgs => n <= cursor.unsync
  /\ todo \subseteq RequestFile

NewVersions == {v \in cursor.sync + 1 .. Len(clog) : clog[v].tag # "%"}
NewAdds     == {v \in NewVersions : clog[v].tag = "+"}
Withdrawn   == {clog[v].ref : v \in NewVersions \ NewAdds}
               \cup {-clog[v].lid : v \in {w \in NewAdds : clog[w].lid # 0 /\ clog[w].lid <= cursor.unsync}}

(* What the listing of the journals does to the messages shown.            *)
LEMMA SynchEffect ==
  ASSUME synch_list, clog \in Seq(LogEntry), cursor \in [sync : Nat, unsync : Nat]
  PROVE  /\ msgs' = (msgs \ Withdrawn) \cup NewAdds
         /\ cursor'.sync \in Nat /\ cursor' = [sync |-> cursor'.sync, unsync |-> cursor.unsync]
         /\ NewAdds \subseteq 1 .. Len(clog)
         /\ UNCHANGED <<todo, failed, vars>>
<1>1. NewVersions \subseteq 0 .. Len(clog) /\ Len(clog) \in Nat /\ NewVersions \subseteq 1 .. Len(clog)
  BY DEF NewVersions
<1> DEFINE s == IF NewVersions = {} THEN cursor.sync ELSE CHOOSE v \in NewVersions : \A w \in NewVersions : w <= v
<1>3. s \in Nat
  <2>1. CASE NewVersions = {}
    BY <2>1
  <2>2. CASE NewVersions # {}
    <3>1. \E v \in NewVersions : \A w \in NewVersions : w <= v
      BY <1>1, <2>2, GreatestNumber
    <3>2. s \in NewVersions
      BY <2>2, <3>1
    <3> HIDE DEF s
    <3> QED
      BY <1>1, <3>2
  <2> QED
    BY <2>1, <2>2
<1>4. cursor' = [cursor EXCEPT !.sync = s]
  BY DEF synch_list, NewVersions
<1> HIDE DEF s
<1>5. cursor'.sync = s /\ cursor' = [sync |-> s, unsync |-> cursor.unsync]
  BY <1>4
<1>6. msgs' = (msgs \ Withdrawn) \cup NewAdds /\ UNCHANGED <<todo, failed, vars>>
  BY DEF synch_list, NewVersions, NewAdds, Withdrawn
<1>7. NewAdds \subseteq 1 .. Len(clog)
  BY <1>1 DEF NewAdds
<1> QED
  BY <1>3, <1>5, <1>6, <1>7

(* What the listing of one file of .tmp does to them.                      *)
LEMMA TransientEffect ==
  ASSUME NEW f \in todo, transient_list(f), ListTypes
  PROVE  /\ f \in RequestFile
         /\ cursor'.sync = cursor.sync /\ cursor' \in [sync : Nat, unsync : Nat]
         /\ f.id <= cursor'.unsync /\ cursor.unsync <= cursor'.unsync
         /\ msgs' \subseteq msgs \/ (f \in tmp /\ msgs' = msgs \cup {-f.id})
         /\ todo' \subseteq todo
         /\ UNCHANGED <<failed, vars>>
<1>1. f \in RequestFile /\ f.id \in Nat /\ cursor \in [sync : Nat, unsync : Nat]
  BY DEF ListTypes, RequestFile
<1>2. PICK u \in Nat : u = IF f.id > cursor.unsync THEN f.id ELSE cursor.unsync
  BY <1>1
<1>3. cursor' = [cursor EXCEPT !.unsync = u]
  BY <1>2 DEF transient_list
<1>4. cursor'.sync = cursor.sync /\ cursor'.unsync = u /\ cursor' \in [sync : Nat, unsync : Nat]
  BY <1>1, <1>3
<1>5. f.id <= u /\ cursor.unsync <= u
  BY <1>1, <1>2
<1>6. msgs' \subseteq msgs \/ (f \in tmp /\ msgs' = msgs \cup {-f.id})
  BY DEF transient_list
<1>7. todo' \subseteq todo /\ UNCHANGED <<failed, vars>>
  BY DEF transient_list
<1> QED
  BY <1>1, <1>4, <1>5, <1>6, <1>7

(* Every step of the listing keeps the types; so does what mdsyncc does,   *)
(* for the client's mdir never gets shorter.                               *)
LEMMA ListStep ==
  ASSUME clog \in Seq(LogEntry), tmp \subseteq RequestFile, ListTypes, mdirc_update PROVE ListTypes'
<1>1. UNCHANGED clog
  BY ListingUnlinks DEF Unlinks
<1>2. cursor \in [sync : Nat, unsync : Nat] /\ msgs \subseteq Int /\ Len(clog) \in Nat
  BY DEF ListTypes
<1>3. CASE synch_list
  <2>1. /\ msgs' \subseteq msgs \cup (1 .. Len(clog)) /\ todo' = todo
        /\ cursor' \in [sync : Nat, unsync : Nat] /\ cursor'.unsync = cursor.unsync
    BY <1>2, <1>3, SynchEffect
  <2>2. \A n \in Nat : -n \notin 1 .. Len(clog)
    BY <1>2
  <2> QED
    BY <1>1, <1>2, <2>1, <2>2 DEF ListTypes
<1>4. CASE opendir
  <2>1. todo' \subseteq tmp /\ UNCHANGED <<cursor, msgs>>
    BY <1>4 DEF opendir
  <2> QED
    BY <1>1, <2>1 DEF ListTypes
<1>5. ASSUME NEW f \in todo, transient_list(f) PROVE ListTypes'
  <2>1. /\ f.id \in Nat /\ cursor' \in [sync : Nat, unsync : Nat]
        /\ f.id <= cursor'.unsync /\ cursor.unsync <= cursor'.unsync
        /\ msgs' \subseteq msgs \/ msgs' = msgs \cup {-f.id}
        /\ todo' \subseteq todo
    BY <1>5, TransientEffect DEF RequestFile
  <2>2. msgs' \subseteq Int /\ \A m \in msgs' : m <= Len(clog)
    <3>1. -f.id \in Int /\ -f.id <= Len(clog)
      BY <1>2, <2>1
    <3> QED
      BY <1>2, <2>1, <3>1 DEF ListTypes
  <2>3. ASSUME NEW n \in Nat, -n \in msgs' PROVE n <= cursor'.unsync
    <3>1. CASE -n \in msgs
      <4>1. n <= cursor.unsync
        BY <3>1 DEF ListTypes
      <4>2. cursor.unsync \in Nat /\ cursor'.unsync \in Nat
        BY <1>2, <2>1
      <4> QED
        BY <2>1, <4>1, <4>2
    <3>2. CASE -n = -f.id
      <4>1. n = f.id
        BY <2>1, <3>2
      <4> QED
        BY <2>1, <4>1
    <3> QED
      BY <2>1, <2>3, <3>1, <3>2
  <2> QED
    BY <1>1, <2>1, <2>2, <2>3 DEF ListTypes
<1>6. CASE transient_end \/ err_list \/ err_end
  BY <1>1, <1>6 DEF transient_end, err_list, err_end, ListTypes
<1> QED
  BY <1>3, <1>4, <1>5, <1>6 DEF mdirc_update

-----------------------------------------------------------------------------
(* Refusals are shown.                                                     *)

(* What keeps a transient message from being one that was refused in       *)
(* silence.                                                                *)
Shown == \A n \in Nat : -n \in msgs => Kept(tmp, Refused, slog, n) \/ -n \in failed

(* mdsyncc removes a file of .tmp if the request is recorded or refused.   *)
LEMMA KeptStep ==
  ASSUME TypeInv, AckedRecorded, [Next]_vars, NEW n, Kept(tmp, Refused, slog, n)
  PROVE  Kept(tmp', Refused', slog', n)
<1>1. RecordedIn(slog, n) => RecordedIn(slog', n)
  BY RecordedStays
<1>2. CASE tmp \subseteq tmp' /\ ~finalize_putrem
  BY <1>1, <1>2, RefusedSame DEF Kept
<1>3. CASE finalize_putrem
  <2>1. /\ tmp' = {f \in tmp : f.id # down[1].id} /\ down[1].kw \in {"put", "rem"} /\ Len(down) >= 1 /\ slog' = slog
        /\ Refused' = IF down[1].status = 200 THEN Refused ELSE Refused \cup {down[1].id}
    BY <1>3, RefusedFinalize
  <2>2. down[1].status = 200 => RecordedIn(slog, down[1].id)
    BY <2>1 DEF AckedRecorded, Acknowledges, TypeInv, NetTypes
  <2> QED
    BY <2>1, <2>2 DEF Kept
<1>4. tmp \subseteq tmp' \/ finalize_putrem
  BY DEF Next, Server, Client, Environment, vars, files, ServeQuery, SendAnswer, SendNextPatch, WriterSub,
     QuarantineEnds, WriterSend, finalize_sub, SaveError, SaveErrorFails, patch_service, ApplyOne, ApplyEnd,
     mdir_patch_request, CreateTransient, ForeignPatch, LinkBreaks, ClientRestarts, ServeOrphan, LoseOrphan
<1> QED
  BY <1>2, <1>3, <1>4

-----------------------------------------------------------------------------
(* The client's mdir.                                                      *)

(* What a patch does to origins and localids.  Blanks have none.           *)
LEMMA PatchLabels ==
  ASSUME NEW log \in Seq(LogEntry), NEW e \in LogEntry, NEW n \in Nat,
         CanPatch(log \o Blanks(n), e.tag, e.ref), NEW len \in Nat, len = Len(log)
  PROVE  LET new == mdir_patch(log, e, n)
         IN  /\ new \in Seq(LogEntry) /\ Len(new) = len + n + 1
             /\ new[len + n + 1] = e
             /\ \A v \in 1 .. len : new[v].org = log[v].org /\ new[v].lid = log[v].lid
             /\ \A v \in len + 1 .. len + n : new[v].org = 0
<1> DEFINE long == log \o Blanks(n)
           new == mdir_patch(log, e, n)
<1>1. BlankEntry \in LogEntry /\ BlankEntry.org = 0
  BY DEF BlankEntry, Entry, LogEntry
<1>2. Blanks(n) \in Seq(LogEntry) /\ Len(Blanks(n)) = n /\ \A v \in 1 .. n : Blanks(n)[v] = BlankEntry
  BY <1>1 DEF Blanks
<1>3. long \in Seq(LogEntry) /\ Len(long) = len + n
      /\ \A v \in 1 .. len + n : long[v] = IF v <= len THEN log[v] ELSE Blanks(n)[v - len]
  BY <1>2, ConcatProperties, ZenonT(40)
<1>4. ASSUME NEW v \in len + 1 .. len + n PROVE long[v].org = 0
  <2>1. v - len \in 1 .. n /\ v \in 1 .. len + n /\ ~(v <= len)
    OBVIOUS
  <2> QED
    BY <1>1, <1>2, <1>3, <2>1
<1>5. Blanks(0) = <<>>
  BY DEF Blanks
<1>6. CanPatch(long, e.tag, e.ref)
  OBVIOUS
<1>7. new = mdir_patch(long, e, 0) /\ CanPatch(long \o Blanks(0), e.tag, e.ref)
  <2> HIDE DEF long
  <2>1. long \o <<>> = long
    BY <1>3, ConcatEmptySeq
  <2>2. mdir_patch(long, e, 0) = Append(Erase(long, e.tag, e.ref), e)
    BY <1>5, <2>1 DEF mdir_patch
  <2>3. new = Append(Erase(long, e.tag, e.ref), e)
    BY DEF mdir_patch, long
  <2> QED
    BY <1>5, <1>6, <2>1, <2>2, <2>3
<1> HIDE DEF long, new
<1>8. PICK k \in Nat : k = len + n
  OBVIOUS
<1>9. /\ new \in Seq(LogEntry) /\ Len(new) = k + 0 + 1 /\ new[k + 0 + 1] = e
      /\ \A v \in 1 .. k : new[v] = IF e.tag = "-" /\ v = e.ref THEN Blanked(long[v]) ELSE long[v]
  BY <1>3, <1>7, <1>8, PatchResult
<1>10. \A v \in 1 .. k : long[v] \in LogEntry
  BY <1>3, <1>8
<1>11. \A x \in LogEntry : Blanked(x).org = x.org /\ Blanked(x).lid = x.lid
  BY DEF Blanked, LogEntry
<1>12. \A v \in 1 .. k : new[v].org = long[v].org /\ new[v].lid = long[v].lid
  BY <1>9, <1>10, <1>11
<1>13. \A v \in 1 .. len : v \in 1 .. k /\ long[v] = log[v]
  BY <1>3, <1>8
<1>14. \A v \in len + 1 .. len + n : v \in 1 .. k
  BY <1>8
<1>15. k + 0 + 1 = len + n + 1
  BY <1>8
<1> QED
  BY <1>4, <1>9, <1>12, <1>13, <1>14, <1>15 DEF new

(* The client's mdir grows by the first patch of the list, and keeps its   *)
(* origins and localids.                                                   *)
Extends(old, new, e) ==
  /\ new \in Seq(LogEntry) /\ Len(old) \in Nat /\ Len(new) \in Nat /\ Len(old) <= Len(new)
  /\ \A v \in 1 .. Len(old) : new[v].org = old[v].org /\ new[v].lid = old[v].lid
  /\ \A v \in 1 .. Len(new) : v \notin 1 .. Len(old) => new[v] = e \/ new[v].org = 0

(* Applying a patch appends its entry to the client's log, behind blanks   *)
(* for the versions it skips, and keeps the origins of the others.         *)
LEMMA ApplyExtends ==
  ASSUME SyncInv, ApplyOne
  PROVE  /\ Extends(clog, clog', patches[1].e) /\ sub.on
         /\ Len(patches) >= 1 /\ Len(patches') = Len(patches) - 1
         /\ \A i \in 1 .. Len(patches') : patches'[i] = patches[i + 1]
         /\ UNCHANGED <<slog, answer, sub, drafts, tmp, c2l, down, nextLocal, breaks>>
<1>1. TypeInv /\ Synced /\ applying /\ CanApply
  BY DEF SyncInv, ApplyOne
<1> DEFINE p == patches[1]
           nb == p.new - p.old - 1
<1>2. /\ link /\ sub.on /\ Len(patches) >= 1 /\ Head(patches) = p
      /\ CanPatch(clog \o Blanks(nb), p.e.tag, p.e.ref)
  BY <1>1, HeadApplies
<1>3. clog' = mdir_patch(clog, p.e, nb) /\ patches' = Tail(patches)
      /\ UNCHANGED <<slog, answer, sub, drafts, tmp, c2l, down, nextLocal, breaks>>
  BY <1>2 DEF ApplyOne, server
<1>4. /\ Len(patches) >= 1 /\ Len(patches') = Len(patches) - 1
      /\ \A i \in 1 .. Len(patches') : patches'[i] = patches[i + 1]
  <2>1. patches \in Seq(Queued) /\ patches # <<>>
    BY <1>1 DEF TypeInv, MemoryTypes, CanApply
  <2> QED
    BY <1>2, <1>3, <2>1, HeadTailProperties
<1>5. p.e \in LogEntry /\ nb \in Nat /\ clog \in Seq(LogEntry)
  <2>1. p \in Queued /\ p.old < p.new
    BY <1>1, <1>2 DEF TypeInv, MemoryTypes, Forward
  <2> QED
    BY <1>1, <2>1 DEF Queued, TypeInv, FileTypes
<1> HIDE DEF p, nb
<1>6. PICK len \in Nat : len = Len(clog)
  BY <1>5
<1>7. /\ clog' \in Seq(LogEntry) /\ Len(clog') = len + nb + 1 /\ clog'[len + nb + 1] = p.e
      /\ \A v \in 1 .. len : clog'[v].org = clog[v].org /\ clog'[v].lid = clog[v].lid
      /\ \A v \in len + 1 .. len + nb : clog'[v].org = 0
  <2>1. PICK e \in LogEntry, n \in Nat : e = p.e /\ n = nb
    BY <1>5
  <2> DEFINE new == mdir_patch(clog, e, n)
  <2>2. CanPatch(clog \o Blanks(n), e.tag, e.ref) /\ clog' = new
    BY <1>2, <1>3, <2>1
  <2>3. /\ new \in Seq(LogEntry) /\ Len(new) = len + n + 1 /\ new[len + n + 1] = e
        /\ \A v \in 1 .. len : new[v].org = clog[v].org /\ new[v].lid = clog[v].lid
        /\ \A v \in len + 1 .. len + n : new[v].org = 0
    BY <1>5, <1>6, <2>2, PatchLabels
  <2> HIDE DEF new
  <2> QED
    BY <2>1, <2>2, <2>3
<1>8. \A v \in 1 .. len + nb + 1 : v \in 1 .. len \/ v \in len + 1 .. len + nb \/ v = len + nb + 1
  BY <1>5
<1>9. Extends(clog, clog', p.e)
  BY <1>5, <1>6, <1>7, <1>8 DEF Extends
<1> QED
  BY <1>2, <1>3, <1>4, <1>9 DEF p

(* Nothing but applying a patch changes the client's log.                  *)
LEMMA ClogStep ==
  ASSUME SyncInv, [Next]_vars PROVE UNCHANGED clog \/ ApplyOne
BY DEF Next, Server, Client, Environment, vars, files, ServeQuery, SendAnswer, SendNextPatch, WriterSub,
     QuarantineEnds, WriterSend, finalize_sub, finalize_putrem, SaveError, SaveErrorFails, patch_service, ApplyEnd,
     mdir_patch_request, CreateTransient, ForeignPatch, LinkBreaks, ClientRestarts, ServeOrphan, LoseOrphan

(* mdsyncc keeps the positions and the messages of the listing in range.   *)
LEMMA ListStays ==
  ASSUME SyncInv, ListTypes, [Next]_vars, UNCHANGED view PROVE ListTypes'
<1>1. UNCHANGED <<cursor, msgs, todo>>
  BY DEF view
<1>2. Len(clog) \in Nat /\ Len(clog') \in Nat /\ Len(clog) <= Len(clog')
  <2>1. CASE UNCHANGED clog
    BY <2>1 DEF SyncInv, TypeInv, FileTypes
  <2>2. CASE ApplyOne
    BY <2>2, ApplyExtends DEF Extends
  <2> QED
    BY <2>1, <2>2, ClogStep
<1>3. \A m \in msgs : m \in Int /\ m <= Len(clog)
  BY DEF ListTypes
<1>4. \A m \in msgs : m <= Len(clog')
  BY <1>2, <1>3
<1> QED
  BY <1>1, <1>4 DEF ListTypes

-----------------------------------------------------------------------------
(* What a program was not told of is not hidden from it.                   *)

(* The listing unlinks a file of .err only after it has told the program,  *)
(* and shows no transient without a file.                                  *)
LEMMA ShownStep ==
  ASSUME SyncInv, ListTypes, Shown, mdirc_update PROVE Shown'
<1>1. Unlinks /\ TypeInv /\ clog \in Seq(LogEntry) /\ tmp \subseteq RequestFile /\ err \subseteq Nat
  BY ListingUnlinks DEF SyncInv, TypeInv, FileTypes
<1>2. UNCHANGED <<tmp, slog, unsaved, unreported>>
  BY <1>1 DEF Unlinks
<1>3. cursor \in [sync : Nat, unsync : Nat] /\ Len(clog) \in Nat
  BY <1>1 DEF ListTypes
<1>4. CASE synch_list
  <2>1. msgs' \subseteq msgs \cup (1 .. Len(clog)) /\ failed' = failed /\ err' = err
    BY <1>1, <1>3, <1>4, SynchEffect DEF vars, files
  <2>2. \A n \in Nat : -n \notin 1 .. Len(clog)
    BY <1>3
  <2> QED
    BY <1>2, <2>1, <2>2 DEF Shown, Refused
<1>5. ASSUME NEW f \in todo, transient_list(f) PROVE Shown'
  <2>1. /\ f.id \in Nat /\ failed' = failed /\ err' = err
        /\ msgs' \subseteq msgs \/ (f \in tmp /\ msgs' = msgs \cup {-f.id})
    BY <1>5, TransientEffect DEF RequestFile, vars, files
  <2>2. \A n \in Nat : -n = -f.id => n = f.id
    BY <2>1
  <2>3. f \in tmp => Kept(tmp, Refused, slog, f.id)
    BY DEF Kept
  <2> QED
    BY <1>2, <2>1, <2>2, <2>3 DEF Shown, Refused
<1>6. CASE err_list
  <2>1. PICK k \in err : failed' = (IF -k \in msgs THEN failed \cup {-k} ELSE failed) /\ err' = err \ {k}
    BY <1>6 DEF err_list
  <2>2. msgs' = msgs
    BY <1>6 DEF err_list
  <2>3. ASSUME NEW n \in Nat, -n \in msgs PROVE Kept(tmp, Refused', slog, n) \/ -n \in failed'
    <3>1. CASE n = k
      BY <2>1, <2>3, <3>1
    <3>2. CASE n # k
      <4>1. Kept(tmp, Refused, slog, n) => Kept(tmp, Refused', slog, n)
        BY <1>2, <2>1, <3>2 DEF Kept, Refused
      <4>2. -n \in failed => -n \in failed'
        BY <2>1
      <4> QED
        BY <2>3, <4>1, <4>2 DEF Shown
    <3> QED
      BY <3>1, <3>2
  <2> QED
    BY <1>2, <2>2, <2>3 DEF Shown
<1>7. CASE opendir \/ transient_end \/ err_end
  <2>1. UNCHANGED <<msgs, failed, err>>
    BY <1>7 DEF opendir, transient_end, err_end, vars, files
  <2> QED
    BY <1>2, <2>1 DEF Shown, Refused
<1> QED
  BY <1>4, <1>5, <1>6, <1>7 DEF mdirc_update

(* mdsyncc drops a request from .tmp once the server has recorded it, or   *)
(* refused it.                                                             *)
LEMMA ShownStays ==
  ASSUME SyncInv, AckedRecorded, Shown, [Next]_vars, UNCHANGED view PROVE Shown'
<1>1. UNCHANGED <<msgs, failed>>
  BY DEF view
<1>2. ASSUME NEW n, Kept(tmp, Refused, slog, n) PROVE Kept(tmp', Refused', slog', n)
  BY <1>2, KeptStep DEF SyncInv
<1> QED
  BY <1>1, <1>2 DEF Shown

(* Every step is one of the listing or one of module MdSync.               *)
LEMMA ViewStep ==
  ASSUME [ViewNext]_vvars PROVE mdirc_update \/ ([Next]_vars /\ UNCHANGED view)
BY DEF ViewNext, vvars

ViewInv == SyncInv /\ AckedRecorded /\ ListTypes

(* The invariants hold at first.                                           *)
LEMMA ViewInvInit == ViewInit => ViewInv /\ Shown
<1> SUFFICES ASSUME ViewInit PROVE ViewInv /\ Shown
  OBVIOUS
<1>1. Init /\ cursor = [sync |-> 0, unsync |-> 0] /\ todo = {} /\ msgs = {}
  BY DEF ViewInit
<1>2. SyncInv
  BY <1>1, TypeInit, MatchingInit, SyncedInit DEF SyncInv
<1>3. AckedRecorded
  BY <1>1 DEF Init, NoAnswer, AckedRecorded
<1>4. ListTypes /\ Shown
  BY <1>1 DEF ListTypes, Shown
<1> QED
  BY <1>2, <1>3, <1>4 DEF ViewInv

(* The listing and mdsyncc both keep the invariants of the other.          *)
LEMMA ViewInvStep ==
  ASSUME ViewInv, [ViewNext]_vvars PROVE ViewInv'
<1>1. CASE mdirc_update
  <2>1. clog \in Seq(LogEntry) /\ tmp \subseteq RequestFile
    BY DEF ViewInv, SyncInv, TypeInv, FileTypes
  <2> QED
    BY <1>1, <2>1, ListingUnlinks, UnlinksKeeps, ListStep DEF ViewInv
<1>2. CASE [Next]_vars /\ UNCHANGED view
  BY <1>2, TypeStep, MatchingStep, SyncedStep, AckedStep, ListStays DEF ViewInv, SyncInv
<1> QED
  BY <1>1, <1>2, ViewStep

(* A transient message that is shown is still waiting, or on the server,   *)
(* or the program has been or will be told of its refusal: whatever        *)
(* mdsyncc does between the steps of the listing, and whatever breaks.     *)
(* The refusals that mdsyncc could not save in .err are excepted: by       *)
(* NoRequestLost they are no more than its breaks.                         *)
THEOREM NoSilentRefusal == ViewSpec => []RefusalShown
<1>1. ViewInit => ViewInv /\ Shown
  BY ViewInvInit
<1>2. ViewInv /\ Shown /\ [ViewNext]_vvars => (ViewInv /\ Shown)'
  BY ViewInvStep, ViewStep, ShownStep, ShownStays DEF ViewInv
<1>3. ViewInv /\ Shown => RefusalShown
  <2> SUFFICES ASSUME ViewInv, Shown PROVE RefusalShown
    OBVIOUS
  <2>1. DOMAIN slog = 1 .. Len(slog) /\ nextLocal \in Nat
    BY DEF ViewInv, SyncInv, TypeInv, ServerTypes, FileTypes
  <2>2. \A n \in 1 .. nextLocal - 1 : n \in Nat
    BY <2>1
  <2> QED
    BY <2>1, <2>2 DEF Shown, Kept, Refused, RecordedIn, RefusalShown
<1> QED
  BY <1>1, <1>2, <1>3, PTL DEF ViewSpec

-----------------------------------------------------------------------------
(* Localids.                                                               *)

(* The requests that were made and of which nothing is left to be sent.    *)
Gone == {n \in 1 .. MaxLocal : n < nextLocal /\ \A f \in tmp \cup drafts : f.id # n}

(* The answer that version v is request n, and the versions of which the   *)
(* reader thread has taken such an answer.                                 *)
AckOf(m, v, n) == m.kw \in {"put", "rem"} /\ m.status = 200 /\ m.id = n /\ m.version = v
Map(v, n)      == [central |-> v, local |-> n]
Told           == {m \in c2l : m.local \in Gone}

(* The subscription has not sent what comes after this version.            *)
Since == IF sub.on THEN sub.version ELSE Len(clog)

(* Without contention the answer to a request comes before its patch, and  *)
(* so the patch gets its localid.                                          *)
Labelled(e, gone) == Local(e.org) => e.lid = e.org /\ e.org \in gone

LabelledLog     == \A v \in 1 .. Len(clog) : Labelled(clog[v], Gone)
LabelledPatches == \A i \in 1 .. Len(patches) : Labelled(patches[i].e, Gone)

AckedFirst(dn, told) == \A k \in 1 .. Len(dn) :
  ~IsAnswer(dn[k]) /\ Local(dn[k].org) =>
    \/ Map(dn[k].new, dn[k].org) \in told
    \/ \E i \in 1 .. k - 1 : AckOf(dn[i], dn[k].new, dn[k].org)

AckedBy(ans, dn, told, v, n) ==
  \/ Map(v, n) \in told
  \/ \E i \in 1 .. Len(ans) : AckOf(ans[i], v, n)
  \/ \E i \in 1 .. Len(dn) : AckOf(dn[i], v, n)

AckedUnsent(log, ans, dn, told, since) == \A v \in 1 .. Len(log) :
  Local(log[v].org) /\ v > since => AckedBy(ans, dn, told, v, log[v].org)

(* An answer says the truth about versions.                                *)
OriginOf(log, v, n) == v \in 1 .. Len(log) /\ log[v].org = n

TrueMaps ==
  /\ \A m \in c2l : OriginOf(slog, m.central, m.local)
  /\ \A i \in 1 .. Len(answer) : Acknowledges(answer[i]) => OriginOf(slog, answer[i].version, answer[i].id)
  /\ \A i \in 1 .. Len(down) : Acknowledges(down[i]) => OriginOf(slog, down[i].version, down[i].id)

(* No version is sent twice.                                               *)
Rising(dn, ver) ==
  /\ \A k \in 1 .. Len(dn) : ~IsAnswer(dn[k]) => dn[k].new <= ver
  /\ \A i, k \in 1 .. Len(dn) : ~IsAnswer(dn[i]) /\ ~IsAnswer(dn[k]) /\ i < k => dn[i].new <= dn[k].old

Labels ==
  /\ LabelledLog /\ LabelledPatches
  /\ AckedFirst(down, Told) /\ AckedUnsent(slog, answer, down, Told, Since)
  /\ TrueMaps /\ Rising(down, sub.version)

(* What was labelled stays so.                                             *)
LEMMA GoneStep ==
  ASSUME TypeInv, [Next]_vars PROVE Gone \subseteq Gone'
<1>1. tmp \subseteq RequestFile /\ drafts \subseteq RequestFile /\ nextLocal \in Nat /\ MaxLocal \in Nat
  BY MdSyncAssumption DEF TypeInv, FileTypes
<1>2. CASE tmp' \cup drafts' \subseteq tmp \cup drafts /\ nextLocal' = nextLocal
  BY <1>2 DEF Gone
<1>3. ASSUME NEW tag, NEW ref, mdir_patch_request(tag, ref) PROVE Gone \subseteq Gone'
  <2> DEFINE g == [id |-> nextLocal, tag |-> tag, ref |-> ref]
  <2>1. tmp' \cup drafts' = (tmp \cup drafts) \cup {g} /\ g.id = nextLocal /\ nextLocal' = nextLocal + 1
    BY <1>3 DEF mdir_patch_request
  <2> HIDE DEF g
  <2>2. ASSUME NEW n \in 1 .. MaxLocal, n < nextLocal PROVE n < nextLocal' /\ n # g.id
    BY <1>1, <2>1, <2>2
  <2> QED
    BY <2>1, <2>2 DEF Gone
<1>4. CASE CreateTransient
  BY <1>2, <1>4 DEF CreateTransient
<1>5. CASE finalize_putrem
  <2>1. tmp' \subseteq tmp /\ drafts' = drafts /\ nextLocal' = nextLocal
    BY <1>5 DEF finalize_putrem
  <2> QED
    BY <1>2, <2>1
<1>6. UNCHANGED <<tmp, drafts, nextLocal>> \/ CreateTransient \/ finalize_putrem
      \/ mdir_patch_request("+", 0) \/ \E t \in DOMAIN clog : mdir_patch_request("-", t)
  BY DEF Next, Server, Client, Environment, vars, files, ServeQuery, SendAnswer, SendNextPatch, WriterSub,
     QuarantineEnds, WriterSend, finalize_sub, SaveError, SaveErrorFails, patch_service, ApplyOne, ApplyEnd,
     ForeignPatch, LinkBreaks, ClientRestarts, ServeOrphan, LoseOrphan
<1> QED
  BY <1>2, <1>3, <1>4, <1>5, <1>6

(* The server's log only grows, so what was said of a version stays true.  *)
LEMMA OriginStays ==
  ASSUME TypeInv, [Next]_vars, NEW v, NEW n, OriginOf(slog, v, n) PROVE OriginOf(slog', v, n)
<1>1. /\ Len(slog) \in Nat /\ Len(slog') \in Nat /\ Len(slog) <= Len(slog')
      /\ \A w \in 1 .. Len(slog) : slog'[w].org = slog[w].org
  <2>1. slog \in Seq(LogEntry) /\ Grows(slog, slog')
    BY SlogGrows DEF TypeInv, ServerTypes
  <2> QED
    BY <2>1 DEF Grows
<1> QED
  BY <1>1 DEF OriginOf

(* A request of which nothing is left does not come back, so a label stays *)
(* right.                                                                  *)
LEMMA LabelledStays ==
  ASSUME TypeInv, [Next]_vars
  PROVE  /\ UNCHANGED clog /\ LabelledLog => LabelledLog'
         /\ UNCHANGED patches /\ LabelledPatches => LabelledPatches'
BY GoneStep DEF LabelledLog, LabelledPatches, Labelled

(* A message arrives on the connection.                                    *)
LEMMA FirstLonger ==
  ASSUME NEW dn, NEW dm, NEW m, Longer(dn, dm, m), NEW told, NEW told2, told \subseteq told2,
         AckedFirst(dn, told),
         ~IsAnswer(m) /\ Local(m.org) =>
           Map(m.new, m.org) \in told2 \/ \E i \in 1 .. Len(dn) : AckOf(dn[i], m.new, m.org)
  PROVE  AckedFirst(dm, told2)
<1>1. PICK len \in Nat : len = Len(dn)
  BY DEF Longer
<1>2. /\ dm[len + 1] = m /\ \A i \in 1 .. len : dm[i] = dn[i]
      /\ \A k \in 1 .. Len(dm) : k = len + 1 \/ k \in 1 .. len
  BY <1>1, LongerIndex DEF Longer
<1>3. ASSUME NEW k \in 1 .. len, ~IsAnswer(dm[k]), Local(dm[k].org)
      PROVE  Map(dm[k].new, dm[k].org) \in told2 \/ \E i \in 1 .. k - 1 : AckOf(dm[i], dm[k].new, dm[k].org)
  <2>1. \A i \in 1 .. k - 1 : i \in 1 .. len
    BY <1>1
  <2> QED
    BY <1>1, <1>2, <1>3, <2>1 DEF AckedFirst
<1>4. ASSUME ~IsAnswer(m), Local(m.org)
      PROVE  Map(m.new, m.org) \in told2 \/ \E i \in 1 .. len + 1 - 1 : AckOf(dm[i], m.new, m.org)
  <2>1. len + 1 - 1 = len
    BY <1>1
  <2> QED
    BY <1>1, <1>2, <1>4, <2>1
<1> QED
  BY <1>2, <1>3, <1>4 DEF AckedFirst

(* The reader thread takes a message.                                      *)
LEMMA FirstShorter ==
  ASSUME NEW dn, NEW dm, Shorter(dn, dm), NEW told, NEW told2, AckedFirst(dn, told),
         \A v, n : Local(n) /\ AckOf(dn[1], v, n) => Map(v, n) \in told2,
         \A k \in 2 .. Len(dn) : ~IsAnswer(dn[k]) =>
           \A n : Map(dn[k].new, n) \in told => Map(dn[k].new, n) \in told2
  PROVE  AckedFirst(dm, told2)
<1>1. PICK len \in Nat : len = Len(dn) /\ len >= 1 /\ Len(dm) = len - 1
  BY DEF Shorter
<1>2. \A k \in 1 .. len - 1 : dm[k] = dn[k + 1] /\ k + 1 \in 1 .. len /\ k + 1 \in 2 .. len
  BY <1>1 DEF Shorter
<1>3. ASSUME NEW k \in 1 .. len - 1, ~IsAnswer(dm[k]), Local(dm[k].org)
      PROVE  Map(dm[k].new, dm[k].org) \in told2 \/ \E i \in 1 .. k - 1 : AckOf(dm[i], dm[k].new, dm[k].org)
  <2>1. CASE Map(dm[k].new, dm[k].org) \in told
    BY <1>1, <1>2, <1>3, <2>1
  <2>2. ASSUME NEW i \in 1 .. k + 1 - 1, AckOf(dn[i], dm[k].new, dm[k].org)
        PROVE  Map(dm[k].new, dm[k].org) \in told2 \/ \E j \in 1 .. k - 1 : AckOf(dm[j], dm[k].new, dm[k].org)
    <3>1. CASE i = 1
      BY <1>3, <2>2, <3>1
    <3>2. CASE i # 1
      <4>1. i - 1 \in 1 .. k - 1 /\ i - 1 \in 1 .. len - 1 /\ i - 1 + 1 = i
        BY <1>1, <3>2
      <4>2. dm[i - 1] = dn[i]
        BY <1>2, <4>1
      <4> QED
        BY <2>2, <4>1, <4>2
    <3> QED
      BY <3>1, <3>2
  <2>3. Map(dm[k].new, dm[k].org) \in told \/ \E i \in 1 .. k + 1 - 1 : AckOf(dn[i], dm[k].new, dm[k].org)
    BY <1>1, <1>2, <1>3 DEF AckedFirst
  <2> QED
    BY <2>1, <2>2, <2>3
<1> QED
  BY <1>1, <1>3 DEF AckedFirst

(* The same for the versions that have not been sent.                      *)
LEMMA UnsentShorter ==
  ASSUME NEW dn, NEW dm, Shorter(dn, dm), NEW told, NEW told2, NEW ans, NEW v, NEW n, AckedBy(ans, dn, told, v, n),
         AckOf(dn[1], v, n) => Map(v, n) \in told2,
         Map(v, n) \in told => Map(v, n) \in told2
  PROVE  AckedBy(ans, dm, told2, v, n)
<1>1. PICK len \in Nat : len = Len(dn) /\ len >= 1 /\ Len(dm) = len - 1
  BY DEF Shorter
<1>2. \A k \in 1 .. len - 1 : dm[k] = dn[k + 1]
  BY <1>1 DEF Shorter
<1>3. ASSUME NEW i \in 1 .. len, AckOf(dn[i], v, n) PROVE AckedBy(ans, dm, told2, v, n)
  <2>1. CASE i = 1
    BY <1>3, <2>1 DEF AckedBy
  <2>2. CASE i # 1
    <3>1. i - 1 \in 1 .. len - 1 /\ i - 1 + 1 = i
      BY <1>1, <2>2
    <3>2. dm[i - 1] = dn[i]
      BY <1>2, <3>1
    <3> QED
      BY <1>1, <1>3, <3>1, <3>2 DEF AckedBy
  <2> QED
    BY <2>1, <2>2
<1> QED
  BY <1>1, <1>3 DEF AckedBy

-----------------------------------------------------------------------------
(* Every step keeps the labels, as long as nothing breaks.                 *)

Steady == SyncInv /\ Unbroken /\ breaks = 0 /\ Labels

(* A query is executed: what is recorded is acknowledged.                  *)
LEMMA ServeAck ==
  ASSUME SyncInv, ~Incomplete, ServeQuery
  PROVE  \/ slog' = slog /\ ~Acknowledges(answer'[1])
         \/ /\ sub' = sub /\ AddsOrg(slog, slog', up[1].id)
            /\ AckOf(answer'[1], Len(slog) + 1, up[1].id)
<1>1. TypeInv /\ slog \in Seq(LogEntry) /\ Len(up) >= 1 /\ up[1] \in QueryMsg /\ Head(up) = up[1]
  BY ServeEffect DEF SyncInv, TypeInv, ServerTypes
<1>2. PICK granted \in {TRUE, ~Denials} :
        IF up[1].kw = "sub" THEN exec_sub(up[1], granted) ELSE exec_putrem(up[1], granted, TRUE)
  BY <1>1 DEF ServeQuery
<1>3. CASE up[1].kw = "sub"
  <2>1. slog' = slog
    BY <1>2, <1>3 DEF exec_sub
  <2>2. answer'[1].kw = "sub"
    <3>1. PICK st : answer' = <<Answer("sub", 0, st, 0)>>
      BY <1>2, <1>3 DEF exec_sub
    <3> QED
      BY <3>1 DEF Answer
  <2> QED
    BY <2>1, <2>2 DEF Acknowledges
<1>4. CASE up[1].kw # "sub" /\ ~Accepts(up[1], granted)
  <2>1. slog' = slog /\ answer' = <<Answer(up[1].kw, up[1].id, 502, 0)>>
    BY <1>2, <1>4 DEF exec_putrem
  <2>2. answer'[1].status = 502
    BY <2>1 DEF Answer
  <2> QED
    BY <2>1, <2>2 DEF Acknowledges
<1>5. CASE up[1].kw # "sub" /\ Accepts(up[1], granted)
  <2>1. /\ slog' = add_header(up[1]) /\ sub' = sub
        /\ answer' = <<Answer(up[1].kw, up[1].id, 200, Len(slog) + 1)>>
    BY <1>2, <1>5 DEF exec_putrem
  <2>2. up[1].kw \in {"put", "rem"}
    BY <1>1, <1>5 DEF QueryMsg, Keywords
  <2>3. AckOf(answer'[1], Len(slog) + 1, up[1].id)
    BY <2>1, <2>2 DEF Answer, AckOf
  <2>4. PICK e \in LogEntry : e.org = up[1].id /\ CanPatch(slog, e.tag, e.ref) /\ slog' = mdir_patch(slog, e, 0)
    BY <1>1, <1>5, <2>1, AcceptPatches
  <2>5. AddsOrg(slog, slog', up[1].id)
    BY <1>1, <2>4, PatchAddsOrg
  <2> QED
    BY <2>1, <2>3, <2>5
<1> QED
  BY <1>3, <1>4, <1>5

(* The server answers a request before its subscription can send the       *)
(* version.                                                                *)
LEMMA ServeLabels ==
  ASSUME Steady, ~Incomplete, ServeQuery PROVE Labels'
<1>1. SyncInv /\ TypeInv /\ Synced /\ Labels /\ slog \in Seq(LogEntry) /\ [Next]_vars
  BY DEF Steady, SyncInv, TypeInv, ServerTypes, Next, Server
<1>2. /\ Len(answer) = 0 /\ Len(answer') = 1
      /\ UNCHANGED <<clog, drafts, tmp, nextLocal, c2l, patches, down>>
  BY <1>1, ServeEffect
<1>3. LabelledLog' /\ LabelledPatches'
  BY <1>1, <1>2, LabelledStays DEF Labels
<1>4. Told' = Told /\ AckedFirst(down', Told')
  BY <1>1, <1>2 DEF Labels, Told, Gone
<1>5. PICK told : told = Told
  OBVIOUS
<1>6. /\ \A m \in c2l : OriginOf(slog', m.central, m.local)
      /\ \A i \in 1 .. Len(down) : Acknowledges(down[i]) => OriginOf(slog', down[i].version, down[i].id)
  BY <1>1, OriginStays DEF Labels, TrueMaps
<1>7. \A v, n : AckedBy(answer, down, told, v, n) => AckedBy(answer', down, told, v, n)
  BY <1>2 DEF AckedBy
<1>8. \/ /\ up[1].kw = "sub" /\ ~sub.on /\ link
         /\ sub'.on => sub'.version = Len(clog)
      \/ sub' = sub
  BY <1>1, ServeSub
<1>9. Since' = Since
  BY <1>2, <1>8 DEF Since
<1>10. Rising(down, sub'.version)
  <2>1. CASE ~sub.on /\ link
    BY <1>1, <2>1 DEF Synced, NoPatches, Rising
  <2>2. CASE sub' = sub
    BY <1>1, <2>2 DEF Labels
  <2> QED
    BY <1>8, <2>1, <2>2
<1>11. CASE slog' = slog /\ ~Acknowledges(answer'[1])
  <2>1. AckedUnsent(slog', answer', down, told, Since)
    BY <1>1, <1>5, <1>7, <1>11 DEF Labels, AckedUnsent
  <2>2. TrueMaps'
    BY <1>2, <1>6, <1>11 DEF TrueMaps
  <2> QED
    BY <1>2, <1>3, <1>4, <1>5, <1>9, <1>10, <2>1, <2>2 DEF Labels
<1>12. CASE /\ sub' = sub /\ AddsOrg(slog, slog', up[1].id)
            /\ AckOf(answer'[1], Len(slog) + 1, up[1].id)
  <2>1. PICK len \in Nat : len = Len(slog)
    BY <1>1
  <2>2. /\ Len(slog') = len + 1 /\ slog'[len + 1].org = up[1].id
        /\ \A v \in 1 .. len : slog'[v].org = slog[v].org
        /\ AckOf(answer'[1], len + 1, slog'[len + 1].org)
    BY <1>12, <2>1 DEF AddsOrg
  <2>3. \A v \in 1 .. len + 1 : v \in 1 .. len \/ v = len + 1
    BY <2>1
  <2>4. AckedBy(answer', down, told, len + 1, slog'[len + 1].org)
    BY <1>2, <2>2 DEF AckedBy
  <2>5. \A v \in 1 .. len : Local(slog[v].org) /\ v > Since => AckedBy(answer, down, told, v, slog[v].org)
    BY <1>1, <1>5, <2>1 DEF Labels, AckedUnsent
  <2>6. AckedUnsent(slog', answer', down, told, Since)
    BY <1>7, <2>2, <2>3, <2>4, <2>5 DEF AckedUnsent
  <2>7. answer'[1].version = len + 1 /\ answer'[1].id = slog'[len + 1].org
    BY <2>2 DEF AckOf
  <2>8. OriginOf(slog', answer'[1].version, answer'[1].id)
    BY <2>1, <2>2, <2>7 DEF OriginOf
  <2>9. TrueMaps'
    BY <1>2, <1>6, <2>8 DEF TrueMaps
  <2> QED
    BY <1>2, <1>3, <1>4, <1>5, <1>9, <1>10, <2>6, <2>9 DEF Labels
<1> QED
  BY <1>1, <1>11, <1>12, ServeAck

(* The answer goes into the connection behind what is under way.           *)
LEMMA AnswerLabels ==
  ASSUME Steady, SendAnswer PROVE Labels'
<1>1. SyncInv /\ TypeInv /\ Labels /\ [Next]_vars
  BY DEF Steady, SyncInv, Next, Server
<1>2. /\ Len(answer) = 1 /\ Len(answer') = 0 /\ IsAnswer(answer[1])
      /\ Len(down') = Len(down) + 1 /\ down'[Len(down) + 1] = answer[1]
      /\ \A i \in 1 .. Len(down) : down'[i] = down[i]
      /\ UNCHANGED <<slog, sub, clog, drafts, tmp, nextLocal, c2l, patches>>
  BY <1>1, AnswerEffect
<1>3. Longer(down, down', answer[1]) /\ 1 \in 1 .. Len(answer)
  BY <1>1, <1>2 DEF Longer, TypeInv, NetTypes
<1>4. LabelledLog' /\ LabelledPatches'
  BY <1>1, <1>2, LabelledStays DEF Labels
<1>5. Told' = Told /\ Since' = Since
  BY <1>2 DEF Told, Gone, Since
<1>6. AckedFirst(down', Told)
  BY <1>1, <1>2, <1>3, FirstLonger DEF Labels
<1>7. \A k \in 1 .. Len(down') : k = Len(down) + 1 \/ k \in 1 .. Len(down)
  BY <1>3, LongerIndex
<1>8. Len(down) + 1 \in 1 .. Len(down') /\ \A k \in 1 .. Len(down) : k \in 1 .. Len(down')
  BY <1>3, LongerIndex
<1>9. ASSUME NEW v, NEW n, NEW told, AckedBy(answer, down, told, v, n) PROVE AckedBy(answer', down', told, v, n)
  <2>1. ASSUME NEW i \in 1 .. Len(answer), AckOf(answer[i], v, n) PROVE AckOf(down'[Len(down) + 1], v, n)
    BY <1>2, <2>1
  <2> QED
    BY <1>2, <1>8, <1>9, <2>1 DEF AckedBy
<1>10. AckedUnsent(slog, answer', down', Told, Since)
  BY <1>1, <1>9 DEF Labels, AckedUnsent
<1>11. TrueMaps'
  BY <1>1, <1>2, <1>3, <1>7 DEF Labels, TrueMaps
<1>12. Rising(down', sub.version)
  BY <1>1, <1>2, <1>7 DEF Labels, Rising
<1> QED
  BY <1>2, <1>4, <1>5, <1>6, <1>10, <1>11, <1>12 DEF Labels

(* The subscription sends a patch only after the answer about it.          *)
LEMMA SendPatchLabels ==
  ASSUME Steady, ~Contention, SendNextPatch PROVE Labels'
<1>1. SyncInv /\ TypeInv /\ Labels /\ [Next]_vars
  BY DEF Steady, SyncInv, Next, Server
<1>2. PICK p \in PatchMsg :
        /\ Len(down') = Len(down) + 1 /\ down'[Len(down) + 1] = p /\ ~IsAnswer(p)
        /\ \A i \in 1 .. Len(down) : down'[i] = down[i]
        /\ sub.on /\ sub'.on /\ p.old = sub.version /\ sub'.version = p.new /\ p.old < p.new
        /\ TrueOf(slog, p.old, p.new, p.tag, p.ref, p.org)
        /\ UNCHANGED <<slog, answer, clog, drafts, tmp, nextLocal, c2l, patches>>
  BY <1>1, NextPatchEffect
<1>3. Len(answer) = 0
  BY DEF SendNextPatch, NoAnswer
<1>4. Longer(down, down', p) /\ sub.version \in Nat /\ p.new \in Nat /\ Len(slog) \in Nat
  BY <1>1, <1>2 DEF Longer, TypeInv, NetTypes, ServerTypes, PatchMsg
<1>5. LabelledLog' /\ LabelledPatches'
  BY <1>1, <1>2, LabelledStays DEF Labels
<1>6. Told' = Told /\ Since = sub.version /\ Since' = p.new
  BY <1>2 DEF Told, Gone, Since
<1>7. p.new \in 1 .. Len(slog) /\ slog[p.new].org = p.org /\ p.new > sub.version
  BY <1>2, <1>4 DEF TrueOf
<1>8. Local(p.org) => Map(p.new, p.org) \in Told \/ \E i \in 1 .. Len(down) : AckOf(down[i], p.new, p.org)
  BY <1>1, <1>3, <1>6, <1>7 DEF Labels, AckedUnsent, AckedBy
<1>9. AckedFirst(down', Told)
  BY <1>1, <1>4, <1>8, FirstLonger DEF Labels
<1>10. /\ \A k \in 1 .. Len(down') : k = Len(down) + 1 \/ k \in 1 .. Len(down)
       /\ \A k \in 1 .. Len(down) : k \in 1 .. Len(down')
  BY <1>4, LongerIndex
<1>11. AckedUnsent(slog, answer, down', Told, p.new)
  <2>1. ASSUME NEW v \in 1 .. Len(slog), v > p.new PROVE v > sub.version
    BY <1>4, <1>7, <2>1
  <2>2. \A v, n : AckedBy(answer, down, Told, v, n) => AckedBy(answer, down', Told, v, n)
    BY <1>2, <1>10 DEF AckedBy
  <2> QED
    BY <1>1, <1>6, <2>1, <2>2 DEF Labels, AckedUnsent
<1>12. TrueMaps'
  <2>1. ~Acknowledges(p)
    BY <1>2 DEF IsAnswer, Acknowledges
  <2> QED
    BY <1>1, <1>2, <1>10, <2>1 DEF Labels, TrueMaps
<1>13. Rising(down', p.new)
  <2>1. \A k \in 1 .. Len(down) : ~IsAnswer(down[k]) => down[k].new \in Nat /\ down[k].new <= sub.version
    BY <1>1, TypedState DEF Labels, Rising, Typed
  <2>2. \A k \in 1 .. Len(down) : ~IsAnswer(down[k]) => down[k].new <= p.new /\ down[k].new <= p.old
    BY <1>2, <1>4, <1>7, <2>1
  <2>3. ASSUME NEW i \in 1 .. Len(down'), NEW k \in 1 .. Len(down'), i < k PROVE i \in 1 .. Len(down)
    <3>1. Len(down) \in Nat
      BY <1>4 DEF Longer
    <3> QED
      BY <1>10, <2>3, <3>1
  <2>4. p.new <= p.new
    BY <1>4
  <2>5. \A k \in 1 .. Len(down') : ~IsAnswer(down'[k]) => down'[k].new <= p.new
    BY <1>2, <1>10, <2>2, <2>4
  <2>6. ASSUME NEW i \in 1 .. Len(down'), NEW k \in 1 .. Len(down'), ~IsAnswer(down'[i]), ~IsAnswer(down'[k]), i < k
        PROVE  down'[i].new <= down'[k].old
    <3>1. i \in 1 .. Len(down) /\ down'[i] = down[i]
      BY <1>2, <2>3, <2>6
    <3>2. CASE k = Len(down) + 1
      BY <1>2, <2>2, <2>6, <3>1, <3>2
    <3>3. CASE k \in 1 .. Len(down)
      BY <1>1, <1>2, <2>6, <3>1, <3>3 DEF Labels, Rising
    <3> QED
      BY <1>10, <3>2, <3>3
  <2> QED
    BY <2>5, <2>6 DEF Rising
<1> QED
  BY <1>2, <1>5, <1>6, <1>9, <1>11, <1>12, <1>13 DEF Labels

(* The reader thread takes an answer: the file is removed and, if it was   *)
(* accepted, its version is remembered.                                    *)
LEMMA FinalizeTold ==
  ASSUME Steady, finalize_sub \/ finalize_putrem
  PROVE  /\ Told \subseteq Told' /\ c2l \subseteq c2l'
         /\ \A v, n : Local(n) /\ AckOf(down[1], v, n) => Map(v, n) \in Told'
         /\ \A m \in c2l' : m \in c2l \/ (Acknowledges(down[1]) /\ m = Map(down[1].version, down[1].id))
<1>1. SyncInv /\ TypeInv /\ [Next]_vars /\ Expected /\ CommandFiles /\ OneFile /\ Numbers
  BY DEF Steady, SyncInv, Matching, Unbroken, Next, Client
<1>2. Gone \subseteq Gone'
  BY <1>1, GoneStep
<1>3. /\ Len(down) >= 1 /\ 1 \in 1 .. Len(down) /\ down[1] \in AnswerMsg /\ IsAnswer(down[1])
      /\ UNCHANGED <<drafts, nextLocal>>
  <2>1. Len(down) \in Nat
    BY <1>1 DEF TypeInv, NetTypes
  <2> QED
    BY <1>1, <2>1, FinalizeEffect
<1>4. CASE finalize_sub
  <2>1. c2l' = c2l /\ down[1].kw = "sub"
    BY <1>1, <1>4, Receive DEF finalize_sub
  <2> QED
    BY <1>2, <2>1 DEF Told, AckOf
<1>5. CASE finalize_putrem
  <2>1. Head(down) = down[1] /\ down[1].kw \in {"put", "rem"}
    BY <1>1, <1>5, Receive DEF finalize_putrem
  <2>2. /\ tmp' = {f \in tmp : f.id # down[1].id}
        /\ c2l' = IF down[1].status = 200 THEN c2l \cup {Map(down[1].version, down[1].id)} ELSE c2l
    BY <1>5, <2>1 DEF finalize_putrem, Map
  <2>3. PICK f \in tmp : Cmd(down[1]) = FileCmd(f)
    <3>1. Cmd(down[1]) \in commands /\ Cmd(down[1]).kw # "sub"
      BY <1>1, <1>3, <2>1 DEF Expected, Cmd
    <3> QED
      BY <1>1, <3>1 DEF CommandFiles
  <2>4. f.id = down[1].id
    BY <2>3 DEF Cmd, FileCmd
  <2>5. \A g \in drafts : g.id # down[1].id
    BY <1>1, <2>4 DEF OneFile
  <2>6. f.id < nextLocal
    BY <1>1 DEF Numbers
  <2>7. Local(down[1].id) => down[1].id \in Gone'
    BY <1>3, <2>2, <2>4, <2>5, <2>6 DEF Gone, Local
  <2>8. ASSUME NEW v, NEW n, Local(n), AckOf(down[1], v, n) PROVE Map(v, n) \in Told'
    <3>1. down[1].status = 200 /\ down[1].id = n /\ down[1].version = v
      BY <2>8 DEF AckOf
    <3>2. Map(v, n) \in c2l' /\ Map(v, n).local = n
      BY <2>2, <3>1 DEF Map
    <3> QED
      BY <2>7, <2>8, <3>1, <3>2 DEF Told
  <2>9. c2l \subseteq c2l' /\ \A m \in c2l' : m \in c2l \/ (Acknowledges(down[1]) /\ m = Map(down[1].version, down[1].id))
    BY <2>1, <2>2 DEF Acknowledges
  <2> QED
    BY <1>2, <2>8, <2>9 DEF Told
<1> QED
  BY <1>4, <1>5

(* The reader takes an answer: the label of the version is known from then *)
(* on.                                                                     *)
LEMMA FinalizeLabels ==
  ASSUME Steady, finalize_sub \/ finalize_putrem PROVE Labels'
<1>1. SyncInv /\ TypeInv /\ Labels /\ [Next]_vars
  BY DEF Steady, SyncInv, Next, Client
<1>2. /\ Len(down') = Len(down) - 1 /\ Len(down) >= 1
      /\ \A i \in 1 .. Len(down') : down'[i] = down[i + 1]
      /\ UNCHANGED <<slog, answer, sub, clog, patches>>
  BY <1>1, FinalizeEffect
<1>3. Shorter(down, down') /\ 1 \in 1 .. Len(down) /\ \A i \in 1 .. Len(down') : i + 1 \in 1 .. Len(down)
  BY <1>1, <1>2 DEF Shorter, TypeInv, NetTypes
<1>4. LabelledLog' /\ LabelledPatches' /\ Since' = Since
  BY <1>1, <1>2, LabelledStays DEF Labels, Since
<1>5. PICK told, told2 : told = Told /\ told2 = Told'
  OBVIOUS
<1>6. told \subseteq told2 /\ \A v, n : Local(n) /\ AckOf(down[1], v, n) => Map(v, n) \in told2
  BY <1>5, FinalizeTold
<1>7. AckedFirst(down', told2)
  BY <1>1, <1>3, <1>5, <1>6, FirstShorter DEF Labels
<1>8. ASSUME NEW v, NEW n, Local(n), AckedBy(answer, down, told, v, n) PROVE AckedBy(answer, down', told2, v, n)
  BY <1>3, <1>6, <1>8, UnsentShorter
<1>9. AckedUnsent(slog, answer, down', told2, Since)
  BY <1>1, <1>5, <1>8 DEF Labels, AckedUnsent
<1>10. TrueMaps'
  <2>1. \A m \in c2l' : OriginOf(slog, m.central, m.local)
    BY <1>1, <1>3, FinalizeTold DEF Labels, TrueMaps, Map
  <2> QED
    BY <1>1, <1>2, <1>3, <2>1 DEF Labels, TrueMaps
<1>11. Rising(down', sub.version)
  <2>1. \A i, k \in 1 .. Len(down') : i < k => i + 1 < k + 1
    OBVIOUS
  <2> QED
    BY <1>1, <1>2, <1>3, <2>1 DEF Labels, Rising
<1> QED
  BY <1>2, <1>4, <1>5, <1>7, <1>9, <1>10, <1>11 DEF Labels

(* The reader thread takes a patch, which gets the localid that was told.  *)
LEMMA ServiceLid ==
  ASSUME Steady, patch_service
  PROVE  /\ c2l' = {m \in c2l : m.central # down[1].new}
         /\ \E q \in Queued : /\ Labelled(q.e, Gone) /\ Longer(patches, patches', q)
<1>1. SyncInv /\ TypeInv /\ Synced /\ Labels /\ patches \in Seq(Queued)
  BY DEF Steady, SyncInv, TypeInv, MemoryTypes
<1>2. /\ Len(down) >= 1 /\ 1 \in 1 .. Len(down) /\ down[1] \in PatchMsg /\ ~IsAnswer(down[1]) /\ link
      /\ Head(down) = down[1]
  <2>1. Head(down) = down[1]
    BY <1>1, Receive DEF patch_service
  <2>2. Len(down) \in Nat
    BY <1>1 DEF TypeInv, NetTypes
  <2> QED
    BY <1>1, <2>1, <2>2, ServiceEffect
<1> DEFINE p == down[1]
           maps == {m \in c2l : m.central = p.new}
           lid == IF maps = {} THEN 0 ELSE (CHOOSE m \in maps : TRUE).local
           q == [old |-> p.old, new |-> p.new, e |-> Entry(p.tag, p.ref, p.org, lid)]
<1>3. patches' = Insert(q) /\ c2l' = c2l \ maps
  BY <1>2 DEF patch_service
<1>4. lid \in Nat
  <2>1. CASE maps = {}
    BY <2>1
  <2>2. CASE maps # {}
    <3>1. (CHOOSE m \in maps : TRUE) \in c2l
      BY <2>2
    <3> QED
      BY <1>1, <2>2, <3>1 DEF TypeInv, MemoryTypes
  <2> QED
    BY <2>1, <2>2
<1>5. Local(p.org) => lid = p.org /\ p.org \in Gone
  <2> SUFFICES ASSUME Local(p.org) PROVE lid = p.org /\ p.org \in Gone
    OBVIOUS
  <2>1. Map(p.new, p.org) \in Told
    <3>1. AckedFirst(down, Told)
      BY <1>1 DEF Labels
    <3> QED
      BY <1>2, <3>1 DEF AckedFirst
  <2>2. Map(p.new, p.org) \in maps /\ p.org \in Gone
    BY <2>1 DEF Told, Map
  <2>3. ASSUME NEW m \in maps PROVE m.local = p.org
    <3>1. slog[p.new].org = m.local
      BY <1>1, <2>3 DEF Labels, TrueMaps, OriginOf
    <3>2. slog[p.new].org = p.org
      BY <1>1, <1>2 DEF Synced, PatchesTrue, TrueIn, TrueOf
    <3> QED
      BY <3>1, <3>2
  <2>4. (CHOOSE m \in maps : TRUE) \in maps /\ maps # {}
    BY <2>2
  <2>5. lid = (CHOOSE m \in maps : TRUE).local
    BY <2>4
  <2> HIDE DEF maps, lid
  <2> QED
    BY <2>2, <2>3, <2>4, <2>5
<1> HIDE DEF lid
<1>6. q \in Queued /\ q.old = p.old /\ q.e.org = p.org /\ q.e.lid = lid
  BY <1>2, <1>4 DEF Queued, PatchMsg, Entry, LogEntry
<1> HIDE DEF q
<1>7. \A i \in 1 .. Len(patches) : patches[i].old <= q.old
  BY <1>1, <1>2, <1>6 DEF Synced, PatchesSorted, SortedIn
<1>8. Longer(patches, patches', q)
  BY <1>1, <1>3, <1>6, <1>7, InsertLast
<1>9. Labelled(q.e, Gone)
  BY <1>5, <1>6 DEF Labelled
<1>10. c2l' = {m \in c2l : m.central # down[1].new}
  BY <1>3
<1> QED
  BY <1>6, <1>8, <1>9, <1>10

(* The reader takes a patch: the answer has been taken, and so the patch   *)
(* gets its label.                                                         *)
LEMMA ServiceLabels ==
  ASSUME Steady, patch_service PROVE Labels'
<1>1. SyncInv /\ TypeInv /\ Synced /\ Labels /\ [Next]_vars
  BY DEF Steady, SyncInv, Next, Client
<1>2. /\ Len(down') = Len(down) - 1 /\ Len(down) >= 1
      /\ \A i \in 1 .. Len(down') : down'[i] = down[i + 1]
      /\ down[1] \in PatchMsg /\ ~IsAnswer(down[1]) /\ link
      /\ UNCHANGED <<slog, answer, sub, clog, drafts, tmp, nextLocal>>
  BY <1>1, ServiceEffect
<1>3. Shorter(down, down') /\ 1 \in 1 .. Len(down) /\ \A i \in 1 .. Len(down') : i + 1 \in 1 .. Len(down)
  BY <1>1, <1>2 DEF Shorter, TypeInv, NetTypes
<1>4. LabelledLog' /\ Since' = Since /\ Gone' = Gone
  BY <1>1, <1>2, LabelledStays DEF Labels, Since, Gone
<1>5. c2l' = {m \in c2l : m.central # down[1].new}
  BY ServiceLid
<1>6. LabelledPatches'
  <2>1. PICK q \in Queued : Labelled(q.e, Gone) /\ Longer(patches, patches', q)
    BY ServiceLid
  <2>2. \A i \in 1 .. Len(patches') : i = Len(patches) + 1 \/ i \in 1 .. Len(patches)
    BY <2>1, LongerIndex
  <2>3. \A i \in 1 .. Len(patches') : Labelled(patches'[i].e, Gone)
    BY <1>1, <2>1, <2>2 DEF Labels, LabelledPatches, Longer
  <2> QED
    BY <1>4, <2>3 DEF LabelledPatches
<1>7. PICK told, told2 : told = Told /\ told2 = Told'
  OBVIOUS
<1>8. \A v, n : v # down[1].new /\ Map(v, n) \in told => Map(v, n) \in told2
  BY <1>4, <1>5, <1>7 DEF Told, Map
<1>9. \A v, n : ~AckOf(down[1], v, n)
  BY <1>2 DEF AckOf, IsAnswer
<1>10. sub.on /\ Since = sub.version /\ sub.version \in Nat /\ down[1].new \in Nat /\ down[1].new <= sub.version
  BY <1>1, <1>2, <1>3 DEF Synced, NoPatches, Since, TypeInv, ServerTypes, PatchMsg, Labels, Rising
<1>11. ASSUME NEW k \in 2 .. Len(down), ~IsAnswer(down[k]) PROVE down[k].new # down[1].new
  <2>1. k \in 1 .. Len(down) /\ 1 < k
    OBVIOUS
  <2>2. down[1].new <= down[k].old
    BY <1>1, <1>2, <1>3, <1>11, <2>1 DEF Labels, Rising
  <2>3. down[k].old \in Nat /\ down[k].new \in Nat /\ down[k].old < down[k].new
    BY <1>1, <1>11, <2>1, TypedState DEF Typed
  <2> QED
    BY <1>10, <2>2, <2>3
<1>12. AckedFirst(down', told2)
  BY <1>1, <1>3, <1>7, <1>8, <1>9, <1>11, FirstShorter DEF Labels
<1>13. AckedUnsent(slog, answer, down', told2, Since)
  <2>1. ASSUME NEW v \in 1 .. Len(slog), v > Since PROVE v # down[1].new
    BY <1>10, <2>1
  <2>2. ASSUME NEW v, NEW n, v # down[1].new, AckedBy(answer, down, told, v, n)
        PROVE  AckedBy(answer, down', told2, v, n)
    BY <1>3, <1>8, <1>9, <2>2, UnsentShorter
  <2> QED
    BY <1>1, <1>7, <2>1, <2>2 DEF Labels, AckedUnsent
<1>14. TrueMaps'
  BY <1>1, <1>2, <1>3, <1>5 DEF Labels, TrueMaps
<1>15. Rising(down', sub.version)
  <2>1. \A i, k \in 1 .. Len(down') : i < k => i + 1 < k + 1
    OBVIOUS
  <2> QED
    BY <1>1, <1>2, <1>3, <2>1 DEF Labels, Rising
<1> QED
  BY <1>2, <1>4, <1>6, <1>7, <1>12, <1>13, <1>14, <1>15 DEF Labels

(* The label of a patch goes into the client's log with it.                *)
LEMMA ApplyLabels ==
  ASSUME Steady, ApplyOne PROVE Labels'
<1>1. SyncInv /\ TypeInv /\ Labels
  BY DEF Steady, SyncInv
<1>2. /\ Extends(clog, clog', patches[1].e) /\ sub.on
      /\ Len(patches) >= 1 /\ Len(patches') = Len(patches) - 1
      /\ \A i \in 1 .. Len(patches') : patches'[i] = patches[i + 1]
      /\ UNCHANGED <<slog, answer, sub, drafts, tmp, c2l, down, nextLocal, breaks>>
  BY <1>1, ApplyExtends
<1>3. Gone' = Gone /\ Told' = Told /\ Since' = Since
  BY <1>2 DEF Gone, Told, Since
<1>4. Len(patches) \in Nat /\ 1 \in 1 .. Len(patches) /\ \A i \in 1 .. Len(patches') : i + 1 \in 1 .. Len(patches)
  BY <1>1, <1>2 DEF TypeInv, MemoryTypes
<1>5. LabelledPatches'
  BY <1>1, <1>2, <1>3, <1>4 DEF Labels, LabelledPatches
<1>6. LabelledLog'
  <2>1. Labelled(patches[1].e, Gone)
    BY <1>1, <1>4 DEF Labels, LabelledPatches
  <2>2. ~Local(0)
    BY MdSyncAssumption DEF Local
  <2>3. ASSUME NEW v \in 1 .. Len(clog') PROVE Labelled(clog'[v], Gone)
    <3>1. CASE v \in 1 .. Len(clog)
      BY <1>1, <1>2, <3>1 DEF Extends, Labels, LabelledLog, Labelled
    <3>2. CASE v \notin 1 .. Len(clog)
      BY <1>2, <2>1, <2>2, <3>2 DEF Extends, Labelled
    <3> QED
      BY <3>1, <3>2
  <2> QED
    BY <1>3, <2>3 DEF LabelledLog
<1> QED
  BY <1>1, <1>2, <1>3, <1>5, <1>6 DEF Labels, TrueMaps

(* The other steps add nothing of ours to the server's mdir.               *)
LEMMA QuietLabels ==
  ASSUME Steady, [Next]_vars, UNCHANGED <<answer, sub, clog, c2l, patches, down>>,
         slog' = slog \/ ForeignPatch
  PROVE  Labels'
<1>1. SyncInv /\ TypeInv /\ Labels /\ slog \in Seq(LogEntry)
  BY DEF Steady, SyncInv, TypeInv, ServerTypes
<1>2. LabelledLog' /\ LabelledPatches' /\ Since' = Since
  BY <1>1, LabelledStays DEF Labels, Since
<1>3. PICK told, told2 : told = Told /\ told2 = Told'
  OBVIOUS
<1>4. told \subseteq told2
  BY <1>1, <1>3, GoneStep DEF Told
<1>5. AckedFirst(down, told2)
  BY <1>1, <1>3, <1>4 DEF Labels, AckedFirst
<1>6. TrueMaps'
  BY <1>1, OriginStays DEF Labels, TrueMaps
<1>7. \A v \in 1 .. Len(slog') : (v \in 1 .. Len(slog) /\ slog'[v].org = slog[v].org) \/ ~Local(slog'[v].org)
  <2>1. CASE ForeignPatch
    <3>1. PICK e \in LogEntry : /\ CanPatch(slog, e.tag, e.ref) /\ slog' = mdir_patch(slog, e, 0)
                                /\ e.org = MaxLocal + 1 + Cardinality(Others(slog))
      BY <1>1, <2>1, ForeignPatches DEF Others
    <3>2. AddsOrg(slog, slog', e.org)
      BY <1>1, <3>1, PatchAddsOrg
    <3>3. Cardinality(Others(slog)) \in Nat
      <4>1. DOMAIN slog = 1 .. Len(slog) /\ Len(slog) \in Nat
        BY <1>1
      <4>2. IsFiniteSet(1 .. Len(slog)) /\ Others(slog) \subseteq 1 .. Len(slog)
        BY <4>1, FS_Interval DEF Others
      <4> QED
        BY <4>2, FS_Subset, FS_CardinalityType
    <3>4. ~Local(e.org)
      BY <3>1, <3>3, MdSyncAssumption DEF Local
    <3>5. PICK len \in Nat : len = Len(slog)
      BY <1>1
    <3>6. \A v \in 1 .. len + 1 : v \in 1 .. len \/ v = len + 1
      OBVIOUS
    <3> QED
      BY <3>2, <3>4, <3>5, <3>6 DEF AddsOrg
  <2> QED
    BY <2>1
<1>8. AckedUnsent(slog', answer, down, told2, Since)
  <2>1. \A v, n : AckedBy(answer, down, told, v, n) => AckedBy(answer, down, told2, v, n)
    BY <1>4 DEF AckedBy
  <2> QED
    BY <1>1, <1>3, <1>7, <2>1 DEF Labels, AckedUnsent
<1> QED
  BY <1>1, <1>2, <1>3, <1>5, <1>6, <1>8 DEF Labels

(* Every step of mdsyncc and of the server keeps the labels.               *)
LEMMA LabelsStep ==
  ASSUME Steady, ~Contention, ~Incomplete, [Next]_vars, breaks' = 0 PROVE Labels'
<1>1. breaks \in Nat /\ breaks = 0 /\ ~LinkBreaks /\ ~ClientRestarts /\ ~SaveErrorFails
  BY DEF Steady, SyncInv, TypeInv, NetTypes, LinkBreaks, ClientRestarts, Disconnect, SaveErrorFails
<1>2. ~ServeOrphan /\ ~LoseOrphan
  <2>1. Len(orphans) = 0 /\ orphans \in Seq(QueryMsg)
    BY DEF Steady, Unbroken, SyncInv, TypeInv, ServerTypes
  <2>2. orphans = <<>>
    BY <2>1
  <2> QED
    BY <2>2 DEF ServeOrphan, LoseOrphan
<1>3. \/ ServeQuery \/ SendAnswer \/ SendNextPatch \/ finalize_sub \/ finalize_putrem \/ patch_service \/ ApplyOne
      \/ /\ UNCHANGED <<answer, sub, clog, c2l, patches, down>>
         /\ slog' = slog \/ ForeignPatch
  BY <1>1, <1>2 DEF Next, Server, Client, Environment, vars, server, files, memory, refusals, net, WriterSub, WriterSend,
     QuarantineEnds, SaveError, ApplyEnd, mdir_patch_request, CreateTransient, ForeignPatch
<1> QED
  BY <1>3, ServeLabels, AnswerLabels, SendPatchLabels, FinalizeLabels, ServiceLabels, ApplyLabels, QuietLabels

-----------------------------------------------------------------------------
(* No message is shown twice.                                              *)

(* mdsyncc does not change the origin of what is shown.                    *)
LEMMA NoDuplicateStays ==
  ASSUME SyncInv, ListTypes, NoDuplicate, [Next]_vars, UNCHANGED view PROVE NoDuplicate'
<1>1. msgs' = msgs
  BY DEF view
<1>2. Len(clog) \in Nat /\ \A v \in msgs : v \in Int /\ v <= Len(clog)
  BY DEF SyncInv, TypeInv, FileTypes, ListTypes
<1>3. \A v \in 1 .. Len(clog) : clog'[v].org = clog[v].org
  <2>1. CASE UNCHANGED clog
    BY <2>1
  <2>2. CASE ApplyOne
    BY <2>2, ApplyExtends DEF Extends
  <2> QED
    BY <2>1, <2>2, ClogStep
<1>4. \A v \in msgs : v > 0 => v \in 1 .. Len(clog)
  BY <1>2
<1> QED
  BY <1>1, <1>3, <1>4 DEF NoDuplicate

(* Listing a version withdraws its transient, if that may be shown, and a  *)
(* file that is listed has no version in the client's mdir yet.            *)
LEMMA NoDuplicateStep ==
  ASSUME SyncInv, ListTypes, Labels, NoDuplicate, mdirc_update PROVE NoDuplicate'
<1>1. clog' = clog /\ clog \in Seq(LogEntry) /\ Len(clog) \in Nat
  BY ListingUnlinks DEF Unlinks, SyncInv, TypeInv, FileTypes
<1>2. \A v \in msgs : v > 0 => v \in 1 .. Len(clog)
  BY <1>1 DEF ListTypes
<1>3. CASE synch_list
  <2>1. msgs' = (msgs \ Withdrawn) \cup NewAdds /\ NewAdds \subseteq 1 .. Len(clog)
    BY <1>1, <1>3, SynchEffect DEF ListTypes
  <2>2. ASSUME NEW v \in msgs', v > 0, Local(clog[v].org) PROVE -clog[v].org \notin msgs'
    <3>1. PICK n \in Nat : n = clog[v].org /\ n > 0
      BY <2>2, MdSyncAssumption DEF Local
    <3>2. -n \notin NewAdds
      BY <1>1, <2>1, <3>1
    <3>3. CASE v \in msgs
      BY <2>1, <2>2, <3>1, <3>2, <3>3 DEF NoDuplicate
    <3>4. CASE v \in NewAdds
      <4>1. clog[v].lid = n
        BY <2>1, <2>2, <3>1, <3>4 DEF Labels, LabelledLog, Labelled
      <4>2. CASE n <= cursor.unsync
        <5>1. clog[v].lid # 0
          BY <3>1, <4>1
        <5>2. -clog[v].lid \in Withdrawn
          BY <3>4, <4>1, <4>2, <5>1 DEF Withdrawn
        <5> QED
          BY <2>1, <3>1, <3>2, <4>1, <5>2
      <4>3. CASE ~(n <= cursor.unsync)
        BY <2>1, <3>1, <3>2, <4>3 DEF ListTypes
      <4> QED
        BY <4>2, <4>3
    <3> QED
      BY <2>1, <2>2, <3>3, <3>4
  <2> QED
    BY <1>1, <2>2 DEF NoDuplicate
<1>4. ASSUME NEW f \in todo, transient_list(f) PROVE NoDuplicate'
  <2>1. f.id \in Nat /\ (msgs' \subseteq msgs \/ (f \in tmp /\ msgs' = msgs \cup {-f.id}))
    BY <1>4, TransientEffect DEF RequestFile
  <2>2. CASE msgs' \subseteq msgs
    BY <1>1, <2>2 DEF NoDuplicate
  <2>3. CASE f \in tmp /\ msgs' = msgs \cup {-f.id}
    <3>1. ASSUME NEW v \in msgs', v > 0, Local(clog[v].org) PROVE -clog[v].org \notin msgs'
      <4>1. v # -f.id
        BY <2>1, <3>1
      <4>2. v \in msgs
        BY <2>3, <3>1, <4>1
      <4>3. clog[v].org \in Gone
        BY <1>2, <3>1, <4>2 DEF Labels, LabelledLog, Labelled
      <4>4. PICK n \in Nat : n = clog[v].org
        BY <3>1, MdSyncAssumption DEF Local
      <4>5. n # f.id
        BY <2>3, <4>3, <4>4 DEF Gone
      <4>6. -n # -f.id
        BY <2>1, <4>4, <4>5
      <4>7. -n \notin msgs
        BY <3>1, <4>2, <4>4 DEF NoDuplicate
      <4> QED
        BY <2>3, <4>4, <4>6, <4>7
    <3> QED
      BY <1>1, <3>1 DEF NoDuplicate
  <2> QED
    BY <2>1, <2>2, <2>3
<1>5. CASE opendir \/ transient_end \/ err_list \/ err_end
  <2>1. msgs' = msgs
    BY <1>5 DEF opendir, transient_end, err_list, err_end
  <2> QED
    BY <1>1, <2>1 DEF NoDuplicate
<1> QED
  BY <1>3, <1>4, <1>5 DEF mdirc_update

DuplicateInv == ViewInv /\ Unbroken /\ (breaks = 0 => Labels /\ NoDuplicate)

(* The invariant holds at first.                                           *)
LEMMA DuplicateInit == ViewInit => DuplicateInv
<1> SUFFICES ASSUME ViewInit PROVE DuplicateInv
  OBVIOUS
<1>1. /\ Len(slog) = 0 /\ Len(clog) = 0 /\ Len(orphans) = 0 /\ Len(up) = 0 /\ Len(answer) = 0 /\ Len(down) = 0
      /\ Len(patches) = 0 /\ link /\ c2l = {} /\ msgs = {}
      /\ tmp = {} /\ drafts = {} /\ commands = {} /\ nextLocal = 1
  BY DEF ViewInit, Init, NoAnswer
<1>2. nextLocal <= MaxLocal + 1
  BY <1>1, MdSyncAssumption
<1>3. Unbroken
  BY <1>1, <1>2 DEF Unbroken, Numbers, OneFile, CommandFiles, Fresh, Unique, Numbered
<1>4. Labels
  BY <1>1 DEF Labels, LabelledLog, LabelledPatches, AckedFirst, AckedUnsent, TrueMaps, Rising
<1>5. NoDuplicate
  BY <1>1 DEF NoDuplicate
<1> QED
  BY <1>3, <1>4, <1>5, ViewInvInit DEF DuplicateInv

(* Every step keeps it; nothing is claimed after a break.                  *)
LEMMA DuplicateStep ==
  ASSUME DuplicateInv, ~Contention, ~Incomplete, [ViewNext]_vvars PROVE DuplicateInv'
<1>1. ViewInv /\ SyncInv /\ ListTypes /\ Unbroken /\ ViewInv'
  BY ViewInvStep DEF DuplicateInv, ViewInv
<1>2. CASE mdirc_update
  <2>1. Unlinks
    BY <1>2, ListingUnlinks
  <2>2. Unbroken'
    BY <1>1, <2>1, UnlinksKeeps
  <2>3. Labels => Labels'
    BY <2>1 DEF Unlinks, Labels, LabelledLog, LabelledPatches, Told, Gone, Since, TrueMaps
  <2>4. Labels /\ NoDuplicate => NoDuplicate'
    BY <1>1, <1>2, NoDuplicateStep
  <2>5. breaks' = breaks
    BY <2>1 DEF Unlinks
  <2> QED
    BY <1>1, <2>2, <2>3, <2>4, <2>5 DEF DuplicateInv
<1>3. CASE [Next]_vars /\ UNCHANGED view
  <2>1. Unbroken'
    BY <1>1, <1>3, UnbrokenStep
  <2>2. ASSUME breaks' = 0 PROVE Labels' /\ NoDuplicate'
    <3>1. breaks = 0
      <4>1. breaks \in Nat
        BY <1>1 DEF SyncInv, TypeInv, NetTypes
      <4>2. ~LinkBreaks /\ ~ClientRestarts /\ ~SaveErrorFails
        BY <2>2, <4>1 DEF LinkBreaks, ClientRestarts, Disconnect, SaveErrorFails
      <4> QED
        BY <1>3, <2>2, <4>2 DEF Next, Server, Client, Environment, vars, net, ServeQuery, SendAnswer, SendNextPatch,
           WriterSub, QuarantineEnds, WriterSend, finalize_sub, finalize_putrem, SaveError, patch_service, ApplyOne,
           ApplyEnd, mdir_patch_request, CreateTransient, ForeignPatch, ServeOrphan, LoseOrphan
    <3>2. Steady /\ NoDuplicate
      BY <1>1, <3>1 DEF DuplicateInv, Steady
    <3> QED
      BY <1>1, <1>3, <2>2, <3>2, LabelsStep, NoDuplicateStays
  <2> QED
    BY <1>1, <2>1, <2>2 DEF DuplicateInv
<1> QED
  BY <1>2, <1>3, ViewStep

(* A message is never shown as a transient and under its version at once,  *)
(* in whichever order its file, the answer, the patch and the listings     *)
(* come, if no other subscription contends for the connection, the server  *)
(* answers what it records, and as long as the connection is not lost.     *)
THEOREM ShownOnce == ASSUME ~Contention, ~Incomplete PROVE ViewSpec => [](breaks = 0 => NoDuplicate)
<1>1. ViewInit => DuplicateInv
  BY DuplicateInit
<1>2. DuplicateInv /\ [ViewNext]_vvars => DuplicateInv'
  BY DuplicateStep
<1>3. DuplicateInv => (breaks = 0 => NoDuplicate)
  BY DEF DuplicateInv
<1> QED
  BY <1>1, <1>2, <1>3, PTL DEF ViewSpec

-----------------------------------------------------------------------------
(* Requests, from the file to the journal.                                 *)

(* A file that has this number is what was sent or recorded under it.      *)
QueryOk(q, F, n, len) ==
  q.kw # "sub" =>
    q.id < n /\ q.ref <= len /\ \A f \in F : f.id = q.id => q.kw = kw(f) /\ q.ref = f.ref

EntryOk(e, v, F, n) ==
  /\ e.ref < v
  /\ e.org < n \/ e.org > MaxLocal
  /\ \A f \in F : f.id = e.org => e.ref = f.ref /\ e.tag \in {f.tag, "%"}

FilesOk(F, n, len) ==
  /\ \A f \in F : 1 <= f.id /\ f.id < n /\ f.ref <= len
  /\ \A f, g \in F : f.id = g.id => f = g

(* Files are numbered once, and what becomes of them refers to earlier     *)
(* versions only: for files F, the next number n, a journal and queries Q. *)
OriginsIn(F, n, log, Q) ==
  /\ F \subseteq RequestFile /\ log \in Seq(LogEntry) /\ Q \subseteq QueryMsg
  /\ n \in 1 .. MaxLocal + 1
  /\ FilesOk(F, n, Len(log))
  /\ \A q \in Q : QueryOk(q, F, n, Len(log))
  /\ \A v \in 1 .. Len(log) : EntryOk(log[v], v, F, n)

Elements(s) == {s[i] : i \in 1 .. Len(s)}

OriginsTrue == OriginsIn(tmp \cup drafts, nextLocal, slog, Elements(up) \cup Elements(orphans))

-----------------------------------------------------------------------------
(* The folder.                                                             *)

Objs    == [v : Int, gen : Nat]
Folders == [msgs : SUBSET Objs, read : SUBSET Objs, nb_msgs : Int, nb_unread : Int, news : SUBSET Objs,
            changed : BOOLEAN]

(* CountsRight, for a folder.                                              *)
CountedIn(F) ==
  /\ IsFiniteSet(F.msgs) /\ F.read \subseteq F.msgs
  /\ F.nb_msgs = Cardinality(F.msgs)
  /\ F.nb_unread = Cardinality(F.msgs \ F.read)
  /\ F.news = F.msgs \ F.read

(* The versions listed are those up to sync, the transients those up to    *)
(* unsync.                                                                 *)
ListedIn(F, sync, unsync) ==
  \A o \in F.msgs : o.v <= sync /\ -o.v <= unsync

FolderTypes ==
  /\ folder \in Folders /\ cur \in [sync : Nat, unsync : Nat] /\ gen \in Nat
  /\ left \subseteq RequestFile /\ rows \subseteq Objs
  /\ cur.sync <= Len(clog)
  /\ \A o \in rows : o.v <= Len(clog)
  /\ prog # "vadrouille" => folder.msgs = {}

(* What readdir has yet to deliver was not listed.                         *)
LeftNew ==
  /\ \A f, g \in left : f.id = g.id => f = g
  /\ \A f \in left : 1 <= f.id /\ \A o \in folder.msgs : o.v # -f.id

FolderInv == FolderTypes /\ CountedIn(folder) /\ ListedIn(folder, cur.sync, cur.unsync) /\ LeftNew

(* The window has a row for each message unless it is about to be told.    *)
RowsInv ==
  shown /\ folder.msgs # {} /\ (step \in {"idle", "display"} \/ ~folder.changed) => rows = folder.msgs

(* The parts of ReadIsReal.  After a refusal was reported the list is about *)
(* to be emptied.                                                          *)
Emptying == step = "errors" /\ folder.changed

Waits(o) == o.v < 0 => Kept(tmp, Refused, slog, -o.v)

MarkedIn(o, F, log) ==
  \/ \E f \in F : f.tag = "+" /\ f.ref = o.v
  \/ \E v \in 1 .. Len(log) : log[v].tag # "-" /\ log[v].ref = o.v

WasRead(o) == (o.v > 0 /\ was_read(clog[o.v].org)) \/ was_read(-o.v)

RealInv ==
  ~Emptying =>
    /\ \A o \in folder.msgs : Waits(o)
    /\ \A o \in folder.read : WasRead(o) \/ Refused # {} \/ MarkedIn(o, tmp, slog)

(* The marks of the journal up to version len are shown.                   *)
MarksShown(F, len) ==
  \A m \in 1 .. Len(clog), o \in F.msgs :
    m <= len /\ clog[m].tag = "+" /\ clog[m].ref # 0 /\ clog[m].ref = o.v /\ o.v > 0 => o \in F.read

BrowserInv ==
  /\ SyncInv /\ AckedRecorded /\ OriginsTrue
  /\ FolderInv /\ RowsInv /\ RealInv /\ MarksShown(folder, cur.sync)

-----------------------------------------------------------------------------
(* What happens to requests.                                               *)

(* The log new is old with an entry more.                                  *)
Adds(old, new, e) ==
  Grows(old, new) /\ Len(new) = Len(old) + 1 /\ new[Len(old) + 1] = e /\ e \in LogEntry

LEMMA PatchAdds ==
  ASSUME NEW log \in Seq(LogEntry), NEW new, NEW e \in LogEntry, e.tag # "%", CanPatch(log, e.tag, e.ref),
         new = mdir_patch(log, e, 0)
  PROVE  Adds(log, new, e)
<1>1. Grows(log, new)
  BY PatchGrows DEF Patches
<1>2. PICK len \in Nat : len = Len(log)
  OBVIOUS
<1>3. Len(new) = len + 1 /\ new[len + 1] = e
  BY <1>2, ServerPatch
<1> QED
  BY <1>1, <1>2, <1>3 DEF Adds

(* The server records a patch.                                             *)
LEMMA OriginsEntry ==
  ASSUME NEW F, NEW n, NEW log, NEW new, NEW e, NEW Q, OriginsIn(F, n, log, Q), Adds(log, new, e),
         EntryOk(e, Len(log) + 1, F, n)
  PROVE  OriginsIn(F, n, new, Q)
<1>1. PICK len \in Nat : len = Len(log)
  BY DEF OriginsIn
<1>2. /\ new \in Seq(LogEntry) /\ Len(new) = len + 1 /\ new[len + 1] = e
      /\ \A v \in 1 .. len : /\ new[v].ref = log[v].ref /\ new[v].org = log[v].org
                             /\ new[v].tag \in {log[v].tag, "%"}
  BY <1>1 DEF Adds, Grows
<1>3. \A f \in F : f.ref \in Int
  BY DEF OriginsIn, RequestFile
<1>4. \A q \in Q : q.ref \in Int
  BY DEF OriginsIn, QueryMsg
<1>5. FilesOk(F, n, len + 1)
  BY <1>1, <1>3 DEF OriginsIn, FilesOk
<1>6. ASSUME NEW q \in Q PROVE QueryOk(q, F, n, len + 1)
  <2>1. QueryOk(q, F, n, len)
    BY <1>1 DEF OriginsIn
  <2> QED
    BY <1>1, <1>4, <2>1 DEF QueryOk
<1>7. ASSUME NEW v \in 1 .. len + 1 PROVE EntryOk(new[v], v, F, n)
  <2>1. CASE v = len + 1
    BY <1>1, <1>2, <2>1
  <2>2. CASE v \in 1 .. len
    <3>1. EntryOk(log[v], v, F, n)
      BY <1>1, <2>2 DEF OriginsIn
    <3>2. /\ new[v].ref = log[v].ref /\ new[v].org = log[v].org
          /\ new[v].tag \in {log[v].tag, "%"}
      BY <1>2, <2>2
    <3> QED
      BY <3>1, <3>2 DEF EntryOk
  <2> QED
    BY <2>1, <2>2
<1> QED
  BY <1>2, <1>5, <1>6, <1>7 DEF OriginsIn

(* Queries are sent, executed or lost.                                     *)
LEMMA OriginsQueries ==
  ASSUME NEW F, NEW n, NEW log, NEW Q, NEW P, OriginsIn(F, n, log, Q),
         \A q \in P : q \in Q \/ (q \in QueryMsg /\ QueryOk(q, F, n, Len(log)))
  PROVE  OriginsIn(F, n, log, P)
BY DEF OriginsIn

(* Files go.                                                               *)
LEMMA OriginsDrop ==
  ASSUME NEW F, NEW G, NEW n, NEW log, NEW Q, OriginsIn(F, n, log, Q), G \subseteq F
  PROVE  OriginsIn(G, n, log, Q)
<1>1. FilesOk(G, n, Len(log))
  BY DEF OriginsIn, FilesOk
<1>2. \A q \in Q : QueryOk(q, G, n, Len(log))
  BY DEF OriginsIn, QueryOk
<1>3. \A v \in 1 .. Len(log) : EntryOk(log[v], v, G, n)
  BY DEF OriginsIn, EntryOk
<1> QED
  BY <1>1, <1>2, <1>3 DEF OriginsIn

(* Files come, with new numbers.                                           *)
NewFiles(N, n, m, len) ==
  /\ N \subseteq RequestFile
  /\ m \in 1 .. MaxLocal + 1 /\ n <= m
  /\ \A f \in N : n <= f.id /\ f.id < m /\ f.ref <= len
  /\ \A f, g \in N : f.id = g.id => f = g

LEMMA OriginsNew ==
  ASSUME NEW F, NEW n, NEW m, NEW log, NEW Q, NEW N, OriginsIn(F, n, log, Q), NewFiles(N, n, m, Len(log))
  PROVE  OriginsIn(F \cup N, m, log, Q)
<1>1. n \in Nat /\ m \in Nat /\ n >= 1 /\ n <= m /\ m <= MaxLocal + 1 /\ MaxLocal \in Nat
  BY MdSyncAssumption DEF OriginsIn, NewFiles
<1>2. \A f \in F : f.id \in Nat /\ 1 <= f.id /\ f.id < n /\ f.ref <= Len(log)
  BY DEF OriginsIn, RequestFile, FilesOk
<1>3. \A f \in N : f.id \in Nat /\ n <= f.id /\ f.id < m /\ f.ref <= Len(log)
  BY DEF NewFiles, RequestFile
<1>4. FilesOk(F \cup N, m, Len(log))
  <2>1. \A f \in F \cup N : 1 <= f.id /\ f.id < m /\ f.ref <= Len(log)
    BY <1>1, <1>2, <1>3
  <2>2. \A f \in F, g \in N : f.id # g.id
    BY <1>1, <1>2, <1>3
  <2>3. \A f, g \in F : f.id = g.id => f = g
    BY DEF OriginsIn, FilesOk
  <2>4. \A f, g \in N : f.id = g.id => f = g
    BY DEF NewFiles
  <2>5. \A f, g \in F \cup N : f.id = g.id => f = g
    BY <2>2, <2>3, <2>4
  <2> QED
    BY <2>1, <2>5 DEF FilesOk
<1>5. ASSUME NEW q \in Q PROVE QueryOk(q, F \cup N, m, Len(log))
  <2>1. QueryOk(q, F, n, Len(log)) /\ q.id \in Nat
    BY DEF OriginsIn, QueryMsg
  <2>2. q.kw # "sub" => q.id < m /\ \A f \in N : f.id # q.id
    BY <1>1, <1>3, <2>1 DEF QueryOk
  <2> QED
    BY <2>1, <2>2 DEF QueryOk
<1>6. ASSUME NEW v \in 1 .. Len(log) PROVE EntryOk(log[v], v, F \cup N, m)
  <2>1. EntryOk(log[v], v, F, n) /\ log[v] \in LogEntry
    BY DEF OriginsIn
  <2>2. log[v].org \in Nat
    BY <2>1 DEF LogEntry
  <2>3. (log[v].org < m \/ log[v].org > MaxLocal) /\ \A f \in N : f.id # log[v].org
    BY <1>1, <1>3, <2>1, <2>2 DEF EntryOk
  <2> QED
    BY <2>1, <2>3 DEF EntryOk
<1> QED
  BY <1>4, <1>5, <1>6 DEF OriginsIn, NewFiles

(* A query that is executed is recorded as it was sent.                    *)
LEMMA AcceptAdds ==
  ASSUME NEW F, NEW n, NEW Q, OriginsIn(F, n, slog, Q), NEW q \in Q, q.kw # "sub", NEW granted, Accepts(q, granted)
  PROVE  \E e : Adds(slog, add_header(q), e) /\ EntryOk(e, Len(slog) + 1, F, n)
<1> DEFINE tag == IF q.kw = "put" THEN "+" ELSE "-"
           e == Entry(tag, q.ref, q.id, 0)
<1>1. q \in QueryMsg /\ slog \in Seq(LogEntry) /\ QueryOk(q, F, n, Len(slog)) /\ F \subseteq RequestFile
  BY DEF OriginsIn
<1>2. e \in LogEntry /\ e.tag # "%" /\ e.org = q.id /\ e.tag = tag /\ e.ref = q.ref
  BY <1>1 DEF Entry, LogEntry, QueryMsg
<1>3. CanPatch(slog, e.tag, e.ref) /\ add_header(q) = mdir_patch(slog, e, 0)
  BY <1>2 DEF Accepts, add_header
<1> HIDE DEF e
<1>4. Adds(slog, add_header(q), e)
  BY <1>1, <1>2, <1>3, PatchAdds
<1>5. e.ref < Len(slog) + 1 /\ e.org < n
  <2>1. q.ref <= Len(slog) /\ q.id < n /\ q.ref \in Int /\ Len(slog) \in Nat
    BY <1>1 DEF QueryOk, QueryMsg
  <2> QED
    BY <1>2, <2>1
<1>6. ASSUME NEW f \in F, f.id = e.org PROVE e.ref = f.ref /\ e.tag \in {f.tag, "%"}
  <2>1. q.kw = kw(f) /\ q.ref = f.ref /\ f.tag \in {"+", "-"}
    BY <1>1, <1>2, <1>6 DEF QueryOk, RequestFile
  <2> QED
    BY <1>2, <2>1 DEF kw
<1>7. EntryOk(e, Len(slog) + 1, F, n)
  BY <1>5, <1>6 DEF EntryOk
<1> QED
  BY <1>4, <1>7

(* The elements of a sequence that gets longer or shorter at an end.       *)
LEMMA ElementsAppend ==
  ASSUME NEW S, NEW s \in Seq(S), NEW x \in S PROVE Elements(Append(s, x)) = Elements(s) \cup {x}
<1>1. PICK len \in Nat : len = Len(s)
  OBVIOUS
<1>2. /\ Len(Append(s, x)) = len + 1 /\ Append(s, x)[len + 1] = x
      /\ \A i \in 1 .. len : Append(s, x)[i] = s[i]
  BY <1>1, AppendProperties
<1>3. \A i \in 1 .. len + 1 : i \in 1 .. len \/ i = len + 1
  OBVIOUS
<1>4. \A i \in 1 .. len : i \in 1 .. len + 1
  OBVIOUS
<1> QED
  BY <1>1, <1>2, <1>3, <1>4 DEF Elements

LEMMA ElementsTail ==
  ASSUME NEW S, NEW s \in Seq(S), s # <<>>
  PROVE  Elements(Tail(s)) \subseteq Elements(s) /\ Head(s) \in Elements(s)
<1>1. PICK len \in Nat : len = Len(s) /\ len >= 1
  OBVIOUS
<1>2. Len(Tail(s)) = len - 1 /\ Head(s) = s[1] /\ \A i \in 1 .. len - 1 : Tail(s)[i] = s[i + 1]
  BY <1>1, HeadTailProperties
<1>3. 1 \in 1 .. len /\ \A i \in 1 .. len - 1 : i + 1 \in 1 .. len
  BY <1>1
<1> QED
  BY <1>1, <1>2, <1>3 DEF Elements

LEMMA ElementsConcat ==
  ASSUME NEW S, NEW s \in Seq(S), NEW t \in Seq(S)
  PROVE  Elements(s \o t) = Elements(s) \cup Elements(t)
<1>1. PICK a \in Nat, b \in Nat : a = Len(s) /\ b = Len(t)
  OBVIOUS
<1>2. Len(s \o t) = a + b /\ \A i \in 1 .. a + b : (s \o t)[i] = IF i <= a THEN s[i] ELSE t[i - a]
  BY <1>1, ConcatProperties
<1>3. ASSUME NEW x \in Elements(s \o t) PROVE x \in Elements(s) \cup Elements(t)
  <2>1. PICK i \in 1 .. a + b : x = (s \o t)[i]
    BY <1>2, <1>3 DEF Elements
  <2>2. CASE i <= a
    <3>1. i \in 1 .. a /\ x = s[i]
      BY <1>2, <2>1, <2>2
    <3> QED
      BY <1>1, <3>1 DEF Elements
  <2>3. CASE ~(i <= a)
    <3>1. i - a \in 1 .. b /\ x = t[i - a]
      BY <1>2, <2>1, <2>3
    <3> QED
      BY <1>1, <3>1 DEF Elements
  <2> QED
    BY <2>2, <2>3
<1>4. ASSUME NEW x \in Elements(s) PROVE x \in Elements(s \o t)
  <2>1. PICK i \in 1 .. a : x = s[i]
    BY <1>1, <1>4 DEF Elements
  <2>2. i \in 1 .. a + b /\ x = (s \o t)[i]
    BY <1>2, <2>1
  <2> QED
    BY <1>2, <2>2 DEF Elements
<1>5. ASSUME NEW x \in Elements(t) PROVE x \in Elements(s \o t)
  <2>1. PICK i \in 1 .. b : x = t[i]
    BY <1>1, <1>5 DEF Elements
  <2>2. i + a \in 1 .. a + b /\ ~(i + a <= a) /\ (i + a) - a = i
    OBVIOUS
  <2>3. x = (s \o t)[i + a]
    BY <1>2, <2>1, <2>2
  <2> QED
    BY <1>2, <2>2, <2>3 DEF Elements
<1> QED
  BY <1>3, <1>4, <1>5

(* What mdsyncc, mdsyncd, other hosts and other programs do to requests.   *)
LEMMA OriginsStep ==
  ASSUME TypeInv, Replica, OriginsTrue, [Next]_vars PROVE OriginsTrue'
<1> DEFINE F == tmp \cup drafts
           Q == Elements(up) \cup Elements(orphans)
           len == Len(slog)
<1>1. /\ OriginsIn(F, nextLocal, slog, Q) /\ up \in Seq(QueryMsg) /\ orphans \in Seq(QueryMsg)
      /\ slog \in Seq(LogEntry) /\ F \subseteq RequestFile /\ Len(clog) \in Nat
  BY DEF OriginsTrue, TypeInv, NetTypes, ServerTypes, FileTypes
<1>2. ASSUME NEW q \in Q, NEW granted, q.kw # "sub", Accepts(q, granted), slog' = add_header(q),
             Elements(up') \cup Elements(orphans') \subseteq Q, UNCHANGED <<tmp, drafts, nextLocal>>
      PROVE  OriginsTrue'
  <2>1. PICK e : Adds(slog, add_header(q), e) /\ EntryOk(e, Len(slog) + 1, F, nextLocal)
    BY <1>1, <1>2, AcceptAdds
  <2>2. OriginsIn(F, nextLocal, slog', Q)
    BY <1>1, <1>2, <2>1, OriginsEntry
  <2> HIDE DEF F, Q
  <2>3. OriginsIn(F, nextLocal, slog', Elements(up') \cup Elements(orphans'))
    BY <1>2, <2>2, OriginsQueries
  <2> QED
    BY <1>2, <2>3 DEF OriginsTrue, F
<1>3. ASSUME Elements(up') \cup Elements(orphans') \subseteq Q, UNCHANGED <<slog, tmp, drafts, nextLocal>>
      PROVE  OriginsTrue'
  <2> HIDE DEF F, Q
  <2>1. OriginsIn(F, nextLocal, slog, Elements(up') \cup Elements(orphans'))
    BY <1>1, <1>3, OriginsQueries
  <2> QED
    BY <1>3, <2>1 DEF OriginsTrue, F
<1>4. CASE ServeQuery
  <2>1. Head(up) \in Q /\ Elements(up') \cup Elements(orphans') \subseteq Q
    BY <1>1, <1>4, ElementsTail DEF ServeQuery
  <2>2. UNCHANGED <<tmp, drafts, nextLocal>>
    BY <1>4 DEF ServeQuery, files
  <2>3. PICK granted \in {TRUE, ~Denials}, confirmed \in {TRUE, ~Incomplete} :
          IF Head(up).kw = "sub" THEN exec_sub(Head(up), granted) ELSE exec_putrem(Head(up), granted, confirmed)
    BY <1>4 DEF ServeQuery
  <2>4. slog' = slog \/ (Head(up).kw # "sub" /\ Accepts(Head(up), granted) /\ slog' = add_header(Head(up)))
    BY <2>3 DEF exec_sub, exec_putrem
  <2> HIDE DEF F, Q
  <2> QED
    BY <1>2, <1>3, <2>1, <2>2, <2>4
<1>5. CASE ServeOrphan
  <2>1. Head(orphans) \in Q /\ Elements(up') \cup Elements(orphans') \subseteq Q
    BY <1>1, <1>5, ElementsTail DEF ServeOrphan, net
  <2>2. UNCHANGED <<tmp, drafts, nextLocal>>
    BY <1>5 DEF ServeOrphan, files
  <2>3. \E granted : \/ slog' = slog
                     \/ /\ Head(orphans).kw # "sub" /\ Accepts(Head(orphans), granted)
                        /\ slog' = add_header(Head(orphans))
    BY <1>5 DEF ServeOrphan
  <2> HIDE DEF F, Q
  <2> QED
    BY <1>2, <1>3, <2>1, <2>2, <2>3
<1>6. CASE ForeignPatch
  <2>1. PICK e \in LogEntry :
           /\ e.tag # "%" /\ CanPatch(slog, e.tag, e.ref) /\ slog' = mdir_patch(slog, e, 0)
           /\ e.org = MaxLocal + 1 + Cardinality({v \in DOMAIN slog : slog[v].org > MaxLocal})
           /\ e.ref <= Len(slog)
    BY <1>6, ForeignPatches
  <2>2. Adds(slog, slog', e)
    BY <1>1, <2>1, PatchAdds
  <2>3. e.org > MaxLocal /\ e.org \in Nat /\ e.ref < Len(slog) + 1
    <3>1. IsFiniteSet({v \in DOMAIN slog : slog[v].org > MaxLocal})
      <4>1. DOMAIN slog = 1 .. Len(slog) /\ Len(slog) \in Nat
        BY <1>1
      <4>2. IsFiniteSet(1 .. Len(slog))
        BY <4>1, FS_Interval
      <4> QED
        BY <4>1, <4>2, FS_Subset
    <3>2. Cardinality({v \in DOMAIN slog : slog[v].org > MaxLocal}) \in Nat
      BY <3>1, FS_CardinalityType
    <3>3. e.ref \in Int /\ Len(slog) \in Nat
      BY <1>1 DEF LogEntry
    <3> QED
      BY <2>1, <3>2, <3>3, MdSyncAssumption
  <2>4. \A f \in F : f.id # e.org
    <3>1. \A f \in F : f.id \in Nat /\ f.id < nextLocal /\ nextLocal <= MaxLocal + 1 /\ nextLocal \in Nat
      BY <1>1 DEF OriginsIn, FilesOk, RequestFile
    <3> QED
      BY <2>3, <3>1, MdSyncAssumption
  <2>5. EntryOk(e, Len(slog) + 1, F, nextLocal)
    BY <2>3, <2>4 DEF EntryOk
  <2>6. UNCHANGED <<tmp, drafts, nextLocal, up, orphans>>
    BY <1>6 DEF ForeignPatch, files, net
  <2> HIDE DEF F, Q
  <2>7. OriginsIn(F, nextLocal, slog', Q)
    BY <1>1, <2>2, <2>5, OriginsEntry
  <2> QED
    BY <2>6, <2>7 DEF OriginsTrue, F, Q
<1>7. CASE WriterSub
  <2>1. Query("sub", 0, Len(clog)) \in QueryMsg /\ Query("sub", 0, Len(clog)).kw = "sub"
    BY <1>1 DEF Query, QueryMsg, Keywords
  <2>2. UNCHANGED <<tmp, drafts, nextLocal, slog, orphans>> /\ up' = Append(up, Query("sub", 0, Len(clog)))
    BY <1>7 DEF WriterSub, files, server
  <2>3. Elements(up') = Elements(up) \cup {Query("sub", 0, Len(clog))}
    BY <1>1, <2>1, <2>2, ElementsAppend
  <2>4. QueryOk(Query("sub", 0, Len(clog)), F, nextLocal, Len(slog))
    BY <2>1 DEF QueryOk
  <2>5. OriginsIn(F, nextLocal, slog, Elements(up') \cup Elements(orphans))
    BY <1>1, <2>1, <2>3, <2>4, OriginsQueries
  <2> QED
    BY <2>2, <2>5 DEF OriginsTrue
<1>8. ASSUME NEW f \in tmp, WriterSend(f) PROVE OriginsTrue'
  <2> DEFINE q == Query(kw(f), f.id, f.ref)
  <2>1. q \in QueryMsg /\ q.kw = kw(f) /\ q.id = f.id /\ q.ref = f.ref
    BY <1>1, <1>8 DEF Query, QueryMsg, Keywords, RequestFile, kw
  <2>2. UNCHANGED <<tmp, drafts, nextLocal, slog, orphans>> /\ up' = Append(up, q)
    BY <1>8 DEF WriterSend, files, server
  <2> HIDE DEF q
  <2>3. Elements(up') = Elements(up) \cup {q}
    BY <1>1, <2>1, <2>2, ElementsAppend
  <2>4. QueryOk(q, F, nextLocal, Len(slog))
    <3>1. f.id < nextLocal /\ f.ref <= Len(slog) /\ \A g \in F : g.id = f.id => g = f
      BY <1>1, <1>8 DEF OriginsIn, FilesOk
    <3> QED
      BY <2>1, <3>1 DEF QueryOk
  <2>5. OriginsIn(F, nextLocal, slog, Elements(up') \cup Elements(orphans))
    BY <1>1, <2>1, <2>3, <2>4, OriginsQueries
  <2> QED
    BY <2>2, <2>5 DEF OriginsTrue
<1>9. CASE LinkBreaks \/ ClientRestarts
  <2>1. UNCHANGED <<tmp, drafts, nextLocal, slog>> /\ orphans' = orphans \o up /\ up' = <<>>
    BY <1>9 DEF LinkBreaks, ClientRestarts, Disconnect, files
  <2>2. Elements(orphans') = Elements(orphans) \cup Elements(up)
    BY <1>1, <2>1, ElementsConcat
  <2>3. Elements(up') = {}
    BY <2>1 DEF Elements
  <2> QED
    BY <1>3, <2>1, <2>2, <2>3
<1>10. CASE LoseOrphan
  <2>1. UNCHANGED <<tmp, drafts, nextLocal, slog, up>> /\ orphans' = <<>>
    BY <1>10 DEF LoseOrphan, files, net
  <2>2. Elements(orphans') = {}
    BY <2>1 DEF Elements
  <2> QED
    BY <1>3, <2>1, <2>2
<1>11. ASSUME NEW tag \in {"+", "-"}, NEW ref \in Int, ref <= Len(slog), mdir_patch_request(tag, ref) PROVE OriginsTrue'
  <2> DEFINE f == [id |-> nextLocal, tag |-> tag, ref |-> ref]
  <2>1. /\ drafts' = drafts \cup {f} /\ nextLocal' = nextLocal + 1 /\ nextLocal <= MaxLocal
        /\ UNCHANGED <<tmp, slog, up, orphans>>
    BY <1>11 DEF mdir_patch_request, server, net
  <2>2. nextLocal \in Nat /\ nextLocal >= 1
    BY <1>1 DEF OriginsIn
  <2>3. f \in RequestFile /\ f.id = nextLocal /\ f.ref = ref
    BY <2>2 DEF RequestFile
  <2> HIDE DEF f
  <2>4. NewFiles({f}, nextLocal, nextLocal', Len(slog))
    BY <1>11, <2>1, <2>2, <2>3, MdSyncAssumption DEF NewFiles
  <2>5. OriginsIn(F \cup {f}, nextLocal', slog, Q)
    BY <1>1, <2>4, OriginsNew
  <2>6. F \cup {f} = tmp' \cup drafts'
    BY <2>1
  <2> QED
    BY <2>1, <2>5, <2>6 DEF OriginsTrue
<1>12. CASE \E t \in DOMAIN clog : mdir_patch_request("-", t)
  <2>1. PICK t \in DOMAIN clog : mdir_patch_request("-", t)
    BY <1>12
  <2>2. DOMAIN clog = 1 .. Len(clog) /\ Len(clog) \in Nat /\ Len(clog) <= Len(slog) /\ Len(slog) \in Nat
    BY DEF TypeInv, FileTypes, ServerTypes, Replica, ReplicaIn
  <2>3. t \in Int /\ t <= Len(slog)
    BY <2>1, <2>2
  <2> QED
    BY <1>11, <2>1, <2>3
<1>13. CASE CreateTransient
  <2>1. tmp' \cup drafts' = tmp \cup drafts
    BY <1>13 DEF CreateTransient
  <2>2. UNCHANGED <<nextLocal, slog, up, orphans>>
    BY <1>13 DEF CreateTransient, server, net
  <2> QED
    BY <1>1, <2>1, <2>2 DEF OriginsTrue
<1>14. CASE finalize_putrem
  <2>1. tmp' \cup drafts' \subseteq F /\ UNCHANGED <<nextLocal, slog, up, orphans>>
    BY <1>14 DEF finalize_putrem, server
  <2>2. OriginsIn(tmp' \cup drafts', nextLocal, slog, Q)
    BY <1>1, <2>1, OriginsDrop
  <2> QED
    BY <2>1, <2>2 DEF OriginsTrue
<1>15. CASE UNCHANGED <<tmp, drafts, nextLocal, slog, up, orphans>>
  BY <1>1, <1>15 DEF OriginsTrue
<1>16. \/ ServeQuery \/ ServeOrphan \/ ForeignPatch \/ WriterSub \/ (\E f \in tmp : WriterSend(f))
       \/ LinkBreaks \/ ClientRestarts \/ LoseOrphan \/ mdir_patch_request("+", 0)
       \/ (\E t \in DOMAIN clog : mdir_patch_request("-", t)) \/ CreateTransient \/ finalize_putrem
       \/ UNCHANGED <<tmp, drafts, nextLocal, slog, up, orphans>>
  BY DEF Next, Server, Client, Environment, vars, server, files, memory, refusals, net, SendAnswer, SendNextPatch, QuarantineEnds,
     finalize_sub, SaveError, SaveErrorFails, patch_service, ApplyOne, ApplyEnd
<1>17. CASE mdir_patch_request("+", 0)
  BY <1>1, <1>11, <1>17
<1> QED
  BY <1>4, <1>5, <1>6, <1>7, <1>8, <1>9, <1>10, <1>12, <1>13, <1>14, <1>15, <1>16, <1>17

-----------------------------------------------------------------------------
(* The program creates files in .tmp and unlinks files of .err; it changes *)
(* nothing else of the host.                                               *)

Asks(N) ==
  /\ NewFiles(N, nextLocal, nextLocal', Len(clog))
  /\ tmp' = tmp \cup N
  /\ err' \subseteq err
  /\ UNCHANGED <<slog, answer, sub, orphans, clog, drafts, commands, acks, c2l, patches,
                 applying, subscribed, quarantine, unsaved, unreported, up, down, link, breaks>>

LEMMA AsksNothing ==
  ASSUME nextLocal \in 1 .. MaxLocal + 1, err' \subseteq err,
         UNCHANGED <<server, clog, drafts, tmp, nextLocal, memory, net>>
  PROVE  Asks({})
<1>1. NewFiles({}, nextLocal, nextLocal', Len(clog))
  BY DEF NewFiles
<1> QED
  BY <1>1 DEF Asks, server, memory, refusals, net

LEMMA AsksOne ==
  ASSUME nextLocal \in 1 .. MaxLocal + 1, NEW tag \in {"+", "-"}, NEW ref \in Int, ref <= Len(clog),
         Request(tag, ref)
  PROVE  \E N : Asks(N)
<1> DEFINE f == [id |-> nextLocal, tag |-> tag, ref |-> ref]
<1>1. /\ tmp' = tmp \cup {f} /\ nextLocal' = nextLocal + 1 /\ nextLocal <= MaxLocal
      /\ UNCHANGED <<server, clog, drafts, err, memory, net>>
  BY DEF Request
<1>2. f \in RequestFile /\ f.id = nextLocal /\ f.ref = ref
  BY DEF RequestFile
<1> HIDE DEF f
<1>3. NewFiles({f}, nextLocal, nextLocal', Len(clog))
  BY <1>1, <1>2, MdSyncAssumption DEF NewFiles
<1>4. Asks({f})
  BY <1>1, <1>3 DEF Asks, server, memory, refusals, net
<1> QED
  BY <1>4

(* send_cb creates up to two files.                                        *)
LEMMA AsksTwo ==
  ASSUME nextLocal \in 1 .. MaxLocal + 1, clog \in Seq(LogEntry), NEW dated \in BOOLEAN, send_cb(dated)
  PROVE  \E N : Asks(N) /\ written \subseteq written'
<1> DEFINE f == [id |-> nextLocal, tag |-> "+", ref |-> 0]
           new == IF dated THEN {f} ELSE {}
           g == [id |-> nextLocal + Cardinality(new), tag |-> "-", ref |-> editor]
           rem == IF editor # 0 /\ CanPatch(clog, "-", editor) THEN {g} ELSE {}
<1>1. /\ nextLocal + Cardinality(new \cup rem) <= MaxLocal + 1
      /\ tmp' = tmp \cup (new \cup rem) /\ nextLocal' = nextLocal + Cardinality(new \cup rem)
      /\ written \subseteq written'
      /\ UNCHANGED <<server, clog, drafts, err, memory, net>>
  BY DEF send_cb
<1>2. nextLocal \in Nat /\ nextLocal >= 1 /\ Len(clog) \in Nat /\ DOMAIN clog = 1 .. Len(clog)
  BY MdSyncAssumption
<1>3. f \in RequestFile /\ f.id = nextLocal /\ f.ref = 0
  BY <1>2 DEF RequestFile
<1>4. Cardinality(new) = IF dated THEN 1 ELSE 0
  <2>1. Cardinality({f}) = 1 /\ Cardinality({}) = 0
    BY FS_Singleton, FS_EmptySet
  <2> QED
    BY <2>1
<1>5. editor # 0 /\ CanPatch(clog, "-", editor) =>
        /\ g \in RequestFile /\ g.id = nextLocal + Cardinality(new) /\ g.ref = editor /\ g.ref <= Len(clog)
  BY <1>2, <1>4 DEF RequestFile, CanPatch
<1> HIDE DEF f, g
<1>6. CASE dated /\ rem = {g} /\ editor # 0 /\ CanPatch(clog, "-", editor)
  <2>1. g.id = nextLocal + 1 /\ f # g /\ new = {f} /\ g \in RequestFile /\ g.ref <= Len(clog)
    BY <1>2, <1>3, <1>4, <1>5, <1>6
  <2>2. Cardinality({f, g}) = 2
    <3>1. IsFiniteSet({g}) /\ Cardinality({g}) = 1 /\ f \notin {g}
      BY <2>1, FS_Singleton
    <3>2. Cardinality({g} \cup {f}) = Cardinality({g}) + 1
      BY <3>1, FS_AddElement, Zenon
    <3>3. Cardinality({g}) + 1 = 2
      BY <3>1
    <3>4. {f, g} = {g} \cup {f}
      BY Zenon
    <3> QED
      BY <3>2, <3>3, <3>4, Zenon
  <2>3. new \cup rem = {f, g}
    BY <1>6, <2>1
  <2>4. nextLocal' = nextLocal + 2 /\ nextLocal + 2 <= MaxLocal + 1
    BY <1>1, <2>2, <2>3
  <2>5. NewFiles({f, g}, nextLocal, nextLocal', Len(clog))
    BY <1>2, <1>3, <2>1, <2>4, MdSyncAssumption DEF NewFiles
  <2>6. Asks({f, g})
    BY <1>1, <2>3, <2>5 DEF Asks, server, memory, refusals, net
  <2> QED
    BY <1>1, <2>6
<1>7. ASSUME NEW x \in RequestFile, new \cup rem = {x}, x.id = nextLocal, x.ref <= Len(clog)
      PROVE  \E N : Asks(N) /\ written \subseteq written'
  <2>1. Cardinality({x}) = 1
    BY FS_Singleton
  <2>2. nextLocal' = nextLocal + 1 /\ nextLocal + 1 <= MaxLocal + 1
    BY <1>1, <1>7, <2>1
  <2>3. NewFiles({x}, nextLocal, nextLocal', Len(clog))
    BY <1>2, <1>7, <2>2, MdSyncAssumption DEF NewFiles
  <2>4. Asks({x})
    BY <1>1, <1>7, <2>3 DEF Asks, server, memory, refusals, net
  <2> QED
    BY <1>1, <2>4
<1>8. CASE dated /\ rem = {}
  BY <1>2, <1>3, <1>7, <1>8
<1>9. CASE ~dated /\ rem = {g} /\ editor # 0 /\ CanPatch(clog, "-", editor)
  BY <1>2, <1>4, <1>5, <1>7, <1>9
<1>10. CASE ~dated /\ rem = {}
  <2>1. Cardinality(new \cup rem) = 0 /\ new \cup rem = {}
    BY <1>10, FS_EmptySet
  <2>2. nextLocal' = nextLocal /\ tmp' = tmp
    BY <1>1, <1>2, <2>1
  <2>3. Asks({})
    BY <1>1, <2>2, AsksNothing
  <2> QED
    BY <1>1, <2>3
<1> QED
  BY <1>6, <1>8, <1>9, <1>10

LEMMA BrowserAsks ==
  ASSUME nextLocal \in 1 .. MaxLocal + 1, clog \in Seq(LogEntry), rows \subseteq Objs, \A o \in rows : o.v <= Len(clog),
         vadrouille
  PROVE  (\E N : Asks(N)) /\ written \subseteq written'
<1>1. CASE UNCHANGED vars /\ written' = written
  <2>1. Asks({})
    BY <1>1, AsksNothing DEF vars, files
  <2> QED
    BY <1>1, <2>1
<1>2. CASE err_msg
  <2>1. err' \subseteq err /\ UNCHANGED <<server, clog, drafts, tmp, nextLocal, memory, net>> /\ written' = written
    BY <1>2 DEF err_msg, window
  <2>2. Asks({})
    BY <2>1, AsksNothing
  <2> QED
    BY <2>1, <2>2
<1>3. CASE display_event
  <2>1. PICK o \in rows : Request("+", o.v)
    BY <1>3 DEF display_event
  <2>2. o.v \in Int /\ o.v <= Len(clog) /\ written' = written
    BY <1>3, <2>1 DEF display_event, Objs
  <2> QED
    BY <2>1, <2>2, AsksOne
<1>4. CASE Confirmed
  <2>1. Request("-", dialog) /\ CanPatch(clog, "-", dialog) /\ written' = written
    BY <1>4 DEF Confirmed
  <2>2. dialog \in Int /\ dialog <= Len(clog)
    BY <2>1 DEF CanPatch
  <2> QED
    BY <2>1, <2>2, AsksOne
<1>5. CASE \E dated \in BOOLEAN : send_cb(dated)
  BY <1>5, AsksTwo
<1>6. (UNCHANGED vars /\ written' = written) \/ err_msg \/ display_event \/ Confirmed \/ (\E dated \in BOOLEAN : send_cb(dated))
  BY DEF vadrouille, window, mdirb_refresh, mdirb_del_all_msgs, ListJournal, OpenTransients, ListTransient,
     EndTransients, Notify, OpenView, CloseView, reset_day, EndOfDay, del_cb, Cancelled, edit_cb
<1> QED
  BY <1>1, <1>2, <1>3, <1>4, <1>5, <1>6

(* So the invariants of the synchronisation survive the program.           *)
LEMMA AsksKeeps ==
  ASSUME SyncInv, AckedRecorded, OriginsTrue, NEW N, Asks(N)
  PROVE  SyncInv' /\ AckedRecorded' /\ OriginsTrue'
<1>1. TypeInv'
  BY DEF Asks, NewFiles, SyncInv, TypeInv, ServerTypes, FileTypes, MemoryTypes, NetTypes, Forward
<1>2. AckedRecorded'
  BY DEF Asks, AckedRecorded
<1>3. Matching'
  BY DEF SyncInv, Asks, Matching, Expected, OnceEach, Answered, AcksCount
<1>4. Synced'
  BY DEF SyncInv, Asks, Synced, Offline, SubState, NoPatches, PatchesTrue, PatchesSorted, Chain, Replica
<1>5. OriginsTrue'
  <2>1. Len(clog) \in Nat /\ Len(slog) \in Nat /\ Len(clog) <= Len(slog)
    BY DEF SyncInv, Synced, Replica, ReplicaIn, TypeInv, ServerTypes, FileTypes
  <2>2. NewFiles(N, nextLocal, nextLocal', Len(slog))
    <3>1. NewFiles(N, nextLocal, nextLocal', Len(clog)) /\ \A f \in N : f.ref \in Int
      BY DEF Asks, NewFiles, RequestFile
    <3> QED
      BY <2>1, <3>1 DEF NewFiles
  <2>3. OriginsIn((tmp \cup drafts) \cup N, nextLocal', slog, Elements(up) \cup Elements(orphans))
    BY <2>2, OriginsNew DEF OriginsTrue
  <2>4. (tmp \cup drafts) \cup N = tmp' \cup drafts' /\ UNCHANGED <<slog, up, orphans>>
    BY DEF Asks
  <2> QED
    BY <2>3, <2>4 DEF OriginsTrue
<1> QED
  BY <1>1, <1>2, <1>3, <1>4, <1>5 DEF SyncInv

-----------------------------------------------------------------------------
(* The callbacks.                                                          *)

(* A folder with counts that follow from its messages is a folder whose    *)
(* counts are right.                                                       *)
LEMMA RemEffect ==
  ASSUME NEW F \in Folders, CountedIn(F), NEW v
  PROVE  /\ rem_msg(F, v) \in Folders /\ CountedIn(rem_msg(F, v))
         /\ rem_msg(F, v).msgs = {o \in F.msgs : o.v # v}
         /\ rem_msg(F, v).read = {o \in F.read : o.v # v}
         /\ rem_msg(F, v).changed = (F.changed \/ \E o \in F.msgs : o.v = v)
<1> DEFINE found == {o \in F.msgs : o.v = v}
           G == rem_msg(F, v)
<1>1. /\ F.msgs \subseteq Objs /\ F.read \subseteq F.msgs /\ F.news = F.msgs \ F.read /\ F.changed \in BOOLEAN
      /\ IsFiniteSet(F.msgs) /\ F.nb_msgs = Cardinality(F.msgs) /\ F.nb_unread = Cardinality(F.msgs \ F.read)
  BY DEF Folders, CountedIn
<1>2. IsFiniteSet(found) /\ IsFiniteSet(F.msgs \ F.read) /\ IsFiniteSet(F.msgs \ found)
  BY <1>1, FS_Subset
<1>3. G = [F EXCEPT !.msgs = F.msgs \ found, !.read = F.read \ found, !.news = F.news \ found,
                    !.nb_msgs = F.nb_msgs - Cardinality(found),
                    !.nb_unread = F.nb_unread - Cardinality(found \ F.read),
                    !.changed = F.changed \/ found # {}]
  BY DEF rem_msg, find_msg_by_version, new_message_notif
<1>4. /\ G.msgs = F.msgs \ found /\ G.read = F.read \ found /\ G.news = F.news \ found
      /\ G.nb_msgs = F.nb_msgs - Cardinality(found) /\ G.nb_unread = F.nb_unread - Cardinality(found \ F.read)
      /\ G.changed = (F.changed \/ found # {})
  BY <1>3 DEF Folders
<1>5. Cardinality(F.msgs \ found) = Cardinality(F.msgs) - Cardinality(found)
  <2>1. F.msgs \cap found = found
    OBVIOUS
  <2>2. Cardinality(F.msgs \ found) = Cardinality(F.msgs) - Cardinality(F.msgs \cap found)
    BY <1>1, FS_Difference, Zenon
  <2> QED
    BY <2>1, <2>2, Zenon
<1>6. Cardinality((F.msgs \ F.read) \ found) = Cardinality(F.msgs \ F.read) - Cardinality(found \ F.read)
  <2>1. (F.msgs \ F.read) \cap found = found \ F.read
    BY <1>1
  <2> QED
    BY <1>2, <2>1, FS_Difference
<1>7. /\ Cardinality(found) \in Nat /\ Cardinality(found \ F.read) \in Nat
      /\ Cardinality(F.msgs) \in Nat /\ Cardinality(F.msgs \ F.read) \in Nat
  <2>1. IsFiniteSet(found \ F.read)
    BY <1>2, FS_Subset
  <2> QED
    BY <1>1, <1>2, <2>1, FS_CardinalityType
<1>8. (F.msgs \ found) \ (F.read \ found) = (F.msgs \ F.read) \ found
  OBVIOUS
<1> HIDE DEF G
<1>9. G \in Folders
  <2>1. /\ F.msgs \ found \in SUBSET Objs /\ F.read \ found \in SUBSET Objs /\ F.news \ found \in SUBSET Objs
        /\ F.nb_msgs - Cardinality(found) \in Int /\ F.nb_unread - Cardinality(found \ F.read) \in Int
        /\ (F.changed \/ found # {}) \in BOOLEAN
    BY <1>1, <1>7
  <2> HIDE DEF found
  <2> QED
    BY <1>3, <2>1 DEF Folders
<1>10. CountedIn(G)
  <2>1. G.nb_msgs = Cardinality(G.msgs) /\ G.nb_unread = Cardinality(G.msgs \ G.read)
    BY <1>1, <1>4, <1>5, <1>6, <1>8
  <2>2. G.read \subseteq G.msgs /\ IsFiniteSet(G.msgs) /\ G.news = G.msgs \ G.read
    BY <1>1, <1>2, <1>4
  <2> QED
    BY <2>1, <2>2 DEF CountedIn
<1>11. /\ G.msgs = {o \in F.msgs : o.v # v} /\ G.read = {o \in F.read : o.v # v}
       /\ G.changed = (F.changed \/ \E o \in F.msgs : o.v = v)
  BY <1>1, <1>4
<1> QED
  BY <1>9, <1>10, <1>11 DEF G

(* A mark moves its target to the messages that were read.                 *)
LEMMA MarkEffect ==
  ASSUME NEW F \in Folders, CountedIn(F), NEW v
  PROVE  /\ Mark(F, v) \in Folders /\ CountedIn(Mark(F, v))
         /\ Mark(F, v).msgs = F.msgs
         /\ Mark(F, v).read = F.read \cup {o \in F.msgs : o.v = v}
         /\ Mark(F, v).changed
<1> DEFINE found == {o \in F.msgs : o.v = v} \ F.read
           G == Mark(F, v)
<1>1. /\ F.msgs \subseteq Objs /\ F.read \subseteq F.msgs /\ F.news = F.msgs \ F.read
      /\ IsFiniteSet(F.msgs) /\ F.nb_msgs = Cardinality(F.msgs) /\ F.nb_unread = Cardinality(F.msgs \ F.read)
      /\ F.nb_msgs \in Int
  BY DEF Folders, CountedIn
<1>2. IsFiniteSet(found) /\ IsFiniteSet(F.msgs \ F.read)
  BY <1>1, FS_Subset
<1>3. G = [F EXCEPT !.read = F.read \cup found, !.news = F.news \ found,
                    !.nb_unread = F.nb_unread - Cardinality(found), !.changed = TRUE]
  BY DEF Mark, find_msg_by_version, new_message_notif
<1>4. /\ G.msgs = F.msgs /\ G.read = F.read \cup found /\ G.news = F.news \ found
      /\ G.nb_msgs = F.nb_msgs /\ G.nb_unread = F.nb_unread - Cardinality(found) /\ G.changed
  BY <1>3 DEF Folders
<1>5. Cardinality((F.msgs \ F.read) \ found) = Cardinality(F.msgs \ F.read) - Cardinality(found)
  <2>1. (F.msgs \ F.read) \cap found = found
    OBVIOUS
  <2> QED
    BY <1>2, <2>1, FS_Difference
<1>6. Cardinality(found) \in Nat /\ Cardinality(F.msgs \ F.read) \in Nat
  BY <1>2, FS_CardinalityType
<1>7. F.msgs \ (F.read \cup found) = (F.msgs \ F.read) \ found
  OBVIOUS
<1> HIDE DEF G
<1>8. G \in Folders
  <2>1. /\ F.read \cup found \in SUBSET Objs /\ F.news \ found \in SUBSET Objs
        /\ F.nb_unread - Cardinality(found) \in Int
    BY <1>1, <1>6
  <2> HIDE DEF found
  <2> QED
    BY <1>3, <2>1 DEF Folders
<1>9. CountedIn(G)
  <2>1. G.nb_msgs = Cardinality(G.msgs) /\ G.nb_unread = Cardinality(G.msgs \ G.read)
    BY <1>1, <1>4, <1>5, <1>7
  <2>2. G.read \subseteq G.msgs /\ IsFiniteSet(G.msgs) /\ G.news = G.msgs \ G.read
    BY <1>1, <1>4
  <2> QED
    BY <2>1, <2>2 DEF CountedIn
<1>10. G.msgs = F.msgs /\ G.read = F.read \cup {o \in F.msgs : o.v = v}
  BY <1>1, <1>4
<1> QED
  BY <1>4, <1>8, <1>9, <1>10 DEF G

(* A new message is counted, and among the news unless it was read.        *)
LEMMA NewEffect ==
  ASSUME NEW F \in Folders, CountedIn(F), NEW v \in Int, NEW org, gen \in Nat, \A o \in F.msgs : o.v # v
  PROVE  /\ NewMsg(F, v, org) \in Folders /\ CountedIn(NewMsg(F, v, org))
         /\ NewMsg(F, v, org).msgs = F.msgs \cup {[v |-> v, gen |-> gen]}
         /\ NewMsg(F, v, org).read = F.read \cup (IF was_read(org) THEN {[v |-> v, gen |-> gen]} ELSE {})
         /\ NewMsg(F, v, org).changed
<1> DEFINE x == [v |-> v, gen |-> gen]
           read == IF was_read(org) THEN {x} ELSE {}
           G == NewMsg(F, v, org)
<1>1. /\ F.msgs \subseteq Objs /\ F.read \subseteq F.msgs /\ F.news = F.msgs \ F.read
      /\ IsFiniteSet(F.msgs) /\ F.nb_msgs = Cardinality(F.msgs) /\ F.nb_unread = Cardinality(F.msgs \ F.read)
      /\ F.nb_msgs \in Int /\ F.nb_unread \in Int
  BY DEF Folders, CountedIn
<1>2. x \in Objs /\ x.v = v
  BY DEF Objs
<1>3. G = [F EXCEPT !.msgs = F.msgs \cup {x}, !.read = F.read \cup read,
                    !.news = F.news \cup ({x} \ read), !.nb_msgs = F.nb_msgs + 1,
                    !.nb_unread = F.nb_unread + 1 - Cardinality(read), !.changed = TRUE]
  BY DEF NewMsg, new_message_notif
<1> HIDE DEF x
<1>4. /\ G.msgs = F.msgs \cup {x} /\ G.read = F.read \cup read /\ G.news = F.news \cup ({x} \ read)
      /\ G.nb_msgs = F.nb_msgs + 1 /\ G.nb_unread = F.nb_unread + 1 - Cardinality(read) /\ G.changed
  BY <1>3 DEF Folders
<1>5. x \notin F.msgs
  BY <1>2
<1>6. IsFiniteSet(F.msgs \cup {x}) /\ Cardinality(F.msgs \cup {x}) = Cardinality(F.msgs) + 1
  BY <1>1, <1>5, FS_AddElement
<1>7. IsFiniteSet(F.msgs \ F.read) /\ Cardinality(F.msgs \ F.read) \in Nat
  BY <1>1, FS_Subset, FS_CardinalityType
<1>8. /\ Cardinality((F.msgs \cup {x}) \ (F.read \cup read)) = Cardinality(F.msgs \ F.read) + 1 - Cardinality(read)
      /\ Cardinality(read) \in Nat
  <2>1. CASE was_read(org)
    <3>1. read = {x} /\ (F.msgs \cup {x}) \ (F.read \cup {x}) = F.msgs \ F.read
      BY <1>5, <2>1
    <3>2. Cardinality({x}) = 1
      BY FS_Singleton
    <3>3. /\ Cardinality((F.msgs \cup {x}) \ (F.read \cup read)) = Cardinality(F.msgs \ F.read)
          /\ Cardinality(read) = 1
      BY <3>1, <3>2, Zenon
    <3> QED
      BY <1>7, <3>3
  <2>2. CASE ~was_read(org)
    <3>1. read = {} /\ (F.msgs \cup {x}) \ (F.read \cup {}) = (F.msgs \ F.read) \cup {x}
      BY <1>1, <1>5, <2>2
    <3>2. Cardinality({}) = 0
      BY FS_EmptySet
    <3>3. Cardinality((F.msgs \ F.read) \cup {x}) = Cardinality(F.msgs \ F.read) + 1
      BY <1>5, <1>7, FS_AddElement
    <3>4. /\ Cardinality((F.msgs \cup {x}) \ (F.read \cup read)) = Cardinality(F.msgs \ F.read) + 1
          /\ Cardinality(read) = 0
      BY <3>1, <3>2, <3>3, Zenon
    <3> QED
      BY <1>7, <3>4
  <2> QED
    BY <2>1, <2>2
<1>9. read \subseteq {x}
  OBVIOUS
<1> HIDE DEF G, read
<1>10. G \in Folders
  <2>1. /\ F.msgs \cup {x} \in SUBSET Objs /\ F.read \cup read \in SUBSET Objs
        /\ F.news \cup ({x} \ read) \in SUBSET Objs
        /\ F.nb_msgs + 1 \in Int /\ F.nb_unread + 1 - Cardinality(read) \in Int
    BY <1>1, <1>2, <1>8, <1>9
  <2> QED
    BY <1>3, <2>1 DEF Folders
<1>11. CountedIn(G)
  <2>1. G.nb_msgs = Cardinality(G.msgs) /\ G.nb_unread = Cardinality(G.msgs \ G.read)
    BY <1>1, <1>4, <1>6, <1>8
  <2>2. G.read \subseteq G.msgs /\ IsFiniteSet(G.msgs)
    BY <1>1, <1>4, <1>6, <1>9
  <2>3. G.news = G.msgs \ G.read
    BY <1>1, <1>4, <1>5, <1>9
  <2> QED
    BY <2>1, <2>2, <2>3 DEF CountedIn
<1> QED
  BY <1>4, <1>10, <1>11 DEF G, x, read

-----------------------------------------------------------------------------
(* synch_list folds ListVersion over the versions behind the cursor.       *)

(* A set with 0 and the successor of each of its numbers has all numbers.  *)
LEMMA AllNumbers ==
  ASSUME NEW S, 0 \in S, \A n \in Nat : n \in S => n + 1 \in S PROVE \A n \in Nat : n \in S
<1> DEFINE T == {n \in Nat : n \notin S}
<1> SUFFICES ASSUME T # {} PROVE FALSE
  OBVIOUS
<1>1. PICK x \in T : \A y \in T : x <= y
  BY LeastNumber
<1>2. x # 0 /\ x \in Nat /\ x - 1 \in Nat
  OBVIOUS
<1>3. x - 1 \in S
  BY <1>1, <1>2
<1> QED
  BY <1>2, <1>3

(* A table that gives, for a set of positions of q, what ListVersion makes *)
(* of the versions there in their order.                                   *)
IsFold(it, base, q, m) ==
  it = [s \in SUBSET (1 .. m) |-> IF s = {} THEN base ELSE ListVersion(it[s \ {Max(s)}], q[Max(s)])]

LEMMA LastOf ==
  ASSUME NEW m \in Nat, NEW s \in SUBSET (1 .. m + 1), m + 1 \in s PROVE Max(s) = m + 1
<1>1. \A x \in s : x \in Nat /\ x <= m + 1
  OBVIOUS
<1>2. \A x \in s : (\A y \in s : x >= y) <=> x = m + 1
  BY <1>1
<1>3. \E x \in s : \A y \in s : x >= y
  BY <1>2
<1>4. Max(s) \in s /\ \A y \in s : Max(s) >= y
  BY <1>3 DEF Max
<1> QED
  BY <1>2, <1>4

(* Such a table exists for every number of positions.                      *)
LEMMA FoldLonger ==
  ASSUME NEW base, NEW q, NEW m \in Nat, NEW it, IsFold(it, base, q, m)
  PROVE  \E jt : IsFold(jt, base, q, m + 1)
<1> DEFINE jt == [s \in SUBSET (1 .. m + 1) |->
                    IF m + 1 \in s THEN ListVersion(it[s \ {m + 1}], q[m + 1]) ELSE it[s]]
           R(s) == IF s = {} THEN base ELSE ListVersion(jt[s \ {Max(s)}], q[Max(s)])
<1>1. \A s \in SUBSET (1 .. m) : s \in SUBSET (1 .. m + 1) /\ m + 1 \notin s
  OBVIOUS
<1>2. \A s \in SUBSET (1 .. m) : jt[s] = it[s]
  BY <1>1
<1>3. \A s \in SUBSET (1 .. m) : it[s] = IF s = {} THEN base ELSE ListVersion(it[s \ {Max(s)}], q[Max(s)])
  BY DEF IsFold
<1>4. jt = [s \in SUBSET (1 .. m + 1) |-> jt[s]]
  OBVIOUS
<1>5. ASSUME NEW s \in SUBSET (1 .. m + 1), m + 1 \in s PROVE jt[s] = ListVersion(it[s \ {m + 1}], q[m + 1])
  BY <1>5
<1> HIDE DEF jt
<1>6. ASSUME NEW s \in SUBSET (1 .. m + 1) PROVE jt[s] = R(s)
  <2>1. CASE m + 1 \in s
    <3>1. s # {} /\ Max(s) = m + 1 /\ s \ {m + 1} \in SUBSET (1 .. m)
      BY <2>1, LastOf
    <3> QED
      BY <1>2, <1>5, <2>1, <3>1
  <2>2. CASE m + 1 \notin s
    <3>1. \A x \in s : x \in 1 .. m + 1 /\ x # m + 1
      BY <2>2
    <3>2. \A x \in 1 .. m + 1 : x # m + 1 => x \in 1 .. m
      OBVIOUS
    <3>3. s \in SUBSET (1 .. m)
      BY <3>1, <3>2
    <3>4. s \ {Max(s)} \in SUBSET (1 .. m)
      BY <3>3
    <3> QED
      BY <1>2, <1>3, <3>3, <3>4
  <2> QED
    BY <2>1, <2>2
<1>7. jt = [s \in SUBSET (1 .. m + 1) |-> R(s)]
  BY <1>4, <1>6, Zenon
<1> QED
  BY <1>7 DEF IsFold

LEMMA FoldExists ==
  ASSUME NEW base, NEW q, NEW m \in Nat PROVE \E it : IsFold(it, base, q, m)
<1> DEFINE S == {k \in Nat : \E it : IsFold(it, base, q, k)}
<1>1. 0 \in S
  <2>1. IsFold([s \in SUBSET (1 .. 0) |-> base], base, q, 0)
    <3>1. \A s \in SUBSET (1 .. 0) : s = {}
      OBVIOUS
    <3> QED
      BY <3>1 DEF IsFold
  <2> QED
    BY <2>1
<1>2. \A k \in Nat : k \in S => k + 1 \in S
  BY FoldLonger
<1> HIDE DEF S
<1>3. m \in S
  BY <1>1, <1>2, AllNumbers
<1> QED
  BY <1>3 DEF S

(* FoldLeft is the entry of such a table for all the positions.            *)
LEMMA FoldValue ==
  ASSUME NEW base, NEW q \in Seq(Nat)
  PROVE  \E it : IsFold(it, base, q, Len(q)) /\ FoldLeft(ListVersion, base, q) = it[1 .. Len(q)]
<1> DEFINE it == CHOOSE it : it = [s \in SUBSET (1 .. Len(q)) |->
                                     IF s = {} THEN base ELSE ListVersion(it[s \ {Max(s)}], q[Max(s)])]
<1>1. IsFold(it, base, q, Len(q))
  <2>1. Len(q) \in Nat
    OBVIOUS
  <2>2. \E jt : IsFold(jt, base, q, Len(q))
    BY <2>1, FoldExists
  <2> QED
    BY <2>2, Zenon DEF IsFold
<1>2. DOMAIN q = 1 .. Len(q)
  OBVIOUS
<1>3. FoldLeft(ListVersion, base, q) = it[1 .. Len(q)]
  BY <1>2 DEF FoldLeft, MapThenFoldSet
<1> QED
  BY <1>1, <1>3

(* What is true of the list after each version is true of it at the end:   *)
(* K[k] are the lists that may result from k versions.                     *)
LEMMA FoldInto ==
  ASSUME NEW base, NEW q \in Seq(Nat), NEW K, base \in K[0],
         \A k \in Nat : k < Len(q) => \A F \in K[k] : ListVersion(F, q[k + 1]) \in K[k + 1]
  PROVE  FoldLeft(ListVersion, base, q) \in K[Len(q)]
<1>1. PICK it : IsFold(it, base, q, Len(q)) /\ FoldLeft(ListVersion, base, q) = it[1 .. Len(q)]
  BY FoldValue
<1> DEFINE S == {k \in Nat : k <= Len(q) => it[1 .. k] \in K[k]}
<1>2. Len(q) \in Nat
  OBVIOUS
<1>3. \A s \in SUBSET (1 .. Len(q)) : it[s] = IF s = {} THEN base ELSE ListVersion(it[s \ {Max(s)}], q[Max(s)])
  BY <1>1 DEF IsFold
<1>4. 0 \in S
  <2>1. 1 .. 0 = {} /\ {} \in SUBSET (1 .. Len(q))
    OBVIOUS
  <2> QED
    BY <1>3, <2>1
<1>5. ASSUME NEW k \in Nat, k \in S PROVE k + 1 \in S
  <2> SUFFICES ASSUME k + 1 <= Len(q) PROVE it[1 .. k + 1] \in K[k + 1]
    OBVIOUS
  <2>1. it[1 .. k] \in K[k] /\ k < Len(q)
    BY <1>2, <1>5
  <2>2. 1 .. k + 1 \in SUBSET (1 .. Len(q)) /\ 1 .. k + 1 # {} /\ k + 1 \in 1 .. k + 1
    <3>1. \A x \in 1 .. k + 1 : x \in 1 .. Len(q)
      BY <1>2
    <3>2. k + 1 \in 1 .. k + 1
      OBVIOUS
    <3> QED
      BY <3>1, <3>2
  <2>3. Max(1 .. k + 1) = k + 1
    BY <2>2, LastOf
  <2>4. (1 .. k + 1) \ {k + 1} = 1 .. k
    OBVIOUS
  <2>5. it[1 .. k + 1] = ListVersion(it[(1 .. k + 1) \ {Max(1 .. k + 1)}], q[Max(1 .. k + 1)])
    BY <1>3, <2>2
  <2>6. it[1 .. k + 1] = ListVersion(it[1 .. k], q[k + 1])
    BY <2>3, <2>4, <2>5
  <2> QED
    BY <2>1, <2>6
<1>6. \A k \in Nat : k \in S => k + 1 \in S
  BY <1>5
<1> HIDE DEF S
<1>7. Len(q) \in S
  BY <1>2, <1>4, <1>6, AllNumbers
<1> QED
  BY <1>1, <1>2, <1>7 DEF S

-----------------------------------------------------------------------------
(* What a listing does to the list of messages.                            *)

(* Entries refer to earlier versions, so the mark of a message comes after *)
(* it.                                                                     *)
LEMMA RefsEarlier ==
  ASSUME OriginsTrue, Replica, clog \in Seq(LogEntry), NEW m \in 1 .. Len(clog), clog[m].tag # "%"
  PROVE  /\ clog[m].ref < m /\ clog[m].ref \in Int
         /\ m \in 1 .. Len(slog) /\ slog[m].ref = clog[m].ref /\ slog[m].tag \in {clog[m].tag, "%"}
<1>1. SameEntry(clog[m], slog[m]) /\ Len(clog) <= Len(slog) /\ slog \in Seq(LogEntry)
  BY DEF Replica, ReplicaIn, OriginsTrue, OriginsIn
<1>2. m \in 1 .. Len(slog)
  BY <1>1
<1>3. EntryOk(slog[m], m, tmp \cup drafts, nextLocal)
  BY <1>2 DEF OriginsTrue, OriginsIn
<1>4. clog[m] \in LogEntry
  OBVIOUS
<1> QED
  BY <1>1, <1>2, <1>3, <1>4 DEF SameEntry, EntryOk, LogEntry

(* The list H is G without some messages.                                  *)
Withdraws(G, H) ==
  /\ H \in Folders /\ CountedIn(H)
  /\ H.msgs \subseteq G.msgs /\ H.read = G.read \cap H.msgs
  /\ G.changed => H.changed
  /\ H.changed \/ H.msgs = G.msgs

(* Which is what rem_msg makes of it.                                      *)
LEMMA RemWithdraws ==
  ASSUME NEW G \in Folders, CountedIn(G), NEW v PROVE Withdraws(G, rem_msg(G, v))
<1> DEFINE H == rem_msg(G, v)
<1>1. /\ H \in Folders /\ CountedIn(H) /\ H.msgs = {o \in G.msgs : o.v # v} /\ H.read = {o \in G.read : o.v # v}
      /\ H.changed = (G.changed \/ \E o \in G.msgs : o.v = v)
  BY RemEffect
<1>2. G.read \subseteq G.msgs
  BY DEF CountedIn
<1> HIDE DEF H
<1>3. H.msgs \subseteq G.msgs /\ H.read = G.read \cap H.msgs
  BY <1>1, <1>2
<1>4. (G.changed => H.changed) /\ (H.changed \/ H.msgs = G.msgs)
  <2>1. (\A o \in G.msgs : o.v # v) => H.msgs = G.msgs
    BY <1>1
  <2> QED
    BY <1>1, <2>1, Zenon
<1> QED
  BY <1>1, <1>3, <1>4 DEF Withdraws, H

(* The list G may result from F when the versions after old up to len are  *)
(* listed.                                                                 *)
Lists(F, G, old, len) ==
  /\ G \in Folders /\ CountedIn(G)
  /\ \A o \in G.msgs : o \in F.msgs \/ (o.v \in old + 1 .. len /\ clog[o.v].tag # "%")
  /\ \A o \in G.read : o \in F.read \/ WasRead(o) \/ MarkedIn(o, {}, slog)
  /\ F.changed => G.changed
  /\ G.changed \/ G.msgs = F.msgs
  /\ MarksShown(G, len)

LEMMA WithdrawLists ==
  ASSUME NEW F, NEW G, NEW H, NEW old, NEW len, Lists(F, G, old, len), Withdraws(G, H)
  PROVE  Lists(F, H, old, len)
<1>1. MarksShown(H, len)
  BY DEF Lists, Withdraws, MarksShown
<1>2. H \in Folders /\ CountedIn(H) /\ (F.changed => H.changed) /\ (H.changed \/ H.msgs = F.msgs)
  BY DEF Lists, Withdraws
<1>3. \A o \in H.msgs : o \in F.msgs \/ (o.v \in old + 1 .. len /\ clog[o.v].tag # "%")
  BY DEF Lists, Withdraws
<1>4. \A o \in H.read : o \in F.read \/ WasRead(o) \/ MarkedIn(o, {}, slog)
  BY DEF Lists, Withdraws
<1> QED
  BY <1>1, <1>2, <1>3, <1>4 DEF Lists

(* A version that is no mark changes nothing about the marks.              *)
LEMMA NoMarkLists ==
  ASSUME NEW F, NEW G, NEW old \in Nat, NEW len \in Nat, Lists(F, G, old, len), Len(clog) \in Nat,
         clog[len + 1].tag # "+"
  PROVE  Lists(F, G, old, len + 1)
<1>1. MarksShown(G, len + 1)
  <2>1. \A m \in 1 .. Len(clog) : m <= len + 1 /\ clog[m].tag = "+" => m <= len
    OBVIOUS
  <2> QED
    BY <2>1 DEF Lists, MarksShown
<1>2. \A o \in G.msgs : o \in F.msgs \/ (o.v \in old + 1 .. len + 1 /\ clog[o.v].tag # "%")
  <2>1. \A x \in old + 1 .. len : x \in old + 1 .. len + 1
    OBVIOUS
  <2> QED
    BY <2>1 DEF Lists
<1> QED
  BY <1>1, <1>2 DEF Lists

(* A mark: its target is read from now on.                                 *)
LEMMA MarkLists ==
  ASSUME clog \in Seq(LogEntry), OriginsTrue, Replica,
         NEW F, NEW G, NEW old \in Nat, NEW len \in Nat, Lists(F, G, old, len), len < Len(clog),
         clog[len + 1].tag = "+"
  PROVE  Lists(F, Mark(G, clog[len + 1].ref), old, len + 1)
<1> DEFINE ref == clog[len + 1].ref
           H == Mark(G, ref)
<1>1. G \in Folders /\ CountedIn(G)
  BY DEF Lists
<1>2. /\ H \in Folders /\ CountedIn(H) /\ H.msgs = G.msgs /\ H.read = G.read \cup {o \in G.msgs : o.v = ref}
      /\ H.changed
  BY <1>1, MarkEffect
<1>3. len + 1 \in 1 .. Len(clog)
  OBVIOUS
<1>4. len + 1 \in 1 .. Len(slog) /\ slog[len + 1].ref = ref /\ slog[len + 1].tag # "-"
  BY <1>3, RefsEarlier
<1> HIDE DEF H
<1>5. ASSUME NEW o \in H.read PROVE o \in F.read \/ WasRead(o) \/ MarkedIn(o, {}, slog)
  <2>1. CASE o \in G.read
    BY <2>1 DEF Lists
  <2>2. CASE o.v = ref
    <3>1. MarkedIn(o, {}, slog)
      BY <1>4, <2>2 DEF MarkedIn
    <3> QED
      BY <3>1
  <2> QED
    BY <1>2, <1>5, <2>1, <2>2
<1>6. MarksShown(H, len + 1)
  <2> SUFFICES ASSUME NEW m \in 1 .. Len(clog), NEW o \in H.msgs, m <= len + 1, clog[m].tag = "+",
                      clog[m].ref # 0, clog[m].ref = o.v, o.v > 0
               PROVE  o \in H.read
    BY DEF MarksShown
  <2>1. CASE m = len + 1
    BY <1>2, <2>1
  <2>2. CASE m <= len
    <3>1. o \in G.read
      BY <1>2, <2>2 DEF Lists, MarksShown
    <3> QED
      BY <1>2, <3>1
  <2> QED
    BY <2>1, <2>2
<1>7. \A o \in H.msgs : o \in F.msgs \/ (o.v \in old + 1 .. len + 1 /\ clog[o.v].tag # "%")
  <2>1. \A x \in old + 1 .. len : x \in old + 1 .. len + 1
    OBVIOUS
  <2> QED
    BY <1>2, <2>1 DEF Lists
<1>8. Lists(F, H, old, len + 1)
  BY <1>2, <1>5, <1>6, <1>7 DEF Lists
<1> QED
  BY <1>8 DEF H

(* A new message: nothing has marked it yet.                               *)
LEMMA MessageLists ==
  ASSUME clog \in Seq(LogEntry), OriginsTrue, Replica, gen \in Nat,
         NEW F \in Folders, NEW G, NEW old \in Nat, NEW len \in Nat, old <= len, Lists(F, G, old, len), len < Len(clog),
         clog[len + 1].tag = "+", clog[len + 1].ref = 0, \A o \in F.msgs : o.v <= old
  PROVE  Lists(F, NewMsg(G, len + 1, clog[len + 1].org), old, len + 1)
<1> DEFINE org == clog[len + 1].org
           x == [v |-> len + 1, gen |-> gen]
           H == NewMsg(G, len + 1, org)
<1>1. G \in Folders /\ CountedIn(G)
  BY DEF Lists
<1>2. \A o \in F.msgs : o.v \in Int
  BY DEF Folders, Objs
<1>3. \A o \in G.msgs : o.v # len + 1
  <2>1. \A o \in G.msgs : o \in F.msgs \/ o.v \in old + 1 .. len
    BY DEF Lists
  <2>2. \A o \in F.msgs : o.v <= old /\ o.v \in Int
    BY <1>2
  <2> QED
    BY <2>1, <2>2
<1>4. /\ H \in Folders /\ CountedIn(H) /\ H.msgs = G.msgs \cup {x}
      /\ H.read = G.read \cup (IF was_read(org) THEN {x} ELSE {}) /\ H.changed
  BY <1>1, <1>3, NewEffect
<1>5. len + 1 \in 1 .. Len(clog) /\ x.v = len + 1
  OBVIOUS
<1> HIDE DEF H, x
<1>6. ASSUME NEW o \in H.read PROVE o \in F.read \/ WasRead(o) \/ MarkedIn(o, {}, slog)
  <2>1. CASE o \in G.read
    BY <2>1 DEF Lists
  <2>2. CASE o = x /\ was_read(org)
    <3>1. WasRead(o)
      BY <1>5, <2>2 DEF WasRead
    <3> QED
      BY <3>1
  <2> QED
    BY <1>4, <1>6, <2>1, <2>2
<1>7. MarksShown(H, len + 1)
  <2> SUFFICES ASSUME NEW m \in 1 .. Len(clog), NEW o \in H.msgs, m <= len + 1, clog[m].tag = "+",
                      clog[m].ref # 0, clog[m].ref = o.v, o.v > 0
               PROVE  o \in H.read
    BY DEF MarksShown
  <2>1. clog[m].ref < m
    BY RefsEarlier
  <2>2. o # x
    BY <1>5, <2>1
  <2>3. o \in G.msgs
    BY <1>4, <2>2
  <2>4. CASE m <= len
    <3>1. o \in G.read
      BY <2>3, <2>4 DEF Lists, MarksShown
    <3> QED
      BY <1>4, <3>1
  <2>5. CASE m = len + 1
    BY <2>5
  <2> QED
    BY <2>4, <2>5
<1>8. \A o \in H.msgs : o \in F.msgs \/ (o.v \in old + 1 .. len + 1 /\ clog[o.v].tag # "%")
  <2>1. \A y \in old + 1 .. len : y \in old + 1 .. len + 1
    OBVIOUS
  <2>2. x.v \in old + 1 .. len + 1 /\ clog[x.v].tag # "%"
    BY <1>5
  <2> QED
    BY <1>4, <2>1, <2>2 DEF Lists
<1>9. Lists(F, H, old, len + 1)
  BY <1>4, <1>6, <1>7, <1>8 DEF Lists
<1> QED
  BY <1>9 DEF H

(* A version is listed.                                                    *)
LEMMA VersionLists ==
  ASSUME clog \in Seq(LogEntry), OriginsTrue, Replica, gen \in Nat,
         NEW F \in Folders, NEW G, NEW old \in Nat, NEW len \in Nat, old <= len, Lists(F, G, old, len), len < Len(clog),
         \A o \in F.msgs : o.v <= old
  PROVE  Lists(F, ListVersion(G, len + 1), old, len + 1)
<1> DEFINE e == clog[len + 1]
           H == IF e.lid # 0 /\ e.lid <= cur.unsync THEN rem_msg(G, -e.lid) ELSE G
<1>1. ListVersion(G, len + 1) = IF e.tag = "%" THEN G ELSE IF e.tag = "-" THEN rem_msg(G, e.ref)
                                ELSE IF e.ref # 0 THEN Mark(H, e.ref) ELSE NewMsg(H, len + 1, e.org)
  BY DEF ListVersion, add_msg
<1>2. G \in Folders /\ CountedIn(G) /\ e \in LogEntry /\ Len(clog) \in Nat
  <2>1. len + 1 \in 1 .. Len(clog)
    OBVIOUS
  <2> QED
    BY <2>1 DEF Lists
<1>3. e.tag \in {"+", "-", "%"}
  BY <1>2 DEF LogEntry
<1>4. CASE e.tag = "%"
  <2>1. Lists(F, G, old, len + 1)
    BY <1>2, <1>4, NoMarkLists
  <2> QED
    BY <1>1, <1>4, <2>1
<1>5. CASE e.tag = "-"
  <2>1. Lists(F, rem_msg(G, e.ref), old, len)
    BY <1>2, RemWithdraws, WithdrawLists
  <2>2. Lists(F, rem_msg(G, e.ref), old, len + 1)
    BY <1>2, <1>5, <2>1, NoMarkLists
  <2> QED
    BY <1>1, <1>5, <2>2
<1>6. CASE e.tag = "+"
  <2>1. Lists(F, H, old, len)
    BY <1>2, RemWithdraws, WithdrawLists
  <2>2. ListVersion(G, len + 1) = IF e.ref # 0 THEN Mark(H, e.ref) ELSE NewMsg(H, len + 1, e.org)
    BY <1>1, <1>6
  <2> HIDE DEF H
  <2>3. CASE e.ref # 0
    <3>1. Lists(F, Mark(H, e.ref), old, len + 1)
      BY <1>6, <2>1, MarkLists
    <3> QED
      BY <2>2, <2>3, <3>1
  <2>4. CASE e.ref = 0
    <3>1. Lists(F, NewMsg(H, len + 1, e.org), old, len + 1)
      BY <1>6, <2>1, <2>4, MessageLists
    <3> QED
      BY <2>2, <2>4, <3>1
  <2> QED
    BY <2>3, <2>4
<1> QED
  BY <1>3, <1>4, <1>5, <1>6

(* The whole journal is listed.                                            *)
LEMMA JournalLists ==
  ASSUME clog \in Seq(LogEntry), OriginsTrue, Replica, FolderInv, MarksShown(folder, cur.sync), ListJournal
  PROVE  /\ Lists(folder, folder', cur.sync, Len(clog))
         /\ cur' \in [sync : Nat, unsync : Nat] /\ cur'.unsync = cur.unsync
         /\ cur.sync <= cur'.sync /\ cur'.sync <= Len(clog)
         /\ \A v \in cur.sync + 1 .. Len(clog) : clog[v].tag # "%" => v <= cur'.sync
<1> DEFINE later == [i \in 1 .. Len(clog) - cur.sync |-> cur.sync + i]
           new == {v \in cur.sync + 1 .. Len(clog) : clog[v].tag # "%"}
           K == [k \in Nat |-> {G \in Folders : Lists(folder, G, cur.sync, cur.sync + k)}]
<1>1. PICK sync \in Nat, len \in Nat : sync = cur.sync /\ len = Len(clog) /\ sync <= len
  BY DEF FolderInv, FolderTypes
<1>2. folder \in Folders /\ CountedIn(folder) /\ gen \in Nat /\ cur \in [sync : Nat, unsync : Nat]
  BY DEF FolderInv, FolderTypes
<1>3. \A o \in folder.msgs : o.v <= sync
  BY <1>1 DEF FolderInv, ListedIn
<1>4. later \in Seq(Nat) /\ Len(later) = len - sync /\ \A i \in 1 .. len - sync : later[i] = sync + i
  <2>1. later = [i \in 1 .. len - sync |-> sync + i] /\ len - sync \in Nat
    BY <1>1
  <2>2. \A i \in 1 .. len - sync : sync + i \in Nat
    OBVIOUS
  <2>3. PICK n \in Nat : n = len - sync
    BY <2>1
  <2>4. later \in [1 .. n -> Nat] /\ \A i \in 1 .. n : later[i] = sync + i
    BY <2>1, <2>2, <2>3
  <2> HIDE DEF later
  <2>5. later \in Seq(Nat)
    BY <2>4, SeqDef
  <2>6. Len(later) = n
    BY <2>4, <2>5, LenProperties
  <2> QED
    BY <2>3, <2>4, <2>5, <2>6
<1>5. folder' = FoldLeft(ListVersion, folder, later)
  BY DEF ListJournal
<1>6. folder \in K[0]
  <2>1. Lists(folder, folder, sync, sync)
    BY <1>1, <1>2 DEF Lists
  <2>2. sync + 0 = sync
    OBVIOUS
  <2> QED
    BY <1>1, <1>2, <2>1, <2>2
<1>7. ASSUME NEW k \in Nat, k < Len(later), NEW G \in K[k] PROVE ListVersion(G, later[k + 1]) \in K[k + 1]
  <2>1. Lists(folder, G, sync, sync + k)
    BY <1>1, <1>7
  <2> HIDE DEF later
  <2>2. later[k + 1] = (sync + k) + 1 /\ sync + k < Len(clog) /\ sync + k \in Nat /\ sync <= sync + k
    <3>1. k + 1 \in 1 .. len - sync
      BY <1>4, <1>7
    <3>2. later[k + 1] = sync + (k + 1)
      BY <1>4, <3>1
    <3> QED
      BY <1>1, <3>1, <3>2
  <2>3. Lists(folder, ListVersion(G, (sync + k) + 1), sync, (sync + k) + 1)
    BY <1>2, <1>3, <2>1, <2>2, VersionLists
  <2>4. (sync + k) + 1 = sync + (k + 1) /\ k + 1 \in Nat
    OBVIOUS
  <2>5. Lists(folder, ListVersion(G, later[k + 1]), sync, sync + (k + 1))
    BY <2>2, <2>3, <2>4
  <2>6. ListVersion(G, later[k + 1]) \in Folders
    BY <2>5 DEF Lists
  <2> QED
    BY <1>1, <2>4, <2>5, <2>6
<1> HIDE DEF later
<1>8. \A k \in Nat : k < Len(later) => \A G \in K[k] : ListVersion(G, later[k + 1]) \in K[k + 1]
  BY <1>7
<1> HIDE DEF K
<1>9. folder' \in K[Len(later)]
  BY <1>4, <1>5, <1>6, <1>8, FoldInto
<1>10. Lists(folder, folder', cur.sync, Len(clog))
  <2>1. len - sync \in Nat /\ sync + (len - sync) = len
    BY <1>1
  <2>2. folder' \in {G \in Folders : Lists(folder, G, cur.sync, cur.sync + (len - sync))}
    BY <1>4, <1>9, <2>1 DEF K
  <2> QED
    BY <1>1, <2>1, <2>2
<1>11. cur' = [cur EXCEPT !.sync = IF new = {} THEN cur.sync ELSE Max(new)]
  BY DEF ListJournal
<1>12. cur'.sync = (IF new = {} THEN sync ELSE Max(new)) /\ cur'.unsync = cur.unsync
  BY <1>1, <1>2, <1>11
<1>13. new # {} => Max(new) \in new /\ \A v \in new : v <= Max(new)
  <2> SUFFICES ASSUME new # {} PROVE Max(new) \in new /\ \A v \in new : v <= Max(new)
    OBVIOUS
  <2>1. new \subseteq 0 .. len
    BY <1>1
  <2>2. PICK x \in new : \A y \in new : y <= x
    BY <2>1, GreatestNumber
  <2>3. \A x1, y1 \in new : x1 >= y1 <=> y1 <= x1
    BY <2>1
  <2> HIDE DEF new
  <2>4. \E x1 \in new : \A y1 \in new : x1 >= y1
    BY <2>2, <2>3
  <2>5. Max(new) \in new /\ \A y1 \in new : Max(new) >= y1
    BY <2>4 DEF Max
  <2> QED
    BY <2>3, <2>5
<1>14. \A v \in new : v \in Nat /\ sync < v /\ v <= len
  BY <1>1
<1>15. cur'.sync \in Nat /\ sync <= cur'.sync /\ cur'.sync <= len /\ \A v \in new : v <= cur'.sync
  <2> HIDE DEF new
  <2>1. CASE new = {}
    BY <1>1, <1>12, <2>1
  <2>2. CASE new # {}
    BY <1>1, <1>12, <1>13, <1>14, <2>2
  <2> QED
    BY <2>1, <2>2
<1>16. cur' \in [sync : Nat, unsync : Nat]
  <2> HIDE DEF new
  <2>1. (IF new = {} THEN cur.sync ELSE Max(new)) \in Nat
    BY <1>1, <1>13, <1>14
  <2> QED
    BY <1>2, <1>11, <2>1
<1> QED
  BY <1>1, <1>10, <1>12, <1>15, <1>16

-----------------------------------------------------------------------------
(* The steps of the program.                                               *)

Displayed == FolderInv /\ RowsInv /\ RealInv /\ MarksShown(folder, cur.sync)

(* The list is the same, whether it is known to have changed or not.       *)
SameList(b) ==
  /\ folder' = [folder EXCEPT !.changed = b] /\ b \in BOOLEAN
  /\ left' = left /\ rows' \in {rows, folder.msgs, {}}
  /\ UNCHANGED <<cur, gen, prog, clog, slog>>
  /\ tmp \subseteq tmp' /\ written \subseteq written'

LEMMA SameListKeeps ==
  ASSUME FolderInv, MarksShown(folder, cur.sync), Len(clog) \in Nat, NEW b, SameList(b)
  PROVE  /\ FolderInv' /\ MarksShown(folder, cur.sync)'
         /\ folder'.msgs = folder.msgs /\ folder'.read = folder.read /\ folder'.changed = b
<1>1. /\ folder'.msgs = folder.msgs /\ folder'.read = folder.read /\ folder'.changed = b
      /\ folder'.nb_msgs = folder.nb_msgs /\ folder'.nb_unread = folder.nb_unread /\ folder'.news = folder.news
      /\ folder' \in Folders
  BY DEF SameList, FolderInv, FolderTypes, Folders
<1>2. CountedIn(folder')
  BY <1>1 DEF FolderInv, CountedIn
<1>3. ListedIn(folder', cur'.sync, cur'.unsync) /\ LeftNew'
  BY <1>1 DEF FolderInv, ListedIn, LeftNew, SameList
<1>4. rows' \subseteq Objs /\ \A o \in rows' : o.v <= Len(clog)
  <2>1. \A o \in folder.msgs : o \in Objs /\ o.v <= cur.sync
    BY DEF FolderInv, ListedIn, FolderTypes, Folders
  <2>2. \A o \in folder.msgs : o.v <= Len(clog)
    BY <2>1 DEF FolderInv, FolderTypes, Objs
  <2> QED
    BY <2>1, <2>2 DEF SameList, FolderInv, FolderTypes
<1>5. FolderTypes'
  BY <1>1, <1>4 DEF SameList, FolderInv, FolderTypes
<1>6. MarksShown(folder, cur.sync)'
  BY <1>1 DEF SameList, MarksShown
<1> QED
  BY <1>1, <1>2, <1>3, <1>5, <1>6 DEF FolderInv

(* Requests are added and nothing is refused: what was real still is.      *)
LEMMA RealStays ==
  ASSUME RealInv, ~Emptying, Refused' = Refused, UNCHANGED <<clog, slog>>, tmp \subseteq tmp', written \subseteq written',
         folder'.msgs \subseteq folder.msgs, folder'.read \subseteq folder.read
  PROVE  RealInv'
<1>1. ASSUME NEW o \in folder'.msgs PROVE Waits(o)'
  <2>1. Waits(o)
    BY <1>1 DEF RealInv
  <2> QED
    BY <2>1 DEF Waits, Kept
<1>2. ASSUME NEW o \in folder'.read PROVE (WasRead(o) \/ Refused # {} \/ MarkedIn(o, tmp, slog))'
  <2>1. WasRead(o) \/ Refused # {} \/ MarkedIn(o, tmp, slog)
    BY <1>2 DEF RealInv
  <2>2. WasRead(o) => WasRead(o)'
    BY DEF WasRead, was_read
  <2>3. MarkedIn(o, tmp, slog) => MarkedIn(o, tmp, slog)'
    BY DEF MarkedIn
  <2> QED
    BY <2>1, <2>2, <2>3
<1> QED
  BY <1>1, <1>2 DEF RealInv

(* Steps that do not change the list.                                      *)
QuietStep ==
  \/ mdirb_refresh \/ EndTransients \/ Notify \/ OpenView \/ CloseView \/ reset_day \/ display_event
  \/ EndOfDay \/ del_cb \/ Confirmed \/ Cancelled \/ edit_cb \/ (\E dated \in BOOLEAN : send_cb(dated))

LEMMA QuietEffect ==
  ASSUME folder \in Folders, QuietStep
  PROVE  /\ Refused' = Refused /\ ~Emptying
         /\ SameList(folder.changed) \/ (SameList(FALSE) /\ step = "idle" /\ UNCHANGED <<shown, rows>>)
<1>1. Refused' = Refused
  BY DEF QuietStep, mdirb_refresh, EndTransients, Notify, OpenView, CloseView, reset_month, reset_day, display_event,
     EndOfDay, del_cb, Confirmed, Cancelled, edit_cb, send_cb, Request, window, vars, files, memory, refusals, Refused
<1>2. folder = [folder EXCEPT !.changed = folder.changed] /\ folder.changed \in BOOLEAN
  BY DEF Folders
<1>3. CASE mdirb_refresh \/ Confirmed
  BY <1>1, <1>3 DEF mdirb_refresh, Confirmed, Request, window, vars, files, server, SameList, Emptying
<1>4. CASE \E dated \in BOOLEAN : send_cb(dated)
  BY <1>1, <1>4 DEF send_cb, server, SameList, Emptying
<1>5. CASE EndTransients \/ Notify \/ OpenView \/ CloseView
  BY <1>1, <1>2, <1>5 DEF EndTransients, Notify, OpenView, CloseView, reset_month, window, vars, files, server, SameList, Emptying
<1>6. CASE reset_day \/ display_event \/ EndOfDay \/ del_cb \/ Cancelled \/ edit_cb
  BY <1>1, <1>2, <1>6 DEF reset_day, display_event, EndOfDay, del_cb, Cancelled, edit_cb, Request, window, vars, files, server,
     SameList, Emptying
<1> QED
  BY <1>1, <1>3, <1>4, <1>5, <1>6 DEF QuietStep

(* The window is told when the list has changed, or the list has not.      *)
LEMMA QuietRows ==
  ASSUME folder \in Folders, RowsInv, QuietStep, folder'.msgs = folder.msgs,
         folder'.changed = folder.changed \/ (~folder'.changed /\ step = "idle" /\ UNCHANGED <<shown, rows>>)
  PROVE  RowsInv'
<1>1. CASE mdirb_refresh \/ Confirmed
  BY <1>1 DEF mdirb_refresh, Confirmed, window, RowsInv
<1>2. CASE \E dated \in BOOLEAN : send_cb(dated)
  BY <1>2 DEF send_cb, RowsInv
<1>3. CASE EndTransients \/ OpenView \/ CloseView
  BY <1>3 DEF EndTransients, OpenView, CloseView, reset_month, window, RowsInv
<1>4. CASE Notify
  BY <1>4 DEF Notify, reset_month, RowsInv
<1>5. CASE reset_day \/ display_event \/ EndOfDay
  BY <1>5 DEF reset_day, display_event, EndOfDay, window, RowsInv
<1>6. CASE del_cb \/ Cancelled \/ edit_cb
  BY <1>6 DEF del_cb, Cancelled, edit_cb, window, RowsInv
<1> QED
  BY <1>1, <1>2, <1>3, <1>4, <1>5, <1>6 DEF QuietStep

LEMMA QuietKeeps ==
  ASSUME Displayed, Len(clog) \in Nat, QuietStep PROVE Displayed'
<1>1. folder \in Folders
  BY DEF Displayed, FolderInv, FolderTypes
<1>2. PICK b : /\ SameList(b) /\ Refused' = Refused /\ ~Emptying
               /\ b = folder.changed \/ (~b /\ step = "idle" /\ UNCHANGED <<shown, rows>>)
  BY <1>1, QuietEffect
<1>3. /\ FolderInv' /\ MarksShown(folder, cur.sync)'
      /\ folder'.msgs = folder.msgs /\ folder'.read = folder.read /\ folder'.changed = b
  BY <1>2, SameListKeeps DEF Displayed
<1>4. RowsInv'
  BY <1>1, <1>2, <1>3, QuietRows DEF Displayed
<1>5. RealInv'
  BY <1>2, <1>3, RealStays DEF Displayed, SameList
<1> QED
  BY <1>3, <1>4, <1>5 DEF Displayed

(* After the report of a refusal the list is doubtful, until it is emptied. *)
LEMMA ErrorKeeps ==
  ASSUME Displayed, Len(clog) \in Nat, err_msg PROVE Displayed'
<1>1. SameList(TRUE) /\ step = "errors" /\ step' = "errors"
  BY DEF err_msg, SameList, window, server
<1>2. /\ FolderInv' /\ MarksShown(folder, cur.sync)' /\ folder'.changed = TRUE
  BY <1>1, SameListKeeps DEF Displayed
<1>3. RowsInv' /\ RealInv'
  BY <1>1, <1>2 DEF RowsInv, RealInv, Emptying
<1> QED
  BY <1>2, <1>3 DEF Displayed

(* An empty list holds no message that was refused.                        *)
LEMMA EmptyKeeps ==
  ASSUME Displayed, Len(clog) \in Nat, mdirb_del_all_msgs PROVE Displayed'
<1>1. folder \in Folders /\ gen \in Nat /\ folder.changed \in BOOLEAN
  BY DEF Displayed, FolderInv, FolderTypes, Folders
<1>2. /\ step = "errors" /\ step' = "synch"
      /\ UNCHANGED <<prog, left, shown, rows, written, clog, slog, tmp, Refused>>
  BY DEF mdirb_del_all_msgs, window, vars, files, memory, refusals, server, Refused
<1>3. CASE folder.changed
  <2>1. folder' = NoMsgs /\ cur' = [sync |-> 0, unsync |-> 0] /\ gen' = gen + 1
    BY <1>3 DEF mdirb_del_all_msgs
  <2>2. NoMsgs \in Folders /\ NoMsgs.msgs = {} /\ NoMsgs.read = {}
    BY DEF NoMsgs, Folders
  <2>3. CountedIn(NoMsgs)
    <3>1. Cardinality({}) = 0 /\ IsFiniteSet({}) /\ {} \ {} = {}
      BY FS_EmptySet
    <3> QED
      BY <3>1 DEF CountedIn, NoMsgs
  <2>4. FolderTypes'
    BY <1>1, <1>2, <2>1, <2>2 DEF Displayed, FolderInv, FolderTypes
  <2>5. ListedIn(folder, cur.sync, cur.unsync)' /\ LeftNew' /\ MarksShown(folder, cur.sync)'
    BY <1>2, <2>1, <2>2 DEF Displayed, FolderInv, ListedIn, LeftNew, MarksShown
  <2>6. RowsInv' /\ RealInv'
    BY <2>1, <2>2 DEF RowsInv, RealInv
  <2> QED
    BY <2>1, <2>3, <2>4, <2>5, <2>6 DEF Displayed, FolderInv
<1>4. CASE ~folder.changed
  <2>1. SameList(folder.changed) /\ ~Emptying /\ folder' = folder
    <3>1. folder = [folder EXCEPT !.changed = folder.changed]
      BY <1>1 DEF Folders
    <3>2. UNCHANGED <<folder, cur, gen>>
      BY <1>4 DEF mdirb_del_all_msgs
    <3> QED
      BY <1>1, <1>2, <1>4, <3>1, <3>2 DEF SameList, Emptying
  <2>2. FolderInv' /\ MarksShown(folder, cur.sync)'
    BY <2>1, SameListKeeps DEF Displayed
  <2>3. RowsInv'
    BY <1>2, <1>4, <2>1 DEF Displayed, RowsInv
  <2>4. RealInv'
    BY <1>2, <2>1, RealStays DEF Displayed
  <2> QED
    BY <2>2, <2>3, <2>4 DEF Displayed
<1> QED
  BY <1>3, <1>4

(* The versions behind the cursor are listed in one step: the messages     *)
(* that go or come are reported as a change.                               *)
LEMMA JournalKeeps ==
  ASSUME prog = "vadrouille", clog \in Seq(LogEntry), OriginsTrue, Replica, Displayed, ListJournal
  PROVE  Displayed'
<1>1. /\ Lists(folder, folder', cur.sync, Len(clog))
      /\ cur' \in [sync : Nat, unsync : Nat] /\ cur'.unsync = cur.unsync
      /\ cur.sync <= cur'.sync /\ cur'.sync <= Len(clog)
      /\ \A v \in cur.sync + 1 .. Len(clog) : clog[v].tag # "%" => v <= cur'.sync
  BY JournalLists DEF Displayed
<1>2. /\ step = "synch" /\ step' = "opendir"
      /\ UNCHANGED <<prog, left, gen, shown, rows, written, clog, slog, tmp, Refused>>
  BY DEF ListJournal, window, vars, files, memory, refusals, server, Refused
<1>3. FolderTypes /\ ListedIn(folder, cur.sync, cur.unsync) /\ LeftNew
  BY DEF Displayed, FolderInv
<1>4. PICK sync \in Nat, unsync \in Nat, len \in Nat : sync = cur.sync /\ unsync = cur.unsync /\ len = Len(clog)
  BY <1>3 DEF FolderTypes
<1>5. /\ folder' \in Folders /\ CountedIn(folder')
      /\ \A o \in folder'.msgs : o \in folder.msgs \/ (o.v \in sync + 1 .. len /\ clog[o.v].tag # "%")
      /\ \A o \in folder'.read : o \in folder.read \/ WasRead(o) \/ MarkedIn(o, {}, slog)
      /\ folder.changed => folder'.changed
      /\ folder'.changed \/ folder'.msgs = folder.msgs
      /\ MarksShown(folder', len)
  BY <1>1, <1>4 DEF Lists
<1>6. \A o \in folder'.msgs : o \in folder.msgs \/ (o.v > 0 /\ o.v <= cur'.sync /\ o.v \in Nat)
  BY <1>1, <1>4, <1>5
<1>7. \A o \in folder.msgs : o.v \in Int /\ o.v <= sync /\ -o.v <= unsync
  BY <1>3, <1>4 DEF FolderTypes, ListedIn, Folders, Objs
<1>8. ListedIn(folder, cur.sync, cur.unsync)'
  <2>1. ASSUME NEW o \in folder'.msgs PROVE o.v <= cur'.sync /\ -o.v <= cur'.unsync
    <3>1. PICK s2 \in Nat : s2 = cur'.sync /\ sync <= s2 /\ cur'.unsync = unsync
      BY <1>1, <1>4
    <3>2. CASE o \in folder.msgs
      BY <1>7, <3>1, <3>2
    <3>3. CASE o.v > 0 /\ o.v <= cur'.sync /\ o.v \in Nat
      BY <1>4, <3>1, <3>3
    <3> QED
      BY <1>6, <2>1, <3>2, <3>3
  <2> QED
    BY <2>1 DEF ListedIn
<1>9. LeftNew'
  <2>1. \A f \in left : f.id \in Nat /\ 1 <= f.id /\ \A o \in folder.msgs : o.v # -f.id
    BY <1>3 DEF FolderTypes, LeftNew, RequestFile
  <2>2. ASSUME NEW f \in left, NEW o \in folder'.msgs PROVE o.v # -f.id
    BY <1>6, <2>1, <2>2
  <2> QED
    BY <1>2, <1>3, <2>1, <2>2 DEF LeftNew
<1>10. FolderTypes'
  BY <1>1, <1>2, <1>3, <1>5 DEF FolderTypes
<1>11. RowsInv'
  BY <1>2, <1>5 DEF Displayed, RowsInv
<1>12. RealInv'
  <2>1. RealInv /\ ~Emptying
    BY <1>2 DEF Displayed, Emptying
  <2>2. ASSUME NEW o \in folder'.msgs PROVE Waits(o)'
    <3>1. CASE o \in folder.msgs
      BY <1>2, <2>1, <3>1 DEF RealInv, Waits
    <3>2. CASE o.v > 0 /\ o.v \in Nat
      BY <3>2 DEF Waits
    <3> QED
      BY <1>6, <2>2, <3>1, <3>2
  <2>3. ASSUME NEW o \in folder'.read PROVE (WasRead(o) \/ Refused # {} \/ MarkedIn(o, tmp, slog))'
    <3>1. MarkedIn(o, {}, slog) => MarkedIn(o, tmp, slog)
      BY DEF MarkedIn
    <3>2. WasRead(o) \/ Refused # {} \/ MarkedIn(o, tmp, slog)
      BY <1>5, <2>1, <2>3, <3>1 DEF RealInv
    <3> QED
      BY <1>2, <3>2 DEF WasRead, was_read, MarkedIn
  <2> QED
    BY <2>2, <2>3 DEF RealInv
<1>13. MarksShown(folder, cur.sync)'
  <2>1. \A m \in 1 .. len : m <= cur'.sync => m <= len
    OBVIOUS
  <2> QED
    BY <1>2, <1>4, <1>5, <2>1 DEF MarksShown
<1> QED
  BY <1>5, <1>8, <1>9, <1>10, <1>11, <1>12, <1>13 DEF Displayed, FolderInv

(* The files to be listed have numbers above those that were.              *)
LEMMA OpenKeeps ==
  ASSUME Len(clog) \in Nat, OriginsTrue, Displayed, OpenTransients PROVE Displayed'
<1>1. /\ step = "opendir" /\ step' = "transients" /\ left' = {f \in tmp : f.id > cur.unsync}
      /\ UNCHANGED <<prog, folder, cur, gen, shown, rows, written, clog, slog, tmp, Refused>>
  BY DEF OpenTransients, window, vars, files, memory, refusals, server, Refused
<1>2. /\ tmp \subseteq RequestFile /\ \A f \in tmp : 1 <= f.id /\ f.id \in Nat
      /\ \A f, g \in tmp : f.id = g.id => f = g
  BY DEF OriginsTrue, OriginsIn, FilesOk, RequestFile
<1>3. \A o \in folder.msgs : o.v \in Int /\ -o.v <= cur.unsync /\ cur.unsync \in Nat
  BY DEF Displayed, FolderInv, FolderTypes, ListedIn, Folders, Objs
<1>4. LeftNew'
  <2>1. ASSUME NEW f \in tmp, f.id > cur.unsync, NEW o \in folder.msgs PROVE o.v # -f.id
    BY <1>2, <1>3, <2>1
  <2> QED
    BY <1>1, <1>2, <2>1 DEF LeftNew
<1>5. FolderTypes' /\ CountedIn(folder)' /\ ListedIn(folder, cur.sync, cur.unsync)'
  BY <1>1, <1>2 DEF Displayed, FolderInv, FolderTypes, CountedIn, ListedIn
<1>6. RowsInv' /\ MarksShown(folder, cur.sync)'
  BY <1>1 DEF Displayed, RowsInv, MarksShown
<1>7. RealInv'
  <2>1. ~Emptying
    BY <1>1 DEF Emptying
  <2> QED
    BY <1>1, <2>1, RealStays DEF Displayed
<1> QED
  BY <1>4, <1>5, <1>6, <1>7 DEF Displayed, FolderInv

(* What a file of .tmp makes of the list: a message or a mark that waits.  *)
LEMMA TransientLists ==
  ASSUME NEW f \in left, f \in tmp, FolderTypes, CountedIn(folder), LeftNew,
         NEW G, G = IF f.tag = "-" THEN rem_msg(folder, f.ref) ELSE add_msg(folder, -f.id, f.ref, f.id)
  PROVE  /\ G \in Folders /\ CountedIn(G)
         /\ \A o \in G.msgs : o \in folder.msgs \/ o.v = -f.id
         /\ \A o \in G.read : o \in folder.read \/ was_read(-o.v) \/ MarkedIn(o, tmp, slog)
         /\ folder.changed => G.changed
         /\ G.changed \/ G.msgs = folder.msgs
         /\ \A o \in G.msgs : o \in folder.read => o \in G.read
<1>1. folder \in Folders /\ gen \in Nat /\ f \in RequestFile
  BY DEF FolderTypes
<1>2. f.id \in Nat /\ 1 <= f.id /\ f.tag \in {"+", "-"} /\ \A o \in folder.msgs : o.v # -f.id
  BY <1>1 DEF LeftNew, RequestFile
<1>3. CASE f.tag = "-"
  <2>1. G = rem_msg(folder, f.ref)
    BY <1>3
  <2>2. Withdraws(folder, G)
    BY <1>1, <2>1, RemWithdraws
  <2> QED
    BY <2>2 DEF Withdraws
<1>4. CASE f.tag # "-" /\ f.ref # 0
  <2>1. G = Mark(folder, f.ref) /\ f.tag = "+"
    BY <1>2, <1>4 DEF add_msg
  <2>2. /\ G \in Folders /\ CountedIn(G) /\ G.msgs = folder.msgs /\ G.changed
        /\ G.read = folder.read \cup {o \in folder.msgs : o.v = f.ref}
    BY <1>1, <2>1, MarkEffect
  <2>3. ASSUME NEW o \in G.read PROVE o \in folder.read \/ MarkedIn(o, tmp, slog)
    BY <2>1, <2>2, <2>3 DEF MarkedIn
  <2> QED
    BY <2>2, <2>3
<1>5. CASE f.tag # "-" /\ f.ref = 0
  <2> DEFINE x == [v |-> -f.id, gen |-> gen]
  <2>1. G = NewMsg(folder, -f.id, f.id) /\ -f.id \in Int
    BY <1>2, <1>5 DEF add_msg
  <2>2. /\ G \in Folders /\ CountedIn(G) /\ G.msgs = folder.msgs \cup {x} /\ G.changed
        /\ G.read = folder.read \cup (IF was_read(f.id) THEN {x} ELSE {})
    BY <1>1, <1>2, <2>1, NewEffect
  <2>3. x.v = -f.id /\ -(-f.id) = f.id
    BY <1>2
  <2> HIDE DEF x
  <2>4. ASSUME NEW o \in G.read PROVE o \in folder.read \/ was_read(-o.v)
    BY <2>2, <2>3, <2>4
  <2> QED
    BY <2>2, <2>3, <2>4
<1> QED
  BY <1>3, <1>4, <1>5

(* A file that is still there becomes a message that waits; one that is    *)
(* gone ends the listing.                                                  *)
LEMMA TransientKeeps ==
  ASSUME prog = "vadrouille", Len(clog) \in Nat, Displayed, NEW f \in left, ListTransient(f) PROVE Displayed'
<1>1. /\ step = "transients" /\ cur' = [cur EXCEPT !.unsync = IF f.id > @ THEN f.id ELSE @]
      /\ UNCHANGED <<prog, gen, shown, rows, written, clog, slog, tmp, Refused>>
      /\ \/ f \in tmp /\ left' = left \ {f} /\ step' = "transients"
         \/ f \notin tmp /\ left' = {} /\ step' = "notify" /\ folder' = folder
  BY DEF ListTransient, window, vars, files, memory, refusals, server, Refused
<1>2. FolderTypes /\ CountedIn(folder) /\ ListedIn(folder, cur.sync, cur.unsync) /\ LeftNew /\ RealInv /\ ~Emptying
  BY <1>1 DEF Displayed, FolderInv, Emptying
<1>3. /\ folder' \in Folders /\ CountedIn(folder')
      /\ \A o \in folder'.msgs : o \in folder.msgs \/ (f \in tmp /\ o.v = -f.id)
      /\ \A o \in folder'.read : o \in folder.read \/ was_read(-o.v) \/ MarkedIn(o, tmp, slog)
      /\ folder.changed => folder'.changed
      /\ folder'.changed \/ folder'.msgs = folder.msgs
      /\ \A o \in folder'.msgs : o \in folder.read => o \in folder'.read
  <2>1. CASE f \in tmp
    <3>1. folder' = IF f.tag = "-" THEN rem_msg(folder, f.ref) ELSE add_msg(folder, -f.id, f.ref, f.id)
      BY <2>1 DEF ListTransient
    <3>2. /\ folder' \in Folders /\ CountedIn(folder')
          /\ \A o \in folder'.msgs : o \in folder.msgs \/ o.v = -f.id
          /\ \A o \in folder'.read : o \in folder.read \/ was_read(-o.v) \/ MarkedIn(o, tmp, slog)
          /\ folder.changed => folder'.changed
          /\ folder'.changed \/ folder'.msgs = folder.msgs
          /\ \A o \in folder'.msgs : o \in folder.read => o \in folder'.read
      BY <1>2, <2>1, <3>1, TransientLists
    <3> QED
      BY <2>1, <3>2
  <2>2. CASE f \notin tmp
    BY <1>1, <1>2, <2>2 DEF FolderTypes
  <2> QED
    BY <2>1, <2>2
<1>4. PICK sync \in Nat, unsync \in Nat, id \in Nat :
        cur = [sync |-> sync, unsync |-> unsync] /\ id = f.id /\ 1 <= id
  BY <1>2 DEF FolderTypes, LeftNew, RequestFile
<1>5. PICK un2 \in Nat : cur' = [sync |-> sync, unsync |-> un2] /\ unsync <= un2 /\ id <= un2
  <2>1. cur' = [sync |-> sync, unsync |-> IF id > unsync THEN id ELSE unsync]
    BY <1>1, <1>4
  <2> QED
    BY <1>4, <2>1
<1>6. \A o \in folder.msgs : o.v \in Int /\ o.v <= sync /\ -o.v <= unsync
  BY <1>2, <1>4 DEF FolderTypes, ListedIn, Folders, Objs
<1>7. ListedIn(folder, cur.sync, cur.unsync)'
  <2>1. ASSUME NEW o \in folder'.msgs PROVE o.v <= sync /\ -o.v <= un2
    <3>1. CASE o \in folder.msgs
      BY <1>5, <1>6, <3>1
    <3>2. CASE o.v = -id
      BY <1>4, <1>5, <3>2
    <3> QED
      BY <1>3, <1>4, <2>1, <3>1, <3>2
  <2> QED
    BY <1>5, <2>1 DEF ListedIn
<1>8. LeftNew'
  <2>1. left' \subseteq left /\ (f \in tmp => f \notin left') /\ (f \notin tmp => left' = {})
    BY <1>1
  <2>2. \A g \in left : g.id \in Nat /\ 1 <= g.id /\ (g.id = f.id => g = f) /\ \A o \in folder.msgs : o.v # -g.id
    BY <1>2 DEF FolderTypes, LeftNew, RequestFile
  <2>3. ASSUME NEW g \in left', NEW o \in folder'.msgs PROVE o.v # -g.id
    <3>1. g \in left /\ g # f /\ g.id # id /\ g.id \in Nat
      BY <1>1, <1>4, <2>1, <2>2, <2>3
    <3>2. CASE o \in folder.msgs
      BY <2>2, <3>1, <3>2
    <3>3. CASE o.v = -id
      BY <3>1, <3>3
    <3> QED
      BY <1>3, <1>4, <2>3, <3>2, <3>3
  <2> QED
    BY <1>2, <2>1, <2>2, <2>3 DEF LeftNew
<1>9. FolderTypes'
  BY <1>1, <1>2, <1>3, <1>4, <1>5 DEF FolderTypes
<1>10. RowsInv'
  BY <1>1, <1>3 DEF Displayed, RowsInv
<1>11. RealInv'
  <2>1. ASSUME NEW o \in folder'.msgs PROVE Waits(o)'
    <3>1. CASE o \in folder.msgs
      BY <1>1, <1>2, <3>1 DEF RealInv, Waits
    <3>2. CASE f \in tmp /\ o.v = -id
      <4>1. -o.v = id
        BY <3>2
      <4> QED
        BY <1>1, <1>4, <3>2, <4>1 DEF Waits, Kept
    <3> QED
      BY <1>3, <1>4, <2>1, <3>1, <3>2
  <2>2. ASSUME NEW o \in folder'.read PROVE (WasRead(o) \/ Refused # {} \/ MarkedIn(o, tmp, slog))'
    <3>1. WasRead(o) \/ Refused # {} \/ MarkedIn(o, tmp, slog)
      BY <1>2, <1>3, <2>2 DEF RealInv, WasRead
    <3> QED
      BY <1>1, <3>1 DEF WasRead, was_read, MarkedIn
  <2> QED
    BY <2>1, <2>2 DEF RealInv
<1>12. MarksShown(folder, cur.sync)'
  <2> SUFFICES ASSUME NEW m \in 1 .. Len(clog), NEW o \in folder'.msgs, m <= sync, clog[m].tag = "+",
                      clog[m].ref # 0, clog[m].ref = o.v, o.v > 0
               PROVE  o \in folder'.read
    BY <1>1, <1>5 DEF MarksShown
  <2>1. o \in folder.msgs
    BY <1>3, <1>4
  <2>2. o \in folder.read
    BY <1>4, <2>1 DEF Displayed, MarksShown
  <2> QED
    BY <1>3, <2>2
<1> QED
  BY <1>3, <1>7, <1>8, <1>9, <1>10, <1>11, <1>12 DEF Displayed, FolderInv

LEMMA VadrouilleKeeps ==
  ASSUME prog = "vadrouille", TypeInv, Replica, OriginsTrue, Displayed, vadrouille PROVE Displayed'
<1>1. clog \in Seq(LogEntry) /\ Len(clog) \in Nat
  BY DEF TypeInv, FileTypes
<1>2. \/ QuietStep \/ err_msg \/ mdirb_del_all_msgs \/ ListJournal \/ OpenTransients
      \/ \E f \in left : ListTransient(f)
  BY DEF vadrouille, QuietStep
<1> QED
  BY <1>1, <1>2, QuietKeeps, ErrorKeeps, EmptyKeeps, JournalKeeps, OpenKeeps, TransientKeeps

-----------------------------------------------------------------------------
(* The steps of mdsyncc, mdsyncd, other hosts and other programs.          *)

(* The client's journal keeps its entries, but for those it blanks.        *)
LEMMA ClogKeeps ==
  ASSUME SyncInv, [Next]_vars
  PROVE  /\ Len(clog) \in Nat /\ Len(clog') \in Nat /\ Len(clog) <= Len(clog')
         /\ \A v \in 1 .. Len(clog) : /\ clog'[v].org = clog[v].org /\ clog'[v].ref = clog[v].ref
                                      /\ clog'[v].tag \in {clog[v].tag, "%"}
<1>1. CASE UNCHANGED clog
  BY <1>1 DEF SyncInv, TypeInv, FileTypes
<1>2. CASE ApplyOne
  <2> DEFINE p == patches[1]
             nb == p.new - p.old - 1
  <2>1. TypeInv /\ applying /\ CanApply
    BY <1>2 DEF SyncInv, ApplyOne
  <2>2. Len(patches) >= 1 /\ Head(patches) = p /\ CanPatch(clog \o Blanks(nb), p.e.tag, p.e.ref)
    BY <2>1, HeadApplies
  <2>3. clog' = mdir_patch(clog, p.e, nb)
    BY <1>2, <2>2 DEF ApplyOne
  <2>4. p.e \in LogEntry /\ nb \in Nat /\ clog \in Seq(LogEntry)
    <3>1. p \in Queued /\ p.old < p.new
      BY <2>1, <2>2 DEF TypeInv, MemoryTypes, Forward
    <3> QED
      BY <2>1, <3>1 DEF Queued, TypeInv, FileTypes
  <2> HIDE DEF p, nb
  <2>5. PICK len \in Nat, e \in LogEntry, n \in Nat : len = Len(clog) /\ e = p.e /\ n = nb
    BY <2>4
  <2> DEFINE new == mdir_patch(clog, e, n)
  <2>6. clog \in Seq(LogEntry) /\ len = Len(clog) /\ CanPatch(clog \o Blanks(n), e.tag, e.ref)
    BY <2>2, <2>4, <2>5
  <2>7. clog' = new
    BY <2>3, <2>5
  <2>8. /\ new \in Seq(LogEntry) /\ Len(new) = len + n + 1
        /\ \A v \in 1 .. len : new[v] = IF e.tag = "-" /\ v = e.ref THEN Blanked(clog[v]) ELSE clog[v]
    BY <2>6, PatchResult
  <2> HIDE DEF new
  <2>9. ASSUME NEW v \in 1 .. len
        PROVE  new[v].org = clog[v].org /\ new[v].ref = clog[v].ref /\ new[v].tag \in {clog[v].tag, "%"}
    <3>1. clog[v] \in LogEntry
      BY <2>4, <2>5
    <3> QED
      BY <2>8, <3>1, BlankedEntry
  <2> QED
    BY <2>5, <2>7, <2>8, <2>9
<1> QED
  BY <1>1, <1>2, ClogStep

(* A mark that waits is recorded, or refused, or waits.                    *)
LEMMA MarkedStep ==
  ASSUME TypeInv, AckedRecorded, OriginsTrue, [Next]_vars, NEW o, Refused # {} \/ MarkedIn(o, tmp, slog)
  PROVE  Refused' # {} \/ MarkedIn(o, tmp', slog')
<1>1. ASSUME NEW v \in 1 .. Len(slog), slog[v].tag # "-", slog[v].ref = o.v PROVE MarkedIn(o, tmp', slog')
  <2>1. Grows(slog, slog') /\ slog \in Seq(LogEntry)
    BY SlogGrows DEF TypeInv, ServerTypes
  <2>2. v \in 1 .. Len(slog') /\ slog'[v].tag # "-" /\ slog'[v].ref = o.v
    BY <1>1, <2>1 DEF Grows
  <2> QED
    BY <2>2 DEF MarkedIn
<1>2. CASE tmp \subseteq tmp' /\ ~finalize_putrem
  BY <1>1, <1>2, RefusedSame DEF MarkedIn
<1>3. CASE finalize_putrem
  <2>1. down[1].kw \in {"put", "rem"} /\ Len(down) >= 1
    BY <1>3, RefusedFinalize
  <2>2. /\ tmp' = {f \in tmp : f.id # down[1].id} /\ slog' = slog
        /\ Refused' = IF down[1].status = 200 THEN Refused ELSE Refused \cup {down[1].id}
    BY <1>3, RefusedFinalize
  <2>3. down[1].status = 200 => RecordedIn(slog, down[1].id)
    BY <2>1 DEF AckedRecorded, Acknowledges, TypeInv, NetTypes
  <2>4. ASSUME NEW f \in tmp, f.tag = "+", f.ref = o.v PROVE Refused' # {} \/ MarkedIn(o, tmp', slog')
    <3>1. CASE f.id # down[1].id
      BY <2>2, <2>4, <3>1 DEF MarkedIn
    <3>2. CASE f.id = down[1].id /\ down[1].status # 200
      BY <2>2, <3>2
    <3>3. CASE f.id = down[1].id /\ down[1].status = 200
      <4>1. PICK v \in 1 .. Len(slog) : slog[v].org = f.id
        BY <2>3, <3>3 DEF RecordedIn
      <4>2. EntryOk(slog[v], v, tmp \cup drafts, nextLocal)
        BY DEF OriginsTrue, OriginsIn
      <4>3. slog[v].ref = o.v /\ slog[v].tag # "-"
        BY <2>4, <4>1, <4>2 DEF EntryOk
      <4> QED
        BY <1>1, <4>3
    <3> QED
      BY <3>1, <3>2, <3>3
  <2>5. Refused # {} => Refused' # {}
    BY <2>2
  <2> QED
    BY <1>1, <2>4, <2>5 DEF MarkedIn
<1>4. tmp \subseteq tmp' \/ finalize_putrem
  BY DEF Next, Server, Client, Environment, vars, files, ServeQuery, SendAnswer, SendNextPatch, WriterSub,
     QuarantineEnds, WriterSend, finalize_sub, SaveError, SaveErrorFails, patch_service, ApplyOne, ApplyEnd,
     mdir_patch_request, CreateTransient, ForeignPatch, LinkBreaks, ClientRestarts, ServeOrphan, LoseOrphan
<1> QED
  BY <1>2, <1>3, <1>4

(* So none of them turns a list that is real into one that is not.         *)
LEMMA SyncKeeps ==
  ASSUME SyncInv, AckedRecorded, OriginsTrue, Displayed, [Next]_vars, UNCHANGED browser PROVE Displayed'
<1>1. UNCHANGED <<prog, step, folder, cur, left, gen, shown, rows, written>>
  BY DEF browser, window
<1>2. PICK len \in Nat, len2 \in Nat : len = Len(clog) /\ len2 = Len(clog') /\ len <= len2
  BY ClogKeeps
<1>3. \A v \in 1 .. len : /\ clog'[v].org = clog[v].org /\ clog'[v].ref = clog[v].ref
                          /\ clog'[v].tag \in {clog[v].tag, "%"}
  BY <1>2, ClogKeeps
<1>4. FolderTypes /\ cur.sync \in Nat /\ cur.sync <= len /\ \A o \in rows : o.v \in Int /\ o.v <= len
  BY <1>2 DEF Displayed, FolderInv, FolderTypes, Objs
<1>5. FolderTypes'
  <2>1. cur.sync <= len2 /\ \A o \in rows : o.v <= len2
    BY <1>2, <1>4
  <2> QED
    BY <1>1, <1>2, <1>4, <2>1 DEF FolderTypes
<1>6. CountedIn(folder)' /\ ListedIn(folder, cur.sync, cur.unsync)' /\ LeftNew' /\ RowsInv'
  BY <1>1 DEF Displayed, FolderInv, CountedIn, ListedIn, LeftNew, RowsInv
<1>7. RealInv'
  <2> SUFFICES ASSUME ~Emptying
               PROVE  /\ \A o \in folder.msgs : Waits(o)'
                      /\ \A o \in folder.read : (WasRead(o) \/ Refused # {} \/ MarkedIn(o, tmp, slog))'
    BY <1>1 DEF RealInv, Emptying
  <2>1. ASSUME NEW o \in folder.msgs PROVE Waits(o)'
    <3>1. Waits(o)
      BY DEF Displayed, RealInv
    <3>2. ASSUME NEW n, Kept(tmp, Refused, slog, n) PROVE Kept(tmp', Refused', slog', n)
      BY <3>2, KeptStep DEF SyncInv
    <3> QED
      BY <3>1, <3>2 DEF Waits
  <2>2. ASSUME NEW o \in folder.read PROVE (WasRead(o) \/ Refused # {} \/ MarkedIn(o, tmp, slog))'
    <3>1. WasRead(o) \/ Refused # {} \/ MarkedIn(o, tmp, slog)
      BY DEF Displayed, RealInv
    <3>2. Refused # {} \/ MarkedIn(o, tmp, slog) => Refused' # {} \/ MarkedIn(o, tmp', slog')
      BY MarkedStep DEF SyncInv
    <3>3. o.v \in Int /\ o.v <= len
      <4>1. o \in folder.msgs /\ o \in Objs
        BY DEF Displayed, FolderInv, CountedIn, FolderTypes, Folders
      <4> QED
        BY <1>4, <4>1 DEF Displayed, FolderInv, ListedIn, Objs
    <3>4. WasRead(o) => WasRead(o)'
      <4>1. o.v > 0 => clog'[o.v].org = clog[o.v].org
        BY <1>3, <3>3
      <4> QED
        BY <1>1, <4>1 DEF WasRead, was_read
    <3> QED
      BY <3>1, <3>2, <3>4
  <2> QED
    BY <2>1, <2>2
<1>8. MarksShown(folder, cur.sync)'
  <2> SUFFICES ASSUME NEW m \in 1 .. len2, NEW o \in folder.msgs, m <= cur.sync, clog'[m].tag = "+",
                      clog'[m].ref # 0, clog'[m].ref = o.v, o.v > 0
               PROVE  o \in folder.read
    BY <1>1, <1>2 DEF MarksShown
  <2>1. m \in 1 .. len
    BY <1>4
  <2>2. clog[m].tag = "+" /\ clog[m].ref = clog'[m].ref
    BY <1>3, <2>1
  <2> QED
    BY <1>2, <2>1, <2>2 DEF Displayed, MarksShown
<1> QED
  BY <1>5, <1>6, <1>7, <1>8 DEF Displayed, FolderInv

(* When mdirc runs the folder of vadrouille is empty.                      *)
LEMMA ListingKeeps ==
  ASSUME OriginsTrue, Displayed, prog = "mdirc", mdirc_update, UNCHANGED browser
  PROVE  Displayed' /\ OriginsTrue'
<1>1. UNCHANGED <<prog, step, folder, cur, left, gen, shown, rows, written>>
  BY DEF browser, window
<1>2. UNCHANGED <<slog, orphans, clog, drafts, tmp, nextLocal, up>>
  BY ListingUnlinks DEF Unlinks
<1>3. folder.msgs = {} /\ folder.read = {}
  BY DEF Displayed, FolderInv, FolderTypes, CountedIn
<1>4. FolderInv'
  BY <1>1, <1>2 DEF Displayed, FolderInv, FolderTypes, CountedIn, ListedIn, LeftNew
<1>5. RowsInv' /\ RealInv' /\ MarksShown(folder, cur.sync)'
  BY <1>1, <1>3 DEF RowsInv, RealInv, MarksShown
<1>6. OriginsTrue'
  BY <1>2 DEF OriginsTrue
<1> QED
  BY <1>4, <1>5, <1>6 DEF Displayed

-----------------------------------------------------------------------------
(* The invariant of the program and the theorems.                          *)

LEMMA BrowserInvInit == BrowserInit => BrowserInv
<1> SUFFICES ASSUME BrowserInit PROVE BrowserInv
  OBVIOUS
<1>1. SyncInv /\ AckedRecorded
  BY ViewInvInit DEF BrowserInit, ViewInv
<1>2. /\ slog = <<>> /\ orphans = <<>> /\ clog = <<>> /\ drafts = {} /\ tmp = {} /\ nextLocal = 1 /\ up = <<>>
  BY DEF BrowserInit, ViewInit, Init
<1>3. OriginsTrue
  <2>1. Elements(up) \cup Elements(orphans) = {} /\ tmp \cup drafts = {}
    BY <1>2 DEF Elements
  <2>2. OriginsIn({}, 1, <<>>, {})
    BY MdSyncAssumption DEF OriginsIn, FilesOk
  <2> QED
    BY <1>2, <2>1, <2>2 DEF OriginsTrue
<1>4. /\ folder = NoMsgs /\ cur = [sync |-> 0, unsync |-> 0] /\ left = {} /\ gen = 0 /\ rows = {}
  BY DEF BrowserInit
<1>5. NoMsgs \in Folders /\ NoMsgs.msgs = {} /\ NoMsgs.read = {}
  BY DEF NoMsgs, Folders
<1>6. CountedIn(NoMsgs)
  <2>1. Cardinality({}) = 0 /\ IsFiniteSet({}) /\ {} \ {} = {}
    BY FS_EmptySet
  <2> QED
    BY <2>1 DEF CountedIn, NoMsgs
<1>7. FolderInv
  BY <1>2, <1>4, <1>5, <1>6 DEF FolderInv, FolderTypes, ListedIn, LeftNew
<1>8. RowsInv /\ RealInv /\ MarksShown(folder, cur.sync)
  BY <1>4, <1>5 DEF RowsInv, RealInv, MarksShown
<1> QED
  BY <1>1, <1>3, <1>7, <1>8 DEF BrowserInv

(* The program, the synchronisation and the listing of module MdView keep  *)
(* the invariant.                                                          *)
LEMMA BrowserInvStep ==
  ASSUME BrowserInv, [BrowserNext]_bvars PROVE BrowserInv'
<1>1. SyncInv /\ AckedRecorded /\ OriginsTrue /\ Displayed /\ TypeInv /\ Replica
  BY DEF BrowserInv, Displayed, SyncInv, Synced
<1>2. CASE prog = "vadrouille" /\ vadrouille
  <2>1. nextLocal \in 1 .. MaxLocal + 1 /\ clog \in Seq(LogEntry)
    BY <1>1 DEF OriginsTrue, OriginsIn, TypeInv, FileTypes
  <2>2. rows \subseteq Objs /\ \A o \in rows : o.v <= Len(clog)
    BY <1>1 DEF Displayed, FolderInv, FolderTypes
  <2>3. PICK N : Asks(N)
    BY <1>2, <2>1, <2>2, BrowserAsks
  <2>4. SyncInv' /\ AckedRecorded' /\ OriginsTrue'
    BY <1>1, <2>3, AsksKeeps
  <2>5. Displayed'
    BY <1>1, <1>2, VadrouilleKeeps
  <2> QED
    BY <2>4, <2>5 DEF BrowserInv, Displayed
<1>3. CASE prog = "mdirc" /\ mdirc_update /\ UNCHANGED browser
  <2>1. SyncInv' /\ AckedRecorded'
    BY <1>1, <1>3, ListingUnlinks, UnlinksKeeps
  <2>2. Displayed' /\ OriginsTrue'
    BY <1>1, <1>3, ListingKeeps
  <2> QED
    BY <2>1, <2>2 DEF BrowserInv, Displayed
<1>4. CASE [Next]_vars /\ UNCHANGED browser
  <2>1. SyncInv' /\ AckedRecorded'
    BY <1>1, <1>4, TypeStep, MatchingStep, SyncedStep, AckedStep DEF SyncInv
  <2>2. OriginsTrue'
    BY <1>1, <1>4, OriginsStep
  <2>3. Displayed'
    BY <1>1, <1>4, SyncKeeps
  <2> QED
    BY <2>1, <2>2, <2>3 DEF BrowserInv, Displayed
<1>5. \/ prog = "vadrouille" /\ vadrouille
      \/ prog = "mdirc" /\ mdirc_update /\ UNCHANGED browser
      \/ [Next]_vars /\ UNCHANGED browser
  BY DEF BrowserNext, bvars, vvars
<1> QED
  BY <1>2, <1>3, <1>4, <1>5

LEMMA BrowserInvariant == BrowserSpec => []BrowserInv
<1>1. BrowserInv /\ [BrowserNext]_bvars => BrowserInv'
  BY BrowserInvStep
<1> QED
  BY <1>1, BrowserInvInit, PTL DEF BrowserSpec

(* The numbers in the tree of folders and the panel of news follow the     *)
(* list of messages, whatever marks, versions that replace transients,     *)
(* removals and refusals mdirb_refresh meets.                              *)
THEOREM CountsAreRight == BrowserSpec => []CountsRight
<1>1. BrowserInv => CountsRight
  BY DEF BrowserInv, FolderInv, CountedIn, CountsRight
<1> QED
  BY <1>1, BrowserInvariant, PTL

(* Between two refreshes the window shows the messages of the list, none   *)
(* of them freed, unless the list is empty: every change of the list is    *)
(* reported before mdirb_refresh ends.                                     *)
THEOREM WindowsFollow == BrowserSpec => []RowsCurrent
<1>1. BrowserInv => RowsCurrent
  BY DEF BrowserInv, RowsInv, RowsCurrent
<1> QED
  BY <1>1, BrowserInvariant, PTL

(* Between two refreshes a message or a read mark that was refused is not  *)
(* shown, unless its refusal has yet to be reported, and the marks of the  *)
(* journal are: mdsyncc may move, record or refuse the requests, and blank *)
(* the versions, at any time.                                              *)
THEOREM ViewIsReal == BrowserSpec => []ReadIsReal
<1>1. BrowserInv => ReadIsReal
  <2> SUFFICES ASSUME BrowserInv, step = "idle" PROVE ReadIsReal
    BY DEF ReadIsReal
  <2>1. DOMAIN slog = 1 .. Len(slog) /\ DOMAIN clog = 1 .. Len(clog)
    BY DEF BrowserInv, SyncInv, TypeInv, ServerTypes, FileTypes
  <2>2. ~Emptying
    BY DEF Emptying
  <2>3. \A o \in folder.msgs : o.v < 0 => \/ \E f \in tmp : f.id = -o.v
                                          \/ -o.v \in Refused
                                          \/ \E v \in DOMAIN slog : slog[v].org = -o.v
    BY <2>1, <2>2 DEF BrowserInv, RealInv, Waits, Kept, RecordedIn
  <2>4. \A o \in folder.read : \/ (o.v > 0 /\ was_read(clog[o.v].org)) \/ was_read(-o.v)
                               \/ Refused # {}
                               \/ \E f \in tmp : f.tag = "+" /\ f.ref = o.v
                               \/ \E v \in DOMAIN slog : slog[v].tag # "-" /\ slog[v].ref = o.v
    BY <2>1, <2>2 DEF BrowserInv, RealInv, WasRead, MarkedIn
  <2>5. \A m \in Marks(clog), o \in folder.msgs :
          m <= cur.sync /\ clog[m].ref = o.v /\ o.v > 0 => o \in folder.read
    BY <2>1 DEF BrowserInv, MarksShown, Marks
  <2> QED
    BY <2>3, <2>4, <2>5 DEF ReadIsReal, Refused
<1> QED
  BY <1>1, BrowserInvariant, PTL
=============================================================================
