-------------------------------- MODULE Jnl ---------------------------------
(***************************************************************************)
(* The journals of one mdir: lib/jnl.c, and the part of lib/mdir.c that    *)
(* appends to them (mdir_patch) and reads them back (synch_list).          *)
(*                                                                         *)
(* A journal is two files: the log, to which patches are appended, and the *)
(* index, one entry per patch.  A byte offset is abstracted to the         *)
(* position of the record in the log, so the offset "end of file" is       *)
(* Len(log) + 1.                                                           *)
(*                                                                         *)
(* Two processes use the files.  The writer (mdsyncd, or mdsyncc on the    *)
(* client's host) is the only one to patch; its rwlock keeps its own       *)
(* threads out for the whole of mdir_patch, so inside the writer a patch   *)
(* is atomic, but every write(2) is visible to the other processes and can *)
(* be the last one before a crash.  The reader is any program that lists   *)
(* the mdir: it opens the files itself at each mdir_patch_list and takes   *)
(* no lock that the writer would honour.                                   *)
(***************************************************************************)
EXTENDS Naturals, Sequences

CONSTANTS
  MaxJnlSize,    \* SC_MDIR_MAX_JNL_SIZE
  Msgs,          \* bodies of ordinary messages
  WithMarks,     \* do plugins send mark patches?
  Readers,       \* is a reader process running?
  MaxVersion,    \* bound: versions in the mdir
  MaxBlanks,     \* bound: nb_deleted of one mdir_patch
  MaxFaults      \* bound: crashes and failed writes

ASSUME JnlAssumption ==
  /\ MaxJnlSize \in Nat \ {0}
  /\ Msgs \subseteq Nat
  /\ WithMarks \in BOOLEAN
  /\ Readers \in BOOLEAN
  /\ MaxVersion \in Nat
  /\ MaxBlanks \in Nat
  /\ MaxFaults \in Nat

VARIABLES
  jnls,     \* the journals in version order: struct jnl and its two files
  up,       \* is the writer process running with the mdir loaded?
  wr,       \* the writer's call of mdir_patch
  rd,       \* the reader's call of mdir_patch_list, and its cursor
  view,     \* versions the reader was given and was not told to forget
  hist,     \* what the writer was told was recorded: [version, patch]
  faults    \* crashes and failed writes so far

vars == <<jnls, up, wr, rd, view, hist, faults>>

Tags == {"+", "-", "%"}

Header == [type : {"msg", "mark", "del", "none"}, ref : Nat]

Record == [tag : Tags, type : {"msg", "mark", "del", "none"}, ref : Nat, full : BOOLEAN]

IndexEntry == [pos : Nat, mark : Nat]

Journal == [first : Nat, nb : Nat, idx : Seq(IndexEntry), log : Seq(Record)]

WriterPcs == {"idle", "bidx", "blog", "prep", "idx", "tag", "hdr", "mark"}

-----------------------------------------------------------------------------
(* Reading the files.                                                      *)

NewJnl(v) == [first |-> v, nb |-> 0, idx |-> <<>>, log |-> <<>>]

Last(js) == js[Len(js)]

mdir_last_version(js) == IF js = <<>> THEN 0 ELSE Last(js).first + Last(js).nb - 1

(* The number of the journal that holds version v, or 0.                   *)
find_jnl(v) ==
  LET holders == {i \in DOMAIN jnls : /\ jnls[i].first <= v
                                      /\ jnls[i].first + jnls[i].nb > v}
  IN  IF holders = {} THEN 0 ELSE CHOOSE i \in holders : \A k \in holders : i <= k

(* jnl_offset_size: where patch k of journal j starts, and where it ends   *)
(* for a process that believes the journal to hold nb patches.             *)
Offset(j, k) == j.idx[k].pos
EndOffset(j, nb, k) == IF k < nb THEN j.idx[k + 1].pos ELSE Len(j.log) + 1

(* The assertion of jnl_offset_size.                                       *)
AssertOffsets(j, nb, k) == EndOffset(j, nb, k) > Offset(j, k)

(* The record jnl_read decodes; it reports an error unless the record is   *)
(* full, and returns no header when the tag is "%".                        *)
jnl_read(j, k) == j.log[Offset(j, k)]

-----------------------------------------------------------------------------
(* The writer: mdir_patch, one action per write(2).                        *)

Idle == [pc |-> "idle", act |-> "+", hdr |-> [type |-> "none", ref |-> 0], blanks |-> 0]

At(pc) == up /\ wr.pc = pc

Goto(pc) == wr' = [wr EXCEPT !.pc = pc]

(* Mutant: the loop of insert_blank_patches tests its counter too late.    *)
mdir_patch_DoWhile(act, hdr, nb_deleted) ==
  /\ At("idle")
  /\ mdir_last_version(jnls) + nb_deleted < MaxVersion
  /\ wr' = [pc |-> "bidx", act |-> act, hdr |-> hdr, blanks |-> nb_deleted]
  /\ UNCHANGED <<jnls, up, rd, view, hist, faults>>

(* mdir_patch(mdir, act, hdr, nb_deleted) takes the rwlock.                *)
mdir_patch(act, hdr, nb_deleted) ==
  /\ At("idle")
  /\ mdir_last_version(jnls) + nb_deleted < MaxVersion
  /\ wr' = [pc |-> IF nb_deleted > 0 THEN "bidx" ELSE "prep",
            act |-> act, hdr |-> hdr, blanks |-> nb_deleted]
  /\ UNCHANGED <<jnls, up, rd, view, hist, faults>>

(* Mutant: the new journal starts one version too late.                    *)
last_jnl_Gap(js) ==
  IF js = <<>> THEN <<NewJnl(1)>>
  ELSE IF Last(js).nb >= MaxJnlSize
       THEN Append(js, NewJnl(Last(js).first + Last(js).nb + 1))
       ELSE js

(* The journal to append to: the last one, or a new one if it is too big.  *)
last_jnl(js) ==
  IF js = <<>> THEN <<NewJnl(1)>>
  ELSE IF Last(js).nb >= MaxJnlSize
       THEN Append(js, NewJnl(Last(js).first + Last(js).nb))
       ELSE js

(* The writes: an index entry, a log record, and the part of a record that *)
(* follows its tag.  Then nb_patches counts the patch.                     *)
AppendIdx(j, e) == [j EXCEPT !.idx = Append(@, e)]
AppendLog(j, r) == [j EXCEPT !.log = Append(@, r)]
Complete(j)     == [j EXCEPT !.log = [@ EXCEPT ![Len(@)].full = TRUE]]
Counted(j)      == [j EXCEPT !.nb = @ + 1]

(* Both jnl_patch and jnl_patch_blank write the index entry first.         *)
WriteIndex ==
  /\ At("bidx") \/ At("idx")
  /\ jnls' = LET js == last_jnl(jnls)
             IN  [js EXCEPT ![Len(js)] =
                    AppendIdx(@, [pos |-> Len(Last(js).log) + 1, mark |-> 0])]
  /\ Goto(IF wr.pc = "bidx" THEN "blog" ELSE "tag")
  /\ UNCHANGED <<up, rd, view, hist, faults>>

(* jnl_patch_blank: "%\n\n" goes out in one write.                         *)
WriteBlank ==
  /\ At("blog")
  /\ jnls' = [jnls EXCEPT ![Len(jnls)] =
                 Counted(AppendLog(@, [tag |-> "%", type |-> "none", ref |-> 0, full |-> TRUE]))]
  /\ wr' = [pc |-> IF wr.blanks > 1 THEN "bidx" ELSE "prep",
            act |-> wr.act, hdr |-> wr.hdr, blanks |-> wr.blanks - 1]
  /\ UNCHANGED <<up, rd, view, hist, faults>>

(* mdir_prepare_add: nothing to do here for what is not a directory.       *)
PrepareAdd ==
  /\ At("prep")
  /\ wr.act = "+"
  /\ Goto("idx")
  /\ UNCHANGED <<jnls, up, rd, view, hist, faults>>

(* Mutants: more than the tag is overwritten, or the tag with that of a    *)
(* removal.                                                                *)
jnl_mark_del_All(j, k)  == [j EXCEPT !.log = [@ EXCEPT ![Offset(j, k)] =
                              [tag |-> "%", type |-> "none", ref |-> 0, full |-> TRUE]]]
jnl_mark_del_Rem(j, k)  == [j EXCEPT !.log = [@ EXCEPT ![Offset(j, k)].tag = "-"]]

jnl_mark_del(j, k) == [j EXCEPT !.log = [@ EXCEPT ![Offset(j, k)].tag = "%"]]

(* mdir_prepare_rem, not transient: the target must exist and be an        *)
(* addition, whose tag jnl_mark_del then overwrites in place.  A target    *)
(* that is blank already is fine.  Any error abandons the patch (the       *)
(* blanks stay), and the assertion of jnl_offset_size kills the process.   *)
PrepareRem ==
  /\ At("prep")
  /\ wr.act = "-"
  /\ LET i == find_jnl(wr.hdr.ref)
         j == jnls[i]
         k == wr.hdr.ref - j.first + 1
         r == jnl_read(j, k)
     IN  \/ /\ i # 0 => AssertOffsets(j, j.nb, k) /\ (r.full => r.tag = "-")
            /\ wr' = Idle
            /\ UNCHANGED <<jnls, up>>
         \/ /\ i # 0
            /\ ~AssertOffsets(j, j.nb, k)
            /\ up' = FALSE
            /\ wr' = Idle
            /\ UNCHANGED jnls
         \/ /\ i # 0
            /\ AssertOffsets(j, j.nb, k)
            /\ r.full
            /\ r.tag # "-"
            /\ jnls' = [jnls EXCEPT ![i] = jnl_mark_del(@, k)]
            /\ Goto("idx")
            /\ UNCHANGED up
  /\ UNCHANGED <<rd, view, hist, faults>>

(* jnl_patch: the tag line...                                              *)
WriteTag ==
  /\ At("tag")
  /\ jnls' = [jnls EXCEPT ![Len(jnls)] =
                 AppendLog(@, [tag |-> wr.act, type |-> wr.hdr.type,
                               ref |-> wr.hdr.ref, full |-> FALSE])]
  /\ Goto("hdr")
  /\ UNCHANGED <<up, rd, view, hist, faults>>

(* ... then the header.  nb_patches counts the patch from here on, and its *)
(* version is what mdir_patch returns.                                     *)
WriteHeader ==
  /\ At("hdr")
  /\ jnls' = [jnls EXCEPT ![Len(jnls)] = Counted(Complete(@))]
  /\ hist' = hist \cup {[version |-> mdir_last_version(jnls) + 1,
                         tag |-> wr.act, type |-> wr.hdr.type, ref |-> wr.hdr.ref]}
  /\ IF wr.hdr.type = "mark" /\ wr.hdr.ref # 0 THEN Goto("mark") ELSE wr' = Idle
  /\ UNCHANGED <<up, rd, view, faults>>

(* jnl_replace_last_mark(j, k, mark).  idx_fd is open with O_APPEND, so    *)
(* the positioned write lands at the end of the index file.                *)
jnl_replace_last_mark(js, i, k, mark) ==
  [js EXCEPT ![i] = AppendIdx(@, [pos |-> js[i].idx[k].pos, mark |-> mark])]

(* The mark becomes the head of the list of marks of its target.  The two  *)
(* index writes are one step here.                                         *)
ReplaceMarks ==
  /\ At("mark")
  /\ LET i == find_jnl(wr.hdr.ref)
         k == wr.hdr.ref - jnls[i].first + 1
         n == Len(jnls)
         version == mdir_last_version(jnls)
     IN  jnls' = IF i = 0 THEN jnls
                 ELSE jnl_replace_last_mark(
                        jnl_replace_last_mark(jnls, i, k, version),
                        n, version - jnls[n].first + 1, jnls[i].idx[k].mark)
  /\ wr' = Idle
  /\ UNCHANGED <<up, rd, view, hist, faults>>

(* A write fails (the file system is full): the error unwinds to           *)
(* mdir_patch, which leaves on disk whatever was written before.           *)
WriteFails ==
  /\ up
  /\ \/ wr.pc \in {"bidx", "blog", "idx", "tag", "hdr", "mark"}
     \/ wr.pc = "prep" /\ wr.act = "-"
  /\ faults < MaxFaults
  /\ faults' = faults + 1
  /\ wr' = Idle
  /\ UNCHANGED <<jnls, up, rd, view, hist>>

(* The writer process dies in the middle of mdir_patch.                    *)
Crash ==
  /\ up /\ wr.pc # "idle"
  /\ faults < MaxFaults
  /\ faults' = faults + 1
  /\ up' = FALSE
  /\ wr' = Idle
  /\ UNCHANGED <<jnls, rd, view, hist>>

(* The writer process is stopped between two patches.                      *)
Stop ==
  /\ At("idle")
  /\ up' = FALSE
  /\ UNCHANGED <<jnls, wr, rd, view, hist, faults>>

(* Mutant: fetch_nb_patches forgets the last index entry.                  *)
Start_DropsLast ==
  /\ ~up
  /\ up' = TRUE
  /\ jnls' = [i \in DOMAIN jnls |->
                [jnls[i] EXCEPT !.nb = IF @ = 0 THEN 0 ELSE Len(jnls[i].idx) - 1]]
  /\ UNCHANGED <<wr, rd, view, hist, faults>>

(* mdir_reload: the number of patches is the size of the index file.  When *)
(* journals overlap jnl_ctor may refuse them, depending on the order in    *)
(* which readdir delivers them; then the mdir stays out of use.            *)
Start ==
  /\ ~up
  /\ up' = TRUE
  /\ jnls' = [i \in DOMAIN jnls |-> [jnls[i] EXCEPT !.nb = Len(jnls[i].idx)]]
  /\ UNCHANGED <<wr, rd, view, hist, faults>>

-----------------------------------------------------------------------------
(* The reader: mdir_patch_list of another process, restricted to the       *)
(* journals (synch_list).  rd.cur is cursor->last_listed_sync.             *)

(* Continue the listing with the first journal from number i on that       *)
(* reaches version from; there, skip a gap by starting at its first patch. *)
Seek(i, from, nbs) ==
  LET rest == {n \in i .. Len(nbs) : jnls[n].first + nbs[n] > from}
  IN  IF rest = {} THEN [rd EXCEPT !.pc = "idle"]
      ELSE LET n == CHOOSE m \in rest : \A o \in rest : m <= o
               start == IF from < jnls[n].first THEN jnls[n].first ELSE from
           IN  [rd EXCEPT !.pc = "list", !.nbs = nbs, !.from = start,
                          !.jnl = n, !.k = start - jnls[n].first + 1]

(* Mutant: the listing starts one version too far.                         *)
ListBegin_SkipsOne ==
  /\ Readers
  /\ rd.pc = "idle"
  /\ rd' = Seek(1, rd.cur + 2, [i \in DOMAIN jnls |-> Len(jnls[i].idx)])
  /\ UNCHANGED <<jnls, up, wr, view, hist, faults>>

(* mdir_reload: open the files and measure the indexes.                    *)
ListBegin ==
  /\ Readers
  /\ rd.pc = "idle"
  /\ rd' = Seek(1, rd.cur + 1, [i \in DOMAIN jnls |-> Len(jnls[i].idx)])
  /\ UNCHANGED <<jnls, up, wr, view, hist, faults>>

(* One turn of the loop of synch_list.  A deleted patch is skipped, a      *)
(* removal calls rem_cb, an addition put_cb; an unreadable record ends the *)
(* listing with an error, the assertion of jnl_offset_size ends the        *)
(* process.                                                                *)
ListOne ==
  /\ rd.pc = "list"
  /\ LET j == jnls[rd.jnl]
         nb == rd.nbs[rd.jnl]
         r == jnl_read(j, rd.k)
         version == j.first + rd.k - 1
         next == IF rd.k < nb THEN [rd EXCEPT !.k = @ + 1]
                              ELSE Seek(rd.jnl + 1, rd.from, rd.nbs)
     IN  \/ /\ ~AssertOffsets(j, nb, rd.k)
            /\ rd' = [rd EXCEPT !.pc = "aborted"]
            /\ UNCHANGED view
         \/ /\ AssertOffsets(j, nb, rd.k)
            /\ ~r.full
            /\ rd' = [rd EXCEPT !.pc = "idle"]
            /\ UNCHANGED view
         \/ /\ AssertOffsets(j, nb, rd.k)
            /\ r.full
            /\ r.tag = "%"
            /\ rd' = next
            /\ UNCHANGED view
         \/ /\ AssertOffsets(j, nb, rd.k)
            /\ r.full
            /\ r.tag # "%"
            /\ rd' = [next EXCEPT !.cur = version]
            /\ view' = IF r.tag = "-" THEN view \ {r.ref} ELSE view \cup {version}
  /\ UNCHANGED <<jnls, up, wr, hist, faults>>

ReaderInit == [pc |-> "idle", nbs |-> <<>>, jnl |-> 0, k |-> 0, from |-> 0, cur |-> 0]

(* The program that aborted is started again, with nothing listed.         *)
ReaderRestart ==
  /\ rd.pc = "aborted"
  /\ rd' = ReaderInit
  /\ view' = {}
  /\ UNCHANGED <<jnls, up, wr, hist, faults>>

-----------------------------------------------------------------------------

Init ==
  /\ jnls = <<>>
  /\ up = TRUE
  /\ wr = Idle
  /\ rd = ReaderInit
  /\ view = {}
  /\ hist = {}
  /\ faults = 0

(* The headers callers pass to mdir_patch: a mark names any version there  *)
(* is, a removal comes with whatever target its author wrote.              *)
Targets == 0 .. MaxVersion

Requests ==
  \/ \E m \in Msgs, n \in 0 .. MaxBlanks : mdir_patch("+", [type |-> "msg", ref |-> m], n)
  \/ \E t \in Targets, n \in 0 .. MaxBlanks : mdir_patch("-", [type |-> "del", ref |-> t], n)
  \/ \E t \in Targets : WithMarks /\ mdir_patch("+", [type |-> "mark", ref |-> t], 0)

Writer ==
  \/ Requests
  \/ WriteIndex \/ WriteBlank
  \/ PrepareAdd \/ PrepareRem
  \/ WriteTag \/ WriteHeader \/ ReplaceMarks
  \/ WriteFails \/ Crash \/ Stop \/ Start

Reader == ListBegin \/ ListOne \/ ReaderRestart

Next == Writer \/ Reader

Spec == Init /\ [][Next]_vars

-----------------------------------------------------------------------------
(* Properties.                                                             *)

(* Every variable stays within its type.                                   *)
TypeOK ==
  /\ jnls \in Seq(Journal)
  /\ up \in BOOLEAN
  /\ wr \in [pc : WriterPcs, act : {"+", "-"}, hdr : Header, blanks : Nat]
  /\ rd \in [pc : {"idle", "list", "aborted"}, nbs : Seq(Nat),
             jnl : Nat, k : Nat, from : Nat, cur : Nat]
  /\ view \subseteq Nat
  /\ hist \subseteq [version : Nat, tag : {"+", "-"},
                     type : {"msg", "mark", "del", "none"}, ref : Nat]
  /\ faults \in 0 .. MaxFaults

(* "Return that very patch" (mdir_read): every version that mdir_patch     *)
(* ever returned still leads, through journal list and index, to the patch *)
(* it was given for; at most its tag was overwritten.                      *)
ReadBack ==
  up => \A h \in hist :
          LET i == find_jnl(h.version)
              k == h.version - jnls[i].first + 1
          IN  /\ i # 0
              /\ AssertOffsets(jnls[i], jnls[i].nb, k)
              /\ LET r == jnl_read(jnls[i], k)
                 IN  /\ r.full
                     /\ r.type = h.type /\ r.ref = h.ref
                     /\ r.tag \in {h.tag, "%"}

(* The record that a writer at one of pcs has not finished yet.            *)
Unfinished(i, pcs) == IF i = Len(jnls) /\ wr.pc \in pcs THEN 1 ELSE 0

(* Index and log agree at every moment of the writer's work: version       *)
(* numbers continue from journal to journal without a hole, the index is   *)
(* ahead of the patches by the one that is being written, the log by the   *)
(* one whose header is missing, entry k leads to record k, and records     *)
(* that count are complete.                                                *)
FilesAgree ==
  \A i \in DOMAIN jnls :
    /\ jnls[i].first = IF i = 1 THEN 1 ELSE jnls[i - 1].first + jnls[i - 1].nb
    /\ Len(jnls[i].idx) = jnls[i].nb + Unfinished(i, {"blog", "tag", "hdr"})
    /\ Len(jnls[i].log) = jnls[i].nb + Unfinished(i, {"hdr"})
    /\ \A k \in DOMAIN jnls[i].idx : jnls[i].idx[k].pos = k
    /\ \A k \in 1 .. jnls[i].nb : jnls[i].log[k].full

(* No version number is given to two patches, whatever crashes, failed     *)
(* writes and reloads happened in between.                                 *)
VersionsUnique ==
  \A g, h \in hist : g.version = h.version => g = h

(* The versions that are additions and not erased.                         *)
Live == {v \in 1 .. mdir_last_version(jnls) :
           LET i == find_jnl(v) IN jnl_read(jnls[i], v - jnls[i].first + 1).tag = "+"}

(* A program that lists incrementally ends up with exactly what is there:  *)
(* once its cursor has reached the last version it shows every addition    *)
(* that is not deleted, and nothing else.                                  *)
ListExact ==
  up /\ wr.pc = "idle" /\ rd.pc = "idle" /\ rd.cur = mdir_last_version(jnls) => view = Live

(* What the files say, version by version.                                 *)
LogOf == [v \in 1 .. mdir_last_version(jnls) |->
            LET i == find_jnl(v)
                r == jnl_read(jnls[i], v - jnls[i].first + 1)
            IN  [tag |-> r.tag, type |-> r.type, ref |-> r.ref]]

VL == INSTANCE VersionLog
        WITH log <- LogOf, Adds <- [tag : {"+"}, type : {"msg"}, ref : Msgs]

(* Without faults and marks the files implement the version log.           *)
ImplementsVersionLog == VL!Spec
=============================================================================
