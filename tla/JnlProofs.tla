----------------------------- MODULE JnlProofs ------------------------------
(***************************************************************************)
(* Theorems about the journals of module Jnl, for every journal size, set  *)
(* of messages and bound, in three parts.  The first needs no assumption   *)
(* on failures.  The second and the third are about journals without       *)
(* failures and marks: their files agree, and they implement the log of    *)
(* module VersionLog, which a program can list incrementally.              *)
(***************************************************************************)
EXTENDS Jnl, SequenceTheorems, WellFoundedInduction, TLAPS

-----------------------------------------------------------------------------
(* Types, and what keeps every access to the files within their bounds.    *)

(* A journal knows of no more patches than its index has entries; versions *)
(* start at 1.                                                             *)
JnlsSane == \A i \in 1 .. Len(jnls) : jnls[i].first >= 1 /\ jnls[i].nb <= Len(jnls[i].idx)

(* What the writer has done when it is within a patch.                     *)
WriterSane ==
  /\ wr.pc \in {"bidx", "blog"} => wr.blanks >= 1
  /\ wr.pc \in {"blog", "tag", "hdr"} => /\ Len(jnls) >= 1
                                         /\ Last(jnls).nb < Len(Last(jnls).idx)
  /\ wr.pc = "mark" => Len(jnls) >= 1 /\ Last(jnls).nb >= 1

(* The reader stays within the journals it measured.                       *)
ReaderSane ==
  /\ Len(rd.nbs) <= Len(jnls)
  /\ rd.pc = "list" => rd.jnl \in 1 .. Len(rd.nbs) /\ rd.k >= 1

(* Without the process there is no patch in progress.                      *)
WriterRuns == up \/ wr.pc = "idle"

TypeInv == TypeOK /\ JnlsSane /\ WriterSane /\ ReaderSane

(* The fields of a journal.                                                *)
LEMMA JournalFields ==
  ASSUME NEW j \in Journal
  PROVE  /\ j.first \in Nat /\ j.nb \in Nat
         /\ j.idx \in Seq(IndexEntry) /\ Len(j.idx) \in Nat
         /\ j.log \in Seq(Record) /\ Len(j.log) \in Nat
         /\ j = [first |-> j.first, nb |-> j.nb, idx |-> j.idx, log |-> j.log]
BY DEF Journal

(* Replacing one journal by another one keeps the rest of the list.        *)
LEMMA UpdateJournal ==
  ASSUME NEW js \in Seq(Journal), NEW i \in 1 .. Len(js), NEW j \in Journal
  PROVE  /\ [js EXCEPT ![i] = j] \in Seq(Journal)
         /\ Len([js EXCEPT ![i] = j]) = Len(js)
         /\ \A n \in 1 .. Len(js) : [js EXCEPT ![i] = j][n] = IF n = i THEN j ELSE js[n]
BY ExceptSeq

(* last_jnl returns the journals, possibly with a new empty one at the end *)
(* that starts right after the last version.                               *)
LEMMA LastJnl ==
  ASSUME NEW js \in Seq(Journal)
  PROVE  /\ last_jnl(js) \in Seq(Journal)
         /\ Len(last_jnl(js)) >= 1
         /\ \/ last_jnl(js) = js /\ js # <<>>
            \/ /\ Len(last_jnl(js)) = Len(js) + 1
               /\ \A i \in 1 .. Len(js) : last_jnl(js)[i] = js[i]
               /\ Last(last_jnl(js)) = NewJnl(IF js = <<>> THEN 1 ELSE Last(js).first + Last(js).nb)
<1>1. CASE js = <<>>
  <2>1. NewJnl(1) \in Journal
    BY DEF NewJnl, Journal
  <2> QED BY <1>1, <2>1 DEF last_jnl, Last
<1>2. CASE js # <<>> /\ Last(js).nb >= MaxJnlSize
  <2> DEFINE v == Last(js).first + Last(js).nb
  <2>1. Last(js) \in Journal
    BY <1>2 DEF Last
  <2>2. NewJnl(v) \in Journal
    BY <2>1 DEF NewJnl, Journal
  <2>3. last_jnl(js) = Append(js, NewJnl(v))
    BY <1>2 DEF last_jnl
  <2> HIDE DEF v
  <2> QED BY <1>2, <2>2, <2>3 DEF Last, v
<1>3. CASE js # <<>> /\ ~(Last(js).nb >= MaxJnlSize)
  BY <1>3 DEF last_jnl
<1> QED BY <1>1, <1>2, <1>3

(* last_jnl adds nothing but an empty journal, so it keeps JnlsSane.       *)
LEMMA LastJnlSane ==
  ASSUME NEW js \in Seq(Journal),
         \A i \in 1 .. Len(js) : js[i].first >= 1 /\ js[i].nb <= Len(js[i].idx)
  PROVE  \A i \in 1 .. Len(last_jnl(js)) :
            last_jnl(js)[i].first >= 1 /\ last_jnl(js)[i].nb <= Len(last_jnl(js)[i].idx)
<1> DEFINE new == last_jnl(js)
<1> SUFFICES ASSUME NEW i \in 1 .. Len(new)
             PROVE  new[i].first >= 1 /\ new[i].nb <= Len(new[i].idx)
  OBVIOUS
<1>1. CASE new = js
  BY <1>1
<1>2. CASE /\ Len(new) = Len(js) + 1
           /\ \A k \in 1 .. Len(js) : new[k] = js[k]
           /\ Last(new) = NewJnl(IF js = <<>> THEN 1 ELSE Last(js).first + Last(js).nb)
  <2>1. CASE i \in 1 .. Len(js)
    BY <1>2, <2>1
  <2>2. CASE i = Len(js) + 1
    <3>1. new[i] = NewJnl(IF js = <<>> THEN 1 ELSE Last(js).first + Last(js).nb)
      BY <1>2, <2>2 DEF Last
    <3>2. js # <<>> => Last(js).first >= 1 /\ Last(js).first \in Nat /\ Last(js).nb \in Nat
      <4> SUFFICES ASSUME js # <<>>
                   PROVE  Last(js).first >= 1 /\ Last(js).first \in Nat /\ Last(js).nb \in Nat
        OBVIOUS
      <4>1. Len(js) \in 1 .. Len(js)
        OBVIOUS
      <4>2. js[Len(js)] \in Journal
        BY <4>1
      <4> QED BY <4>1, <4>2, JournalFields DEF Last
    <3> HIDE DEF new
    <3> QED BY <3>1, <3>2 DEF NewJnl
  <2> QED BY <1>2, <2>1, <2>2
<1> QED BY <1>1, <1>2, LastJnl

(* What the writes do to one journal.                                      *)
LEMMA AppendIdxType ==
  ASSUME NEW j \in Journal, NEW e \in IndexEntry
  PROVE  /\ AppendIdx(j, e) \in Journal
         /\ AppendIdx(j, e).first = j.first
         /\ AppendIdx(j, e).nb = j.nb
         /\ AppendIdx(j, e).log = j.log
         /\ AppendIdx(j, e).idx = Append(j.idx, e)
         /\ Len(AppendIdx(j, e).idx) = Len(j.idx) + 1
BY DEF Journal, AppendIdx

LEMMA CountedType ==
  ASSUME NEW j \in Journal
  PROVE  /\ Counted(j) \in Journal
         /\ Counted(j).first = j.first
         /\ Counted(j).nb = j.nb + 1
         /\ Counted(j).log = j.log
         /\ Counted(j).idx = j.idx
BY DEF Journal, Counted

LEMMA AppendLogType ==
  ASSUME NEW j \in Journal, NEW r \in Record
  PROVE  /\ AppendLog(j, r) \in Journal
         /\ AppendLog(j, r).first = j.first
         /\ AppendLog(j, r).nb = j.nb
         /\ AppendLog(j, r).idx = j.idx
         /\ AppendLog(j, r).log = Append(j.log, r)
         /\ Len(AppendLog(j, r).log) = Len(j.log) + 1
<1> DEFINE log == Append(j.log, r)
<1>1. log \in Seq(Record) /\ Len(log) = Len(j.log) + 1
  BY JournalFields
<1>2. AppendLog(j, r) = [j EXCEPT !.log = log]
  BY DEF AppendLog
<1> HIDE DEF log
<1>3. /\ AppendLog(j, r) \in Journal /\ AppendLog(j, r).log = log
      /\ AppendLog(j, r).first = j.first /\ AppendLog(j, r).nb = j.nb
      /\ AppendLog(j, r).idx = j.idx
  BY <1>1, <1>2 DEF Journal
<1> QED BY <1>1, <1>3 DEF log

(* What can be overwritten in a record.                                    *)
LEMMA RecordUpdate ==
  ASSUME NEW r \in Record
  PROVE  /\ [r EXCEPT !.full = TRUE] \in Record
         /\ [r EXCEPT !.tag = "%"] \in Record
BY DEF Record, Tags

(* Overwriting a part of a record keeps the log's length and every other   *)
(* record.                                                                 *)
LEMMA CompleteType ==
  ASSUME NEW j \in Journal
  PROVE  /\ Complete(j) \in Journal
         /\ Complete(j).first = j.first
         /\ Complete(j).nb = j.nb
         /\ Complete(j).idx = j.idx
         /\ Complete(j).log = [j.log EXCEPT ![Len(j.log)].full = TRUE]
         /\ Len(Complete(j).log) = Len(j.log)
<1> DEFINE log == [j.log EXCEPT ![Len(j.log)].full = TRUE]
<1>1. j.log \in Seq(Record)
  BY JournalFields
<1>2. log \in Seq(Record) /\ Len(log) = Len(j.log)
  <2>1. CASE Len(j.log) \in 1 .. Len(j.log)
    <3>1. [j.log[Len(j.log)] EXCEPT !.full = TRUE] \in Record
      BY <1>1, <2>1, ElementOfSeq, RecordUpdate
    <3> QED BY <1>1, <2>1, <3>1, ExceptSeq
  <2>2. CASE Len(j.log) \notin 1 .. Len(j.log)
    <3>1. log = j.log
      BY <1>1, <2>2
    <3> QED BY <1>1, <3>1
  <2> QED BY <2>1, <2>2
<1>3. Complete(j) = [j EXCEPT !.log = log]
  BY DEF Complete
<1> HIDE DEF log
<1>4. /\ Complete(j) \in Journal /\ Complete(j).log = log
      /\ Complete(j).first = j.first /\ Complete(j).nb = j.nb /\ Complete(j).idx = j.idx
  BY <1>2, <1>3 DEF Journal
<1> QED BY <1>2, <1>4 DEF log

LEMMA MarkDelType ==
  ASSUME NEW j \in Journal, NEW k
  PROVE  /\ jnl_mark_del(j, k) \in Journal
         /\ jnl_mark_del(j, k).first = j.first
         /\ jnl_mark_del(j, k).nb = j.nb
         /\ jnl_mark_del(j, k).idx = j.idx
         /\ jnl_mark_del(j, k).log = [j.log EXCEPT ![Offset(j, k)].tag = "%"]
         /\ Len(jnl_mark_del(j, k).log) = Len(j.log)
<1> DEFINE p == Offset(j, k)
           log == [j.log EXCEPT ![p].tag = "%"]
<1>1. j.log \in Seq(Record)
  BY JournalFields
<1>2. log \in Seq(Record) /\ Len(log) = Len(j.log)
  <2> HIDE DEF p
  <2>1. CASE p \in 1 .. Len(j.log)
    <3>1. [j.log[p] EXCEPT !.tag = "%"] \in Record
      BY <1>1, <2>1, ElementOfSeq, RecordUpdate
    <3> QED BY <1>1, <2>1, <3>1, ExceptSeq
  <2>2. CASE p \notin 1 .. Len(j.log)
    <3>1. log = j.log
      BY <1>1, <2>2
    <3> QED BY <1>1, <3>1
  <2> QED BY <2>1, <2>2
<1>3. jnl_mark_del(j, k) = [j EXCEPT !.log = log]
  BY DEF jnl_mark_del
<1> HIDE DEF log
<1>4. /\ jnl_mark_del(j, k) \in Journal /\ jnl_mark_del(j, k).log = log
      /\ jnl_mark_del(j, k).first = j.first /\ jnl_mark_del(j, k).nb = j.nb
      /\ jnl_mark_del(j, k).idx = j.idx
  BY <1>2, <1>3 DEF Journal
<1> QED BY <1>2, <1>4 DEF log

LEMMA TypeInit == Init => TypeInv
<1> SUFFICES ASSUME Init PROVE TypeInv
  OBVIOUS
<1>1. wr \in [pc : WriterPcs, act : {"+", "-"}, hdr : Header, blanks : Nat]
  BY DEF Init, Idle, WriterPcs, Header
<1>2. rd \in [pc : {"idle", "list", "aborted"}, nbs : Seq(Nat),
              jnl : Nat, k : Nat, from : Nat, cur : Nat]
  BY DEF Init, ReaderInit
<1>3. faults \in 0 .. MaxFaults
  BY JnlAssumption DEF Init
<1>4. TypeOK
  BY <1>1, <1>2, <1>3 DEF Init, TypeOK
<1>5. JnlsSane /\ WriterSane /\ ReaderSane
  BY DEF Init, Idle, ReaderInit, JnlsSane, WriterSane, ReaderSane
<1> QED BY <1>4, <1>5 DEF TypeInv

(* The writer's record when mdir_patch starts, goes on or ends.            *)
LEMMA WriterType ==
  ASSUME TypeOK
  PROVE  /\ Idle \in [pc : WriterPcs, act : {"+", "-"}, hdr : Header, blanks : Nat]
         /\ \A pc \in WriterPcs :
              [wr EXCEPT !.pc = pc] \in
                 [pc : WriterPcs, act : {"+", "-"}, hdr : Header, blanks : Nat]
BY DEF TypeOK, Idle, WriterPcs, Header

LEMMA TypeRequests ==
  ASSUME TypeInv, Requests PROVE TypeInv'
<1>1. PICK act \in {"+", "-"}, hdr \in Header, n \in Nat : mdir_patch(act, hdr, n)
  <2>1. CASE \E m \in Msgs, n \in 0 .. MaxBlanks : mdir_patch("+", [type |-> "msg", ref |-> m], n)
    BY <2>1, JnlAssumption DEF Header
  <2>2. CASE \E t \in Targets, n \in 0 .. MaxBlanks : mdir_patch("-", [type |-> "del", ref |-> t], n)
    BY <2>2, JnlAssumption DEF Header, Targets
  <2>3. CASE \E t \in Targets : WithMarks /\ mdir_patch("+", [type |-> "mark", ref |-> t], 0)
    BY <2>3, JnlAssumption DEF Header, Targets
  <2> QED BY <2>1, <2>2, <2>3 DEF Requests
<1>2. wr' = [pc |-> IF n > 0 THEN "bidx" ELSE "prep", act |-> act, hdr |-> hdr, blanks |-> n]
  BY <1>1 DEF mdir_patch
<1>3. wr' \in [pc : WriterPcs, act : {"+", "-"}, hdr : Header, blanks : Nat]
  BY <1>2 DEF WriterPcs
<1>4. UNCHANGED <<jnls, up, rd, view, hist, faults>>
  BY <1>1 DEF mdir_patch
<1>5. TypeOK'
  BY <1>3, <1>4 DEF TypeInv, TypeOK
<1>6. WriterSane'
  BY <1>2, <1>4 DEF WriterSane
<1> QED BY <1>4, <1>5, <1>6 DEF TypeInv, JnlsSane, ReaderSane

(* The effect of WriteIndex: an entry for the next record of the last      *)
(* journal, which may be a new one.                                        *)
LEMMA WriteIndexEffect ==
  ASSUME TypeInv, WriteIndex
  PROVE  LET js == last_jnl(jnls)
             n == Len(js)
             e == [pos |-> Len(js[n].log) + 1, mark |-> 0]
         IN  /\ js \in Seq(Journal) /\ n \in Nat /\ n >= 1 /\ e \in IndexEntry
             /\ jnls' \in Seq(Journal) /\ Len(jnls') = n
             /\ \A i \in 1 .. n - 1 : jnls'[i] = js[i]
             /\ jnls'[n].first = js[n].first
             /\ jnls'[n].nb = js[n].nb
             /\ jnls'[n].idx = Append(js[n].idx, e)
             /\ Len(jnls'[n].idx) = Len(js[n].idx) + 1
             /\ jnls'[n].log = js[n].log
<1> DEFINE js == last_jnl(jnls)
           n == Len(js)
           e == [pos |-> Len(js[n].log) + 1, mark |-> 0]
           j == AppendIdx(js[n], e)
<1>1. jnls \in Seq(Journal)
  BY DEF TypeInv, TypeOK
<1>2. js \in Seq(Journal) /\ n >= 1 /\ n \in Nat
  BY <1>1, LastJnl
<1>3. js[n] \in Journal
  BY <1>2
<1>4. e \in IndexEntry
  BY <1>3, JournalFields DEF IndexEntry
<1>5. /\ j \in Journal
      /\ j.first = js[n].first
      /\ j.nb = js[n].nb
      /\ j.log = js[n].log
      /\ j.idx = Append(js[n].idx, e)
      /\ Len(j.idx) = Len(js[n].idx) + 1
  BY <1>3, <1>4, AppendIdxType
<1>6. jnls' = [js EXCEPT ![n] = j]
  BY DEF WriteIndex, Last
<1> HIDE DEF js, n, e, j
<1>7. /\ jnls' \in Seq(Journal) /\ Len(jnls') = Len(js)
      /\ \A i \in 1 .. Len(js) : jnls'[i] = IF i = n THEN j ELSE js[i]
  BY <1>2, <1>5, <1>6, UpdateJournal DEF n
<1>8. \A i \in 1 .. n - 1 : jnls'[i] = js[i]
  BY <1>2, <1>7 DEF n
<1>9. jnls'[n] = j
  BY <1>2, <1>7 DEF n
<1> QED BY <1>2, <1>4, <1>5, <1>7, <1>8, <1>9 DEF js, n, e

LEMMA TypeWriteIndex ==
  ASSUME TypeInv, WriteIndex PROVE TypeInv'
<1> DEFINE js == last_jnl(jnls)
           n == Len(js)
<1>1. /\ js \in Seq(Journal) /\ n \in Nat /\ n >= 1
      /\ jnls' \in Seq(Journal) /\ Len(jnls') = n
      /\ \A i \in 1 .. n - 1 : jnls'[i] = js[i]
      /\ jnls'[n].first = js[n].first
      /\ jnls'[n].nb = js[n].nb
      /\ Len(jnls'[n].idx) = Len(js[n].idx) + 1
  BY WriteIndexEffect
<1>2. jnls \in Seq(Journal) /\ Len(jnls) <= n
  <2>1. jnls \in Seq(Journal) /\ Len(jnls) \in Nat
    BY DEF TypeInv, TypeOK
  <2> QED BY <2>1, LastJnl
<1>3. \A i \in 1 .. n : js[i].first >= 1 /\ js[i].nb <= Len(js[i].idx)
  BY <1>2, LastJnlSane DEF TypeInv, JnlsSane
<1> HIDE DEF js, n
<1>4. js[n].nb \in Nat /\ Len(js[n].idx) \in Nat
  BY <1>1, JournalFields DEF n
<1>5. JnlsSane'
  <2> SUFFICES ASSUME NEW i \in 1 .. n
               PROVE  jnls'[i].first >= 1 /\ jnls'[i].nb <= Len(jnls'[i].idx)
    BY <1>1 DEF JnlsSane
  <2>1. CASE i = n
    BY <1>1, <1>3, <1>4, <2>1
  <2>2. CASE i \in 1 .. n - 1
    BY <1>1, <1>3, <2>2
  <2> QED BY <1>1, <2>1, <2>2
<1>6. wr' = [wr EXCEPT !.pc = IF wr.pc = "bidx" THEN "blog" ELSE "tag"]
  BY DEF WriteIndex, Goto
<1>7. wr' \in [pc : WriterPcs, act : {"+", "-"}, hdr : Header, blanks : Nat]
  BY <1>6, WriterType DEF TypeInv, WriterPcs
<1>8. WriterSane'
  <2>1. Last(jnls') = jnls'[n]
    BY <1>1 DEF Last
  <2>2. wr'.pc = (IF wr.pc = "bidx" THEN "blog" ELSE "tag") /\ wr'.blanks = wr.blanks
    BY <1>6 DEF TypeInv, TypeOK
  <2>3. jnls'[n].nb < Len(jnls'[n].idx)
    BY <1>1, <1>3, <1>4
  <2> QED BY <1>1, <2>1, <2>2, <2>3 DEF WriterSane, TypeInv, WriteIndex, At
<1>9. UNCHANGED <<up, rd, view, hist, faults>>
  BY DEF WriteIndex
<1>10. ReaderSane'
  <2>1. Len(rd.nbs) \in Nat /\ Len(jnls) \in Nat
    BY <1>2 DEF TypeInv, TypeOK
  <2>2. Len(rd'.nbs) <= Len(jnls')
    BY <1>1, <1>2, <1>9, <2>1 DEF TypeInv, ReaderSane
  <2> QED BY <1>9, <2>2 DEF TypeInv, ReaderSane
<1> QED BY <1>1, <1>5, <1>7, <1>8, <1>9, <1>10 DEF TypeInv, TypeOK

(* A step that replaces one journal by another with the same first version *)
(* and enough index entries.                                               *)
LEMMA ReplaceOne ==
  ASSUME TypeInv, NEW n \in 1 .. Len(jnls), NEW j \in Journal,
         j.first = jnls[n].first, j.nb <= Len(j.idx),
         jnls' = [jnls EXCEPT ![n] = j]
  PROVE  /\ jnls' \in Seq(Journal)
         /\ Len(jnls') = Len(jnls)
         /\ \A i \in 1 .. Len(jnls) : jnls'[i] = IF i = n THEN j ELSE jnls[i]
         /\ JnlsSane'
         /\ rd' = rd => ReaderSane'
<1>1. jnls \in Seq(Journal)
  BY DEF TypeInv, TypeOK
<1>2. /\ jnls' \in Seq(Journal)
      /\ Len(jnls') = Len(jnls)
      /\ \A i \in 1 .. Len(jnls) : jnls'[i] = IF i = n THEN j ELSE jnls[i]
  BY <1>1, UpdateJournal
<1>3. JnlsSane'
  BY <1>2 DEF TypeInv, JnlsSane
<1>4. rd' = rd => ReaderSane'
  BY <1>2 DEF TypeInv, ReaderSane
<1> QED BY <1>2, <1>3, <1>4

(* The effect of WriteBlank on the last journal.                           *)
LEMMA WriteBlankEffect ==
  ASSUME TypeInv, WriteBlank
  PROVE  LET n == Len(jnls)
             r == [tag |-> "%", type |-> "none", ref |-> 0, full |-> TRUE]
         IN  /\ n \in Nat /\ n >= 1 /\ r \in Record
             /\ jnls' \in Seq(Journal) /\ Len(jnls') = n /\ JnlsSane' /\ ReaderSane'
             /\ \A i \in 1 .. n - 1 : jnls'[i] = jnls[i]
             /\ jnls'[n].first = jnls[n].first
             /\ jnls'[n].nb = jnls[n].nb + 1
             /\ jnls'[n].idx = jnls[n].idx
             /\ jnls'[n].log = Append(jnls[n].log, r)
<1> DEFINE n == Len(jnls)
           r == [tag |-> "%", type |-> "none", ref |-> 0, full |-> TRUE]
           j == Counted(AppendLog(jnls[n], r))
<1>1. jnls \in Seq(Journal) /\ n \in 1 .. Len(jnls) /\ jnls[n].nb < Len(jnls[n].idx)
  BY DEF TypeInv, TypeOK, WriterSane, WriteBlank, At, Last
<1>2. jnls[n] \in Journal
  BY <1>1
<1>3. r \in Record
  BY DEF Record, Tags
<1>4. /\ j \in Journal
      /\ j.first = jnls[n].first /\ j.nb = jnls[n].nb + 1 /\ j.idx = jnls[n].idx
      /\ j.log = Append(jnls[n].log, r)
  <2>1. /\ AppendLog(jnls[n], r) \in Journal
        /\ AppendLog(jnls[n], r).first = jnls[n].first
        /\ AppendLog(jnls[n], r).nb = jnls[n].nb
        /\ AppendLog(jnls[n], r).idx = jnls[n].idx
        /\ AppendLog(jnls[n], r).log = Append(jnls[n].log, r)
    BY <1>2, <1>3, AppendLogType
  <2> QED BY <2>1, CountedType
<1>5. j.nb <= Len(j.idx)
  BY <1>1, <1>2, <1>4, JournalFields, SMTT(30)
<1>6. jnls' = [jnls EXCEPT ![n] = j] /\ rd' = rd
  BY DEF WriteBlank
<1> HIDE DEF j, r
<1>7. /\ jnls' \in Seq(Journal) /\ Len(jnls') = n /\ JnlsSane' /\ ReaderSane'
      /\ \A i \in 1 .. n : jnls'[i] = IF i = n THEN j ELSE jnls[i]
  BY <1>1, <1>4, <1>5, <1>6, ReplaceOne
<1>8. jnls'[n] = j /\ \A i \in 1 .. n - 1 : jnls'[i] = jnls[i]
  BY <1>1, <1>7
<1> QED BY <1>1, <1>3, <1>4, <1>7, <1>8 DEF r

LEMMA TypeWriteBlank ==
  ASSUME TypeInv, WriteBlank PROVE TypeInv'
<1>1. jnls' \in Seq(Journal) /\ JnlsSane' /\ ReaderSane'
  BY WriteBlankEffect
<1>2. /\ wr' = [pc |-> IF wr.blanks > 1 THEN "bidx" ELSE "prep",
                act |-> wr.act, hdr |-> wr.hdr, blanks |-> wr.blanks - 1]
      /\ wr.blanks >= 1
  BY DEF WriteBlank, TypeInv, WriterSane, At
<1>3. /\ wr' \in [pc : WriterPcs, act : {"+", "-"}, hdr : Header, blanks : Nat]
      /\ wr'.pc = IF wr.blanks > 1 THEN "bidx" ELSE "prep"
      /\ wr'.blanks = wr.blanks - 1
  BY <1>2 DEF TypeInv, TypeOK, WriterPcs
<1>4. WriterSane'
  BY <1>3 DEF WriterSane, TypeInv, TypeOK
<1>5. UNCHANGED <<up, rd, view, hist, faults>>
  BY DEF WriteBlank
<1> QED BY <1>1, <1>3, <1>4, <1>5 DEF TypeInv, TypeOK

(* A set of numbers that is not empty has a least element.                 *)
LEMMA LeastNumber ==
  ASSUME NEW T, T \subseteq Nat, T # {} PROVE \E x \in T : \A y \in T : x <= y
<1>1. PICK x \in T : \A y \in T : <<y, x>> \notin OpToRel(<, Nat)
  BY NatLessThanWellFounded, WFMin
<1>2. \A y \in T : ~ (y < x)
  BY <1>1 DEF OpToRel
<1> QED BY <1>2

(* find_jnl returns the first journal that holds the version, or 0 if none *)
(* does.                                                                   *)
LEMMA FindJnl ==
  ASSUME jnls \in Seq(Journal), NEW v \in Nat
  PROVE  LET Holds(i) == jnls[i].first <= v /\ jnls[i].first + jnls[i].nb > v
         IN  \/ find_jnl(v) = 0 /\ \A i \in 1 .. Len(jnls) : ~Holds(i)
             \/ /\ find_jnl(v) \in 1 .. Len(jnls)
                /\ Holds(find_jnl(v))
<1> DEFINE Holds(i) == jnls[i].first <= v /\ jnls[i].first + jnls[i].nb > v
           holders == {i \in DOMAIN jnls : Holds(i)}
<1>1. DOMAIN jnls = 1 .. Len(jnls)
  OBVIOUS
<1>2. find_jnl(v) = IF holders = {} THEN 0
                    ELSE CHOOSE i \in holders : \A k \in holders : i <= k
  BY DEF find_jnl
<1>3. CASE holders = {}
  BY <1>1, <1>2, <1>3
<1>4. CASE holders # {}
  <2>1. holders \subseteq Nat
    BY <1>1
  <2> HIDE DEF holders
  <2>2. \E i \in holders : \A k \in holders : i <= k
    BY <1>4, <2>1, LeastNumber
  <2>3. find_jnl(v) \in holders
    BY <1>2, <1>4, <2>2
  <2> QED BY <1>1, <2>3 DEF holders
<1> QED BY <1>3, <1>4

(* The effect of PrepareRem: nothing, or the target's record is marked.    *)
LEMMA PrepareRemEffect ==
  ASSUME TypeInv, PrepareRem
  PROVE  \/ wr' = Idle /\ up' \in BOOLEAN /\ UNCHANGED jnls
         \/ LET i == find_jnl(wr.hdr.ref)
                k == wr.hdr.ref - jnls[i].first + 1
            IN  /\ i \in 1 .. Len(jnls)
                /\ jnls[i].first <= wr.hdr.ref /\ jnls[i].first + jnls[i].nb > wr.hdr.ref
                /\ jnls' \in Seq(Journal) /\ Len(jnls') = Len(jnls) /\ JnlsSane' /\ ReaderSane'
                /\ \A m \in 1 .. Len(jnls) : m # i => jnls'[m] = jnls[m]
                /\ jnls'[i].first = jnls[i].first
                /\ jnls'[i].nb = jnls[i].nb
                /\ jnls'[i].idx = jnls[i].idx
                /\ jnls'[i].log = [jnls[i].log EXCEPT ![Offset(jnls[i], k)].tag = "%"]
                /\ Len(jnls'[i].log) = Len(jnls[i].log)
                /\ wr' = [wr EXCEPT !.pc = "idx"] /\ UNCHANGED up
<1> DEFINE i == find_jnl(wr.hdr.ref)
           k == wr.hdr.ref - jnls[i].first + 1
           j == jnl_mark_del(jnls[i], k)
<1>1. jnls \in Seq(Journal) /\ wr.hdr.ref \in Nat
  BY DEF TypeInv, TypeOK, Header
<1>2. UNCHANGED <<rd, view, hist, faults>>
  BY DEF PrepareRem
<1>3. CASE wr' = Idle /\ up' \in BOOLEAN /\ UNCHANGED jnls
  BY <1>3
<1>4. CASE i # 0 /\ jnls' = [jnls EXCEPT ![i] = j] /\ Goto("idx") /\ UNCHANGED up
  <2>1. /\ i \in 1 .. Len(jnls)
        /\ jnls[i].first <= wr.hdr.ref /\ jnls[i].first + jnls[i].nb > wr.hdr.ref
    BY <1>1, <1>4, FindJnl
  <2>2. jnls[i] \in Journal
    BY <1>1, <2>1
  <2>3. /\ j \in Journal /\ j.first = jnls[i].first /\ j.nb = jnls[i].nb /\ j.idx = jnls[i].idx
        /\ j.log = [jnls[i].log EXCEPT ![Offset(jnls[i], k)].tag = "%"]
        /\ Len(j.log) = Len(jnls[i].log)
    BY <2>2, MarkDelType
  <2> HIDE DEF j, i, k
  <2>4. j.nb <= Len(j.idx)
    BY <2>1, <2>3 DEF TypeInv, JnlsSane
  <2>5. /\ jnls' \in Seq(Journal) /\ Len(jnls') = Len(jnls) /\ JnlsSane' /\ ReaderSane'
        /\ \A m \in 1 .. Len(jnls) : jnls'[m] = IF m = i THEN j ELSE jnls[m]
    BY <1>2, <1>4, <2>1, <2>3, <2>4, ReplaceOne
  <2>6. jnls'[i] = j /\ \A m \in 1 .. Len(jnls) : m # i => jnls'[m] = jnls[m]
    BY <2>1, <2>5
  <2>7. wr' = [wr EXCEPT !.pc = "idx"] /\ UNCHANGED up
    BY <1>4 DEF Goto
  <2> QED BY <2>1, <2>3, <2>5, <2>6, <2>7 DEF i, k
<1> QED BY <1>3, <1>4 DEF PrepareRem, TypeInv, TypeOK

LEMMA TypePrepareRem ==
  ASSUME TypeInv, PrepareRem PROVE TypeInv'
<1>1. UNCHANGED <<rd, view, hist, faults>>
  BY DEF PrepareRem
<1>2. CASE wr' = Idle /\ up' \in BOOLEAN /\ UNCHANGED jnls
  <2>1. TypeOK'
    BY <1>1, <1>2, WriterType DEF TypeInv, TypeOK
  <2>2. WriterSane'
    BY <1>2 DEF WriterSane, Idle
  <2> QED BY <1>1, <1>2, <2>1, <2>2 DEF TypeInv, JnlsSane, ReaderSane
<1>3. CASE /\ jnls' \in Seq(Journal) /\ JnlsSane' /\ ReaderSane'
           /\ wr' = [wr EXCEPT !.pc = "idx"] /\ UNCHANGED up
  <2>1. /\ wr' \in [pc : WriterPcs, act : {"+", "-"}, hdr : Header, blanks : Nat]
        /\ wr'.pc = "idx"
    BY <1>3, WriterType DEF TypeInv, TypeOK, WriterPcs
  <2>2. WriterSane'
    BY <2>1 DEF WriterSane
  <2> QED BY <1>1, <1>3, <2>1, <2>2 DEF TypeInv, TypeOK
<1> QED BY <1>2, <1>3, PrepareRemEffect

LEMMA TypePrepareAdd ==
  ASSUME TypeInv, PrepareAdd PROVE TypeInv'
<1>1. UNCHANGED <<jnls, up, rd, view, hist, faults>>
  BY DEF PrepareAdd
<1>2. /\ wr' \in [pc : WriterPcs, act : {"+", "-"}, hdr : Header, blanks : Nat]
      /\ wr'.pc = "idx"
  BY WriterType DEF PrepareAdd, Goto, TypeInv, TypeOK, WriterPcs
<1>3. WriterSane'
  BY <1>2 DEF WriterSane
<1> QED BY <1>1, <1>2, <1>3 DEF TypeInv, TypeOK, JnlsSane, ReaderSane

(* The effect of WriteTag on the last journal.                             *)
LEMMA WriteTagEffect ==
  ASSUME TypeInv, WriteTag
  PROVE  LET n == Len(jnls)
             r == [tag |-> wr.act, type |-> wr.hdr.type, ref |-> wr.hdr.ref, full |-> FALSE]
         IN  /\ n \in Nat /\ n >= 1 /\ r \in Record
             /\ jnls' \in Seq(Journal) /\ Len(jnls') = n /\ JnlsSane' /\ ReaderSane'
             /\ \A i \in 1 .. n - 1 : jnls'[i] = jnls[i]
             /\ jnls'[n].first = jnls[n].first
             /\ jnls'[n].nb = jnls[n].nb
             /\ jnls'[n].idx = jnls[n].idx
             /\ jnls'[n].log = Append(jnls[n].log, r)
<1> DEFINE n == Len(jnls)
           r == [tag |-> wr.act, type |-> wr.hdr.type, ref |-> wr.hdr.ref, full |-> FALSE]
           j == AppendLog(jnls[n], r)
<1>1. jnls \in Seq(Journal) /\ n \in 1 .. Len(jnls) /\ jnls[n].nb < Len(jnls[n].idx)
  BY DEF TypeInv, TypeOK, WriterSane, WriteTag, At, Last
<1>2. jnls[n] \in Journal
  BY <1>1
<1>3. r \in Record
  BY DEF TypeInv, TypeOK, Record, Tags, Header
<1>4. /\ j \in Journal
      /\ j.first = jnls[n].first /\ j.nb = jnls[n].nb /\ j.idx = jnls[n].idx
      /\ j.log = Append(jnls[n].log, r)
  BY <1>2, <1>3, AppendLogType
<1>5. j.nb <= Len(j.idx)
  BY <1>1, <1>2, <1>4, JournalFields
<1>6. jnls' = [jnls EXCEPT ![n] = j] /\ rd' = rd
  BY DEF WriteTag
<1> HIDE DEF j, r
<1>7. /\ jnls' \in Seq(Journal) /\ Len(jnls') = n /\ JnlsSane' /\ ReaderSane'
      /\ \A i \in 1 .. n : jnls'[i] = IF i = n THEN j ELSE jnls[i]
  BY <1>1, <1>4, <1>5, <1>6, ReplaceOne
<1>8. jnls'[n] = j /\ \A i \in 1 .. n - 1 : jnls'[i] = jnls[i]
  BY <1>1, <1>7
<1> QED BY <1>1, <1>3, <1>4, <1>7, <1>8 DEF r

LEMMA TypeWriteTag ==
  ASSUME TypeInv, WriteTag PROVE TypeInv'
<1> DEFINE n == Len(jnls)
<1>1. /\ n \in Nat /\ n >= 1
      /\ jnls' \in Seq(Journal) /\ Len(jnls') = n /\ JnlsSane' /\ ReaderSane'
      /\ jnls'[n].nb = jnls[n].nb
      /\ jnls'[n].idx = jnls[n].idx
  BY WriteTagEffect
<1>2. /\ wr' \in [pc : WriterPcs, act : {"+", "-"}, hdr : Header, blanks : Nat]
      /\ wr'.pc = "hdr"
  BY WriterType DEF WriteTag, Goto, TypeInv, TypeOK, WriterPcs
<1>3. jnls[n].nb < Len(jnls[n].idx)
  BY DEF TypeInv, TypeOK, WriterSane, WriteTag, At, Last
<1>4. WriterSane'
  BY <1>1, <1>2, <1>3 DEF WriterSane, Last
<1>5. UNCHANGED <<up, rd, view, hist, faults>>
  BY DEF WriteTag
<1> QED BY <1>1, <1>2, <1>4, <1>5 DEF TypeInv, TypeOK

(* The last version is the last journal's, and is not negative.            *)
LEMMA LastVersion ==
  ASSUME TypeInv
  PROVE  /\ mdir_last_version(jnls) \in Nat
         /\ Len(jnls) >= 1 =>
              mdir_last_version(jnls) = jnls[Len(jnls)].first + jnls[Len(jnls)].nb - 1
<1>1. CASE jnls = <<>>
  BY <1>1 DEF mdir_last_version
<1>2. CASE jnls # <<>>
  <2>1. Len(jnls) \in 1 .. Len(jnls) /\ jnls[Len(jnls)] \in Journal
    BY <1>2 DEF TypeInv, TypeOK
  <2>2. jnls[Len(jnls)].first >= 1
    BY <2>1 DEF TypeInv, JnlsSane
  <2> QED BY <1>2, <2>1, <2>2, JournalFields DEF mdir_last_version, Last
<1> QED BY <1>1, <1>2

(* The effect of WriteHeader on the last journal.                          *)
LEMMA WriteHeaderEffect ==
  ASSUME TypeInv, WriteHeader
  PROVE  LET n == Len(jnls)
         IN  /\ n \in Nat /\ n >= 1
             /\ jnls' \in Seq(Journal) /\ Len(jnls') = n /\ JnlsSane' /\ ReaderSane'
             /\ \A i \in 1 .. n - 1 : jnls'[i] = jnls[i]
             /\ jnls'[n].first = jnls[n].first
             /\ jnls'[n].nb = jnls[n].nb + 1
             /\ jnls'[n].idx = jnls[n].idx
             /\ jnls'[n].log = [jnls[n].log EXCEPT ![Len(jnls[n].log)].full = TRUE]
             /\ Len(jnls'[n].log) = Len(jnls[n].log)
<1> DEFINE n == Len(jnls)
           j == Counted(Complete(jnls[n]))
<1>1. jnls \in Seq(Journal) /\ n \in 1 .. Len(jnls) /\ jnls[n].nb < Len(jnls[n].idx)
  BY DEF TypeInv, TypeOK, WriterSane, WriteHeader, At, Last
<1>2. jnls[n] \in Journal
  BY <1>1
<1>3. /\ j \in Journal
      /\ j.first = jnls[n].first /\ j.nb = jnls[n].nb + 1 /\ j.idx = jnls[n].idx
      /\ j.log = [jnls[n].log EXCEPT ![Len(jnls[n].log)].full = TRUE]
      /\ Len(j.log) = Len(jnls[n].log)
  <2>1. /\ Complete(jnls[n]) \in Journal
        /\ Complete(jnls[n]).first = jnls[n].first
        /\ Complete(jnls[n]).nb = jnls[n].nb
        /\ Complete(jnls[n]).idx = jnls[n].idx
        /\ Complete(jnls[n]).log = [jnls[n].log EXCEPT ![Len(jnls[n].log)].full = TRUE]
        /\ Len(Complete(jnls[n]).log) = Len(jnls[n].log)
    BY <1>2, CompleteType
  <2> QED BY <2>1, CountedType
<1>4. j.nb <= Len(j.idx)
  BY <1>1, <1>2, <1>3, JournalFields
<1>5. jnls' = [jnls EXCEPT ![n] = j] /\ rd' = rd
  BY DEF WriteHeader
<1> HIDE DEF j
<1>6. /\ jnls' \in Seq(Journal) /\ Len(jnls') = n /\ JnlsSane' /\ ReaderSane'
      /\ \A i \in 1 .. n : jnls'[i] = IF i = n THEN j ELSE jnls[i]
  <2>1. j \in Journal /\ j.first = jnls[n].first
    BY <1>3
  <2> QED BY <1>1, <1>4, <1>5, <2>1, ReplaceOne
<1>7. jnls'[n] = j /\ \A i \in 1 .. n - 1 : jnls'[i] = jnls[i]
  BY <1>1, <1>6
<1> QED BY <1>1, <1>3, <1>6, <1>7

LEMMA TypeWriteHeader ==
  ASSUME TypeInv, WriteHeader PROVE TypeInv'
<1> DEFINE n == Len(jnls)
<1>1. /\ n \in Nat /\ n >= 1
      /\ jnls' \in Seq(Journal) /\ Len(jnls') = n /\ JnlsSane' /\ ReaderSane'
      /\ jnls'[n].nb = jnls[n].nb + 1
  BY WriteHeaderEffect
<1>2. jnls'[n].nb >= 1
  <2>1. jnls[n] \in Journal
    BY <1>1 DEF TypeInv, TypeOK
  <2> QED BY <1>1, <2>1, JournalFields
<1>3. /\ wr' \in [pc : WriterPcs, act : {"+", "-"}, hdr : Header, blanks : Nat]
      /\ wr'.pc \in {"mark", "idle"}
  BY WriterType, ZenonT(40) DEF WriteHeader, Goto, TypeInv, TypeOK, WriterPcs, Idle
<1>4. WriterSane'
  BY <1>1, <1>2, <1>3 DEF WriterSane, Last
<1>5. hist' \subseteq [version : Nat, tag : {"+", "-"},
                       type : {"msg", "mark", "del", "none"}, ref : Nat]
  <2>1. [version |-> mdir_last_version(jnls) + 1, tag |-> wr.act,
         type |-> wr.hdr.type, ref |-> wr.hdr.ref]
          \in [version : Nat, tag : {"+", "-"}, type : {"msg", "mark", "del", "none"}, ref : Nat]
    BY LastVersion DEF TypeInv, TypeOK, Header
  <2> QED BY <2>1 DEF WriteHeader, TypeInv, TypeOK
<1>6. UNCHANGED <<up, rd, view, faults>>
  BY DEF WriteHeader
<1> QED BY <1>1, <1>3, <1>4, <1>5, <1>6 DEF TypeInv, TypeOK

(* jnl_replace_last_mark makes the index of one journal longer and changes *)
(* nothing else.                                                           *)
LEMMA ReplaceLastMark ==
  ASSUME NEW js \in Seq(Journal), NEW i \in 1 .. Len(js),
         NEW k \in 1 .. Len(js[i].idx), NEW mark \in Nat
  PROVE  LET new == jnl_replace_last_mark(js, i, k, mark)
         IN  /\ new \in Seq(Journal)
             /\ Len(new) = Len(js)
             /\ \A m \in 1 .. Len(js) :
                  /\ new[m].first = js[m].first
                  /\ new[m].nb = js[m].nb
                  /\ Len(new[m].idx) >= Len(js[m].idx)
<1> DEFINE new == jnl_replace_last_mark(js, i, k, mark)
           e == [pos |-> js[i].idx[k].pos, mark |-> mark]
           j == AppendIdx(js[i], e)
<1>1. js[i] \in Journal
  OBVIOUS
<1>2. js[i].idx \in Seq(IndexEntry)
  BY <1>1, JournalFields
<1>3. js[i].idx[k] \in IndexEntry
  BY <1>2, ElementOfSeq
<1>4. e \in IndexEntry
  BY <1>3 DEF IndexEntry
<1>5. /\ j \in Journal /\ j.first = js[i].first /\ j.nb = js[i].nb
      /\ Len(j.idx) = Len(js[i].idx) + 1
  BY <1>1, <1>4, AppendIdxType
<1>6. new = [js EXCEPT ![i] = j]
  BY DEF jnl_replace_last_mark
<1> HIDE DEF j, new
<1>7. /\ new \in Seq(Journal) /\ Len(new) = Len(js)
      /\ \A m \in 1 .. Len(js) : new[m] = IF m = i THEN j ELSE js[m]
  BY <1>5, <1>6, UpdateJournal
<1>8. \A m \in 1 .. Len(js) : js[m] \in Journal /\ Len(js[m].idx) \in Nat
  BY JournalFields
<1> QED BY <1>5, <1>7, <1>8 DEF new

(* The effect of ReplaceMarks: indexes grow, the rest stays.               *)
LEMMA ReplaceMarksEffect ==
  ASSUME TypeInv, ReplaceMarks
  PROVE  /\ jnls' \in Seq(Journal)
         /\ Len(jnls') = Len(jnls)
         /\ \A m \in 1 .. Len(jnls) : /\ jnls'[m].first = jnls[m].first
                                      /\ jnls'[m].nb = jnls[m].nb
                                      /\ Len(jnls'[m].idx) >= Len(jnls[m].idx)
<1> DEFINE i == find_jnl(wr.hdr.ref)
           k == wr.hdr.ref - jnls[i].first + 1
           n == Len(jnls)
           version == mdir_last_version(jnls)
           js == jnl_replace_last_mark(jnls, i, k, version)
           kk == version - jnls[n].first + 1
           mark == jnls[i].idx[k].mark
<1>1. jnls \in Seq(Journal) /\ wr.hdr.ref \in Nat
  BY DEF TypeInv, TypeOK, Header
<1>2. jnls' = IF i = 0 THEN jnls ELSE jnl_replace_last_mark(js, n, kk, mark)
  BY DEF ReplaceMarks
<1>3. \A m \in 1 .. n : jnls[m] \in Journal /\ Len(jnls[m].idx) \in Nat
  BY <1>1, JournalFields
<1>4. CASE i = 0
  BY <1>1, <1>2, <1>3, <1>4
<1>5. CASE i # 0
  <2>1. i \in 1 .. n /\ jnls[i].first <= wr.hdr.ref /\ jnls[i].first + jnls[i].nb > wr.hdr.ref
    BY <1>1, <1>5, FindJnl
  <2>2. /\ jnls[i].first \in Nat /\ jnls[i].nb \in Nat
        /\ jnls[i].idx \in Seq(IndexEntry) /\ jnls[i].nb <= Len(jnls[i].idx)
    BY <1>3, <2>1, JournalFields DEF TypeInv, JnlsSane
  <2>3. k \in 1 .. Len(jnls[i].idx)
    BY <1>1, <2>1, <2>2
  <2>4. version \in Nat
    BY LastVersion
  <2>5. mark \in Nat
    <3>1. jnls[i].idx[k] \in IndexEntry
      BY <2>2, <2>3, ElementOfSeq
    <3> QED BY <3>1 DEF IndexEntry
  <2>6. n \in 1 .. n /\ jnls[n].nb >= 1 /\ kk = jnls[n].nb /\ jnls[n].nb <= Len(jnls[n].idx)
    <3>1. n >= 1 /\ n \in Nat /\ jnls[n].nb >= 1
      BY <1>1 DEF TypeInv, WriterSane, ReplaceMarks, At, Last
    <3>2. jnls[n].first \in Nat /\ jnls[n].nb \in Nat
      BY <1>3, <3>1, JournalFields
    <3> QED BY <3>1, <3>2, LastVersion DEF TypeInv, JnlsSane
  <2> HIDE DEF i, k, version, mark
  <2>7. /\ js \in Seq(Journal) /\ Len(js) = n
        /\ \A m \in 1 .. n : /\ js[m].first = jnls[m].first
                             /\ js[m].nb = jnls[m].nb
                             /\ Len(js[m].idx) >= Len(jnls[m].idx)
    BY <1>1, <2>1, <2>3, <2>4, ReplaceLastMark
  <2> HIDE DEF js
  <2>8. kk \in 1 .. Len(js[n].idx)
    <3>1. js[n] \in Journal /\ Len(js[n].idx) >= Len(jnls[n].idx)
      BY <2>6, <2>7
    <3> QED BY <1>3, <2>6, <3>1, JournalFields
  <2>9. n \in 1 .. Len(js)
    BY <2>6, <2>7
  <2> HIDE DEF kk
  <2>10. /\ jnls' \in Seq(Journal) /\ Len(jnls') = n
         /\ \A m \in 1 .. n : /\ jnls'[m].first = js[m].first
                              /\ jnls'[m].nb = js[m].nb
                              /\ Len(jnls'[m].idx) >= Len(js[m].idx)
    BY <1>2, <1>5, <2>5, <2>7, <2>8, <2>9, ReplaceLastMark
  <2>11. \A m \in 1 .. n : js[m] \in Journal /\ jnls'[m] \in Journal
    BY <2>7, <2>10
  <2>12. \A m \in 1 .. n : Len(js[m].idx) \in Nat /\ Len(jnls'[m].idx) \in Nat
    BY <2>11, JournalFields
  <2> QED BY <1>3, <2>7, <2>10, <2>12
<1> QED BY <1>4, <1>5

LEMMA TypeReplaceMarks ==
  ASSUME TypeInv, ReplaceMarks PROVE TypeInv'
<1>1. jnls \in Seq(Journal)
  BY DEF TypeInv, TypeOK
<1>2. /\ jnls' \in Seq(Journal)
      /\ Len(jnls') = Len(jnls)
      /\ \A m \in 1 .. Len(jnls) : /\ jnls'[m].first = jnls[m].first
                                   /\ jnls'[m].nb = jnls[m].nb
                                   /\ Len(jnls'[m].idx) >= Len(jnls[m].idx)
  BY ReplaceMarksEffect
<1>3. JnlsSane'
  <2> SUFFICES ASSUME NEW m \in 1 .. Len(jnls)
               PROVE  jnls'[m].first >= 1 /\ jnls'[m].nb <= Len(jnls'[m].idx)
    BY <1>2 DEF JnlsSane
  <2>1. jnls[m].first >= 1 /\ jnls[m].nb <= Len(jnls[m].idx)
    BY DEF TypeInv, JnlsSane
  <2>2. jnls[m] \in Journal /\ jnls'[m] \in Journal
    BY <1>1, <1>2
  <2> QED BY <1>2, <2>1, <2>2, JournalFields, SMTT(30)
<1>4. wr' = Idle /\ UNCHANGED <<up, rd, view, hist, faults>>
  BY DEF ReplaceMarks
<1>5. WriterSane'
  BY <1>4 DEF WriterSane, Idle
<1>6. ReaderSane'
  BY <1>2, <1>4 DEF TypeInv, ReaderSane
<1> QED BY <1>2, <1>3, <1>4, <1>5, <1>6, WriterType DEF TypeInv, TypeOK

LEMMA TypeFaults ==
  ASSUME TypeInv, WriteFails \/ Crash \/ Stop PROVE TypeInv'
<1>1. /\ wr' = Idle \/ wr' = wr
      /\ up' \in BOOLEAN /\ faults' \in 0 .. MaxFaults
      /\ UNCHANGED <<jnls, rd, view, hist>>
  <2>1. faults \in 0 .. MaxFaults /\ up \in BOOLEAN
    BY DEF TypeInv, TypeOK
  <2>2. CASE WriteFails
    BY <2>1, <2>2, JnlAssumption DEF WriteFails
  <2>3. CASE Crash
    <3>1. wr' = Idle /\ up' = FALSE /\ UNCHANGED <<jnls, rd, view, hist>>
      BY <2>3 DEF Crash
    <3>2. faults' \in 0 .. MaxFaults
      BY <2>1, <2>3, JnlAssumption DEF Crash
    <3> QED BY <3>1, <3>2
  <2>4. CASE Stop
    BY <2>1, <2>4 DEF Stop
  <2> QED BY <2>2, <2>3, <2>4
<1>2. WriterSane'
  BY <1>1 DEF TypeInv, WriterSane, Idle, WriteFails, Crash, Stop, At
<1> QED BY <1>1, <1>2, WriterType DEF TypeInv, TypeOK, JnlsSane, ReaderSane

(* The effect of Start: every journal counts its index entries.            *)
LEMMA StartEffect ==
  ASSUME TypeInv, Start
  PROVE  /\ jnls' \in Seq(Journal)
         /\ Len(jnls') = Len(jnls)
         /\ \A i \in 1 .. Len(jnls) : /\ jnls'[i].first = jnls[i].first
                                      /\ jnls'[i].nb = Len(jnls[i].idx)
                                      /\ jnls'[i].idx = jnls[i].idx
                                      /\ jnls'[i].log = jnls[i].log
<1> DEFINE j(i) == [jnls[i] EXCEPT !.nb = Len(jnls[i].idx)]
           n == Len(jnls)
<1>1. jnls \in Seq(Journal) /\ n \in Nat /\ DOMAIN jnls = 1 .. n
  BY DEF TypeInv, TypeOK
<1>2. \A i \in 1 .. n : /\ j(i) \in Journal
                        /\ j(i).first = jnls[i].first
                        /\ j(i).nb = Len(jnls[i].idx)
                        /\ j(i).idx = jnls[i].idx
                        /\ j(i).log = jnls[i].log
  <2>1. ASSUME NEW x \in Journal
        PROVE  LET y == [x EXCEPT !.nb = Len(x.idx)]
               IN  /\ y \in Journal /\ y.first = x.first /\ y.nb = Len(x.idx)
                   /\ y.idx = x.idx /\ y.log = x.log
    BY DEF Journal
  <2> QED BY <1>1, <2>1
<1>3. jnls' = [i \in 1 .. n |-> j(i)]
  BY <1>1 DEF Start
<1> HIDE DEF j
<1>4. jnls' \in Seq(Journal) /\ Len(jnls') = n /\ \A i \in 1 .. n : jnls'[i] = j(i)
  BY <1>1, <1>2, <1>3
<1> QED BY <1>2, <1>4

LEMMA TypeStart ==
  ASSUME TypeInv, WriterRuns, Start PROVE TypeInv'
<1>1. /\ jnls' \in Seq(Journal)
      /\ Len(jnls') = Len(jnls)
      /\ \A i \in 1 .. Len(jnls) : /\ jnls'[i].first = jnls[i].first
                                   /\ jnls'[i].nb = Len(jnls[i].idx)
                                   /\ jnls'[i].idx = jnls[i].idx
  BY StartEffect
<1>2. JnlsSane'
  <2> SUFFICES ASSUME NEW i \in 1 .. Len(jnls)
               PROVE  jnls'[i].first >= 1 /\ jnls'[i].nb <= Len(jnls'[i].idx)
    BY <1>1 DEF JnlsSane
  <2>1. jnls[i].first >= 1 /\ jnls[i] \in Journal
    BY DEF TypeInv, TypeOK, JnlsSane
  <2> QED BY <1>1, <2>1, JournalFields, SMTT(30)
<1>3. up' = TRUE /\ UNCHANGED <<wr, rd, view, hist, faults>>
  BY DEF Start
<1>4. WriterSane'
  BY <1>3 DEF WriterRuns, WriterSane, Start
<1>5. ReaderSane'
  BY <1>1, <1>3 DEF TypeInv, ReaderSane
<1> QED BY <1>1, <1>2, <1>3, <1>4, <1>5 DEF TypeInv, TypeOK

(* Where Seek leads the reader.                                            *)
LEMMA SeekType ==
  ASSUME TypeInv, NEW i \in Nat \ {0}, NEW from \in Nat, NEW nbs \in Seq(Nat),
         Len(nbs) <= Len(jnls)
  PROVE  LET new == Seek(i, from, nbs)
         IN  /\ new \in [pc : {"idle", "list", "aborted"}, nbs : Seq(Nat),
                         jnl : Nat, k : Nat, from : Nat, cur : Nat]
             /\ new.cur = rd.cur
             /\ Len(new.nbs) <= Len(jnls)
             /\ new.pc = "list" => new.jnl \in 1 .. Len(new.nbs) /\ new.k >= 1
<1> DEFINE rest == {n \in i .. Len(nbs) : jnls[n].first + nbs[n] > from}
           n == CHOOSE m \in rest : \A o \in rest : m <= o
           start == IF from < jnls[n].first THEN jnls[n].first ELSE from
<1>1. rd \in [pc : {"idle", "list", "aborted"}, nbs : Seq(Nat),
              jnl : Nat, k : Nat, from : Nat, cur : Nat]
  BY DEF TypeInv, TypeOK
<1>2. CASE rest = {}
  <2>1. Seek(i, from, nbs) = [rd EXCEPT !.pc = "idle"]
    BY <1>2 DEF Seek
  <2> QED BY <1>1, <2>1 DEF TypeInv, ReaderSane
<1>3. CASE rest # {}
  <2>1. rest \subseteq Nat
    OBVIOUS
  <2>2. n \in 1 .. Len(nbs)
    <3> HIDE DEF rest
    <3>1. n \in rest
      BY <1>3, <2>1, LeastNumber
    <3> QED BY <3>1 DEF rest
  <2>3. jnls[n].first \in Nat
    <3> HIDE DEF n
    <3>1. jnls[n] \in Journal
      BY <2>2 DEF TypeInv, TypeOK
    <3> QED BY <3>1, JournalFields
  <2>4. Seek(i, from, nbs) = [rd EXCEPT !.pc = "list", !.nbs = nbs, !.from = start,
                                       !.jnl = n, !.k = start - jnls[n].first + 1]
    BY <1>3 DEF Seek
  <2> HIDE DEF n, rest
  <2>5. start \in Nat /\ start - jnls[n].first + 1 \in Nat /\ start - jnls[n].first + 1 >= 1
    BY <2>3
  <2> HIDE DEF start
  <2>6. Seek(i, from, nbs) = [pc |-> "list", nbs |-> nbs, jnl |-> n,
                              k |-> start - jnls[n].first + 1, from |-> start, cur |-> rd.cur]
    BY <1>1, <2>4
  <2> QED BY <1>1, <2>2, <2>5, <2>6
<1> QED BY <1>2, <1>3

LEMMA TypeListBegin ==
  ASSUME TypeInv, ListBegin PROVE TypeInv'
<1> DEFINE nbs == [i \in DOMAIN jnls |-> Len(jnls[i].idx)]
<1>1. jnls \in Seq(Journal) /\ Len(jnls) \in Nat /\ DOMAIN jnls = 1 .. Len(jnls) /\ rd.cur + 1 \in Nat
  BY DEF TypeInv, TypeOK
<1>2. nbs \in Seq(Nat) /\ Len(nbs) = Len(jnls)
  <2>1. \A i \in 1 .. Len(jnls) : Len(jnls[i].idx) \in Nat
    BY <1>1, JournalFields
  <2> QED BY <1>1, <2>1
<1>3. rd' = Seek(1, rd.cur + 1, nbs)
  BY DEF ListBegin
<1> HIDE DEF nbs
<1>4. /\ rd' \in [pc : {"idle", "list", "aborted"}, nbs : Seq(Nat),
                  jnl : Nat, k : Nat, from : Nat, cur : Nat]
      /\ Len(rd'.nbs) <= Len(jnls)
      /\ rd'.pc = "list" => rd'.jnl \in 1 .. Len(rd'.nbs) /\ rd'.k >= 1
  <2>1. Len(nbs) <= Len(jnls) /\ 1 \in Nat \ {0}
    BY <1>1, <1>2
  <2> DEFINE new == Seek(1, rd.cur + 1, nbs)
  <2>2. /\ new \in [pc : {"idle", "list", "aborted"}, nbs : Seq(Nat),
                    jnl : Nat, k : Nat, from : Nat, cur : Nat]
        /\ Len(new.nbs) <= Len(jnls)
        /\ new.pc = "list" => new.jnl \in 1 .. Len(new.nbs) /\ new.k >= 1
    BY <1>1, <1>2, <2>1, SeekType
  <2> HIDE DEF new
  <2>3. rd' = new
    BY <1>3 DEF new
  <2> QED BY <2>2, <2>3
<1>5. UNCHANGED <<jnls, up, wr, view, hist, faults>>
  BY DEF ListBegin
<1>6. ReaderSane'
  BY <1>4, <1>5 DEF ReaderSane
<1> QED BY <1>4, <1>5, <1>6 DEF TypeInv, TypeOK, JnlsSane, WriterSane

LEMMA TypeListOne ==
  ASSUME TypeInv, ListOne PROVE TypeInv'
<1> DEFINE j == jnls[rd.jnl]
           nb == rd.nbs[rd.jnl]
           r == jnl_read(j, rd.k)
           version == j.first + rd.k - 1
           next == IF rd.k < nb THEN [rd EXCEPT !.k = @ + 1]
                                ELSE Seek(rd.jnl + 1, rd.from, rd.nbs)
           Rd == [pc : {"idle", "list", "aborted"}, nbs : Seq(Nat),
                  jnl : Nat, k : Nat, from : Nat, cur : Nat]
           Sane(x) == /\ x \in Rd
                      /\ Len(x.nbs) <= Len(jnls)
                      /\ x.pc = "list" => x.jnl \in 1 .. Len(x.nbs) /\ x.k >= 1
<1>1. rd \in Rd /\ rd.jnl \in 1 .. Len(rd.nbs) /\ rd.k >= 1 /\ Len(rd.nbs) <= Len(jnls)
  BY DEF TypeInv, TypeOK, ReaderSane, ListOne
<1>2. version \in Nat
  <2>1. j \in Journal
    BY <1>1 DEF TypeInv, TypeOK
  <2>2. j.first \in Nat
    BY <2>1, JournalFields
  <2> QED BY <1>1, <2>2, SMTT(30)
<1>3. Sane(next)
  <2>1. CASE rd.k < nb
    <3>1. next = [rd EXCEPT !.k = rd.k + 1] /\ rd.k + 1 \in Nat /\ rd.k + 1 >= 1
      BY <1>1, <2>1
    <3> HIDE DEF next
    <3>2. /\ next \in Rd /\ next.pc = rd.pc /\ next.nbs = rd.nbs /\ next.jnl = rd.jnl
          /\ next.k = rd.k + 1
      BY <1>1, <3>1
    <3> QED BY <1>1, <3>1, <3>2
  <2>2. CASE ~(rd.k < nb)
    <3>1. next = Seek(rd.jnl + 1, rd.from, rd.nbs)
      BY <2>2
    <3>2. rd.jnl + 1 \in Nat \ {0} /\ rd.from \in Nat /\ rd.nbs \in Seq(Nat)
      BY <1>1
    <3> HIDE DEF next
    <3> QED BY <1>1, <3>1, <3>2, SeekType
  <2> QED BY <2>1, <2>2
<1>4. UNCHANGED <<jnls, up, wr, hist, faults>>
  BY DEF ListOne
<1>5. Sane(rd') /\ view' \subseteq Nat
  <2>1. view \subseteq Nat
    BY DEF TypeInv, TypeOK
  <2>2. CASE rd' = [rd EXCEPT !.pc = "aborted"] /\ UNCHANGED view
    BY <1>1, <2>1, <2>2
  <2>3. CASE rd' = [rd EXCEPT !.pc = "idle"] /\ UNCHANGED view
    BY <1>1, <2>1, <2>3
  <2>4. CASE rd' = next /\ UNCHANGED view
    BY <1>3, <2>1, <2>4
  <2>5. CASE /\ rd' = [next EXCEPT !.cur = version]
             /\ view' = IF r.tag = "-" THEN view \ {r.ref} ELSE view \cup {version}
    <3> HIDE DEF next, version, r
    <3>1. Sane(rd')
      BY <1>2, <1>3, <2>5
    <3> QED BY <1>2, <2>1, <2>5, <3>1
  <2> QED BY <2>2, <2>3, <2>4, <2>5 DEF ListOne
<1>6. ReaderSane'
  BY <1>4, <1>5 DEF ReaderSane
<1> QED BY <1>4, <1>5, <1>6 DEF TypeInv, TypeOK, JnlsSane, WriterSane

LEMMA TypeReaderRestart ==
  ASSUME TypeInv, ReaderRestart PROVE TypeInv'
<1>1. rd' = ReaderInit /\ view' = {} /\ UNCHANGED <<jnls, up, wr, hist, faults>>
  BY DEF ReaderRestart
<1>2. rd' \in [pc : {"idle", "list", "aborted"}, nbs : Seq(Nat),
               jnl : Nat, k : Nat, from : Nat, cur : Nat]
  BY <1>1 DEF ReaderInit
<1>3. ReaderSane'
  <2>1. Len(jnls) \in Nat /\ Len(<<>>) = 0
    BY DEF TypeInv, TypeOK
  <2> QED BY <1>1, <2>1 DEF ReaderSane, ReaderInit
<1> QED BY <1>1, <1>2, <1>3 DEF TypeInv, TypeOK, JnlsSane, WriterSane

(* A patch is in progress only while the writer runs.                      *)
LEMMA RunsStep ==
  ASSUME WriterRuns, [Next]_vars PROVE WriterRuns'
<1>1. CASE Requests
  BY <1>1 DEF Requests, mdir_patch, At, WriterRuns
<1>2. CASE WriteIndex \/ WriteBlank \/ PrepareAdd \/ WriteTag
  BY <1>2 DEF WriteIndex, WriteBlank, PrepareAdd, WriteTag, At, WriterRuns
<1>3. CASE PrepareRem
  <2>1. wr' = Idle \/ (up /\ UNCHANGED up)
    BY <1>3 DEF PrepareRem, At
  <2> QED BY <2>1 DEF Idle, WriterRuns
<1>4. CASE WriteHeader \/ ReplaceMarks
  BY <1>4 DEF WriteHeader, ReplaceMarks, At, Idle, WriterRuns
<1>5. CASE WriteFails \/ Crash
  BY <1>5 DEF WriteFails, Crash, Idle, WriterRuns
<1>6. CASE Stop \/ Start
  BY <1>6 DEF Stop, Start, At, WriterRuns
<1>7. CASE Reader
  BY <1>7 DEF Reader, ListBegin, ListOne, ReaderRestart, WriterRuns
<1>8. CASE UNCHANGED vars
  BY <1>8 DEF vars, WriterRuns
<1> QED BY <1>1, <1>2, <1>3, <1>4, <1>5, <1>6, <1>7, <1>8 DEF Next, Writer

LEMMA TypeStep ==
  ASSUME TypeInv, WriterRuns, [Next]_vars PROVE TypeInv'
<1>1. CASE Requests
  BY <1>1, TypeRequests
<1>2. CASE WriteIndex
  BY <1>2, TypeWriteIndex
<1>3. CASE WriteBlank
  BY <1>3, TypeWriteBlank
<1>4. CASE PrepareAdd
  BY <1>4, TypePrepareAdd
<1>5. CASE PrepareRem
  BY <1>5, TypePrepareRem
<1>6. CASE WriteTag
  BY <1>6, TypeWriteTag
<1>7. CASE WriteHeader
  BY <1>7, TypeWriteHeader
<1>8. CASE ReplaceMarks
  BY <1>8, TypeReplaceMarks
<1>9. CASE WriteFails \/ Crash \/ Stop
  BY <1>9, TypeFaults
<1>10. CASE Start
  BY <1>10, TypeStart
<1>11. CASE ListBegin
  BY <1>11, TypeListBegin
<1>12. CASE ListOne
  BY <1>12, TypeListOne
<1>13. CASE ReaderRestart
  BY <1>13, TypeReaderRestart
<1>14. CASE UNCHANGED vars
  BY <1>14 DEF vars, TypeInv, TypeOK, JnlsSane, WriterSane, ReaderSane
<1> QED BY <1>1, <1>2, <1>3, <1>4, <1>5, <1>6, <1>7, <1>8, <1>9, <1>10, <1>11, <1>12, <1>13,
           <1>14 DEF Next, Writer, Reader

LEMMA TypeInvariant == Spec => [](TypeInv /\ WriterRuns)
<1>1. Init => TypeInv /\ WriterRuns
  BY TypeInit DEF Init, WriterRuns
<1>2. TypeInv /\ WriterRuns /\ [Next]_vars => TypeInv' /\ WriterRuns'
  BY TypeStep, RunsStep
<1> QED BY <1>1, <1>2, PTL DEF Spec

(* Every variable stays within its type: in particular no operation of the *)
(* writer or the reader, whatever failed before, uses an index entry or a  *)
(* version that does not exist.                                            *)
THEOREM TypeCorrect == Spec => []TypeOK
<1>1. TypeInv => TypeOK
  BY DEF TypeInv
<1> QED BY <1>1, TypeInvariant, PTL

-----------------------------------------------------------------------------
(* Version numbers are never reused, whatever fails.                       *)

(* The last version depends on the last journal only.                      *)
LEMMA LastVersionGrows ==
  ASSUME NEW js \in Seq(Journal), NEW new \in Seq(Journal),
         Len(new) = Len(js), NEW d \in Nat,
         Len(js) >= 1 => /\ new[Len(js)].first = js[Len(js)].first
                         /\ new[Len(js)].nb >= js[Len(js)].nb + d,
         Len(js) = 0 => d = 0
  PROVE  mdir_last_version(new) >= mdir_last_version(js) + d
<1>1. CASE Len(js) = 0
  <2>1. js = <<>> /\ new = <<>>
    BY <1>1
  <2> QED BY <1>1, <2>1 DEF mdir_last_version
<1>2. CASE Len(js) >= 1
  <2>1. js # <<>> /\ new # <<>> /\ js[Len(js)] \in Journal /\ new[Len(js)] \in Journal
    BY <1>2
  <2>2. /\ js[Len(js)].first \in Nat /\ js[Len(js)].nb \in Nat
        /\ new[Len(js)].nb \in Nat
    BY <2>1, JournalFields
  <2> QED BY <1>2, <2>1, <2>2 DEF mdir_last_version, Last
<1> QED BY <1>1, <1>2

(* Opening a new journal does not change the last version.                 *)
LEMMA LastJnlVersion ==
  ASSUME TypeInv PROVE mdir_last_version(last_jnl(jnls)) = mdir_last_version(jnls)
<1> DEFINE js == last_jnl(jnls)
<1>1. jnls \in Seq(Journal) /\ js \in Seq(Journal) /\ Len(js) >= 1
  BY LastJnl DEF TypeInv, TypeOK
<1>2. CASE js = jnls
  BY <1>2
<1>3. CASE Last(js) = NewJnl(IF jnls = <<>> THEN 1 ELSE Last(jnls).first + Last(jnls).nb)
  <2>1. js # <<>>
    BY <1>1
  <2> HIDE DEF js
  <2>2. CASE jnls = <<>>
    BY <1>3, <2>1, <2>2 DEF mdir_last_version, NewJnl, js
  <2>3. CASE jnls # <<>>
    <3>1. Last(jnls) \in Journal
      BY <1>1, <2>3 DEF Last
    <3> QED BY <1>3, <2>1, <2>3, <3>1, JournalFields DEF mdir_last_version, NewJnl, js
  <2> QED BY <2>2, <2>3
<1> QED BY <1>1, <1>2, <1>3, LastJnl

LEMMA VersionMonotone ==
  ASSUME TypeInv, [Next]_vars
  PROVE  /\ mdir_last_version(jnls') >= mdir_last_version(jnls)
         /\ WriteHeader => mdir_last_version(jnls') >= mdir_last_version(jnls) + 1
<1> DEFINE n == Len(jnls)
<1>1. jnls \in Seq(Journal) /\ n \in Nat /\ mdir_last_version(jnls) \in Nat
  BY LastVersion DEF TypeInv, TypeOK
<1>2. n >= 1 => jnls[n].nb \in Nat /\ Len(jnls[n].idx) \in Nat /\ jnls[n].nb <= Len(jnls[n].idx)
  BY <1>1, JournalFields DEF TypeInv, JnlsSane
<1>3. CASE WriteHeader
  <2>1. /\ n >= 1 /\ jnls' \in Seq(Journal) /\ Len(jnls') = n
        /\ jnls'[n].first = jnls[n].first /\ jnls'[n].nb = jnls[n].nb + 1
    BY <1>3, WriteHeaderEffect
  <2>2. mdir_last_version(jnls') >= mdir_last_version(jnls) + 1
    BY <1>1, <1>2, <2>1, LastVersionGrows
  <2>3. mdir_last_version(jnls') \in Int
    <3>1. jnls'[n] \in Journal
      BY <1>1, <2>1
    <3> QED BY <2>1, <3>1, JournalFields DEF mdir_last_version, Last
  <2> QED BY <1>1, <2>2, <2>3
<1>4. CASE UNCHANGED jnls
  BY <1>1, <1>3, <1>4
<1>5. CASE WriteIndex
  <2> DEFINE js == last_jnl(jnls)
  <2>1. /\ js \in Seq(Journal) /\ Len(js) \in Nat /\ Len(js) >= 1
        /\ jnls' \in Seq(Journal) /\ Len(jnls') = Len(js)
        /\ jnls'[Len(js)].first = js[Len(js)].first
        /\ jnls'[Len(js)].nb = js[Len(js)].nb
    BY <1>5, WriteIndexEffect
  <2>2. mdir_last_version(js) = mdir_last_version(jnls)
    BY LastJnlVersion
  <2> HIDE DEF js
  <2>3. js[Len(js)].nb \in Nat
    BY <2>1, JournalFields
  <2>4. mdir_last_version(jnls') >= mdir_last_version(js) + 0
    BY <2>1, <2>3, LastVersionGrows
  <2> QED BY <1>1, <1>3, <2>2, <2>4
<1>6. CASE WriteBlank
  BY <1>1, <1>2, <1>3, <1>6, WriteBlankEffect, LastVersionGrows
<1>7. CASE PrepareRem
  <2>1. CASE /\ jnls' \in Seq(Journal) /\ Len(jnls') = n
             /\ \A m \in 1 .. n : jnls'[m].first = jnls[m].first /\ jnls'[m].nb = jnls[m].nb
    <3>1. mdir_last_version(jnls') >= mdir_last_version(jnls) + 0
      BY <1>1, <1>2, <2>1, LastVersionGrows
    <3> QED BY <1>1, <1>3, <3>1
  <2>2. CASE UNCHANGED jnls
    BY <1>4, <2>2
  <2> QED BY <1>7, <2>1, <2>2, PrepareRemEffect
<1>8. CASE WriteTag
  <2>1. mdir_last_version(jnls') >= mdir_last_version(jnls) + 0
    BY <1>1, <1>2, <1>8, WriteTagEffect, LastVersionGrows
  <2> QED BY <1>1, <1>3, <2>1
<1>9. CASE ReplaceMarks
  <2>1. mdir_last_version(jnls') >= mdir_last_version(jnls) + 0
    BY <1>1, <1>2, <1>9, ReplaceMarksEffect, LastVersionGrows
  <2> QED BY <1>1, <1>3, <2>1
<1>10. CASE Start
  <2>1. mdir_last_version(jnls') >= mdir_last_version(jnls) + 0
    BY <1>1, <1>2, <1>10, StartEffect, LastVersionGrows
  <2> QED BY <1>1, <1>3, <2>1
<1>11. CASE Requests \/ PrepareAdd \/ WriteFails \/ Crash \/ Stop \/ Reader \/ UNCHANGED vars
  BY <1>4, <1>11 DEF Requests, mdir_patch, PrepareAdd, WriteFails, Crash, Stop, Reader,
                    ListBegin, ListOne, ReaderRestart, vars
<1> QED BY <1>3, <1>5, <1>6, <1>7, <1>8, <1>9, <1>10, <1>11 DEF Next, Writer

(* What mdir_patch returned lies behind the last version.                  *)
HistBehind == \A h \in hist : h.version <= mdir_last_version(jnls)

LEMMA HistStep ==
  ASSUME TypeInv, TypeInv', [Next]_vars, HistBehind, VersionsUnique
  PROVE  HistBehind' /\ VersionsUnique'
<1>1. /\ mdir_last_version(jnls') >= mdir_last_version(jnls)
      /\ WriteHeader => mdir_last_version(jnls') >= mdir_last_version(jnls) + 1
  BY VersionMonotone
<1>2. mdir_last_version(jnls) \in Nat /\ mdir_last_version(jnls') \in Int
  <2>1. jnls' \in Seq(Journal)
    BY DEF TypeInv, TypeOK
  <2>2. jnls' # <<>> => Last(jnls') \in Journal
    BY <2>1 DEF Last
  <2>3. mdir_last_version(jnls') \in Int
    BY <2>2, JournalFields DEF mdir_last_version
  <2> QED BY <2>3, LastVersion
<1>3. \A h \in hist : h.version \in Nat
  BY DEF TypeInv, TypeOK
<1>4. CASE UNCHANGED hist
  BY <1>1, <1>2, <1>3, <1>4 DEF HistBehind, VersionsUnique
<1>5. CASE WriteHeader
  <2> DEFINE new == [version |-> mdir_last_version(jnls) + 1,
                     tag |-> wr.act, type |-> wr.hdr.type, ref |-> wr.hdr.ref]
  <2>1. hist' = hist \cup {new} /\ new.version = mdir_last_version(jnls) + 1
    BY <1>5 DEF WriteHeader
  <2> HIDE DEF new
  <2>2. \A h \in hist : h.version # new.version
    BY <1>2, <1>3, <2>1 DEF HistBehind
  <2>3. HistBehind'
    BY <1>1, <1>2, <1>3, <1>5, <2>1 DEF HistBehind
  <2>4. VersionsUnique'
    BY <2>1, <2>2 DEF VersionsUnique
  <2> QED BY <2>3, <2>4
<1>6. Next /\ ~WriteHeader => UNCHANGED hist
  BY DEF Next, Writer, Reader, Requests, mdir_patch, WriteIndex, WriteBlank, PrepareAdd,
         PrepareRem, WriteTag, ReplaceMarks, WriteFails, Crash, Stop, Start,
         ListBegin, ListOne, ReaderRestart
<1> QED BY <1>4, <1>5, <1>6 DEF vars

(* No version is given to two patches, for any journal size and any number *)
(* of crashes, failed writes, restarts and marks: a restart may skip       *)
(* numbers (an index entry without a record counts) but never goes back.   *)
THEOREM NoVersionTwice == Spec => []VersionsUnique
<1>1. Init => HistBehind /\ VersionsUnique
  BY DEF Init, HistBehind, VersionsUnique
<1>2. TypeInv /\ TypeInv' /\ [Next]_vars /\ HistBehind /\ VersionsUnique
        => HistBehind' /\ VersionsUnique'
  BY HistStep
<1> QED BY <1>1, <1>2, TypeInvariant, PTL DEF Spec

-----------------------------------------------------------------------------
(***************************************************************************)
(* Without failures and marks, the index and the log of every journal      *)
(* agree at each moment, so that every version mdir_patch ever returned    *)
(* can be read back.                                                       *)
(*                                                                         *)
(* The argument is an inductive invariant, FilesInv.  It is stated over a  *)
(* list of journals, to speak of the journals before and after a step.     *)
(***************************************************************************)

-----------------------------------------------------------------------------
(* The invariant.                                                          *)

(* The files of one journal: the index is a entries ahead of nb_patches,   *)
(* the log b records.                                                      *)
Agree(j, a, b) ==
  /\ Len(j.idx) = j.nb + a
  /\ Len(j.log) = j.nb + b
  /\ \A k \in 1 .. Len(j.idx) : j.idx[k].pos = k
  /\ \A k \in 1 .. j.nb : j.log[k].full

(* How far the last journal is ahead when the writer is at pc.             *)
AheadIdx(pc) == IF pc \in {"blog", "tag", "hdr"} THEN 1 ELSE 0
AheadLog(pc) == IF pc = "hdr" THEN 1 ELSE 0

AllAgree(js, pc) ==
  /\ \A i \in 1 .. Len(js) - 1 : Agree(js[i], 0, 0)
  /\ Len(js) >= 1 => Agree(js[Len(js)], AheadIdx(pc), AheadLog(pc))

(* Versions continue from journal to journal.                              *)
Continues(js) ==
  \A i \in 1 .. Len(js) : js[i].first = IF i = 1 THEN 1 ELSE js[i - 1].first + js[i - 1].nb

(* The same for journals further apart, which makes find_jnl unambiguous.  *)
Ordered(js) ==
  \A i, m \in 1 .. Len(js) : i < m => js[i].first + js[i].nb <= js[m].first

(* The record whose header is to be written is the one of this patch.      *)
Pending(js, w) ==
  w.pc = "hdr" => LET log == js[Len(js)].log
                  IN  /\ log[Len(log)].tag = w.act
                      /\ log[Len(log)].type = w.hdr.type
                      /\ log[Len(log)].ref = w.hdr.ref

(* What mdir_patch returned is where its version says.                     *)
Recorded(js, hs) ==
  \A h \in hs : \E i \in 1 .. Len(js) : \E k \in 1 .. js[i].nb :
     /\ h.version = js[i].first + k - 1
     /\ js[i].log[k].type = h.type
     /\ js[i].log[k].ref = h.ref
     /\ js[i].log[k].tag \in {h.tag, "%"}

NoMark(w) == w.hdr.type # "mark" /\ w.pc # "mark"

FilesInv ==
  /\ AllAgree(jnls, wr.pc)
  /\ Continues(jnls)
  /\ Ordered(jnls)
  /\ Pending(jnls, wr)
  /\ Recorded(jnls, hist)
  /\ NoMark(wr)

-----------------------------------------------------------------------------
(* What the writes do to the agreement of one journal.                     *)

LEMMA AgreeIndex ==
  ASSUME NEW j \in Journal, NEW new \in Journal, Agree(j, 0, 0),
         NEW e \in IndexEntry, e.pos = Len(j.log) + 1,
         new.nb = j.nb, new.idx = Append(j.idx, e), new.log = j.log
  PROVE  Agree(new, 1, 0)
<1>1. j.nb \in Nat /\ j.idx \in Seq(IndexEntry) /\ Len(j.idx) \in Nat
  BY JournalFields
<1>2. Len(new.idx) = Len(j.idx) + 1
  BY <1>1
<1>3. \A k \in 1 .. Len(new.idx) : new.idx[k].pos = k
  <2> SUFFICES ASSUME NEW k \in 1 .. Len(j.idx) + 1 PROVE new.idx[k].pos = k
    BY <1>2
  <2>1. CASE k \in 1 .. Len(j.idx)
    BY <1>1, <2>1 DEF Agree
  <2>2. CASE k = Len(j.idx) + 1
    BY <1>1, <2>2 DEF Agree
  <2> QED BY <1>1, <2>1, <2>2
<1> QED BY <1>1, <1>2, <1>3 DEF Agree

LEMMA AgreeBlank ==
  ASSUME NEW j \in Journal, NEW new \in Journal, Agree(j, 1, 0), NEW r \in Record, r.full,
         new.nb = j.nb + 1, new.idx = j.idx, new.log = Append(j.log, r)
  PROVE  Agree(new, 0, 0)
<1>1. j.nb \in Nat /\ j.log \in Seq(Record) /\ Len(j.log) \in Nat
  BY JournalFields
<1>2. Len(new.log) = Len(j.log) + 1
  BY <1>1
<1>3. ASSUME NEW k \in 1 .. new.nb PROVE new.log[k].full
  <2>1. CASE k \in 1 .. j.nb
    BY <1>1, <2>1 DEF Agree
  <2>2. CASE k = j.nb + 1
    BY <1>1, <2>2 DEF Agree
  <2>3. k \in 1 .. j.nb \/ k = j.nb + 1
    BY <1>1
  <2> QED BY <2>1, <2>2, <2>3
<1> QED BY <1>1, <1>2, <1>3 DEF Agree

LEMMA AgreeTag ==
  ASSUME NEW j \in Journal, NEW new \in Journal, Agree(j, 1, 0), NEW r \in Record,
         new.nb = j.nb, new.idx = j.idx, new.log = Append(j.log, r)
  PROVE  Agree(new, 1, 1)
<1>1. j.nb \in Nat /\ j.log \in Seq(Record) /\ Len(j.log) \in Nat
  BY JournalFields
<1>2. Len(new.log) = Len(j.log) + 1
  BY <1>1
<1>3. \A k \in 1 .. new.nb : new.log[k].full
  BY <1>1 DEF Agree
<1> QED BY <1>1, <1>2, <1>3 DEF Agree

(* A record of which one field is overwritten.                             *)
LEMMA OverwriteFull ==
  ASSUME NEW log \in Seq(Record), NEW p \in 1 .. Len(log)
  PROVE  LET new == [log EXCEPT ![p].full = TRUE]
         IN  /\ Len(new) = Len(log)
             /\ \A k \in 1 .. Len(log) : k # p => new[k] = log[k]
             /\ new[p].full = TRUE
             /\ new[p].tag = log[p].tag /\ new[p].type = log[p].type /\ new[p].ref = log[p].ref
<1> DEFINE new == [log EXCEPT ![p].full = TRUE]
<1>1. log[p] \in Record
  OBVIOUS
<1>2. [log[p] EXCEPT !.full = TRUE] \in Record
  BY <1>1, RecordUpdate
<1>3. new = [log EXCEPT ![p] = [log[p] EXCEPT !.full = TRUE]]
  OBVIOUS
<1> HIDE DEF new
<1>4. /\ Len(new) = Len(log)
      /\ \A k \in 1 .. Len(log) : new[k] = IF k = p THEN [log[p] EXCEPT !.full = TRUE] ELSE log[k]
  BY <1>2, <1>3, ExceptSeq
<1>5. new[p] = [log[p] EXCEPT !.full = TRUE]
  BY <1>4
<1>6. /\ new[p].full = TRUE
      /\ new[p].tag = log[p].tag /\ new[p].type = log[p].type /\ new[p].ref = log[p].ref
  BY <1>1, <1>5 DEF Record
<1> QED BY <1>4, <1>6 DEF new

LEMMA OverwriteTag ==
  ASSUME NEW log \in Seq(Record), NEW p \in 1 .. Len(log)
  PROVE  LET new == [log EXCEPT ![p].tag = "%"]
         IN  /\ Len(new) = Len(log)
             /\ \A k \in 1 .. Len(log) : k # p => new[k] = log[k]
             /\ new[p].tag = "%"
             /\ new[p].full = log[p].full /\ new[p].type = log[p].type /\ new[p].ref = log[p].ref
<1> DEFINE new == [log EXCEPT ![p].tag = "%"]
<1>1. log[p] \in Record
  OBVIOUS
<1>2. [log[p] EXCEPT !.tag = "%"] \in Record
  BY <1>1, RecordUpdate
<1>3. new = [log EXCEPT ![p] = [log[p] EXCEPT !.tag = "%"]]
  OBVIOUS
<1> HIDE DEF new
<1>4. /\ Len(new) = Len(log)
      /\ \A k \in 1 .. Len(log) : new[k] = IF k = p THEN [log[p] EXCEPT !.tag = "%"] ELSE log[k]
  BY <1>2, <1>3, ExceptSeq
<1>5. new[p] = [log[p] EXCEPT !.tag = "%"]
  BY <1>4
<1>6. /\ new[p].tag = "%"
      /\ new[p].full = log[p].full /\ new[p].type = log[p].type /\ new[p].ref = log[p].ref
  BY <1>1, <1>5 DEF Record
<1> QED BY <1>4, <1>6 DEF new

LEMMA AgreeHeader ==
  ASSUME NEW j \in Journal, NEW new \in Journal, Agree(j, 1, 1),
         new.nb = j.nb + 1, new.idx = j.idx,
         new.log = [j.log EXCEPT ![Len(j.log)].full = TRUE]
  PROVE  Agree(new, 0, 0)
<1>1. /\ j.nb \in Nat /\ j.log \in Seq(Record)
      /\ Len(j.log) = j.nb + 1 /\ Len(j.log) \in 1 .. Len(j.log)
  BY JournalFields DEF Agree
<1>2. /\ Len(new.log) = Len(j.log)
      /\ \A k \in 1 .. Len(j.log) : k # Len(j.log) => new.log[k] = j.log[k]
      /\ new.log[Len(j.log)].full = TRUE
  BY <1>1, OverwriteFull
<1>3. ASSUME NEW k \in 1 .. new.nb PROVE new.log[k].full
  <2>1. CASE k \in 1 .. j.nb
    BY <1>1, <1>2, <2>1 DEF Agree
  <2>2. CASE k = j.nb + 1
    BY <1>1, <1>2, <2>2
  <2> QED BY <1>1, <2>1, <2>2
<1> QED BY <1>1, <1>2, <1>3 DEF Agree

LEMMA AgreeMark ==
  ASSUME NEW j \in Journal, NEW new \in Journal, Agree(j, 0, 0), NEW p \in 1 .. j.nb,
         new.nb = j.nb, new.idx = j.idx, new.log = [j.log EXCEPT ![p].tag = "%"]
  PROVE  Agree(new, 0, 0)
<1>1. j.nb \in Nat /\ j.log \in Seq(Record) /\ Len(j.log) = j.nb
  BY JournalFields DEF Agree
<1>2. /\ Len(new.log) = Len(j.log)
      /\ \A k \in 1 .. Len(j.log) : k # p => new.log[k] = j.log[k]
      /\ new.log[p].full = j.log[p].full
  BY <1>1, OverwriteTag
<1>3. ASSUME NEW k \in 1 .. new.nb PROVE new.log[k].full
  <2>1. CASE k # p
    BY <1>1, <1>2, <2>1 DEF Agree
  <2>2. CASE k = p
    BY <1>1, <1>2, <2>2 DEF Agree
  <2> QED BY <2>1, <2>2
<1> QED BY <1>1, <1>2, <1>3 DEF Agree

-----------------------------------------------------------------------------
(* What a step keeps of the records: every patch that counted stays where  *)
(* it is, and nothing but its tag can have changed.                        *)
Keeps(js, new) ==
  /\ Len(js) <= Len(new)
  /\ \A i \in 1 .. Len(js) :
       /\ new[i].first = js[i].first
       /\ new[i].nb >= js[i].nb
       /\ \A k \in 1 .. js[i].nb :
            /\ new[i].log[k].type = js[i].log[k].type
            /\ new[i].log[k].ref = js[i].log[k].ref
            /\ new[i].log[k].tag \in {js[i].log[k].tag, "%"}

LEMMA RecordedKept ==
  ASSUME NEW js \in Seq(Journal), NEW new \in Seq(Journal), NEW hs,
         Recorded(js, hs), Keeps(js, new)
  PROVE  Recorded(new, hs)
<1> SUFFICES ASSUME NEW h \in hs
             PROVE  \E i \in 1 .. Len(new) : \E k \in 1 .. new[i].nb :
                      /\ h.version = new[i].first + k - 1
                      /\ new[i].log[k].type = h.type
                      /\ new[i].log[k].ref = h.ref
                      /\ new[i].log[k].tag \in {h.tag, "%"}
  BY DEF Recorded
<1>0. PICK i \in 1 .. Len(js) : \E k \in 1 .. js[i].nb :
        /\ h.version = js[i].first + k - 1
        /\ js[i].log[k].type = h.type
        /\ js[i].log[k].ref = h.ref
        /\ js[i].log[k].tag \in {h.tag, "%"}
  BY DEF Recorded
<1>1. PICK k \in 1 .. js[i].nb :
        /\ h.version = js[i].first + k - 1
        /\ js[i].log[k].type = h.type
        /\ js[i].log[k].ref = h.ref
        /\ js[i].log[k].tag \in {h.tag, "%"}
  BY <1>0
<1>2. i \in 1 .. Len(new)
  BY DEF Keeps
<1>3. js[i].nb \in Nat /\ new[i].nb \in Nat
  <2>1. js[i] \in Journal /\ new[i] \in Journal
    BY <1>2
  <2> QED BY <2>1, JournalFields
<1>4. k \in 1 .. new[i].nb
  BY <1>3 DEF Keeps
<1>5. /\ new[i].first = js[i].first
      /\ new[i].log[k].type = js[i].log[k].type
      /\ new[i].log[k].ref = js[i].log[k].ref
      /\ new[i].log[k].tag \in {js[i].log[k].tag, "%"}
  BY DEF Keeps
<1> QED BY <1>1, <1>2, <1>4, <1>5

(* When only the last journal changes, and its first version stays, the    *)
(* order of the journals stays too.                                        *)
LEMMA LastChanged ==
  ASSUME NEW js \in Seq(Journal), NEW new \in Seq(Journal),
         Len(js) >= 1, Len(new) = Len(js),
         \A i \in 1 .. Len(js) - 1 : new[i] = js[i],
         new[Len(js)].first = js[Len(js)].first
  PROVE  /\ Continues(js) => Continues(new)
         /\ Ordered(js) => Ordered(new)
<1>1. Len(js) \in Nat
  OBVIOUS
<1>2. ASSUME NEW i \in 1 .. Len(js) PROVE new[i].first = js[i].first
  <2>1. i \in 1 .. Len(js) - 1 \/ i = Len(js)
    BY <1>1
  <2> QED BY <2>1
<1>3. ASSUME Continues(js) PROVE Continues(new)
  <2> SUFFICES ASSUME NEW i \in 1 .. Len(js)
               PROVE  new[i].first = IF i = 1 THEN 1 ELSE new[i - 1].first + new[i - 1].nb
    BY DEF Continues
  <2>1. js[i].first = IF i = 1 THEN 1 ELSE js[i - 1].first + js[i - 1].nb
    BY <1>3 DEF Continues
  <2>2. CASE i = 1
    BY <1>2, <2>1, <2>2
  <2>3. CASE i # 1
    <3>1. i - 1 \in 1 .. Len(js) - 1
      BY <1>1, <2>3
    <3>2. new[i - 1] = js[i - 1]
      BY <3>1
    <3> QED BY <1>2, <2>1, <2>3, <3>2
  <2> QED BY <2>2, <2>3
<1>4. ASSUME Ordered(js) PROVE Ordered(new)
  <2> SUFFICES ASSUME NEW i \in 1 .. Len(js), NEW m \in 1 .. Len(js), i < m
               PROVE  new[i].first + new[i].nb <= new[m].first
    BY DEF Ordered
  <2>1. i \in 1 .. Len(js) - 1
    BY <1>1
  <2>2. new[i] = js[i]
    BY <2>1
  <2>3. new[m].first = js[m].first
    BY <1>2
  <2> QED BY <1>4, <2>2, <2>3 DEF Ordered
<1> QED BY <1>3, <1>4

(* A new journal that starts after the last version continues the list.    *)
LEMMA NewLast ==
  ASSUME NEW js \in Seq(Journal), NEW pc, AheadIdx(pc) = 0, AheadLog(pc) = 0,
         AllAgree(js, pc), Continues(js), Ordered(js)
  PROVE  LET new == last_jnl(js)
         IN  /\ \A i \in 1 .. Len(new) : Agree(new[i], 0, 0)
             /\ Continues(new)
             /\ Ordered(new)
             /\ Keeps(js, new)
<1> DEFINE new == last_jnl(js)
           n == Len(js)
<1>1. n \in Nat /\ new \in Seq(Journal)
  BY LastJnl
<1>2. \A i \in 1 .. n : Agree(js[i], 0, 0)
  <2> SUFFICES ASSUME NEW i \in 1 .. n PROVE Agree(js[i], 0, 0)
    OBVIOUS
  <2>1. i \in 1 .. n - 1 \/ (i = n /\ n >= 1)
    BY <1>1
  <2> QED BY <2>1 DEF AllAgree
<1>3. \A i \in 1 .. n : js[i] \in Journal /\ js[i].first \in Nat /\ js[i].nb \in Nat
  BY JournalFields
<1>4. CASE new = js
  <2>1. Keeps(js, js)
    BY <1>1, <1>3 DEF Keeps
  <2> QED BY <1>2, <1>4, <2>1
<1>5. CASE /\ Len(new) = n + 1
           /\ \A i \in 1 .. n : new[i] = js[i]
           /\ Last(new) = NewJnl(IF js = <<>> THEN 1 ELSE Last(js).first + Last(js).nb)
  <2> HIDE DEF new
  <2>1. /\ new[n + 1].first = IF n = 0 THEN 1 ELSE js[n].first + js[n].nb
        /\ new[n + 1].nb = 0 /\ new[n + 1].idx = <<>> /\ new[n + 1].log = <<>>
    BY <1>1, <1>5 DEF Last, NewJnl
  <2>2. Agree(new[n + 1], 0, 0)
    BY <2>1 DEF Agree
  <2>3. \A i \in 1 .. Len(new) : Agree(new[i], 0, 0)
    BY <1>1, <1>2, <1>5, <2>2
  <2>4. Continues(new)
    <3> SUFFICES ASSUME NEW i \in 1 .. n + 1
                 PROVE  new[i].first = IF i = 1 THEN 1 ELSE new[i - 1].first + new[i - 1].nb
      BY <1>5 DEF Continues
    <3>1. CASE i \in 1 .. n
      <4>1. i # 1 => i - 1 \in 1 .. n
        BY <1>1, <3>1
      <4> QED BY <1>5, <3>1, <4>1 DEF Continues
    <3>2. CASE i = n + 1
      <4>1. n # 0 => n \in 1 .. n /\ i - 1 = n
        BY <1>1, <3>2
      <4> QED BY <1>1, <1>5, <2>1, <3>2, <4>1
    <3> QED BY <1>1, <3>1, <3>2
  <2>5. Ordered(new)
    <3> SUFFICES ASSUME NEW i \in 1 .. n + 1, NEW m \in 1 .. n + 1, i < m
                 PROVE  new[i].first + new[i].nb <= new[m].first
      BY <1>5 DEF Ordered
    <3>1. i \in 1 .. n
      BY <1>1
    <3>2. CASE m \in 1 .. n
      BY <1>5, <3>1, <3>2 DEF Ordered
    <3>3. CASE m = n + 1
      <4>1. n \in 1 .. n /\ new[m].first = js[n].first + js[n].nb /\ new[i] = js[i]
        BY <1>1, <1>5, <2>1, <3>1, <3>3
      <4>2. CASE i = n
        BY <1>3, <4>1, <4>2
      <4>3. CASE i < n
        <5>1. js[i].first + js[i].nb <= js[n].first
          BY <3>1, <4>1, <4>3 DEF Ordered
        <5>2. /\ js[i].first \in Nat /\ js[i].nb \in Nat
              /\ js[n].first \in Nat /\ js[n].nb \in Nat
          BY <1>3, <3>1, <4>1
        <5> QED BY <4>1, <5>1, <5>2
      <4> QED BY <1>1, <3>1, <4>2, <4>3
    <3> QED BY <1>1, <3>2, <3>3
  <2>6. Keeps(js, new)
    BY <1>1, <1>3, <1>5 DEF Keeps
  <2> QED BY <2>3, <2>4, <2>5, <2>6 DEF new
<1> QED BY <1>1, <1>4, <1>5, LastJnl

(* A step that changes only the last journal, and of it nothing that       *)
(* counted, keeps the records, and the agreement of the other journals.    *)
LEMMA LastKeeps ==
  ASSUME NEW js \in Seq(Journal), NEW new \in Seq(Journal),
         Len(js) >= 1, Len(new) = Len(js),
         \A i \in 1 .. Len(js) - 1 : new[i] = js[i],
         new[Len(js)].first = js[Len(js)].first,
         new[Len(js)].nb >= js[Len(js)].nb,
         \A k \in 1 .. js[Len(js)].nb :
            /\ new[Len(js)].log[k].type = js[Len(js)].log[k].type
            /\ new[Len(js)].log[k].ref = js[Len(js)].log[k].ref
            /\ new[Len(js)].log[k].tag = js[Len(js)].log[k].tag
  PROVE  Keeps(js, new)
<1> DEFINE n == Len(js)
<1>1. n \in Nat
  OBVIOUS
<1> SUFFICES ASSUME NEW i \in 1 .. n
             PROVE  /\ new[i].first = js[i].first
                    /\ new[i].nb >= js[i].nb
                    /\ \A k \in 1 .. js[i].nb :
                         /\ new[i].log[k].type = js[i].log[k].type
                         /\ new[i].log[k].ref = js[i].log[k].ref
                         /\ new[i].log[k].tag \in {js[i].log[k].tag, "%"}
  BY <1>1 DEF Keeps
<1>2. CASE i = n
  BY <1>2
<1>3. CASE i \in 1 .. n - 1
  <2>1. new[i] = js[i]
    BY <1>3
  <2>2. js[i] \in Journal
    OBVIOUS
  <2>3. js[i].nb \in Nat
    BY <2>2, JournalFields
  <2> QED BY <2>1, <2>3
<1> QED BY <1>1, <1>2, <1>3, SMTT(30)

LEMMA LastAgrees ==
  ASSUME NEW js \in Seq(Journal), NEW new \in Seq(Journal), NEW pc, NEW next,
         Len(js) >= 1, Len(new) = Len(js),
         \A i \in 1 .. Len(js) - 1 : new[i] = js[i],
         AllAgree(js, pc), Agree(new[Len(js)], AheadIdx(next), AheadLog(next))
  PROVE  AllAgree(new, next)
BY DEF AllAgree

-----------------------------------------------------------------------------
(* The actions, one lemma each.                                            *)

(* What the writer's local state becomes.                                  *)
LEMMA WriterGoto ==
  ASSUME TypeOK, NEW pc, wr' = [wr EXCEPT !.pc = pc]
  PROVE  wr'.pc = pc /\ wr'.hdr = wr.hdr /\ wr'.act = wr.act
BY DEF TypeOK

LEMMA FilesInit == Init => FilesInv
BY DEF Init, FilesInv, AllAgree, Continues, Ordered, Pending, Recorded, NoMark, Idle

(* Steps that touch neither the journals nor the writer.                   *)
LEMMA FilesSame ==
  ASSUME FilesInv, UNCHANGED <<jnls, wr, hist>> PROVE FilesInv'
BY DEF FilesInv, AllAgree, Continues, Ordered, Pending, Recorded, NoMark,
       Agree, AheadIdx, AheadLog

LEMMA FilesMove ==
  ASSUME FilesInv, UNCHANGED <<jnls, hist>>,
         AheadIdx(wr.pc) = AheadIdx(wr'.pc), AheadLog(wr.pc) = AheadLog(wr'.pc),
         wr'.pc # "hdr", NoMark(wr')
  PROVE  FilesInv'
<1>1. AllAgree(jnls', wr'.pc)
  BY DEF FilesInv, AllAgree
<1>2. Continues(jnls') /\ Ordered(jnls') /\ Recorded(jnls', hist')
  BY DEF FilesInv
<1>3. Pending(jnls', wr')
  BY DEF Pending
<1> QED BY <1>1, <1>2, <1>3 DEF FilesInv

LEMMA FilesRequests ==
  ASSUME TypeInv, FilesInv, ~WithMarks, Requests PROVE FilesInv'
<1>1. ASSUME NEW act, NEW hdr, NEW n, mdir_patch(act, hdr, n), hdr.type # "mark"
      PROVE  FilesInv'
  <2>1. /\ wr.pc = "idle" /\ UNCHANGED <<jnls, hist>>
        /\ wr'.pc \in {"bidx", "prep"} /\ wr'.hdr = hdr
    BY <1>1 DEF mdir_patch, At
  <2> QED BY <1>1, <2>1, FilesMove DEF AheadIdx, AheadLog, NoMark
<1>2. ASSUME NEW m, NEW n, mdir_patch("+", [type |-> "msg", ref |-> m], n)
      PROVE  FilesInv'
  BY <1>1, <1>2
<1>3. ASSUME NEW t, NEW n, mdir_patch("-", [type |-> "del", ref |-> t], n)
      PROVE  FilesInv'
  BY <1>1, <1>3
<1> QED BY <1>2, <1>3 DEF Requests

LEMMA FilesWriteIndex ==
  ASSUME TypeInv, FilesInv, WriteIndex PROVE FilesInv'
<1> DEFINE js == last_jnl(jnls)
           n == Len(js)
           e == [pos |-> Len(js[n].log) + 1, mark |-> 0]
<1>1. /\ js \in Seq(Journal) /\ n \in Nat /\ n >= 1 /\ e \in IndexEntry
      /\ jnls' \in Seq(Journal) /\ Len(jnls') = n
      /\ \A i \in 1 .. n - 1 : jnls'[i] = js[i]
      /\ jnls'[n].first = js[n].first
      /\ jnls'[n].nb = js[n].nb
      /\ jnls'[n].idx = Append(js[n].idx, e)
      /\ jnls'[n].log = js[n].log
  BY WriteIndexEffect
<1>2. wr.pc \in {"bidx", "idx"} /\ wr'.pc \in {"blog", "tag"} /\ wr'.hdr = wr.hdr /\ hist' = hist
  BY WriterGoto DEF WriteIndex, At, Goto, TypeInv, TypeOK
<1>3. /\ \A i \in 1 .. n : Agree(js[i], 0, 0)
      /\ Continues(js) /\ Ordered(js) /\ Keeps(jnls, js)
  <2>1. AheadIdx(wr.pc) = 0 /\ AheadLog(wr.pc) = 0
    BY <1>2 DEF AheadIdx, AheadLog
  <2> QED BY <2>1, NewLast DEF FilesInv, TypeInv, TypeOK
<1>4. Recorded(js, hist)
  BY <1>1, <1>3, RecordedKept DEF FilesInv, TypeInv, TypeOK
<1>5. e.pos = Len(js[n].log) + 1
  OBVIOUS
<1> HIDE DEF js, e
<1>6. js[n] \in Journal /\ jnls'[n] \in Journal
  BY <1>1
<1>7. js[n].nb \in Nat /\ AheadIdx(wr'.pc) = 1 /\ AheadLog(wr'.pc) = 0
  BY <1>2, <1>6, JournalFields DEF AheadIdx, AheadLog
<1>8. Agree(jnls'[n], 1, 0)
  <2>1. Agree(js[n], 0, 0)
    BY <1>1, <1>3
  <2> QED BY <1>1, <1>5, <1>6, <2>1, AgreeIndex
<1>9. AllAgree(jnls', wr'.pc)
  BY <1>1, <1>3, <1>7, <1>8 DEF AllAgree
<1>10. Continues(jnls') /\ Ordered(jnls')
  BY <1>1, <1>3, LastChanged
<1>11. Recorded(jnls', hist')
  <2>1. Keeps(js, jnls')
    <3>1. jnls'[n].nb >= js[n].nb
      BY <1>1, <1>7
    <3> QED BY <1>1, <3>1, LastKeeps
  <2> QED BY <1>1, <1>2, <1>4, <2>1, RecordedKept
<1>12. Pending(jnls', wr') /\ NoMark(wr')
  BY <1>2 DEF Pending, NoMark, FilesInv
<1> QED BY <1>9, <1>10, <1>11, <1>12 DEF FilesInv

(* The other writes append to or complete the last journal, so they share  *)
(* the shape of this lemma.                                                *)
LEMMA FilesLastStep ==
  ASSUME TypeInv, FilesInv,
         Len(jnls) \in Nat, Len(jnls) >= 1, jnls' \in Seq(Journal), Len(jnls') = Len(jnls),
         \A i \in 1 .. Len(jnls) - 1 : jnls'[i] = jnls[i],
         jnls'[Len(jnls)].first = jnls[Len(jnls)].first,
         jnls'[Len(jnls)].nb >= jnls[Len(jnls)].nb,
         \A k \in 1 .. jnls[Len(jnls)].nb :
            /\ jnls'[Len(jnls)].log[k].type = jnls[Len(jnls)].log[k].type
            /\ jnls'[Len(jnls)].log[k].ref = jnls[Len(jnls)].log[k].ref
            /\ jnls'[Len(jnls)].log[k].tag = jnls[Len(jnls)].log[k].tag,
         Agree(jnls'[Len(jnls)], AheadIdx(wr'.pc), AheadLog(wr'.pc))
  PROVE  /\ AllAgree(jnls', wr'.pc)
         /\ Continues(jnls') /\ Ordered(jnls')
         /\ Recorded(jnls', hist)
<1>1. jnls \in Seq(Journal) /\ AllAgree(jnls, wr.pc) /\ Recorded(jnls, hist)
      /\ Continues(jnls) /\ Ordered(jnls)
  BY DEF FilesInv, TypeInv, TypeOK
<1>2. AllAgree(jnls', wr'.pc)
  BY <1>1, LastAgrees
<1>3. Continues(jnls') /\ Ordered(jnls')
  BY <1>1, LastChanged
<1>4. Keeps(jnls, jnls')
  BY <1>1, LastKeeps
<1>5. Recorded(jnls', hist)
  BY <1>1, <1>4, RecordedKept
<1> QED BY <1>2, <1>3, <1>5

LEMMA FilesWriteBlank ==
  ASSUME TypeInv, FilesInv, WriteBlank PROVE FilesInv'
<1> DEFINE n == Len(jnls)
           r == [tag |-> "%", type |-> "none", ref |-> 0, full |-> TRUE]
<1>1. /\ n \in Nat /\ n >= 1 /\ r \in Record
      /\ jnls' \in Seq(Journal) /\ Len(jnls') = n
      /\ \A i \in 1 .. n - 1 : jnls'[i] = jnls[i]
      /\ jnls'[n].first = jnls[n].first
      /\ jnls'[n].nb = jnls[n].nb + 1
      /\ jnls'[n].idx = jnls[n].idx
      /\ jnls'[n].log = Append(jnls[n].log, r)
  BY WriteBlankEffect
<1>2. /\ wr.pc = "blog" /\ wr'.pc \in {"bidx", "prep"} /\ wr'.hdr = wr.hdr /\ hist' = hist
      /\ r.full
  BY DEF WriteBlank, At
<1> HIDE DEF r
<1>3. /\ AheadIdx(wr.pc) = 1 /\ AheadLog(wr.pc) = 0
      /\ AheadIdx(wr'.pc) = 0 /\ AheadLog(wr'.pc) = 0
  BY <1>2 DEF AheadIdx, AheadLog
<1>4. jnls[n] \in Journal /\ jnls'[n] \in Journal
  BY <1>1 DEF TypeInv, TypeOK
<1>5. /\ jnls[n].nb \in Nat /\ jnls[n].log \in Seq(Record)
      /\ Len(jnls[n].log) = jnls[n].nb /\ Agree(jnls[n], 1, 0)
  BY <1>1, <1>3, <1>4, JournalFields DEF FilesInv, AllAgree, Agree
<1>6. Agree(jnls'[n], 0, 0)
  BY <1>1, <1>2, <1>4, <1>5, AgreeBlank
<1>7. \A k \in 1 .. jnls[n].nb : jnls'[n].log[k] = jnls[n].log[k]
  BY <1>1, <1>5
<1>8. /\ AllAgree(jnls', wr'.pc) /\ Continues(jnls') /\ Ordered(jnls')
      /\ Recorded(jnls', hist)
  <2>1. jnls'[n].nb >= jnls[n].nb
    BY <1>1, <1>5
  <2> QED BY <1>1, <1>3, <1>6, <1>7, <2>1, FilesLastStep
<1>9. Pending(jnls', wr') /\ NoMark(wr')
  BY <1>2 DEF Pending, NoMark, FilesInv
<1> QED BY <1>2, <1>8, <1>9 DEF FilesInv

LEMMA FilesWriteTag ==
  ASSUME TypeInv, FilesInv, WriteTag PROVE FilesInv'
<1> DEFINE n == Len(jnls)
           r == [tag |-> wr.act, type |-> wr.hdr.type, ref |-> wr.hdr.ref, full |-> FALSE]
<1>1. /\ n \in Nat /\ n >= 1 /\ r \in Record
      /\ jnls' \in Seq(Journal) /\ Len(jnls') = n
      /\ \A i \in 1 .. n - 1 : jnls'[i] = jnls[i]
      /\ jnls'[n].first = jnls[n].first
      /\ jnls'[n].nb = jnls[n].nb
      /\ jnls'[n].idx = jnls[n].idx
      /\ jnls'[n].log = Append(jnls[n].log, r)
  BY WriteTagEffect
<1>2. /\ wr.pc = "tag" /\ wr'.pc = "hdr" /\ wr'.hdr = wr.hdr /\ wr'.act = wr.act
      /\ hist' = hist
  BY WriterGoto DEF WriteTag, At, Goto, TypeInv
<1>3. r.tag = wr.act /\ r.type = wr.hdr.type /\ r.ref = wr.hdr.ref
  OBVIOUS
<1> HIDE DEF r
<1>4. /\ AheadIdx(wr.pc) = 1 /\ AheadLog(wr.pc) = 0
      /\ AheadIdx(wr'.pc) = 1 /\ AheadLog(wr'.pc) = 1
  BY <1>2 DEF AheadIdx, AheadLog
<1>5. jnls[n] \in Journal /\ jnls'[n] \in Journal
  BY <1>1 DEF TypeInv, TypeOK
<1>6. /\ jnls[n].nb \in Nat /\ jnls[n].log \in Seq(Record)
      /\ Len(jnls[n].log) = jnls[n].nb /\ Agree(jnls[n], 1, 0)
  BY <1>1, <1>4, <1>5, JournalFields DEF FilesInv, AllAgree, Agree
<1>7. Agree(jnls'[n], 1, 1)
  BY <1>1, <1>5, <1>6, AgreeTag
<1>8. \A k \in 1 .. jnls[n].nb : jnls'[n].log[k] = jnls[n].log[k]
  BY <1>1, <1>6
<1>9. /\ AllAgree(jnls', wr'.pc) /\ Continues(jnls') /\ Ordered(jnls')
      /\ Recorded(jnls', hist)
  <2>1. jnls'[n].nb >= jnls[n].nb
    BY <1>1, <1>6
  <2> QED BY <1>1, <1>4, <1>7, <1>8, <2>1, FilesLastStep
<1>10. Pending(jnls', wr')
  <2>1. Len(jnls'[n].log) = Len(jnls[n].log) + 1 /\ jnls'[n].log[Len(jnls[n].log) + 1] = r
    BY <1>1, <1>6
  <2> QED BY <1>1, <1>2, <1>3, <2>1 DEF Pending
<1>11. NoMark(wr')
  BY <1>2 DEF NoMark, FilesInv
<1> QED BY <1>2, <1>9, <1>10, <1>11 DEF FilesInv

(* The header completes the record, which counts from here on: this is     *)
(* where a version is recorded.                                            *)
LEMMA FilesWriteHeader ==
  ASSUME TypeInv, FilesInv, WriteHeader PROVE FilesInv'
<1> DEFINE n == Len(jnls)
           p == Len(jnls[n].log)
           h == [version |-> mdir_last_version(jnls) + 1,
                 tag |-> wr.act, type |-> wr.hdr.type, ref |-> wr.hdr.ref]
<1>1. /\ n \in Nat /\ n >= 1
      /\ jnls' \in Seq(Journal) /\ Len(jnls') = n
      /\ \A i \in 1 .. n - 1 : jnls'[i] = jnls[i]
      /\ jnls'[n].first = jnls[n].first
      /\ jnls'[n].nb = jnls[n].nb + 1
      /\ jnls'[n].idx = jnls[n].idx
      /\ jnls'[n].log = [jnls[n].log EXCEPT ![p].full = TRUE]
  BY WriteHeaderEffect
<1>2. wr.pc = "hdr" /\ wr' = Idle /\ hist' = hist \cup {h}
  BY DEF WriteHeader, At, FilesInv, NoMark
<1>3. wr'.pc = "idle" /\ wr'.hdr.type = "none"
  BY <1>2 DEF Idle
<1>4. /\ AheadIdx(wr.pc) = 1 /\ AheadLog(wr.pc) = 1
      /\ AheadIdx(wr'.pc) = 0 /\ AheadLog(wr'.pc) = 0
  BY <1>2, <1>3 DEF AheadIdx, AheadLog
<1>5. jnls[n] \in Journal /\ jnls'[n] \in Journal
  BY <1>1 DEF TypeInv, TypeOK
<1>6. /\ jnls[n].first \in Nat /\ jnls[n].nb \in Nat /\ jnls[n].log \in Seq(Record)
      /\ p = jnls[n].nb + 1 /\ Agree(jnls[n], 1, 1)
  BY <1>1, <1>4, <1>5, JournalFields DEF FilesInv, AllAgree, Agree
<1>7. p \in 1 .. Len(jnls[n].log)
  BY <1>6
<1>8. /\ \A k \in 1 .. p : k # p => jnls'[n].log[k] = jnls[n].log[k]
      /\ jnls'[n].log[p].tag = jnls[n].log[p].tag
      /\ jnls'[n].log[p].type = jnls[n].log[p].type
      /\ jnls'[n].log[p].ref = jnls[n].log[p].ref
  BY <1>1, <1>6, <1>7, OverwriteFull
<1>9. Agree(jnls'[n], 0, 0)
  BY <1>1, <1>5, <1>6, AgreeHeader
<1>10. ASSUME NEW k \in 1 .. jnls[n].nb PROVE jnls'[n].log[k] = jnls[n].log[k]
  <2>1. k \in 1 .. p /\ k # p
    BY <1>6
  <2> QED BY <1>8, <2>1
<1>11. /\ AllAgree(jnls', wr'.pc) /\ Continues(jnls') /\ Ordered(jnls')
       /\ Recorded(jnls', hist)
  <2>1. jnls'[n].nb >= jnls[n].nb
    BY <1>1, <1>6
  <2> QED BY <1>1, <1>4, <1>9, <1>10, <2>1, FilesLastStep
<1>12. Recorded(jnls', hist')
  <2>1. /\ n \in 1 .. Len(jnls') /\ p \in 1 .. jnls'[n].nb
    BY <1>1, <1>6
  <2>2. h.version = jnls'[n].first + p - 1
    BY <1>1, <1>6, LastVersion
  <2>3. /\ jnls'[n].log[p].type = h.type
        /\ jnls'[n].log[p].ref = h.ref
        /\ jnls'[n].log[p].tag \in {h.tag, "%"}
    BY <1>2, <1>8 DEF FilesInv, Pending
  <2> HIDE DEF h, p, n
  <2> QED BY <1>2, <1>11, <2>1, <2>2, <2>3 DEF Recorded
<1>13. Pending(jnls', wr') /\ NoMark(wr')
  BY <1>3 DEF Pending, NoMark
<1> QED BY <1>11, <1>12, <1>13 DEF FilesInv

(* jnl_mark_del changes one tag, in a journal that need not be the last.   *)
LEMMA FilesPrepareRem ==
  ASSUME TypeInv, FilesInv, PrepareRem PROVE FilesInv'
<1> DEFINE i == find_jnl(wr.hdr.ref)
           k == wr.hdr.ref - jnls[i].first + 1
<1>1. wr.pc = "prep" /\ hist' = hist /\ AheadIdx(wr.pc) = 0 /\ AheadLog(wr.pc) = 0
  BY DEF PrepareRem, At, AheadIdx, AheadLog
<1>2. CASE wr' = Idle /\ UNCHANGED jnls
  <2>1. wr'.pc = "idle" /\ wr'.hdr.type = "none"
    BY <1>2 DEF Idle
  <2> QED BY <1>1, <1>2, <2>1, FilesMove DEF AheadIdx, AheadLog, NoMark
<1>3. CASE /\ i \in 1 .. Len(jnls)
           /\ jnls[i].first <= wr.hdr.ref /\ jnls[i].first + jnls[i].nb > wr.hdr.ref
           /\ jnls' \in Seq(Journal) /\ Len(jnls') = Len(jnls)
           /\ \A m \in 1 .. Len(jnls) : m # i => jnls'[m] = jnls[m]
           /\ jnls'[i].first = jnls[i].first
           /\ jnls'[i].nb = jnls[i].nb
           /\ jnls'[i].idx = jnls[i].idx
           /\ jnls'[i].log = [jnls[i].log EXCEPT ![Offset(jnls[i], k)].tag = "%"]
           /\ wr' = [wr EXCEPT !.pc = "idx"]
  <2> HIDE DEF i
  <2>1. wr'.pc = "idx" /\ wr'.hdr = wr.hdr /\ AheadIdx(wr'.pc) = 0 /\ AheadLog(wr'.pc) = 0
    BY <1>3, WriterGoto DEF TypeInv, AheadIdx, AheadLog
  <2>2. jnls \in Seq(Journal) /\ Len(jnls) \in Nat /\ jnls[i] \in Journal /\ jnls'[i] \in Journal
    BY <1>3 DEF TypeInv, TypeOK
  <2>3. \A m \in 1 .. Len(jnls) : Agree(jnls[m], 0, 0)
    <3> SUFFICES ASSUME NEW m \in 1 .. Len(jnls) PROVE Agree(jnls[m], 0, 0)
      OBVIOUS
    <3>1. m \in 1 .. Len(jnls) - 1 \/ (m = Len(jnls) /\ Len(jnls) >= 1)
      BY <2>2
    <3> QED BY <1>1, <3>1 DEF FilesInv, AllAgree
  <2>4. /\ jnls[i].first \in Nat /\ jnls[i].nb \in Nat /\ jnls[i].log \in Seq(Record)
        /\ Len(jnls[i].log) = jnls[i].nb /\ Len(jnls[i].idx) = jnls[i].nb
    <3>1. /\ jnls[i].first \in Nat /\ jnls[i].nb \in Nat /\ jnls[i].log \in Seq(Record)
          /\ Len(jnls[i].log) \in Nat /\ Len(jnls[i].idx) \in Nat
      BY <2>2, JournalFields
    <3>2. Agree(jnls[i], 0, 0)
      BY <1>3, <2>3
    <3> QED BY <3>1, <3>2 DEF Agree
  <2>5. wr.hdr.ref \in Nat
    BY DEF TypeInv, TypeOK, Header
  <2>6. k \in 1 .. jnls[i].nb
    BY <1>3, <2>4, <2>5
  <2> HIDE DEF k
  <2>7. Offset(jnls[i], k) = k
    BY <1>3, <2>3, <2>4, <2>6 DEF Offset, Agree
  <2>8. /\ \A m \in 1 .. jnls[i].nb : m # k => jnls'[i].log[m] = jnls[i].log[m]
        /\ jnls'[i].log[k].tag = "%"
        /\ jnls'[i].log[k].type = jnls[i].log[k].type
        /\ jnls'[i].log[k].ref = jnls[i].log[k].ref
    BY <1>3, <2>4, <2>6, <2>7, OverwriteTag
  <2>9. Agree(jnls'[i], 0, 0)
    BY <1>3, <2>2, <2>3, <2>4, <2>6, <2>7, AgreeMark
  <2>10. \A m \in 1 .. Len(jnls) : Agree(jnls'[m], 0, 0)
    BY <1>3, <2>3, <2>9
  <2>11. AllAgree(jnls', wr'.pc)
    BY <1>3, <2>1, <2>2, <2>10 DEF AllAgree
  <2>12. \A m \in 1 .. Len(jnls) : jnls'[m].first = jnls[m].first /\ jnls'[m].nb = jnls[m].nb
    BY <1>3
  <2>13. Continues(jnls')
    <3> SUFFICES ASSUME NEW m \in 1 .. Len(jnls)
                 PROVE  jnls'[m].first = IF m = 1 THEN 1 ELSE jnls'[m - 1].first + jnls'[m - 1].nb
      BY <1>3 DEF Continues
    <3>1. m = 1 \/ m - 1 \in 1 .. Len(jnls)
      BY <2>2
    <3>2. jnls[m].first = IF m = 1 THEN 1 ELSE jnls[m - 1].first + jnls[m - 1].nb
      BY DEF FilesInv, Continues
    <3> QED BY <2>12, <3>1, <3>2
  <2>14. Ordered(jnls')
    BY <1>3, <2>12 DEF FilesInv, Ordered
  <2>15. Keeps(jnls, jnls')
    <3>1. ASSUME NEW m \in 1 .. Len(jnls)
          PROVE  /\ jnls'[m].nb >= jnls[m].nb
                 /\ \A l \in 1 .. jnls[m].nb :
                      /\ jnls'[m].log[l].type = jnls[m].log[l].type
                      /\ jnls'[m].log[l].ref = jnls[m].log[l].ref
                      /\ jnls'[m].log[l].tag \in {jnls[m].log[l].tag, "%"}
      <4>1. jnls[m] \in Journal
        BY <2>2
      <4>2. jnls[m].nb \in Nat
        BY <4>1, JournalFields
      <4>3. CASE m = i
        BY <2>8, <2>12, <4>2, <4>3
      <4>4. CASE m # i
        BY <1>3, <4>2, <4>4
      <4> QED BY <4>3, <4>4
    <3>2. Len(jnls) <= Len(jnls')
      BY <1>3, <2>2
    <3> QED BY <2>12, <3>1, <3>2, ZenonT(40) DEF Keeps
  <2>16. Recorded(jnls', hist')
    BY <1>1, <1>3, <2>2, <2>15, RecordedKept DEF FilesInv
  <2>17. Pending(jnls', wr') /\ NoMark(wr')
    BY <2>1 DEF Pending, NoMark, FilesInv
  <2> QED BY <2>11, <2>13, <2>14, <2>16, <2>17 DEF FilesInv
<1> QED BY <1>2, <1>3, PrepareRemEffect

(* mdir_reload finds as many patches in the index as had counted, because  *)
(* the writer was not within a patch when it stopped.                      *)
LEMMA StartSame ==
  ASSUME TypeInv, WriterRuns, FilesInv, Start PROVE jnls' = jnls
<1>1. /\ jnls' \in Seq(Journal) /\ Len(jnls') = Len(jnls)
      /\ \A i \in 1 .. Len(jnls) : /\ jnls'[i].first = jnls[i].first
                                   /\ jnls'[i].nb = Len(jnls[i].idx)
                                   /\ jnls'[i].idx = jnls[i].idx
                                   /\ jnls'[i].log = jnls[i].log
  BY StartEffect
<1>2. wr.pc = "idle" /\ wr' = wr /\ hist' = hist /\ AheadIdx(wr.pc) = 0 /\ AheadLog(wr.pc) = 0
  BY DEF Start, WriterRuns, AheadIdx, AheadLog
<1>3. jnls \in Seq(Journal) /\ Len(jnls) \in Nat
  BY DEF TypeInv, TypeOK
<1>4. ASSUME NEW i \in 1 .. Len(jnls)
      PROVE  jnls'[i] = jnls[i] /\ Agree(jnls[i], 0, 0)
  <2>1. jnls[i] \in Journal /\ jnls'[i] \in Journal
    BY <1>1, <1>3
  <2>2. i \in 1 .. Len(jnls) - 1 \/ (i = Len(jnls) /\ Len(jnls) >= 1)
    BY <1>3
  <2>3. Agree(jnls[i], 0, 0)
    BY <1>2, <2>2 DEF FilesInv, AllAgree
  <2>4. jnls[i].nb \in Nat
    BY <2>1, JournalFields
  <2>5. Len(jnls[i].idx) = jnls[i].nb
    BY <2>3, <2>4 DEF Agree
  <2>6. /\ jnls'[i] = [first |-> jnls'[i].first, nb |-> jnls'[i].nb,
                     idx |-> jnls'[i].idx, log |-> jnls'[i].log]
        /\ jnls[i] = [first |-> jnls[i].first, nb |-> jnls[i].nb,
                     idx |-> jnls[i].idx, log |-> jnls[i].log]
    BY <2>1, JournalFields
  <2> QED BY <1>1, <2>3, <2>5, <2>6
<1> QED BY <1>1, <1>3, <1>4, SeqEqual

LEMMA FilesStart ==
  ASSUME TypeInv, WriterRuns, FilesInv, Start PROVE FilesInv'
<1>1. jnls' = jnls
  BY StartSame
<1>2. wr' = wr /\ hist' = hist
  BY DEF Start
<1> QED BY <1>1, <1>2, FilesSame

LEMMA FilesStep ==
  ASSUME ~WithMarks, MaxFaults = 0, TypeInv, WriterRuns, FilesInv, [Next]_vars
  PROVE  FilesInv'
<1>1. CASE Requests
  BY <1>1, FilesRequests
<1>2. CASE WriteIndex
  BY <1>2, FilesWriteIndex
<1>3. CASE WriteBlank
  BY <1>3, FilesWriteBlank
<1>4. CASE PrepareAdd
  <2>1. wr.pc = "prep" /\ wr'.pc = "idx" /\ wr'.hdr = wr.hdr /\ UNCHANGED <<jnls, hist>>
    BY <1>4, WriterGoto DEF PrepareAdd, At, Goto, TypeInv
  <2>2. NoMark(wr')
    BY <2>1 DEF NoMark, FilesInv
  <2> QED BY <2>1, <2>2, FilesMove DEF AheadIdx, AheadLog
<1>5. CASE PrepareRem
  BY <1>5, FilesPrepareRem
<1>6. CASE WriteTag
  BY <1>6, FilesWriteTag
<1>7. CASE WriteHeader
  BY <1>7, FilesWriteHeader
<1>8. CASE ReplaceMarks
  BY <1>8 DEF ReplaceMarks, At, FilesInv, NoMark
<1>9. CASE WriteFails \/ Crash
  BY <1>9 DEF WriteFails, Crash, TypeInv, TypeOK
<1>10. CASE Stop
  BY <1>10, FilesSame DEF Stop
<1>11. CASE Start
  BY <1>11, FilesStart
<1>12. CASE Reader \/ UNCHANGED vars
  BY <1>12, FilesSame DEF Reader, ListBegin, ListOne, ReaderRestart, vars
<1> QED
  BY <1>1, <1>2, <1>3, <1>4, <1>5, <1>6, <1>7, <1>8, <1>9, <1>10, <1>11, <1>12 DEF Next, Writer

LEMMA FilesInvariant ==
  ASSUME ~WithMarks, MaxFaults = 0 PROVE Spec => [](TypeInv /\ FilesInv)
<1>1. Init => FilesInv
  BY FilesInit
<1>2. TypeInv /\ WriterRuns /\ FilesInv /\ [Next]_vars => FilesInv'
  BY FilesStep
<1>3. Spec => [](TypeInv /\ WriterRuns)
  BY TypeInvariant
<1> QED BY <1>1, <1>2, <1>3, PTL DEF Spec

-----------------------------------------------------------------------------
(* What the invariant says of the properties.                              *)

LEMMA AgreeEach ==
  ASSUME TypeInv, FilesInv, NEW i \in 1 .. Len(jnls)
  PROVE  /\ jnls[i] \in Journal /\ jnls[i].nb \in Nat /\ jnls[i].first \in Nat
         /\ \E a \in {0, 1} : \E b \in {0, 1} : Agree(jnls[i], a, b)
         /\ Agree(jnls[i], Unfinished(i, {"blog", "tag", "hdr"}), Unfinished(i, {"hdr"}))
<1>1. jnls \in Seq(Journal) /\ Len(jnls) \in Nat
  BY DEF TypeInv, TypeOK
<1>2. jnls[i] \in Journal
  BY <1>1
<1>3. jnls[i].nb \in Nat /\ jnls[i].first \in Nat
  BY <1>2, JournalFields
<1>4. CASE i = Len(jnls)
  <2>1. Agree(jnls[i], AheadIdx(wr.pc), AheadLog(wr.pc))
    BY <1>1, <1>4 DEF FilesInv, AllAgree
  <2>2. /\ AheadIdx(wr.pc) = Unfinished(i, {"blog", "tag", "hdr"})
        /\ AheadLog(wr.pc) = Unfinished(i, {"hdr"})
        /\ AheadIdx(wr.pc) \in {0, 1} /\ AheadLog(wr.pc) \in {0, 1}
    BY <1>4 DEF AheadIdx, AheadLog, Unfinished
  <2> QED BY <1>2, <1>3, <2>1, <2>2
<1>5. CASE i \in 1 .. Len(jnls) - 1
  <2>1. Agree(jnls[i], 0, 0)
    BY <1>5 DEF FilesInv, AllAgree
  <2>2. Unfinished(i, {"blog", "tag", "hdr"}) = 0 /\ Unfinished(i, {"hdr"}) = 0
    BY <1>1, <1>5 DEF Unfinished
  <2> QED BY <1>2, <1>3, <2>1, <2>2
<1> QED BY <1>1, <1>4, <1>5

(* With no failing write, no crash in a patch and no mark, index and log   *)
(* agree at every moment (property FilesAgree of the JnlFiles run).        *)
THEOREM IndexAndLogAgree ==
  ASSUME ~WithMarks, MaxFaults = 0 PROVE Spec => []FilesAgree
<1>1. ASSUME TypeInv, FilesInv PROVE FilesAgree
  <2>1. DOMAIN jnls = 1 .. Len(jnls)
    BY <1>1 DEF TypeInv, TypeOK
  <2> SUFFICES ASSUME NEW i \in 1 .. Len(jnls)
               PROVE  /\ jnls[i].first = IF i = 1 THEN 1 ELSE jnls[i - 1].first + jnls[i - 1].nb
                      /\ Len(jnls[i].idx) = jnls[i].nb + Unfinished(i, {"blog", "tag", "hdr"})
                      /\ Len(jnls[i].log) = jnls[i].nb + Unfinished(i, {"hdr"})
                      /\ \A k \in DOMAIN jnls[i].idx : jnls[i].idx[k].pos = k
                      /\ \A k \in 1 .. jnls[i].nb : jnls[i].log[k].full
    BY <2>1 DEF FilesAgree
  <2>2. jnls[i] \in Journal
        /\ Agree(jnls[i], Unfinished(i, {"blog", "tag", "hdr"}), Unfinished(i, {"hdr"}))
    BY <1>1, AgreeEach
  <2>3. DOMAIN jnls[i].idx = 1 .. Len(jnls[i].idx)
    BY <2>2, JournalFields
  <2> QED BY <1>1, <2>2, <2>3 DEF Agree, FilesInv, Continues
<1> QED BY <1>1, FilesInvariant, PTL

(* Under the same conditions every version mdir_patch returned leads back  *)
(* to its patch, however many journals there are (property ReadBack).      *)
THEOREM VersionsReadBack ==
  ASSUME ~WithMarks, MaxFaults = 0 PROVE Spec => []ReadBack
<1>1. ASSUME TypeInv, FilesInv PROVE ReadBack
  <2> SUFFICES ASSUME NEW h \in hist
               PROVE  LET i == find_jnl(h.version)
                          k == h.version - jnls[i].first + 1
                      IN  /\ i # 0
                          /\ AssertOffsets(jnls[i], jnls[i].nb, k)
                          /\ LET r == jnl_read(jnls[i], k)
                             IN  /\ r.full
                                 /\ r.type = h.type /\ r.ref = h.ref
                                 /\ r.tag \in {h.tag, "%"}
    BY DEF ReadBack
  <2>1. jnls \in Seq(Journal) /\ Len(jnls) \in Nat /\ h.version \in Nat
    BY <1>1 DEF TypeInv, TypeOK
  <2>2. PICK i \in 1 .. Len(jnls) : \E k \in 1 .. jnls[i].nb :
          /\ h.version = jnls[i].first + k - 1
          /\ jnls[i].log[k].type = h.type
          /\ jnls[i].log[k].ref = h.ref
          /\ jnls[i].log[k].tag \in {h.tag, "%"}
    BY <1>1 DEF FilesInv, Recorded
  <2>3. PICK k \in 1 .. jnls[i].nb :
          /\ h.version = jnls[i].first + k - 1
          /\ jnls[i].log[k].type = h.type
          /\ jnls[i].log[k].ref = h.ref
          /\ jnls[i].log[k].tag \in {h.tag, "%"}
    BY <2>2
  <2>4. jnls[i].nb \in Nat /\ jnls[i].first \in Nat
    BY <1>1, AgreeEach
  <2>5. jnls[i].first <= h.version /\ jnls[i].first + jnls[i].nb > h.version
    BY <2>3, <2>4
  <2> DEFINE m == find_jnl(h.version)
  <2>6. /\ m \in 1 .. Len(jnls)
        /\ jnls[m].first <= h.version /\ jnls[m].first + jnls[m].nb > h.version
    BY <2>1, <2>5, FindJnl
  <2> HIDE DEF m
  <2>7. jnls[m].nb \in Nat /\ jnls[m].first \in Nat
    BY <1>1, <2>6, AgreeEach
  <2>8. m = i
    <3>1. ~(m < i)
      <4>1. m < i => jnls[m].first + jnls[m].nb <= jnls[i].first
        BY <1>1, <2>6 DEF FilesInv, Ordered
      <4> QED BY <2>1, <2>4, <2>5, <2>6, <2>7, <4>1
    <3>2. ~(i < m)
      <4>1. i < m => jnls[i].first + jnls[i].nb <= jnls[m].first
        BY <1>1, <2>6 DEF FilesInv, Ordered
      <4> QED BY <2>1, <2>4, <2>5, <2>6, <2>7, <4>1
    <3> QED BY <2>6, <3>1, <3>2
  <2>9. h.version - jnls[i].first + 1 = k
    BY <2>3, <2>4
  <2>10. PICK a \in {0, 1} : \E b \in {0, 1} : Agree(jnls[i], a, b)
    BY <1>1, AgreeEach
  <2>11. PICK b \in {0, 1} : Agree(jnls[i], a, b)
    BY <2>10
  <2>12. Offset(jnls[i], k) = k /\ jnls[i].log[k].full
    <3>1. k \in 1 .. Len(jnls[i].idx)
      BY <2>4, <2>11 DEF Agree
    <3>2. Offset(jnls[i], k) = k
      BY <2>11, <3>1 DEF Agree, Offset
    <3>3. jnls[i].log[k].full
      BY <2>11 DEF Agree
    <3> QED BY <3>2, <3>3
  <2>13. EndOffset(jnls[i], jnls[i].nb, k) > k
    <3>1. CASE k < jnls[i].nb
      <4>1. k + 1 \in 1 .. Len(jnls[i].idx)
        BY <2>4, <2>11, <3>1 DEF Agree
      <4>2. jnls[i].idx[k + 1].pos = k + 1
        BY <2>11, <4>1 DEF Agree
      <4>3. EndOffset(jnls[i], jnls[i].nb, k) = jnls[i].idx[k + 1].pos
        BY <3>1 DEF EndOffset
      <4> QED BY <4>2, <4>3
    <3>2. CASE ~(k < jnls[i].nb)
      <4>1. EndOffset(jnls[i], jnls[i].nb, k) = Len(jnls[i].log) + 1
        BY <3>2 DEF EndOffset
      <4>2. Len(jnls[i].log) = jnls[i].nb + b
        BY <2>11 DEF Agree
      <4> QED BY <2>4, <4>1, <4>2
    <3> QED BY <3>1, <3>2
  <2>14. AssertOffsets(jnls[i], jnls[i].nb, k)
    BY <2>12, <2>13 DEF AssertOffsets
  <2>15. jnl_read(jnls[i], k) = jnls[i].log[k]
    BY <2>12 DEF jnl_read
  <2>16. i # 0
    BY <2>1
  <2> QED BY <2>3, <2>8, <2>9, <2>12, <2>14, <2>15, <2>16 DEF m
<1> QED BY <1>1, FilesInvariant, PTL

-----------------------------------------------------------------------------
(***************************************************************************)
(* Without failures and marks, the journal files implement the version log *)
(* of module VersionLog, and a program that lists them incrementally ends  *)
(* up with exactly what they hold.                                         *)
(*                                                                         *)
(* Both results go through the log that the files stand for, LogIn(js):    *)
(* the first part shows which records of the files it consists of, the     *)
(* second what each step of the writer does to it, the third that the      *)
(* reader's view keeps up with it.                                         *)
(***************************************************************************)

-----------------------------------------------------------------------------
(* The log that a list of journals stands for.                             *)

(* find_jnl and LogOf for any list of journals, to speak of the journals   *)
(* before and after a step.                                                *)
FindIn(js, v) ==
  LET holders == {i \in DOMAIN js : js[i].first <= v /\ js[i].first + js[i].nb > v}
  IN  IF holders = {} THEN 0 ELSE CHOOSE i \in holders : \A k \in holders : i <= k

Patch(r) == [tag |-> r.tag, type |-> r.type, ref |-> r.ref]

LogIn(js) == [v \in 1 .. mdir_last_version(js) |->
                Patch(jnl_read(js[FindIn(js, v)], v - js[FindIn(js, v)].first + 1))]

Patches == [tag : Tags, type : {"msg", "mark", "del", "none"}, ref : Nat]

(* Whatever the writer is doing, the patches that count can be read.       *)
Readable(js) ==
  \A i \in 1 .. Len(js) :
    /\ js[i].nb <= Len(js[i].idx) /\ js[i].nb <= Len(js[i].log)
    /\ \A k \in 1 .. js[i].nb : js[i].idx[k].pos = k

Sound(js) == js \in Seq(Journal) /\ Readable(js) /\ Continues(js) /\ Ordered(js)

(* The same operators, seen from the state.                                *)
LEMMA LogOfIn ==
  /\ LogOf = LogIn(jnls) /\ LogOf' = LogIn(jnls')
  /\ \A v : find_jnl(v) = FindIn(jnls, v)
BY DEF LogOf, LogIn, find_jnl, FindIn, Patch

(* Files that agree can be read.                                           *)
LEMMA AgreeReadable ==
  ASSUME NEW js \in Seq(Journal), NEW pc, AllAgree(js, pc)
  PROVE  Readable(js)
<1> SUFFICES ASSUME NEW i \in 1 .. Len(js)
             PROVE  /\ js[i].nb <= Len(js[i].idx) /\ js[i].nb <= Len(js[i].log)
                    /\ \A k \in 1 .. js[i].nb : js[i].idx[k].pos = k
  BY DEF Readable
<1>1. Len(js) \in Nat /\ js[i] \in Journal
  OBVIOUS
<1>2. js[i].nb \in Nat
  BY <1>1, JournalFields
<1>3. AheadIdx(pc) \in {0, 1} /\ AheadLog(pc) \in {0, 1}
  BY DEF AheadIdx, AheadLog
<1>4. \E a, b \in {0, 1} : Agree(js[i], a, b)
  <2>1. CASE i \in 1 .. Len(js) - 1
    BY <2>1 DEF AllAgree
  <2>2. CASE i = Len(js)
    BY <1>1, <1>3, <2>2 DEF AllAgree
  <2> QED
    BY <1>1, <2>1, <2>2
<1>5. PICK a \in {0, 1}, b \in {0, 1} : Agree(js[i], a, b)
  BY <1>4
<1>6. /\ Len(js[i].idx) = js[i].nb + a /\ Len(js[i].log) = js[i].nb + b
      /\ \A k \in 1 .. Len(js[i].idx) : js[i].idx[k].pos = k
  BY <1>5 DEF Agree
<1>7. js[i].nb <= Len(js[i].idx) /\ js[i].nb <= Len(js[i].log)
  BY <1>2, <1>6
<1>8. \A k \in 1 .. js[i].nb : k \in 1 .. Len(js[i].idx)
  BY <1>2, <1>6
<1> QED
  BY <1>6, <1>7, <1>8

(* The journals of a sound list, and the last version.                     *)
LEMMA SoundTypes ==
  ASSUME NEW js, Sound(js)
  PROVE  /\ js \in Seq(Journal) /\ Len(js) \in Nat
         /\ \A i \in 1 .. Len(js) : /\ js[i] \in Journal
                                    /\ js[i].first \in Nat /\ js[i].nb \in Nat
                                    /\ js[i].first >= 1
         /\ mdir_last_version(js) \in Nat
         /\ Len(js) = 0 => mdir_last_version(js) = 0
         /\ Len(js) # 0 => mdir_last_version(js) = js[Len(js)].first + js[Len(js)].nb - 1
<1>1. js \in Seq(Journal) /\ Len(js) \in Nat
  BY DEF Sound
<1>2. \A i \in 1 .. Len(js) : js[i] \in Journal /\ js[i].first \in Nat /\ js[i].nb \in Nat
  BY <1>1, JournalFields
<1>3. ASSUME NEW i \in 1 .. Len(js) PROVE js[i].first >= 1
  <2>1. CASE i = 1
    BY <2>1 DEF Sound, Continues
  <2>2. CASE i # 1
    <3>1. 1 \in 1 .. Len(js) /\ 1 < i
      BY <1>1, <2>2
    <3>2. js[1].first = 1 /\ js[1].first + js[1].nb <= js[i].first
      BY <3>1 DEF Sound, Continues, Ordered
    <3> QED
      BY <1>2, <3>1, <3>2
  <2> QED
    BY <2>1, <2>2
<1>4. CASE Len(js) = 0
  <2>1. js = <<>>
    BY <1>1, <1>4
  <2> QED
    BY <1>1, <1>2, <1>3, <1>4, <2>1 DEF mdir_last_version
<1>5. CASE Len(js) # 0
  <2>1. js # <<>> /\ Len(js) \in 1 .. Len(js)
    BY <1>1, <1>5
  <2>2. mdir_last_version(js) = js[Len(js)].first + js[Len(js)].nb - 1
    BY <2>1 DEF mdir_last_version, Last
  <2> QED
    BY <1>1, <1>2, <1>3, <1>5, <2>1, <2>2
<1> QED
  BY <1>4, <1>5

(* Every version up to the last one is in a journal: version numbers have  *)
(* no hole.                                                                *)
LEMMA Covered ==
  ASSUME NEW js, Sound(js), NEW v \in 1 .. mdir_last_version(js)
  PROVE  \E i \in 1 .. Len(js) : \E k \in 1 .. js[i].nb : v = js[i].first + k - 1
<1> DEFINE n == Len(js)
           T == {i \in 1 .. n : js[i].first + js[i].nb > v}
<1>1. /\ n \in Nat /\ mdir_last_version(js) \in Nat
      /\ \A i \in 1 .. n : js[i].first \in Nat /\ js[i].nb \in Nat
      /\ n = 0 => mdir_last_version(js) = 0
      /\ n # 0 => mdir_last_version(js) = js[n].first + js[n].nb - 1
  BY SoundTypes
<1>2. n # 0 /\ n \in 1 .. n
  BY <1>1
<1>3. n \in T
  <2>1. js[n].first + js[n].nb > v
    BY <1>1, <1>2
  <2> QED
    BY <1>2, <2>1
<1>4. PICK i \in T : \A m \in T : i <= m
  <2>1. T \subseteq Nat /\ T # {}
    BY <1>3
  <2> HIDE DEF T
  <2> QED
    BY <2>1, LeastNumber
<1>5. i \in 1 .. n /\ js[i].first + js[i].nb > v
  OBVIOUS
<1>6. js[i].first <= v
  <2>1. CASE i = 1
    <3>1. js[1].first = 1
      BY <1>5, <2>1 DEF Sound, Continues
    <3> QED
      BY <2>1, <3>1
  <2>2. CASE i # 1
    <3>1. i - 1 \in 1 .. n
      BY <1>1, <1>5, <2>2
    <3>2. js[i].first = js[i - 1].first + js[i - 1].nb
      BY <1>5, <2>2 DEF Sound, Continues
    <3>3. i - 1 \notin T
      BY <1>4, <1>5
    <3>4. ~(js[i - 1].first + js[i - 1].nb > v)
      BY <3>1, <3>3
    <3> QED
      BY <1>1, <3>1, <3>2, <3>4
  <2> QED
    BY <2>1, <2>2
<1>7. v - js[i].first + 1 \in 1 .. js[i].nb /\ v = js[i].first + (v - js[i].first + 1) - 1
  BY <1>1, <1>5, <1>6
<1> QED
  BY <1>5, <1>7

(* A patch that counts is a version of the log, and find_jnl finds it.     *)
LEMMA LogAt ==
  ASSUME NEW js, Sound(js), NEW i \in 1 .. Len(js), NEW k \in 1 .. js[i].nb
  PROVE  /\ js[i].first + k - 1 \in 1 .. mdir_last_version(js)
         /\ FindIn(js, js[i].first + k - 1) = i
         /\ jnl_read(js[i], k) = js[i].log[k]
         /\ LogIn(js)[js[i].first + k - 1] = Patch(js[i].log[k])
<1> DEFINE n == Len(js)
           v == js[i].first + k - 1
           Holders == {m \in DOMAIN js : js[m].first <= v /\ js[m].first + js[m].nb > v}
<1>1. /\ js \in Seq(Journal) /\ n \in Nat /\ mdir_last_version(js) \in Nat
      /\ \A m \in 1 .. n : js[m].first \in Nat /\ js[m].nb \in Nat /\ js[m].first >= 1
      /\ n # 0 => mdir_last_version(js) = js[n].first + js[n].nb - 1
  BY SoundTypes
<1>2. n \in 1 .. n /\ n # 0
  BY <1>1
<1>3. v \in Nat /\ js[i].first <= v /\ js[i].first + js[i].nb > v
  BY <1>1
<1>4. v \in 1 .. mdir_last_version(js)
  <2>1. /\ js[i].first \in Nat /\ js[i].nb \in Nat /\ js[i].first >= 1
        /\ js[n].first \in Nat /\ js[n].nb \in Nat
        /\ mdir_last_version(js) = js[n].first + js[n].nb - 1
    BY <1>1, <1>2
  <2>2. i < n => js[i].first + js[i].nb <= js[n].first
    BY <1>2 DEF Sound, Ordered
  <2>3. i = n \/ i < n
    BY <1>1
  <2>4. js[i].first + js[i].nb <= js[n].first + js[n].nb
    BY <2>1, <2>2, <2>3
  <2>5. js[i].first + js[i].nb - 1 <= mdir_last_version(js)
    BY <2>1, <2>4, SMTT(30)
  <2>6. 1 <= v /\ v <= js[i].first + js[i].nb - 1
    BY <2>1, SMTT(30)
  <2>7. js[i].first + js[i].nb - 1 \in Int /\ mdir_last_version(js) \in Nat /\ v \in Nat
    BY <1>1, <1>3, <2>1
  <2> HIDE DEF n, v
  <2> QED
    BY <2>5, <2>6, <2>7
<1>5. ASSUME NEW m \in 1 .. n, js[m].first <= v, js[m].first + js[m].nb > v
      PROVE  m = i
  <2>1. ~(m < i)
    <3>1. m < i => js[m].first + js[m].nb <= js[i].first
      BY DEF Sound, Ordered
    <3> QED
      BY <1>1, <1>3, <1>5, <3>1, SMTT(30)
  <2>2. ~(i < m)
    <3>1. i < m => js[i].first + js[i].nb <= js[m].first
      BY DEF Sound, Ordered
    <3> QED
      BY <1>1, <1>3, <1>5, <3>1, SMTT(30)
  <2> QED
    BY <1>1, <2>1, <2>2
<1>6. Holders = {i}
  <2>1. DOMAIN js = 1 .. n
    BY <1>1
  <2> HIDE DEF v
  <2> QED
    BY <1>3, <1>5, <2>1
<1>7. FindIn(js, v) = i
  <2>1. i <= i
    BY <1>1
  <2>2. FindIn(js, v) = IF Holders = {} THEN 0 ELSE CHOOSE m \in Holders : \A o \in Holders : m <= o
    BY DEF FindIn
  <2> HIDE DEF Holders
  <2> QED
    BY <1>6, <2>1, <2>2
<1>8. v - js[i].first + 1 = k
  BY <1>1
<1>9. jnl_read(js[i], k) = js[i].log[k]
  BY DEF jnl_read, Offset, Sound, Readable
<1>10. LogIn(js)[v] = Patch(js[i].log[k])
  <2> HIDE DEF v
  <2> QED
    BY <1>4, <1>7, <1>8, <1>9 DEF LogIn
<1> QED
  BY <1>4, <1>7, <1>9, <1>10

(* The log is a sequence of patches, one per version.                      *)
LEMMA LogType ==
  ASSUME NEW js, Sound(js)
  PROVE  LogIn(js) \in Seq(Patches) /\ Len(LogIn(js)) = mdir_last_version(js)
<1> DEFINE n == mdir_last_version(js)
<1>1. n \in Nat
  BY SoundTypes
<1>2. ASSUME NEW v \in 1 .. n PROVE LogIn(js)[v] \in Patches
  <2>1. PICK i \in 1 .. Len(js) : \E k \in 1 .. js[i].nb : v = js[i].first + k - 1
    BY Covered
  <2>2. PICK k \in 1 .. js[i].nb : v = js[i].first + k - 1
    BY <2>1
  <2>3. LogIn(js)[v] = Patch(js[i].log[k])
    BY <2>2, LogAt
  <2>4. js[i].nb \in Nat /\ js[i].log \in Seq(Record) /\ Len(js[i].log) \in Nat
    BY SoundTypes, JournalFields
  <2>5. k \in 1 .. Len(js[i].log)
    BY <2>4 DEF Sound, Readable
  <2>6. js[i].log[k] \in Record
    BY <2>4, <2>5
  <2> QED
    BY <2>3, <2>6 DEF Patch, Patches, Record
<1>3. LogIn(js) = [v \in 1 .. n |-> LogIn(js)[v]]
  BY DEF LogIn
<1> HIDE DEF n
<1> QED
  BY <1>1, <1>2, <1>3 DEF n

-----------------------------------------------------------------------------
(* How the log changes with the files.                                     *)

(* The patches that count stay what and where they are; more may count.    *)
Prolongs(js, new) ==
  /\ Len(js) <= Len(new)
  /\ \A i \in 1 .. Len(js) :
       /\ new[i].first = js[i].first
       /\ js[i].nb <= new[i].nb
       /\ \A k \in 1 .. js[i].nb : Patch(new[i].log[k]) = Patch(js[i].log[k])

(* Then the versions that were there say the same as before.               *)
LEMMA LogKept ==
  ASSUME NEW js, NEW new, Sound(js), Sound(new), Prolongs(js, new),
         NEW v \in 1 .. mdir_last_version(js)
  PROVE  v \in 1 .. mdir_last_version(new) /\ LogIn(new)[v] = LogIn(js)[v]
<1>1. PICK i \in 1 .. Len(js) : \E k \in 1 .. js[i].nb : v = js[i].first + k - 1
  BY Covered
<1>2. PICK k \in 1 .. js[i].nb : v = js[i].first + k - 1
  BY <1>1
<1>3. i \in 1 .. Len(new)
  BY SoundTypes DEF Prolongs
<1>4. /\ new[i].first = js[i].first /\ js[i].nb <= new[i].nb
      /\ Patch(new[i].log[k]) = Patch(js[i].log[k])
  BY DEF Prolongs
<1>5. k \in 1 .. new[i].nb
  BY <1>3, <1>4, SoundTypes
<1>6. LogIn(js)[v] = Patch(js[i].log[k])
  BY <1>2, LogAt
<1>7. /\ v \in 1 .. mdir_last_version(new)
      /\ LogIn(new)[v] = Patch(new[i].log[k])
  BY <1>2, <1>3, <1>4, <1>5, LogAt
<1> QED
  BY <1>4, <1>6, <1>7

(* No version more: the same log.                                          *)
LEMMA LogSame ==
  ASSUME NEW js, NEW new, Sound(js), Sound(new), Prolongs(js, new),
         mdir_last_version(new) = mdir_last_version(js)
  PROVE  LogIn(new) = LogIn(js)
<1>1. /\ LogIn(new) = [v \in 1 .. mdir_last_version(js) |-> LogIn(new)[v]]
      /\ LogIn(js) = [v \in 1 .. mdir_last_version(js) |-> LogIn(js)[v]]
  BY DEF LogIn
<1>2. \A v \in 1 .. mdir_last_version(js) : LogIn(new)[v] = LogIn(js)[v]
  BY LogKept
<1> QED
  BY <1>1, <1>2

(* One version more: the log is longer by its patch.                       *)
LEMMA LogAppended ==
  ASSUME NEW js, NEW new, Sound(js), Sound(new), Prolongs(js, new), NEW p \in Patches,
         mdir_last_version(new) = mdir_last_version(js) + 1,
         LogIn(new)[mdir_last_version(js) + 1] = p
  PROVE  LogIn(new) = Append(LogIn(js), p)
<1> DEFINE n == mdir_last_version(js)
           f == Append(LogIn(js), p)
<1>1. /\ n \in Nat /\ LogIn(js) \in Seq(Patches) /\ Len(LogIn(js)) = n
      /\ LogIn(new) \in Seq(Patches) /\ Len(LogIn(new)) = n + 1
  BY LogType, SoundTypes
<1>2. /\ f \in Seq(Patches) /\ Len(f) = n + 1
      /\ \A v \in 1 .. n : f[v] = LogIn(js)[v]
      /\ f[n + 1] = p
  BY <1>1
<1>3. ASSUME NEW v \in 1 .. n + 1 PROVE LogIn(new)[v] = f[v]
  <2>1. CASE v \in 1 .. n
    BY <1>2, <2>1, LogKept
  <2>2. CASE v = n + 1
    BY <1>2, <2>2
  <2> QED
    BY <1>1, <2>1, <2>2
<1> HIDE DEF f, n
<1> QED
  BY <1>1, <1>2, <1>3, SeqEqual DEF f

(* One tag overwritten, that of record k of journal i: the log with that   *)
(* version erased.                                                         *)
Erases(js, new, i, k) ==
  /\ Len(new) = Len(js)
  /\ \A m \in 1 .. Len(js) :
       /\ new[m].first = js[m].first /\ new[m].nb = js[m].nb
       /\ \A l \in 1 .. js[m].nb : <<m, l>> # <<i, k>> => new[m].log[l] = js[m].log[l]
  /\ new[i].log[k].tag = "%"
  /\ new[i].log[k].type = js[i].log[k].type
  /\ new[i].log[k].ref = js[i].log[k].ref

LEMMA LogErased ==
  ASSUME NEW js, NEW new, Sound(js), Sound(new),
         NEW i \in 1 .. Len(js), NEW k \in 1 .. js[i].nb, Erases(js, new, i, k)
  PROVE  LET v == js[i].first + k - 1
         IN  /\ v \in 1 .. mdir_last_version(js)
             /\ LogIn(new) = [LogIn(js) EXCEPT ![v].tag = "%"]
             /\ LogIn(js)[v].tag = js[i].log[k].tag
<1> DEFINE n == mdir_last_version(js)
           v == js[i].first + k - 1
           L == LogIn(js)
<1> USE DEF Erases
<1>1. v \in 1 .. n /\ L[v] = Patch(js[i].log[k])
  BY LogAt
<1>2. L[v].tag = js[i].log[k].tag
  BY <1>1 DEF Patch
<1>3. mdir_last_version(new) = n
  <2>1. Len(js) \in Nat /\ Len(js) # 0
    BY SoundTypes
  <2>2. Len(js) \in 1 .. Len(js)
    BY <2>1
  <2>3. /\ n = js[Len(js)].first + js[Len(js)].nb - 1
        /\ mdir_last_version(new) = new[Len(new)].first + new[Len(new)].nb - 1
    BY <2>1, SoundTypes
  <2>4. new[Len(js)].first = js[Len(js)].first /\ new[Len(js)].nb = js[Len(js)].nb
    BY <2>2
  <2> QED
    BY <2>3, <2>4
<1>4. /\ LogIn(new) = [u \in 1 .. n |-> LogIn(new)[u]]
      /\ L = [u \in 1 .. n |-> L[u]]
  BY <1>3 DEF LogIn
<1>5. ASSUME NEW u \in 1 .. n
      PROVE  LogIn(new)[u] = IF u = v THEN [L[v] EXCEPT !.tag = "%"] ELSE L[u]
  <2>1. PICK m \in 1 .. Len(js) : \E l \in 1 .. js[m].nb : u = js[m].first + l - 1
    BY Covered, SMTT(30)
  <2>2. PICK l \in 1 .. js[m].nb : u = js[m].first + l - 1
    BY <2>1
  <2>3. /\ L[u] = Patch(js[m].log[l])
        /\ FindIn(js, u) = m
    BY <2>2, LogAt
  <2>4. LogIn(new)[u] = Patch(new[m].log[l])
    <3>1. new[m].first = js[m].first /\ l \in 1 .. new[m].nb /\ m \in 1 .. Len(new)
      OBVIOUS
    <3> QED
      BY <2>2, <3>1, LogAt
  <2>5. CASE u = v
    <3>1. m = i
      BY <2>3, <2>5, LogAt
    <3>2. l = k
      BY <2>2, <2>5, <3>1, SoundTypes, SMTT(30)
    <3> QED
      BY <1>1, <2>4, <2>5, <3>1, <3>2 DEF Patch
  <2>6. CASE u # v
    <3>1. <<m, l>> # <<i, k>>
      BY <2>2, <2>6
    <3>2. new[m].log[l] = js[m].log[l]
      BY <3>1
    <3> QED
      BY <2>3, <2>4, <2>6, <3>2
  <2> QED
    BY <2>5, <2>6
<1> HIDE DEF L, n, v
<1>6. LogIn(new) = [L EXCEPT ![v].tag = "%"]
  BY <1>1, <1>4, <1>5
<1> QED
  BY <1>1, <1>2, <1>6 DEF L, n, v

-----------------------------------------------------------------------------
(* What the writer does to the log.                                        *)

(* The version whose removal the writer is recording: its target is erased *)
(* before the removal itself is written.                                   *)
Aim(w) == IF w.act = "-" /\ w.pc \in {"idx", "tag", "hdr"} THEN {w.hdr.ref} ELSE {}

(* What callers ask for when there are no marks.                           *)
Asked(w) ==
  w.pc # "idle" => \/ w.act = "+" /\ w.hdr.type = "msg" /\ w.hdr.ref \in Msgs
                   \/ w.act = "-" /\ w.hdr.type = "del"

Additions == [tag : {"+"}, type : {"msg"}, ref : Msgs]

BlankPatch == [tag |-> "%", type |-> "none", ref |-> 0]

Removal(v) == [tag |-> "-", type |-> "del", ref |-> v]

(* One step: the log L becomes M, the target a becomes b.                  *)
LogStep(L, M, a, b) ==
  \/ /\ M = L
     /\ \/ a = b
        \/ a = {} /\ \E v \in 1 .. Len(L) : b = {v} /\ L[v].tag = "%"
  \/ a = {} /\ b = {} /\ \E p \in Additions : M = Append(L, p)
  \/ a = {} /\ b = {} /\ M = Append(L, BlankPatch)
  \/ a = {} /\ \E v \in 1 .. Len(L) : /\ b = {v}
                                      /\ L[v].tag = "+"
                                      /\ M = [L EXCEPT ![v].tag = "%"]
  \/ \E v \in a : a = {v} /\ b = {} /\ M = Append(L, Removal(v))

(* The journals of a state that satisfies the invariant are sound.         *)
LEMMA FilesSound ==
  ASSUME NEW js \in Seq(Journal), NEW pc, AllAgree(js, pc), Continues(js), Ordered(js)
  PROVE  Sound(js)
BY AgreeReadable DEF Sound

(* A write to the last journal that changes nothing that counted.          *)
LEMMA LastProlongs ==
  ASSUME NEW js, NEW new, Sound(js), Sound(new), Len(js) >= 1, Len(new) = Len(js),
         \A i \in 1 .. Len(js) - 1 : new[i] = js[i],
         new[Len(js)].first = js[Len(js)].first,
         js[Len(js)].nb <= new[Len(js)].nb,
         \A k \in 1 .. js[Len(js)].nb : Patch(new[Len(js)].log[k]) = Patch(js[Len(js)].log[k])
  PROVE  /\ Prolongs(js, new)
         /\ mdir_last_version(new) = mdir_last_version(js) + (new[Len(js)].nb - js[Len(js)].nb)
<1> DEFINE n == Len(js)
<1>1. /\ n \in Nat /\ n # 0
      /\ \A i \in 1 .. n : js[i].nb \in Nat /\ js[i].first \in Nat
      /\ \A i \in 1 .. n : new[i].nb \in Nat /\ new[i].first \in Nat
      /\ mdir_last_version(js) = js[n].first + js[n].nb - 1
      /\ mdir_last_version(new) = new[n].first + new[n].nb - 1
  BY SoundTypes
<1>2. ASSUME NEW i \in 1 .. n
      PROVE  /\ new[i].first = js[i].first
             /\ js[i].nb <= new[i].nb
             /\ \A k \in 1 .. js[i].nb : Patch(new[i].log[k]) = Patch(js[i].log[k])
  <2>1. CASE i = n
    BY <2>1
  <2>2. CASE i \in 1 .. n - 1
    <3>1. new[i] = js[i] /\ js[i].nb \in Nat
      BY <1>1, <2>2
    <3> QED
      BY <3>1
  <2> QED
    BY <1>1, <2>1, <2>2
<1>3. Prolongs(js, new)
  BY <1>1, <1>2 DEF Prolongs
<1>4. n \in 1 .. n
  BY <1>1
<1>5. /\ js[n].nb \in Nat /\ js[n].first \in Nat /\ new[n].nb \in Nat
  BY <1>1, <1>4
<1>6. /\ mdir_last_version(js) = js[n].first + js[n].nb - 1
      /\ mdir_last_version(new) = js[n].first + new[n].nb - 1
  BY <1>1
<1>7. mdir_last_version(new) = mdir_last_version(js) + (new[n].nb - js[n].nb)
  <2>1. \A f, a, b \in Nat : f + b - 1 = (f + a - 1) + (b - a)
    OBVIOUS
  <2> HIDE DEF n
  <2>2. js[n].first + new[n].nb - 1 = (js[n].first + js[n].nb - 1) + (new[n].nb - js[n].nb)
    BY ONLY <1>5, <2>1
  <2> QED
    BY ONLY <1>6, <2>2
<1> QED
  BY <1>3, <1>7

(* The index entry alone shows in no version, even if it opens a journal.  *)
LEMMA StepWriteIndex ==
  ASSUME TypeInv, FilesInv, Sound(jnls), Sound(jnls'), WriteIndex
  PROVE  LogIn(jnls') = LogIn(jnls) /\ Aim(wr') = Aim(wr)
<1> DEFINE js == last_jnl(jnls)
           n == Len(js)
           e == [pos |-> Len(js[n].log) + 1, mark |-> 0]
<1>1. /\ js \in Seq(Journal) /\ n \in Nat /\ n >= 1
      /\ jnls' \in Seq(Journal) /\ Len(jnls') = n
      /\ \A i \in 1 .. n - 1 : jnls'[i] = js[i]
      /\ jnls'[n].first = js[n].first
      /\ jnls'[n].nb = js[n].nb
      /\ jnls'[n].log = js[n].log
  BY WriteIndexEffect
<1>2. /\ jnls \in Seq(Journal) /\ Len(jnls) \in Nat /\ Len(jnls) <= n
      /\ \A i \in 1 .. Len(jnls) : js[i] = jnls[i]
  <2>1. jnls \in Seq(Journal)
    BY DEF TypeInv, TypeOK
  <2>2. \/ js = jnls
        \/ n = Len(jnls) + 1 /\ \A i \in 1 .. Len(jnls) : js[i] = jnls[i]
    BY <2>1, LastJnl
  <2> HIDE DEF js
  <2> QED
    BY <2>1, <2>2
<1>3. mdir_last_version(js) = mdir_last_version(jnls)
  BY LastJnlVersion
<1>4. wr.pc \in {"bidx", "idx"} /\ wr' = [wr EXCEPT !.pc = IF wr.pc = "bidx" THEN "blog" ELSE "tag"]
  BY DEF WriteIndex, At, Goto
<1> HIDE DEF js
<1>5. mdir_last_version(jnls') = mdir_last_version(js)
  <2>1. js # <<>> /\ jnls' # <<>>
    BY <1>1
  <2> QED
    BY <1>1, <2>1 DEF mdir_last_version, Last
<1>6. ASSUME NEW i \in 1 .. n
      PROVE  jnls'[i].first = js[i].first /\ jnls'[i].nb = js[i].nb /\ jnls'[i].log = js[i].log
  <2>1. i \in 1 .. n - 1 \/ i = n
    BY <1>1
  <2> QED
    BY <1>1, <2>1
<1>7. Prolongs(jnls, jnls')
  <2>1. ASSUME NEW i \in 1 .. Len(jnls)
        PROVE  /\ jnls'[i].first = jnls[i].first
               /\ jnls[i].nb <= jnls'[i].nb
               /\ jnls'[i].log = jnls[i].log
    <3>1. i \in 1 .. n /\ js[i] = jnls[i] /\ jnls[i].nb \in Nat
      BY <1>1, <1>2, SoundTypes
    <3> QED
      BY <1>6, <3>1
  <2> QED
    BY <1>1, <1>2, <2>1 DEF Prolongs
<1>8. LogIn(jnls') = LogIn(jnls)
  BY <1>3, <1>5, <1>7, LogSame
<1>9. /\ wr'.hdr = wr.hdr /\ wr'.act = wr.act
      /\ wr'.pc = IF wr.pc = "bidx" THEN "blog" ELSE "tag"
  BY <1>4, WriterGoto DEF TypeInv
<1> QED
  BY <1>4, <1>8, <1>9 DEF Aim

(* Nor does a record without its header.                                   *)
LEMMA StepWriteTag ==
  ASSUME TypeInv, FilesInv, Sound(jnls), Sound(jnls'), WriteTag
  PROVE  LogIn(jnls') = LogIn(jnls) /\ Aim(wr') = Aim(wr)
<1> DEFINE n == Len(jnls)
           r == [tag |-> wr.act, type |-> wr.hdr.type, ref |-> wr.hdr.ref, full |-> FALSE]
<1>1. /\ n \in Nat /\ n >= 1 /\ r \in Record
      /\ Len(jnls') = n
      /\ \A i \in 1 .. n - 1 : jnls'[i] = jnls[i]
      /\ jnls'[n].first = jnls[n].first
      /\ jnls'[n].nb = jnls[n].nb
      /\ jnls'[n].log = Append(jnls[n].log, r)
  BY WriteTagEffect
<1> HIDE DEF r
<1>2. n \in 1 .. n
  BY <1>1
<1>3. /\ jnls[n].nb \in Nat /\ jnls[n].log \in Seq(Record) /\ Len(jnls[n].log) \in Nat
      /\ jnls[n].nb <= Len(jnls[n].log)
  BY <1>2, SoundTypes, JournalFields DEF Sound, Readable
<1>4. \A k \in 1 .. jnls[n].nb : jnls'[n].log[k] = jnls[n].log[k]
  BY <1>1, <1>3
<1>5. /\ Prolongs(jnls, jnls')
      /\ mdir_last_version(jnls') = mdir_last_version(jnls) + (jnls'[n].nb - jnls[n].nb)
  <2>1. jnls[n].nb <= jnls'[n].nb
    BY <1>1, <1>3
  <2> QED
    BY <1>1, <1>4, <2>1, LastProlongs
<1>6. mdir_last_version(jnls') = mdir_last_version(jnls)
  BY <1>1, <1>3, <1>5, SoundTypes
<1>7. wr.pc = "tag" /\ wr'.pc = "hdr" /\ wr'.hdr = wr.hdr /\ wr'.act = wr.act
  BY WriterGoto DEF WriteTag, At, Goto, TypeInv
<1>8. Aim(wr') = Aim(wr)
  BY <1>7 DEF Aim
<1> QED
  BY <1>5, <1>6, <1>8, LogSame

(* A blank takes the next version.                                         *)
LEMMA StepWriteBlank ==
  ASSUME TypeInv, FilesInv, Sound(jnls), Sound(jnls'), WriteBlank
  PROVE  LogIn(jnls') = Append(LogIn(jnls), BlankPatch) /\ Aim(wr) = {} /\ Aim(wr') = {}
<1> DEFINE n == Len(jnls)
           r == [tag |-> "%", type |-> "none", ref |-> 0, full |-> TRUE]
           q == jnls[n].nb + 1
<1>1. /\ n \in Nat /\ n >= 1 /\ r \in Record
      /\ Len(jnls') = n
      /\ \A i \in 1 .. n - 1 : jnls'[i] = jnls[i]
      /\ jnls'[n].first = jnls[n].first
      /\ jnls'[n].nb = jnls[n].nb + 1
      /\ jnls'[n].log = Append(jnls[n].log, r)
  BY WriteBlankEffect
<1>2. Patch(r) = BlankPatch /\ BlankPatch \in Patches
  BY DEF Patch, BlankPatch, Patches, Tags
<1>3. wr.pc = "blog" /\ wr'.pc \in {"bidx", "prep"}
  BY DEF WriteBlank, At
<1> HIDE DEF r
<1>4. n \in 1 .. n /\ AheadLog(wr.pc) = 0
  BY <1>1, <1>3 DEF AheadLog
<1>5. /\ jnls[n].nb \in Nat /\ jnls[n].log \in Seq(Record) /\ Len(jnls[n].log) \in Nat
      /\ jnls[n].first \in Nat
  BY <1>4, SoundTypes, JournalFields
<1>6. Len(jnls[n].log) = jnls[n].nb
  BY <1>1, <1>4, <1>5 DEF FilesInv, AllAgree, Agree
<1>7. /\ \A k \in 1 .. jnls[n].nb : jnls'[n].log[k] = jnls[n].log[k]
      /\ jnls'[n].log[q] = r
  BY <1>1, <1>5, <1>6
<1>8. /\ Prolongs(jnls, jnls')
      /\ mdir_last_version(jnls') = mdir_last_version(jnls) + (jnls'[n].nb - jnls[n].nb)
  <2>1. jnls[n].nb <= jnls'[n].nb
    BY <1>1, <1>5
  <2> QED
    BY <1>1, <1>7, <2>1, LastProlongs
<1>9. mdir_last_version(jnls') = mdir_last_version(jnls) + 1
  BY <1>1, <1>5, <1>8
<1>10. LogIn(jnls')[mdir_last_version(jnls) + 1] = BlankPatch
  <2>1. q \in 1 .. jnls'[n].nb /\ n \in 1 .. Len(jnls')
    BY <1>1, <1>4, <1>5
  <2>2. LogIn(jnls')[jnls'[n].first + q - 1] = Patch(jnls'[n].log[q])
    BY <2>1, LogAt
  <2>3. mdir_last_version(jnls) + 1 = jnls'[n].first + q - 1
    <3>1. mdir_last_version(jnls) = jnls[n].first + jnls[n].nb - 1
      BY <1>1, SoundTypes
    <3> QED
      BY <1>1, <1>5, <3>1
  <2> QED
    BY <1>2, <1>7, <2>2, <2>3
<1>11. Aim(wr) = {} /\ Aim(wr') = {}
  BY <1>3 DEF Aim
<1> QED
  BY <1>2, <1>8, <1>9, <1>10, <1>11, LogAppended

(* The header completes a patch, which takes the next version.             *)
LEMMA StepWriteHeader ==
  ASSUME TypeInv, FilesInv, Sound(jnls), Sound(jnls'), Asked(wr), WriteHeader
  PROVE  /\ Aim(wr') = {} /\ Asked(wr')
         /\ \/ Aim(wr) = {} /\ \E p \in Additions : LogIn(jnls') = Append(LogIn(jnls), p)
            \/ \E v \in Aim(wr) : /\ Aim(wr) = {v}
                                  /\ LogIn(jnls') = Append(LogIn(jnls), Removal(v))
<1> DEFINE n == Len(jnls)
           q == Len(jnls[n].log)
           p == [tag |-> wr.act, type |-> wr.hdr.type, ref |-> wr.hdr.ref]
<1>1. /\ n \in Nat /\ n >= 1 /\ Len(jnls') = n
      /\ \A i \in 1 .. n - 1 : jnls'[i] = jnls[i]
      /\ jnls'[n].first = jnls[n].first
      /\ jnls'[n].nb = jnls[n].nb + 1
      /\ jnls'[n].log = [jnls[n].log EXCEPT ![q].full = TRUE]
  BY WriteHeaderEffect
<1>2. wr.pc = "hdr" /\ wr' = Idle
  BY DEF WriteHeader, At, FilesInv, NoMark
<1>3. n \in 1 .. n /\ AheadLog(wr.pc) = 1
  BY <1>1, <1>2 DEF AheadLog
<1>4. /\ jnls[n].nb \in Nat /\ jnls[n].log \in Seq(Record) /\ Len(jnls[n].log) \in Nat
      /\ jnls[n].first \in Nat
  BY <1>3, SoundTypes, JournalFields
<1>5. q = jnls[n].nb + 1
  BY <1>1, <1>3, <1>4 DEF FilesInv, AllAgree, Agree
<1>6. q \in 1 .. Len(jnls[n].log)
  BY <1>4, <1>5
<1>7. /\ \A k \in 1 .. q : k # q => jnls'[n].log[k] = jnls[n].log[k]
      /\ jnls'[n].log[q].tag = jnls[n].log[q].tag
      /\ jnls'[n].log[q].type = jnls[n].log[q].type
      /\ jnls'[n].log[q].ref = jnls[n].log[q].ref
  BY <1>1, <1>4, <1>6, OverwriteFull
<1>8. \A k \in 1 .. jnls[n].nb : jnls'[n].log[k] = jnls[n].log[k]
  <2>1. \A k \in 1 .. jnls[n].nb : k \in 1 .. q /\ k # q
    BY <1>4, <1>5
  <2> QED
    BY <1>7, <2>1
<1>9. Patch(jnls'[n].log[q]) = p
  BY <1>2, <1>7 DEF FilesInv, Pending, Patch
<1>10. p \in Patches
  BY DEF Patches, Tags, TypeInv, TypeOK, Header
<1>11. /\ Prolongs(jnls, jnls')
       /\ mdir_last_version(jnls') = mdir_last_version(jnls) + (jnls'[n].nb - jnls[n].nb)
  <2>1. jnls[n].nb <= jnls'[n].nb
    BY <1>1, <1>4
  <2> QED
    BY <1>1, <1>8, <2>1, LastProlongs
<1>12. mdir_last_version(jnls') = mdir_last_version(jnls) + 1
  BY <1>1, <1>4, <1>11
<1> HIDE DEF p
<1>13. LogIn(jnls')[mdir_last_version(jnls) + 1] = p
  <2>1. q \in 1 .. jnls'[n].nb /\ n \in 1 .. Len(jnls')
    BY <1>1, <1>3, <1>4, <1>5
  <2>2. LogIn(jnls')[jnls'[n].first + q - 1] = Patch(jnls'[n].log[q])
    BY <2>1, LogAt
  <2>3. mdir_last_version(jnls) + 1 = jnls'[n].first + q - 1
    <3>1. mdir_last_version(jnls) = jnls[n].first + jnls[n].nb - 1
      BY <1>1, SoundTypes
    <3>2. \A f, a \in Nat : (f + a - 1) + 1 = f + (a + 1) - 1
      OBVIOUS
    <3>3. (jnls[n].first + jnls[n].nb - 1) + 1 = jnls[n].first + (jnls[n].nb + 1) - 1
      BY <1>4, <3>2
    <3>4. jnls'[n].first = jnls[n].first
      BY <1>1
    <3> HIDE DEF n, q
    <3> QED
      BY ONLY <1>5, <3>1, <3>3, <3>4
  <2> QED
    BY <1>9, <2>2, <2>3
<1>14. LogIn(jnls') = Append(LogIn(jnls), p)
  BY <1>10, <1>11, <1>12, <1>13, LogAppended
<1>15. Aim(wr') = {} /\ Asked(wr')
  BY <1>2 DEF Aim, Asked, Idle
<1>16. \/ Aim(wr) = {} /\ p \in Additions
       \/ Aim(wr) = {wr.hdr.ref} /\ p = Removal(wr.hdr.ref)
  BY <1>2 DEF Aim, Asked, Additions, Removal, p
<1> QED
  BY <1>14, <1>15, <1>16

(* A removal erases its target, which is an addition or a blank already,   *)
(* or it is abandoned and changes nothing.                                 *)
LEMMA StepPrepareRem ==
  ASSUME TypeInv, FilesInv, Sound(jnls), Sound(jnls'), PrepareRem
  PROVE  LogStep(LogIn(jnls), LogIn(jnls'), Aim(wr), Aim(wr'))
<1> DEFINE i == find_jnl(wr.hdr.ref)
           k == wr.hdr.ref - jnls[i].first + 1
           v == wr.hdr.ref
           L == LogIn(jnls)
<1>1. wr.pc = "prep" /\ wr.act = "-" /\ Aim(wr) = {}
  BY DEF PrepareRem, At, Aim
<1>2. CASE wr' = Idle /\ UNCHANGED jnls
  <2>1. Aim(wr') = {}
    BY <1>2 DEF Aim, Idle
  <2> QED
    BY <1>1, <1>2, <2>1 DEF LogStep
<1>3. CASE /\ i \in 1 .. Len(jnls)
           /\ jnls[i].first <= wr.hdr.ref /\ jnls[i].first + jnls[i].nb > wr.hdr.ref
           /\ jnls' \in Seq(Journal) /\ Len(jnls') = Len(jnls)
           /\ \A m \in 1 .. Len(jnls) : m # i => jnls'[m] = jnls[m]
           /\ jnls'[i].first = jnls[i].first
           /\ jnls'[i].nb = jnls[i].nb
           /\ jnls'[i].log = [jnls[i].log EXCEPT ![Offset(jnls[i], k)].tag = "%"]
           /\ wr' = [wr EXCEPT !.pc = "idx"]
  <2>1. wr'.pc = "idx" /\ wr'.hdr = wr.hdr /\ wr'.act = wr.act
    BY <1>3, WriterGoto DEF TypeInv
  <2>2. jnl_read(jnls[i], k).tag # "-"
    <3>1. wr' # Idle
      BY <2>1 DEF Idle
    <3> QED
      BY <3>1 DEF PrepareRem
  <2> HIDE DEF i
  <2>3. /\ jnls[i].first \in Nat /\ jnls[i].nb \in Nat /\ v \in Nat
        /\ jnls[i].log \in Seq(Record) /\ Len(jnls[i].log) \in Nat
    BY <1>3, SoundTypes, JournalFields DEF TypeInv, TypeOK, Header
  <2>4. k \in 1 .. jnls[i].nb /\ jnls[i].first + k - 1 = v
    BY <1>3, <2>3
  <2> HIDE DEF k, v
  <2>5. /\ Offset(jnls[i], k) = k /\ jnl_read(jnls[i], k) = jnls[i].log[k]
        /\ jnls[i].nb <= Len(jnls[i].log)
    BY <1>3, <2>4 DEF Sound, Readable, Offset, jnl_read
  <2>6. k \in 1 .. Len(jnls[i].log)
    BY <2>3, <2>4, <2>5
  <2>7. /\ \A m \in 1 .. Len(jnls[i].log) : m # k => jnls'[i].log[m] = jnls[i].log[m]
        /\ jnls'[i].log[k].tag = "%"
        /\ jnls'[i].log[k].type = jnls[i].log[k].type
        /\ jnls'[i].log[k].ref = jnls[i].log[k].ref
    BY <1>3, <2>3, <2>5, <2>6, OverwriteTag
  <2>8. ASSUME NEW m \in 1 .. Len(jnls)
        PROVE  /\ jnls'[m].first = jnls[m].first /\ jnls'[m].nb = jnls[m].nb
               /\ \A l \in 1 .. jnls[m].nb :
                    <<m, l>> # <<i, k>> => jnls'[m].log[l] = jnls[m].log[l]
    <3>1. CASE m # i
      BY <1>3, <3>1
    <3>2. CASE m = i
      <4>1. \A l \in 1 .. jnls[i].nb : l \in 1 .. Len(jnls[i].log)
        BY <2>3, <2>5
      <4> QED
        BY <1>3, <2>7, <3>2, <4>1
    <3> QED
      BY <3>1, <3>2
  <2>9. /\ v \in 1 .. mdir_last_version(jnls)
        /\ LogIn(jnls') = [L EXCEPT ![v].tag = "%"]
        /\ L[v].tag = jnls[i].log[k].tag
    <3> DEFINE u == jnls[i].first + k - 1
    <3>1. /\ u \in 1 .. mdir_last_version(jnls)
          /\ LogIn(jnls') = [LogIn(jnls) EXCEPT ![u].tag = "%"]
          /\ LogIn(jnls)[u].tag = jnls[i].log[k].tag
      <4> HIDE DEF L
      <4>1. i \in 1 .. Len(jnls) /\ Len(jnls') = Len(jnls) /\ k \in 1 .. jnls[i].nb
        BY <1>3, <2>4
      <4>2. Erases(jnls, jnls', i, k)
        BY <4>1, <2>7, <2>8 DEF Erases
      <4> QED
        BY <4>1, <4>2, LogErased
    <3>2. u = v
      BY <2>4
    <3> HIDE DEF u
    <3> QED
      BY <3>1, <3>2
  <2>10. L \in Seq(Patches) /\ Len(L) = mdir_last_version(jnls)
    BY LogType
  <2> HIDE DEF L
  <2>11. v \in 1 .. Len(L) /\ Aim(wr') = {v}
    BY <1>1, <2>1, <2>9, <2>10 DEF Aim, v
  <2>12. L[v] \in Patches /\ L[v].tag # "-"
    BY <2>2, <2>5, <2>9, <2>10, <2>11
  <2>13. L[v].tag = "+" \/ L[v].tag = "%"
    BY <2>12 DEF Patches, Tags
  <2>14. CASE L[v].tag = "%"
    <3>1. [L[v] EXCEPT !.tag = "%"] = L[v]
      BY <2>12, <2>14 DEF Patches
    <3>2. [L EXCEPT ![v].tag = "%"] = L
      BY <2>10, <2>11, <3>1
    <3> QED
      BY <1>1, <2>9, <2>11, <2>14, <3>2 DEF LogStep, L
  <2>15. CASE L[v].tag = "+"
    BY <1>1, <2>9, <2>11, <2>15 DEF LogStep, L
  <2> QED
    BY <2>13, <2>14, <2>15
<1> QED
  BY <1>2, <1>3, PrepareRemEffect

(* Every step of the system is one of the steps of the log.                *)
LEMMA StepLog ==
  ASSUME ~WithMarks, MaxFaults = 0, TypeInv, WriterRuns, FilesInv,
         Sound(jnls), Sound(jnls'), Asked(wr), [Next]_vars
  PROVE  LogStep(LogIn(jnls), LogIn(jnls'), Aim(wr), Aim(wr')) /\ Asked(wr')
<1>1. CASE Requests
  <2>1. ASSUME NEW act, NEW hdr, NEW n, mdir_patch(act, hdr, n),
               \/ act = "+" /\ hdr.type = "msg" /\ hdr.ref \in Msgs
               \/ act = "-" /\ hdr.type = "del"
        PROVE  LogStep(LogIn(jnls), LogIn(jnls'), Aim(wr), Aim(wr')) /\ Asked(wr')
    <3>1. /\ wr.pc = "idle" /\ UNCHANGED jnls
          /\ wr'.pc \in {"bidx", "prep"} /\ wr'.hdr = hdr /\ wr'.act = act
      BY <2>1 DEF mdir_patch, At
    <3>2. Aim(wr) = {} /\ Aim(wr') = {} /\ Asked(wr')
      BY <2>1, <3>1 DEF Aim, Asked
    <3> QED
      BY <3>1, <3>2 DEF LogStep
  <2>2. ASSUME NEW m \in Msgs, NEW n, mdir_patch("+", [type |-> "msg", ref |-> m], n)
        PROVE  LogStep(LogIn(jnls), LogIn(jnls'), Aim(wr), Aim(wr')) /\ Asked(wr')
    BY <2>1, <2>2
  <2>3. ASSUME NEW t, NEW n, mdir_patch("-", [type |-> "del", ref |-> t], n)
        PROVE  LogStep(LogIn(jnls), LogIn(jnls'), Aim(wr), Aim(wr')) /\ Asked(wr')
    BY <2>1, <2>3
  <2> QED
    BY <1>1, <2>2, <2>3 DEF Requests
<1>2. CASE WriteIndex \/ WriteTag
  <2>1. LogIn(jnls') = LogIn(jnls) /\ Aim(wr') = Aim(wr)
    BY <1>2, StepWriteIndex, StepWriteTag
  <2>2. wr.pc # "idle" /\ wr'.act = wr.act /\ wr'.hdr = wr.hdr
    BY <1>2, WriterGoto DEF WriteIndex, WriteTag, At, Goto, TypeInv
  <2> QED
    BY <2>1, <2>2 DEF LogStep, Asked
<1>3. CASE WriteBlank
  <2>1. wr.pc # "idle" /\ wr'.act = wr.act /\ wr'.hdr = wr.hdr
    BY <1>3 DEF WriteBlank, At
  <2> QED
    BY <1>3, <2>1, StepWriteBlank DEF LogStep, Asked
<1>4. CASE PrepareAdd
  <2>1. wr.pc = "prep" /\ wr.act = "+" /\ UNCHANGED jnls
        /\ wr'.act = wr.act /\ wr'.hdr = wr.hdr
    BY <1>4, WriterGoto DEF PrepareAdd, At, Goto, TypeInv
  <2> QED
    BY <2>1 DEF LogStep, Asked, Aim
<1>5. CASE PrepareRem
  <2>1. wr.pc = "prep"
    BY <1>5 DEF PrepareRem, At
  <2>2. wr' = Idle \/ wr' = [wr EXCEPT !.pc = "idx"]
    BY <1>5, PrepareRemEffect
  <2>3. Asked(wr')
    <3>1. CASE wr' = Idle
      BY <3>1 DEF Asked, Idle
    <3>2. CASE wr' = [wr EXCEPT !.pc = "idx"]
      <4>1. wr'.hdr = wr.hdr /\ wr'.act = wr.act
        BY <3>2, WriterGoto DEF TypeInv
      <4> QED
        BY <2>1, <4>1 DEF Asked
    <3> QED
      BY <2>2, <3>1, <3>2
  <2> QED
    BY <1>5, <2>3, StepPrepareRem
<1>6. CASE WriteHeader
  BY <1>6, StepWriteHeader DEF LogStep
<1>7. CASE ReplaceMarks
  BY <1>7 DEF ReplaceMarks, At, FilesInv, NoMark
<1>8. CASE WriteFails \/ Crash
  BY <1>8 DEF WriteFails, Crash, TypeInv, TypeOK
<1>9. CASE Start
  <2>1. jnls' = jnls /\ wr' = wr
    BY <1>9, StartSame DEF Start
  <2> QED
    BY <2>1 DEF LogStep, Asked
<1>10. CASE Stop \/ Reader \/ UNCHANGED vars
  <2>1. jnls' = jnls /\ wr' = wr
    BY <1>10 DEF Stop, Reader, ListBegin, ListOne, ReaderRestart, vars
  <2> QED
    BY <2>1 DEF LogStep, Asked
<1> QED
  BY <1>1, <1>2, <1>3, <1>4, <1>5, <1>6, <1>7, <1>8, <1>9, <1>10 DEF Next, Writer

(* The target of the removal in progress is erased, and so is that of      *)
(* every removal in the log.                                               *)
AimsAtBlank(L, a) == \A v \in a : v \in 1 .. Len(L) /\ L[v].tag = "%"

RemsErased(L) ==
  \A w \in 1 .. Len(L) :
    L[w].tag = "-" => L[w].ref \in 1 .. Len(L) /\ L[L[w].ref].tag = "%"

LogInv == Asked(wr) /\ AimsAtBlank(LogIn(jnls), Aim(wr)) /\ RemsErased(LogIn(jnls))

(* What one step of the log is, version by version.                        *)
LEMMA AppendAt ==
  ASSUME NEW L \in Seq(Patches), NEW p \in Patches, NEW M, M = Append(L, p)
  PROVE  /\ M \in Seq(Patches) /\ Len(M) = Len(L) + 1 /\ Len(L) \in Nat
         /\ \A v \in 1 .. Len(L) : M[v] = L[v]
         /\ M[Len(L) + 1] = p
OBVIOUS

LEMMA EraseAt ==
  ASSUME NEW L \in Seq(Patches), NEW v \in 1 .. Len(L), NEW M, M = [L EXCEPT ![v].tag = "%"]
  PROVE  /\ M \in Seq(Patches) /\ Len(M) = Len(L) /\ Len(L) \in Nat
         /\ \A u \in 1 .. Len(L) : u # v => M[u] = L[u]
         /\ M[v].tag = "%" /\ M[v].ref = L[v].ref
<1>1. L[v] \in Patches
  OBVIOUS
<1>2. /\ [L[v] EXCEPT !.tag = "%"] \in Patches
      /\ [L[v] EXCEPT !.tag = "%"].tag = "%" /\ [L[v] EXCEPT !.tag = "%"].ref = L[v].ref
  BY <1>1 DEF Patches, Tags
<1>3. M = [L EXCEPT ![v] = [L[v] EXCEPT !.tag = "%"]]
  OBVIOUS
<1> QED
  BY <1>2, <1>3, ExceptSeq

(* The log's invariant is kept by the log's steps.                         *)
LEMMA LogStepKeeps ==
  ASSUME NEW L \in Seq(Patches), NEW M, NEW a, NEW b, LogStep(L, M, a, b),
         AimsAtBlank(L, a), RemsErased(L)
  PROVE  AimsAtBlank(M, b) /\ RemsErased(M)
<1>1. ASSUME M = L,
             \/ a = b
             \/ a = {} /\ \E v \in 1 .. Len(L) : b = {v} /\ L[v].tag = "%"
      PROVE  AimsAtBlank(M, b) /\ RemsErased(M)
  BY <1>1 DEF AimsAtBlank
<1>2. ASSUME NEW p \in Patches, M = Append(L, p), p.tag # "-", b = {}
      PROVE  AimsAtBlank(M, b) /\ RemsErased(M)
  BY <1>2, AppendAt DEF AimsAtBlank, RemsErased
<1>3. ASSUME NEW v \in 1 .. Len(L), L[v].tag = "+", M = [L EXCEPT ![v].tag = "%"], b = {v}
      PROVE  AimsAtBlank(M, b) /\ RemsErased(M)
  BY <1>3, EraseAt DEF AimsAtBlank, RemsErased
<1>4. ASSUME NEW v \in a, M = Append(L, Removal(v)), b = {}
      PROVE  AimsAtBlank(M, b) /\ RemsErased(M)
  <2>1. v \in 1 .. Len(L) /\ L[v].tag = "%"
    BY <1>4 DEF AimsAtBlank
  <2>2. Removal(v) \in Patches /\ Removal(v).ref = v
    BY <2>1 DEF Removal, Patches, Tags
  <2> QED
    BY <1>4, <2>1, <2>2, AppendAt DEF AimsAtBlank, RemsErased
<1>5. Additions \subseteq Patches /\ BlankPatch \in Patches /\ BlankPatch.tag # "-"
      /\ \A p \in Additions : p.tag # "-"
  BY JnlAssumption DEF Additions, Patches, Tags, BlankPatch
<1> QED
  BY <1>1, <1>2, <1>3, <1>4, <1>5 DEF LogStep

LEMMA LogInvariant ==
  ASSUME ~WithMarks, MaxFaults = 0
  PROVE  Spec => [](TypeInv /\ WriterRuns /\ FilesInv /\ Sound(jnls) /\ LogInv)
<1>1. TypeInv /\ FilesInv => Sound(jnls)
  BY FilesSound DEF TypeInv, TypeOK, FilesInv
<1>2. Init => LogInv
  <2> SUFFICES ASSUME Init PROVE LogInv
    OBVIOUS
  <2>1. Sound(jnls) /\ jnls = <<>>
    BY DEF Init, Sound, Readable, Continues, Ordered
  <2>2. Len(LogIn(jnls)) = 0
    BY <2>1, LogType DEF mdir_last_version
  <2>3. Asked(wr) /\ Aim(wr) = {}
    BY DEF Init, Idle, Asked, Aim
  <2> QED
    BY <2>2, <2>3 DEF LogInv, AimsAtBlank, RemsErased
<1>3. ASSUME TypeInv, WriterRuns, FilesInv, Sound(jnls), LogInv, Sound(jnls)', [Next]_vars
      PROVE  LogInv'
  <2>1. LogStep(LogIn(jnls), LogIn(jnls'), Aim(wr), Aim(wr')) /\ Asked(wr')
    BY <1>3, StepLog DEF LogInv
  <2>2. LogIn(jnls) \in Seq(Patches)
    BY <1>3, LogType
  <2>3. AimsAtBlank(LogIn(jnls'), Aim(wr')) /\ RemsErased(LogIn(jnls'))
    BY <1>3, <2>1, <2>2, LogStepKeeps DEF LogInv
  <2> QED
    BY <2>1, <2>3 DEF LogInv
<1>4. Spec => [](TypeInv /\ WriterRuns)
  BY TypeInvariant
<1>5. Spec => [](TypeInv /\ FilesInv)
  BY FilesInvariant
<1> QED
  BY <1>1, <1>2, <1>3, <1>4, <1>5, PTL DEF Spec

(* With no failing write, no crash in a patch and no mark, the journal     *)
(* files implement the version log, whatever the journal size: every write *)
(* is an addition, a blank, an erasure or a removal of the log, or does    *)
(* not show in it (property ImplementsVersionLog).                         *)
THEOREM FilesImplementLog ==
  ASSUME ~WithMarks, MaxFaults = 0 PROVE Spec => ImplementsVersionLog
<1>1. Init => VL!Init
  <2> SUFFICES ASSUME Init PROVE LogOf = <<>>
    BY DEF VL!Init
  <2>1. Sound(jnls) /\ jnls = <<>>
    BY DEF Init, Sound, Readable, Continues, Ordered
  <2>2. LogIn(jnls) \in Seq(Patches) /\ Len(LogIn(jnls)) = 0
    BY <2>1, LogType DEF mdir_last_version
  <2> QED
    BY <2>2, LogOfIn
<1>2. ASSUME TypeInv, WriterRuns, FilesInv, Sound(jnls), LogInv, Sound(jnls)', [Next]_vars
      PROVE  [VL!Next]_LogOf
  <2> DEFINE L == LogIn(jnls)
             M == LogIn(jnls')
  <2>1. LogStep(L, M, Aim(wr), Aim(wr'))
    BY <1>2, StepLog DEF LogInv
  <2>2. L \in Seq(Patches) /\ DOMAIN L = 1 .. Len(L)
    BY <1>2, LogType
  <2>3. AimsAtBlank(L, Aim(wr))
    BY <1>2 DEF LogInv
  <2>4. LogOf = L /\ LogOf' = M
    BY LogOfIn
  <2> HIDE DEF L, M
  <2>5. CASE M = L
    BY <2>4, <2>5
  <2>6. CASE \E p \in Additions : M = Append(L, p)
    BY <2>4, <2>6 DEF VL!Next, VL!Add, Additions
  <2>7. CASE M = Append(L, BlankPatch)
    BY <2>4, <2>7 DEF VL!Next, VL!Blank, BlankPatch
  <2>8. ASSUME NEW v \in 1 .. Len(L), L[v].tag = "+", M = [L EXCEPT ![v].tag = "%"]
        PROVE  VL!Next
    BY <2>2, <2>4, <2>8 DEF VL!Next, VL!Erase, VL!IsAdd
  <2>9. ASSUME NEW v \in Aim(wr), M = Append(L, Removal(v)) PROVE VL!Next
    BY <2>2, <2>3, <2>4, <2>9 DEF VL!Next, VL!Rem, VL!IsBlank, Removal, AimsAtBlank
  <2> QED
    BY <2>1, <2>5, <2>6, <2>7, <2>8, <2>9 DEF LogStep
<1> QED
  BY <1>1, <1>2, LogInvariant, PTL DEF Spec, ImplementsVersionLog, VL!Spec

-----------------------------------------------------------------------------
(* The reader.                                                             *)

(* What a program shows whose cursor is at cur: every addition up to there *)
(* that is not erased.  An addition that was erased after it was listed    *)
(* still shows, but then its removal is in the log beyond the cursor, or   *)
(* the writer is about to record it.                                       *)
Shows(L, a, vw, cur) ==
  /\ cur <= Len(L)
  /\ vw \subseteq 1 .. cur
  /\ \A u \in 1 .. cur : L[u].tag = "+" => u \in vw
  /\ \A v \in vw : \/ L[v].tag = "+"
                   \/ /\ L[v].tag = "%"
                      /\ \/ v \in a
                         \/ \E w \in cur + 1 .. Len(L) : L[w].tag = "-" /\ L[w].ref = v

(* The version that a listing reads next.                                  *)
Pos(js, r) == js[r.jnl].first + r.k - 1

(* A listing stays within what it measured when it began, and of a journal *)
(* that was not the last one then it measured all there will ever be.      *)
Placed(js, r) ==
  /\ Len(r.nbs) <= Len(js)
  /\ r.jnl \in 1 .. Len(r.nbs)
  /\ r.k \in 1 .. r.nbs[r.jnl]
  /\ \A i \in 1 .. Len(r.nbs) : 1 <= r.nbs[i] /\ r.nbs[i] <= Len(js[i].idx)
  /\ \A i \in 1 .. Len(r.nbs) - 1 : r.nbs[i] = js[i].nb
  /\ r.from <= Pos(js, r)

(* Between the cursor and the version to be read next there are blanks.    *)
Passed(L, cur, p) ==
  /\ cur < p /\ p - 1 <= Len(L)
  /\ \A v \in cur + 1 .. p - 1 : L[v].tag = "%"

(* No journal is empty, and the record in progress cannot be read.         *)
NonEmpty(js) == \A i \in 1 .. Len(js) : Len(js[i].idx) >= 1

Unread(js, w) == w.pc = "hdr" => js[Len(js)].log[Len(js[Len(js)].log)].full = FALSE

ReadInv ==
  /\ Shows(LogIn(jnls), Aim(wr), view, rd.cur)
  /\ rd.pc = "list" => /\ Placed(jnls, rd)
                       /\ Passed(LogIn(jnls), rd.cur, Pos(jnls, rd))
  /\ NonEmpty(jnls)
  /\ Unread(jnls, wr)

-----------------------------------------------------------------------------
(* The log's steps under a reader.                                         *)

(* The writer's steps leave true what a program shows.                     *)
LEMMA ShowsStep ==
  ASSUME NEW L \in Seq(Patches), NEW M, NEW a, NEW b, LogStep(L, M, a, b),
         AimsAtBlank(L, a), NEW vw, NEW cur \in Nat, Shows(L, a, vw, cur)
  PROVE  Shows(M, b, vw, cur)
<1>1. ASSUME M = L, a \subseteq b PROVE Shows(M, b, vw, cur)
  BY <1>1 DEF Shows
<1>2. ASSUME NEW p \in Patches, M = Append(L, p), a = {} PROVE Shows(M, b, vw, cur)
  <2>1. /\ Len(M) = Len(L) + 1 /\ Len(L) \in Nat
        /\ \A v \in 1 .. Len(L) : M[v] = L[v]
    BY <1>2, AppendAt
  <2>2. cur <= Len(M) /\ \A u \in 1 .. cur : M[u] = L[u]
    BY <2>1 DEF Shows
  <2>3. \A w \in cur + 1 .. Len(L) : w \in cur + 1 .. Len(M) /\ M[w] = L[w]
    BY <2>1 DEF Shows
  <2>4. vw \subseteq 1 .. cur
    BY DEF Shows
  <2>5. \A u \in 1 .. cur : M[u].tag = "+" => u \in vw
    BY <2>2 DEF Shows
  <2>6. ASSUME NEW v \in vw
        PROVE  \/ M[v].tag = "+"
               \/ /\ M[v].tag = "%"
                  /\ \/ v \in b
                     \/ \E w \in cur + 1 .. Len(M) : M[w].tag = "-" /\ M[w].ref = v
    <3>1. M[v] = L[v]
      BY <2>2, <2>4
    <3>2. \/ L[v].tag = "+"
          \/ L[v].tag = "%" /\ \E w \in cur + 1 .. Len(L) : L[w].tag = "-" /\ L[w].ref = v
      BY <1>2 DEF Shows
    <3> QED
      BY <2>3, <3>1, <3>2
  <2> QED
    BY <2>2, <2>4, <2>5, <2>6 DEF Shows
<1>3. ASSUME NEW x \in 1 .. Len(L), L[x].tag = "+", M = [L EXCEPT ![x].tag = "%"], b = {x}, a = {}
      PROVE  Shows(M, b, vw, cur)
  <2>1. /\ Len(M) = Len(L) /\ Len(L) \in Nat
        /\ \A u \in 1 .. Len(L) : u # x => M[u] = L[u]
        /\ M[x].tag = "%"
    BY <1>3, EraseAt
  <2>2. vw \subseteq 1 .. cur /\ cur <= Len(L) /\ \A u \in 1 .. cur : u \in 1 .. Len(L)
    BY <2>1 DEF Shows
  <2>3. \A w \in cur + 1 .. Len(L) : w \in 1 .. Len(L)
    BY <2>1
  <2>4. ASSUME NEW v \in vw
        PROVE  \/ M[v].tag = "+"
               \/ /\ M[v].tag = "%"
                  /\ \/ v \in b
                     \/ \E w \in cur + 1 .. Len(M) : M[w].tag = "-" /\ M[w].ref = v
    <3>1. CASE v = x
      BY <1>3, <2>1, <3>1
    <3>2. CASE v # x /\ L[v].tag = "+"
      BY <2>1, <2>2, <3>2
    <3>3. CASE v # x /\ L[v].tag # "+"
      <4>1. PICK w \in cur + 1 .. Len(L) : L[w].tag = "-" /\ L[w].ref = v
        BY <1>3, <3>3 DEF Shows
      <4>2. w # x /\ M[w] = L[w]
        BY <1>3, <2>1, <2>3, <4>1
      <4>3. M[v].tag = "%"
        BY <2>1, <2>2, <3>3 DEF Shows
      <4> QED
        BY <2>1, <4>1, <4>2, <4>3
    <3> QED
      BY <3>1, <3>2, <3>3
  <2>5. \A u \in 1 .. cur : M[u].tag = "+" => u \in vw
    BY <2>1, <2>2 DEF Shows
  <2> QED
    BY <2>1, <2>2, <2>4, <2>5 DEF Shows
<1>4. ASSUME NEW x \in a, a = {x}, M = Append(L, Removal(x)), b = {}
      PROVE  Shows(M, b, vw, cur)
  <2>1. x \in Nat /\ Removal(x) \in Patches /\ Removal(x).ref = x /\ Removal(x).tag = "-"
    BY <1>4 DEF Removal, Patches, Tags, AimsAtBlank
  <2>2. /\ Len(M) = Len(L) + 1 /\ Len(L) \in Nat
        /\ \A v \in 1 .. Len(L) : M[v] = L[v]
        /\ M[Len(L) + 1] = Removal(x)
    BY <1>4, <2>1, AppendAt
  <2>3. cur <= Len(M) /\ \A u \in 1 .. cur : M[u] = L[u]
    BY <2>2 DEF Shows
  <2>4. \A w \in cur + 1 .. Len(L) : w \in cur + 1 .. Len(M) /\ M[w] = L[w]
    BY <2>2 DEF Shows
  <2>5. vw \subseteq 1 .. cur /\ Len(L) + 1 \in cur + 1 .. Len(M)
    BY <2>2 DEF Shows
  <2>6. ASSUME NEW v \in vw
        PROVE  \/ M[v].tag = "+"
               \/ /\ M[v].tag = "%"
                  /\ \E w \in cur + 1 .. Len(M) : M[w].tag = "-" /\ M[w].ref = v
    <3>1. CASE v = x
      BY <2>1, <2>2, <2>3, <2>5, <3>1 DEF Shows
    <3>2. CASE v # x
      BY <1>4, <2>3, <2>4, <2>5, <3>2 DEF Shows
    <3> QED
      BY <3>1, <3>2
  <2> QED
    BY <2>3, <2>5, <2>6 DEF Shows
<1>5. Additions \subseteq Patches /\ BlankPatch \in Patches
  BY JnlAssumption DEF Additions, Patches, Tags, BlankPatch
<1> QED
  BY <1>1, <1>2, <1>3, <1>4, <1>5 DEF LogStep

(* And the blanks it has passed stay blanks.                               *)
LEMMA PassedStep ==
  ASSUME NEW L \in Seq(Patches), NEW M, NEW a, NEW b, LogStep(L, M, a, b),
         AimsAtBlank(L, a), NEW cur \in Nat, NEW p \in Nat, Passed(L, cur, p)
  PROVE  Passed(M, cur, p)
<1>1. CASE M = L
  BY <1>1
<1>2. ASSUME NEW q \in Patches, M = Append(L, q) PROVE Passed(M, cur, p)
  <2>1. /\ Len(M) = Len(L) + 1 /\ Len(L) \in Nat
        /\ \A v \in 1 .. Len(L) : M[v] = L[v]
    BY <1>2, AppendAt
  <2>2. \A v \in cur + 1 .. p - 1 : v \in 1 .. Len(L)
    BY <2>1 DEF Passed
  <2> QED
    BY <2>1, <2>2 DEF Passed
<1>3. ASSUME NEW x \in 1 .. Len(L), L[x].tag = "+", M = [L EXCEPT ![x].tag = "%"]
      PROVE  Passed(M, cur, p)
  <2>1. /\ Len(M) = Len(L) /\ Len(L) \in Nat
        /\ \A u \in 1 .. Len(L) : u # x => M[u] = L[u]
        /\ M[x].tag = "%"
    BY <1>3, EraseAt
  <2>2. \A v \in cur + 1 .. p - 1 : v \in 1 .. Len(L)
    BY <2>1 DEF Passed
  <2> QED
    BY <2>1, <2>2 DEF Passed
<1>4. \A x \in a : Removal(x) \in Patches
  BY DEF AimsAtBlank, Removal, Patches, Tags
<1>5. Additions \subseteq Patches /\ BlankPatch \in Patches
  BY JnlAssumption DEF Additions, Patches, Tags, BlankPatch
<1> QED
  BY <1>1, <1>2, <1>3, <1>4, <1>5 DEF LogStep

(* The reader's step: it calls put_cb for an addition, rem_cb for a        *)
(* removal, and moves the cursor there.                                    *)
LEMMA ShowsRead ==
  ASSUME NEW L \in Seq(Patches), NEW a, NEW vw, NEW cur \in Nat, NEW p \in 1 .. Len(L),
         RemsErased(L), Shows(L, a, vw, cur), Passed(L, cur, p), L[p].tag # "%",
         NEW new, new = IF L[p].tag = "-" THEN vw \ {L[p].ref} ELSE vw \cup {p}
  PROVE  Shows(L, a, new, p)
<1>1. Len(L) \in Nat /\ cur < p
  BY DEF Passed
<1>2. /\ vw \subseteq 1 .. cur
      /\ \A u \in 1 .. cur : L[u].tag = "+" => u \in vw
  BY DEF Shows
<1>3. \A u \in 1 .. p : u \in 1 .. cur \/ u \in cur + 1 .. p - 1 \/ u = p
  BY <1>1
<1>4. \A u \in 1 .. p : L[u].tag = "+" => u \in vw \/ u = p
  BY <1>2, <1>3 DEF Passed
<1>5. vw \subseteq 1 .. p
  BY <1>1, <1>2
<1>6. \A w \in cur + 1 .. Len(L) : w \in cur + 1 .. p - 1 \/ w = p \/ w \in p + 1 .. Len(L)
  BY <1>1
<1>7. ASSUME NEW v \in vw, L[v].tag # "+", L[p].tag = "-" => v # L[p].ref
      PROVE  /\ L[v].tag = "%"
             /\ \/ v \in a
                \/ \E w \in p + 1 .. Len(L) : L[w].tag = "-" /\ L[w].ref = v
  <2>1. L[v].tag = "%" /\ (v \in a \/ \E w \in cur + 1 .. Len(L) : L[w].tag = "-" /\ L[w].ref = v)
    BY <1>7 DEF Shows
  <2>2. ASSUME NEW w \in cur + 1 .. Len(L), L[w].tag = "-", L[w].ref = v
        PROVE  w \in p + 1 .. Len(L)
    BY <1>6, <1>7, <2>2 DEF Passed
  <2> QED
    BY <2>1, <2>2
<1>8. p <= Len(L) /\ p \in 1 .. p
  BY <1>1
<1>9. CASE L[p].tag = "-"
  <2>1. L[L[p].ref].tag = "%"
    BY <1>9 DEF RemsErased
  <2>2. \A u \in 1 .. p : L[u].tag = "+" => u \in new
    BY <1>4, <1>9, <2>1
  <2>3. new \subseteq vw /\ L[p].ref \notin new
    BY <1>9
  <2> QED
    BY <1>5, <1>7, <1>8, <2>2, <2>3 DEF Shows
<1>10. CASE L[p].tag # "-"
  <2>1. new = vw \cup {p} /\ L[p].tag = "+"
    <3>1. L[p] \in Patches
      OBVIOUS
    <3> QED
      BY <1>10, <3>1 DEF Patches, Tags
  <2> QED
    BY <1>4, <1>5, <1>7, <1>8, <1>10, <2>1 DEF Shows
<1> QED
  BY <1>9, <1>10

-----------------------------------------------------------------------------
(* The files under a reader.                                               *)

(* Journals stay where they are, indexes only grow, and a journal that is  *)
(* not the last one is complete.                                           *)
Stretch(js, new) ==
  /\ Len(js) <= Len(new)
  /\ \A i \in 1 .. Len(js) : /\ new[i].first = js[i].first
                             /\ Len(js[i].idx) <= Len(new[i].idx)
  /\ \A i \in 1 .. Len(js) - 1 : new[i].nb = js[i].nb

LEMMA StretchLast ==
  ASSUME NEW js \in Seq(Journal), NEW new \in Seq(Journal), NEW n, n = Len(js), n >= 1,
         Len(new) = n, \A i \in 1 .. n - 1 : new[i] = js[i],
         new[n].first = js[n].first, new[n].idx = js[n].idx, NonEmpty(js)
  PROVE  Stretch(js, new) /\ NonEmpty(new)
<1>1. n \in Nat
  OBVIOUS
<1>2. \A i \in 1 .. n : new[i].first = js[i].first /\ new[i].idx = js[i].idx
  <2>1. \A i \in 1 .. n : i \in 1 .. n - 1 \/ i = n
    BY <1>1
  <2> QED
    BY <2>1
<1>3. \A i \in 1 .. n : Len(js[i].idx) \in Nat
  BY JournalFields
<1> QED
  BY <1>1, <1>2, <1>3 DEF Stretch, NonEmpty

(* Every step of the writer stretches the journals.                        *)
LEMMA StepStretch ==
  ASSUME ~WithMarks, MaxFaults = 0, TypeInv, WriterRuns, FilesInv, NonEmpty(jnls), [Next]_vars
  PROVE  Stretch(jnls, jnls') /\ NonEmpty(jnls')
<1> DEFINE n == Len(jnls)
<1>1. /\ jnls \in Seq(Journal) /\ n \in Nat
      /\ \A i \in 1 .. n : Len(jnls[i].idx) \in Nat
  BY JournalFields DEF TypeInv, TypeOK
<1>2. ASSUME jnls' = jnls PROVE Stretch(jnls, jnls') /\ NonEmpty(jnls')
  BY <1>1, <1>2 DEF Stretch
<1>3. CASE WriteIndex
  <2> DEFINE js == last_jnl(jnls)
             l == Len(js)
             e == [pos |-> Len(js[l].log) + 1, mark |-> 0]
  <2>1. /\ js \in Seq(Journal) /\ l \in Nat /\ l >= 1 /\ e \in IndexEntry
        /\ Len(jnls') = l
        /\ \A i \in 1 .. l - 1 : jnls'[i] = js[i]
        /\ jnls'[l].first = js[l].first
        /\ jnls'[l].nb = js[l].nb
        /\ jnls'[l].idx = Append(js[l].idx, e)
    BY <1>3, WriteIndexEffect
  <2>2. \/ l = n /\ \A i \in 1 .. n : js[i] = jnls[i]
        \/ l = n + 1 /\ \A i \in 1 .. n : js[i] = jnls[i]
    BY <1>1, LastJnl
  <2> HIDE DEF js, e
  <2>3. js[l].idx \in Seq(IndexEntry) /\ Len(js[l].idx) \in Nat
    <3>1. js[l] \in Journal
      BY <2>1
    <3> QED
      BY <3>1, JournalFields
  <2>4. Len(jnls'[l].idx) = Len(js[l].idx) + 1
    BY <2>1, <2>3
  <2> HIDE DEF l
  <2>5. ASSUME NEW i \in 1 .. l
        PROVE  /\ jnls'[i].first = js[i].first /\ jnls'[i].nb = js[i].nb
               /\ jnls'[i].idx = js[i].idx \/ i = l
    <3>1. i \in 1 .. l - 1 \/ i = l
      BY <2>1
    <3> QED
      BY <2>1, <3>1
  <2>6. ASSUME NEW i \in 1 .. n
        PROVE  /\ jnls'[i].first = jnls[i].first /\ jnls'[i].nb = jnls[i].nb
               /\ Len(jnls[i].idx) <= Len(jnls'[i].idx)
    <3>1. i \in 1 .. l /\ js[i] = jnls[i]
      BY <1>1, <2>1, <2>2
    <3>2. Len(jnls[i].idx) <= Len(jnls'[i].idx)
      BY <1>1, <2>3, <2>4, <2>5, <3>1
    <3> QED
      BY <2>5, <3>1, <3>2
  <2>7. Stretch(jnls, jnls')
    <3>1. \A i \in 1 .. n - 1 : i \in 1 .. n
      BY <1>1
    <3> QED
      BY <1>1, <2>1, <2>2, <2>6, <3>1 DEF Stretch
  <2>8. ASSUME NEW i \in 1 .. l PROVE Len(jnls'[i].idx) >= 1
    <3>1. CASE i = l
      BY <2>3, <2>4, <3>1
    <3>2. CASE i # l
      <4>1. i \in 1 .. n /\ jnls'[i].idx = js[i].idx /\ js[i] = jnls[i]
        BY <1>1, <2>1, <2>2, <2>5, <3>2
      <4> QED
        BY <4>1 DEF NonEmpty
    <3> QED
      BY <3>1, <3>2
  <2> QED
    BY <2>1, <2>7, <2>8 DEF NonEmpty
<1>4. CASE WriteBlank
  BY <1>1, <1>4, WriteBlankEffect, StretchLast
<1>5. CASE WriteTag
  BY <1>1, <1>5, WriteTagEffect, StretchLast
<1>6. CASE WriteHeader
  BY <1>1, <1>6, WriteHeaderEffect, StretchLast
<1>7. CASE PrepareRem
  <2>1. CASE jnls' = jnls
    BY <1>2, <2>1
  <2>2. CASE jnls' # jnls
    <3> DEFINE i == find_jnl(wr.hdr.ref)
    <3>1. /\ Len(jnls') = n
          /\ \A m \in 1 .. n : m # i => jnls'[m] = jnls[m]
          /\ jnls'[i].first = jnls[i].first
          /\ jnls'[i].nb = jnls[i].nb
          /\ jnls'[i].idx = jnls[i].idx
      BY <1>7, <2>2, PrepareRemEffect
    <3> HIDE DEF i
    <3>2. \A m \in 1 .. n : /\ jnls'[m].first = jnls[m].first /\ jnls'[m].nb = jnls[m].nb
                            /\ jnls'[m].idx = jnls[m].idx
      BY <3>1
    <3> QED
      BY <1>1, <3>1, <3>2 DEF Stretch, NonEmpty
  <2> QED
    BY <2>1, <2>2
<1>8. CASE ReplaceMarks
  BY <1>8 DEF ReplaceMarks, At, FilesInv, NoMark
<1>9. CASE WriteFails \/ Crash
  BY <1>9 DEF WriteFails, Crash, TypeInv, TypeOK
<1>10. CASE Start
  BY <1>2, <1>10, StartSame
<1>11. CASE Requests \/ PrepareAdd \/ Stop \/ Reader \/ UNCHANGED vars
  BY <1>2, <1>11
  DEF Requests, mdir_patch, PrepareAdd, Stop, Reader, ListBegin, ListOne, ReaderRestart, vars
<1> QED
  BY <1>3, <1>4, <1>5, <1>6, <1>7, <1>8, <1>9, <1>10, <1>11 DEF Next, Writer

(* The record in progress stays unreadable until WriteHeader is done.      *)
LEMMA StepUnread ==
  ASSUME ~WithMarks, MaxFaults = 0, TypeInv, WriterRuns, FilesInv, Unread(jnls, wr), [Next]_vars
  PROVE  Unread(jnls', wr')
<1>1. CASE WriteTag
  <2> DEFINE n == Len(jnls)
             r == [tag |-> wr.act, type |-> wr.hdr.type, ref |-> wr.hdr.ref, full |-> FALSE]
  <2>1. /\ n \in Nat /\ n >= 1 /\ r \in Record
        /\ Len(jnls') = n /\ jnls'[n].log = Append(jnls[n].log, r)
    BY <1>1, WriteTagEffect
  <2>2. r.full = FALSE
    OBVIOUS
  <2> HIDE DEF r
  <2>3. jnls[n].log \in Seq(Record)
    <3>1. jnls[n] \in Journal
      BY <2>1 DEF TypeInv, TypeOK
    <3> QED
      BY <3>1, JournalFields
  <2>4. jnls'[n].log[Len(jnls'[n].log)] = r
    BY <2>1, <2>3
  <2> QED
    BY <2>1, <2>2, <2>4 DEF Unread
<1>2. ASSUME wr'.pc # "hdr" PROVE Unread(jnls', wr')
  BY <1>2 DEF Unread
<1>3. ASSUME UNCHANGED <<jnls, wr>> PROVE Unread(jnls', wr')
  BY <1>3
<1>4. CASE Requests
  BY <1>2, <1>4 DEF Requests, mdir_patch
<1>5. CASE WriteIndex \/ PrepareAdd
  <2>1. wr'.pc # "hdr"
    BY <1>5, WriterGoto DEF WriteIndex, PrepareAdd, Goto, TypeInv
  <2> QED
    BY <1>2, <2>1
<1>6. CASE WriteBlank
  BY <1>2, <1>6 DEF WriteBlank
<1>7. CASE PrepareRem
  <2>1. wr' = Idle \/ wr' = [wr EXCEPT !.pc = "idx"]
    BY <1>7, PrepareRemEffect
  <2>2. wr'.pc # "hdr"
    BY <2>1, WriterGoto DEF Idle, TypeInv
  <2> QED
    BY <1>2, <2>2
<1>8. CASE WriteHeader \/ ReplaceMarks
  <2>1. wr' = Idle
    BY <1>8 DEF WriteHeader, ReplaceMarks, FilesInv, NoMark
  <2>2. wr'.pc # "hdr"
    BY <2>1 DEF Idle
  <2> QED
    BY <1>2, <2>2
<1>9. CASE WriteFails \/ Crash
  BY <1>9 DEF WriteFails, Crash, TypeInv, TypeOK
<1>10. CASE Start
  BY <1>3, <1>10, StartSame DEF Start
<1>11. CASE Stop \/ Reader \/ UNCHANGED vars
  BY <1>3, <1>11 DEF Stop, Reader, ListBegin, ListOne, ReaderRestart, vars
<1> QED
  BY <1>1, <1>4, <1>5, <1>6, <1>7, <1>8, <1>9, <1>10, <1>11 DEF Next, Writer

RdType == [pc : {"idle", "list", "aborted"}, nbs : Seq(Nat), jnl : Nat, k : Nat, from : Nat, cur : Nat]

(* A listing in progress stays where it is while the writer works.         *)
LEMMA PlacedStep ==
  ASSUME NEW js \in Seq(Journal), NEW new \in Seq(Journal), Stretch(js, new),
         NEW r \in RdType, Placed(js, r)
  PROVE  Placed(new, r) /\ Pos(new, r) = Pos(js, r)
<1> DEFINE n == Len(r.nbs)
<1>1. n \in Nat /\ Len(js) \in Nat /\ Len(new) \in Nat /\ \A i \in 1 .. n : r.nbs[i] \in Nat
  BY DEF RdType
<1>2. n <= Len(js) /\ Len(js) <= Len(new)
  BY DEF Placed, Stretch
<1>3. \A i \in 1 .. n : i \in 1 .. Len(js) /\ i \in 1 .. Len(new)
  BY <1>1, <1>2
<1>4. \A i \in 1 .. n - 1 : i \in 1 .. Len(js) - 1
  BY <1>1, <1>2
<1>5. \A i \in 1 .. n : Len(js[i].idx) \in Nat /\ Len(new[i].idx) \in Nat
  <2>1. \A i \in 1 .. n : js[i] \in Journal /\ new[i] \in Journal
    BY <1>3
  <2> QED
    BY <2>1, JournalFields
<1>6. Pos(new, r) = Pos(js, r)
  BY <1>3 DEF Pos, Placed, Stretch
<1>7. ASSUME NEW i \in 1 .. n PROVE 1 <= r.nbs[i] /\ r.nbs[i] <= Len(new[i].idx)
  <2>1. /\ r.nbs[i] \in Nat /\ Len(js[i].idx) \in Nat /\ Len(new[i].idx) \in Nat
        /\ i \in 1 .. Len(js)
    BY <1>1, <1>3, <1>5
  <2>2. 1 <= r.nbs[i] /\ r.nbs[i] <= Len(js[i].idx) /\ Len(js[i].idx) <= Len(new[i].idx)
    BY <2>1 DEF Placed, Stretch
  <2> QED
    BY <2>1, <2>2
<1>8. \A i \in 1 .. n - 1 : r.nbs[i] = new[i].nb
  BY <1>4 DEF Placed, Stretch
<1> QED
  BY <1>1, <1>2, <1>6, <1>7, <1>8 DEF Placed

(* Seek goes to the first journal from number i on that reaches version    *)
(* from, or ends the listing.                                              *)
SeeksTo(i, from, nbs, new, n) ==
  /\ i <= n /\ jnls[n].first + nbs[n] > from
  /\ \A m \in i .. n - 1 : ~(jnls[m].first + nbs[m] > from)
  /\ new.pc = "list" /\ new.nbs = nbs /\ new.jnl = n /\ new.cur = rd.cur
  /\ new.from = IF from < jnls[n].first THEN jnls[n].first ELSE from
  /\ new.k = new.from - jnls[n].first + 1

LEMMA SeekLeast ==
  ASSUME TypeInv, NEW i \in Nat \ {0}, NEW from \in Nat, NEW nbs \in Seq(Nat),
         Len(nbs) <= Len(jnls), NEW new, new = Seek(i, from, nbs)
  PROVE  \/ new.pc = "idle" /\ new.cur = rd.cur
         \/ \E n \in 1 .. Len(nbs) : SeeksTo(i, from, nbs, new, n)
<1> DEFINE rest == {n \in i .. Len(nbs) : jnls[n].first + nbs[n] > from}
           n == CHOOSE m \in rest : \A o \in rest : m <= o
           start == IF from < jnls[n].first THEN jnls[n].first ELSE from
<1>1. rd \in RdType /\ Len(nbs) \in Nat
  BY DEF TypeInv, TypeOK, RdType
<1>2. CASE rest = {}
  <2>1. Seek(i, from, nbs) = [rd EXCEPT !.pc = "idle"]
    BY <1>2 DEF Seek
  <2> QED
    BY <1>1, <2>1 DEF RdType
<1>3. CASE rest # {}
  <2>1. Seek(i, from, nbs) = [rd EXCEPT !.pc = "list", !.nbs = nbs, !.from = start,
                                       !.jnl = n, !.k = start - jnls[n].first + 1]
    BY <1>3 DEF Seek
  <2>2. n \in rest /\ \A o \in rest : n <= o
    <3>1. rest \subseteq Nat
      OBVIOUS
    <3> HIDE DEF rest
    <3> QED
      BY <1>3, <3>1, LeastNumber
  <2> HIDE DEF n
  <2>3. n \in i .. Len(nbs) /\ jnls[n].first + nbs[n] > from
    BY <2>2
  <2>4. ASSUME NEW m \in i .. n - 1 PROVE ~(jnls[m].first + nbs[m] > from)
    <3>1. m \in i .. Len(nbs) /\ ~(n <= m)
      BY <1>1, <2>3
    <3> QED
      BY <2>2, <3>1
  <2> HIDE DEF rest, start
  <2>5. /\ new.pc = "list" /\ new.nbs = nbs /\ new.jnl = n /\ new.cur = rd.cur
        /\ new.from = start /\ new.k = start - jnls[n].first + 1
    BY <1>1, <2>1 DEF RdType
  <2>6. n \in 1 .. Len(nbs) /\ i <= n
    BY <1>1, <2>3
  <2> QED
    BY <2>3, <2>4, <2>5, <2>6 DEF start, SeeksTo
<1> QED
  BY <1>2, <1>3

(* A listing begins right behind the cursor, if there is anything.         *)
LEMMA ListBeginPlaced ==
  ASSUME TypeInv, FilesInv, Sound(jnls), NonEmpty(jnls), ListBegin
  PROVE  /\ rd'.cur = rd.cur
         /\ rd'.pc = "list" => Placed(jnls, rd') /\ Pos(jnls, rd') = rd.cur + 1
<1> DEFINE nbs == [i \in DOMAIN jnls |-> Len(jnls[i].idx)]
           n == Len(jnls)
           from == rd.cur + 1
<1>1. jnls \in Seq(Journal) /\ n \in Nat /\ DOMAIN jnls = 1 .. n /\ from \in Nat /\ rd.cur \in Nat
  BY DEF TypeInv, TypeOK
<1>2. \A i \in 1 .. n : /\ jnls[i].first \in Nat /\ jnls[i].nb \in Nat
                        /\ Len(jnls[i].idx) \in Nat /\ jnls[i].nb <= Len(jnls[i].idx)
  BY JournalFields, SoundTypes DEF Sound, Readable
<1>3. nbs \in Seq(Nat) /\ Len(nbs) = n /\ \A i \in 1 .. n : nbs[i] = Len(jnls[i].idx)
  BY <1>1, <1>2
<1>4. rd' = Seek(1, from, nbs)
  BY DEF ListBegin
<1> HIDE DEF nbs, from
<1>5. Len(nbs) <= Len(jnls) /\ 1 \in Nat \ {0}
  BY <1>1, <1>3
<1>6. \/ rd'.pc = "idle" /\ rd'.cur = rd.cur
      \/ \E i \in 1 .. Len(nbs) : SeeksTo(1, from, nbs, rd', i)
  BY <1>1, <1>3, <1>4, <1>5, SeekLeast
<1>7. CASE rd'.pc = "list"
  <2>1. PICK i \in 1 .. n :
           /\ jnls[i].first + nbs[i] > from
           /\ \A m \in 1 .. i - 1 : ~(jnls[m].first + nbs[m] > from)
           /\ rd'.pc = "list" /\ rd'.nbs = nbs /\ rd'.jnl = i /\ rd'.cur = rd.cur
           /\ rd'.from = IF from < jnls[i].first THEN jnls[i].first ELSE from
           /\ rd'.k = rd'.from - jnls[i].first + 1
    BY <1>3, <1>6, <1>7 DEF SeeksTo
  <2>2. \A m \in 1 .. n - 1 : nbs[m] = jnls[m].nb
    <3>1. \A m \in 1 .. n - 1 : m \in 1 .. n /\ Agree(jnls[m], 0, 0)
      BY <1>1 DEF FilesInv, AllAgree
    <3>2. \A m \in 1 .. n - 1 : Len(jnls[m].idx) = jnls[m].nb + 0 /\ jnls[m].nb \in Nat
      BY <1>2, <3>1 DEF Agree
    <3>3. \A m \in 1 .. n - 1 : Len(jnls[m].idx) = jnls[m].nb
      BY <3>2
    <3> QED
      BY <1>3, <3>1, <3>3
  <2>3. jnls[i].first <= from
    <3>1. CASE i = 1
      <4>1. jnls[1].first = 1
        BY <3>1 DEF Sound, Continues
      <4> QED
        BY <1>1, <3>1, <4>1 DEF from
    <3>2. CASE i # 1
      <4>1. i - 1 \in 1 .. n - 1 /\ i - 1 \in 1 .. n /\ i - 1 \in 1 .. i - 1
        BY <1>1, <3>2
      <4>2. jnls[i].first = jnls[i - 1].first + jnls[i - 1].nb
        BY <3>2 DEF Sound, Continues
      <4>3. ~(jnls[i - 1].first + nbs[i - 1] > from)
        BY <2>1, <4>1
      <4>4. nbs[i - 1] = jnls[i - 1].nb
        BY <2>2, <4>1
      <4>5. jnls[i - 1].first \in Nat /\ jnls[i - 1].nb \in Nat
        BY <1>2, <4>1
      <4> QED
        BY <1>1, <4>2, <4>3, <4>4, <4>5
    <3> QED
      BY <3>1, <3>2
  <2>4. jnls[i].first \in Nat /\ nbs[i] \in Nat
    BY <1>2, <1>3
  <2>5. rd'.from = from /\ rd'.k = from - jnls[i].first + 1
    BY <1>1, <2>1, <2>3, <2>4
  <2>6. rd'.k \in 1 .. nbs[i] /\ jnls[i].first + rd'.k - 1 = from
    BY <1>1, <2>1, <2>3, <2>4, <2>5
  <2>7. \A m \in 1 .. n : 1 <= nbs[m] /\ nbs[m] <= Len(jnls[m].idx)
    BY <1>2, <1>3 DEF NonEmpty
  <2>8. rd'.nbs = nbs /\ rd'.jnl = i /\ rd'.cur = rd.cur /\ Len(nbs) = Len(jnls) /\ Len(nbs) = n
    BY <1>3, <2>1
  <2>9. Pos(jnls, rd') = from
    BY <2>6, <2>8 DEF Pos
  <2>10. from <= from
    BY <1>1
  <2>11. Placed(jnls, rd')
    <3>1. Len(rd'.nbs) <= Len(jnls)
      BY <1>1, <2>8
    <3>2. rd'.jnl \in 1 .. Len(rd'.nbs) /\ rd'.k \in 1 .. rd'.nbs[rd'.jnl]
      BY <2>6, <2>8
    <3>3. \A m \in 1 .. Len(rd'.nbs) : 1 <= rd'.nbs[m] /\ rd'.nbs[m] <= Len(jnls[m].idx)
      BY <2>7, <2>8
    <3>4. \A m \in 1 .. Len(rd'.nbs) - 1 : rd'.nbs[m] = jnls[m].nb
      BY <2>2, <2>8
    <3>5. rd'.from <= Pos(jnls, rd')
      BY <2>5, <2>9, <2>10
    <3> QED
      BY <3>1, <3>2, <3>3, <3>4, <3>5 DEF Placed
  <2> QED
    BY <2>8, <2>9, <2>11 DEF from
<1> QED
  BY <1>6, <1>7 DEF SeeksTo

(* A record that the reader can read counts: it finds the one in progress  *)
(* missing, which the assertion notices, or incomplete.                    *)
LEMMA ReadsCounted ==
  ASSUME TypeInv, FilesInv, Sound(jnls), Unread(jnls, wr), Placed(jnls, rd),
         AssertOffsets(jnls[rd.jnl], rd.nbs[rd.jnl], rd.k),
         jnl_read(jnls[rd.jnl], rd.k).full
  PROVE  /\ Pos(jnls, rd) \in 1 .. Len(LogIn(jnls))
         /\ LogIn(jnls)[Pos(jnls, rd)] = Patch(jnl_read(jnls[rd.jnl], rd.k))
<1> DEFINE i == rd.jnl
           k == rd.k
           j == jnls[i]
           nb == rd.nbs[i]
<1>1. rd \in RdType /\ Len(rd.nbs) \in Nat /\ Len(jnls) \in Nat
  BY DEF TypeInv, TypeOK, RdType
<1>2. i \in 1 .. Len(rd.nbs) /\ i \in 1 .. Len(jnls)
  BY <1>1 DEF Placed
<1>3. nb \in Nat /\ k \in Nat /\ k \in 1 .. nb /\ nb <= Len(j.idx)
  BY <1>1, <1>2 DEF Placed, RdType
<1>4. /\ j \in Journal /\ j.nb \in Nat
      /\ Agree(j, Unfinished(i, {"blog", "tag", "hdr"}), Unfinished(i, {"hdr"}))
  BY <1>2, AgreeEach
<1>5. Len(j.idx) \in Nat /\ Len(j.log) \in Nat
  BY <1>4, JournalFields
<1>6. k \in 1 .. j.nb
  <2> SUFFICES ASSUME k \notin 1 .. j.nb PROVE FALSE
    OBVIOUS
  <2>1. Unfinished(i, {"blog", "tag", "hdr"}) \in {0, 1} /\ Unfinished(i, {"hdr"}) \in {0, 1}
    BY DEF Unfinished
  <2>2. /\ Len(j.idx) = j.nb + Unfinished(i, {"blog", "tag", "hdr"})
        /\ Len(j.log) = j.nb + Unfinished(i, {"hdr"})
        /\ \A l \in 1 .. Len(j.idx) : j.idx[l].pos = l
    BY <1>4 DEF Agree
  <2> HIDE DEF j, nb, k
  <2>3. k = j.nb + 1 /\ nb = k /\ k \in 1 .. Len(j.idx)
    BY <1>3, <1>4, <1>5, <2>1, <2>2
  <2>4. Offset(j, k) = k
    BY <2>2, <2>3 DEF Offset
  <2>5. EndOffset(j, nb, k) = Len(j.log) + 1
    BY <1>3, <2>3 DEF EndOffset
  <2>6. Len(j.log) + 1 > k
    BY <2>4, <2>5 DEF AssertOffsets, j, nb, k
  <2>7. Unfinished(i, {"hdr"}) = 1 /\ Len(j.log) = k
    BY <1>4, <1>5, <2>1, <2>2, <2>3, <2>6
  <2>8. wr.pc = "hdr" /\ i = Len(jnls)
    BY <2>7 DEF Unfinished
  <2>9. j.log[k].full = FALSE
    BY <2>7, <2>8 DEF Unread, j
  <2>10. j.log[k].full
    BY <2>4 DEF jnl_read, j, k
  <2> QED
    BY <2>9, <2>10
<1>7. /\ j.first + k - 1 \in 1 .. mdir_last_version(jnls)
      /\ jnl_read(j, k) = j.log[k]
      /\ LogIn(jnls)[j.first + k - 1] = Patch(j.log[k])
  BY <1>2, <1>6, LogAt
<1> QED
  BY <1>7, LogType DEF Pos

(* The loop of synch_list goes on with the next version, in the same       *)
(* journal or at the start of the next one.                                *)
LEMMA NextPlaced ==
  ASSUME TypeInv, Sound(jnls), Placed(jnls, rd), rd.pc = "list",
         NEW next, next = IF rd.k < rd.nbs[rd.jnl] THEN [rd EXCEPT !.k = @ + 1]
                                                   ELSE Seek(rd.jnl + 1, rd.from, rd.nbs)
  PROVE  /\ next.cur = rd.cur
         /\ next.pc = "list" => Placed(jnls, next) /\ Pos(jnls, next) = Pos(jnls, rd) + 1
<1> DEFINE i == rd.jnl
           n == Len(rd.nbs)
<1>1. rd \in RdType /\ n \in Nat /\ Len(jnls) \in Nat /\ n <= Len(jnls)
  BY DEF TypeInv, TypeOK, RdType, Placed
<1>2. i \in 1 .. n /\ i \in 1 .. Len(jnls) /\ \A m \in 1 .. n : m \in 1 .. Len(jnls)
  BY <1>1 DEF Placed
<1>3. rd.k \in Nat /\ rd.k \in 1 .. rd.nbs[i] /\ rd.nbs[i] \in Nat /\ rd.from \in Nat
  BY <1>1, <1>2 DEF Placed, RdType
<1>4. jnls[i].first \in Nat /\ jnls[i].nb \in Nat
  BY <1>2, SoundTypes
<1>5. rd.from <= jnls[i].first + rd.k - 1
  BY DEF Placed, Pos
<1>6. CASE rd.k < rd.nbs[i]
  <2>1. /\ next.k = rd.k + 1 /\ next.pc = rd.pc /\ next.nbs = rd.nbs /\ next.jnl = i
        /\ next.from = rd.from /\ next.cur = rd.cur
    BY <1>1, <1>6 DEF RdType
  <2>2. rd.k + 1 \in 1 .. rd.nbs[i]
    BY <1>3, <1>6
  <2>3. Pos(jnls, next) = Pos(jnls, rd) + 1
    BY <1>3, <1>4, <2>1 DEF Pos
  <2>4. next.from <= Pos(jnls, next)
    BY <1>3, <1>4, <1>5, <2>1, <2>3 DEF Pos
  <2> QED
    BY <2>1, <2>2, <2>3, <2>4 DEF Placed
<1>7. CASE ~(rd.k < rd.nbs[i])
  <2>1. next = Seek(i + 1, rd.from, rd.nbs) /\ rd.k = rd.nbs[i]
    BY <1>3, <1>7
  <2>2. \/ next.pc = "idle" /\ next.cur = rd.cur
        \/ \E m \in 1 .. n : SeeksTo(i + 1, rd.from, rd.nbs, next, m)
    <3>1. i + 1 \in Nat \ {0} /\ rd.nbs \in Seq(Nat)
      BY <1>1, <1>2 DEF RdType
    <3> QED
      BY <1>1, <1>3, <2>1, <3>1, SeekLeast
  <2>3. CASE next.pc = "idle" /\ next.cur = rd.cur
    BY <2>3
  <2>4. ASSUME NEW m \in 1 .. n, SeeksTo(i + 1, rd.from, rd.nbs, next, m)
        PROVE  /\ next.cur = rd.cur
               /\ Placed(jnls, next) /\ Pos(jnls, next) = Pos(jnls, rd) + 1
    <3>1. i + 1 <= m
      BY <2>4 DEF SeeksTo
    <3>2. i + 1 \in 1 .. n /\ i \in 1 .. n - 1 /\ i + 1 # 1 /\ (i + 1) - 1 = i
      BY <1>1, <1>2, <3>1
    <3>3. rd.nbs[i] = jnls[i].nb
      BY <3>2 DEF Placed
    <3>4. jnls[i + 1].first = jnls[i].first + jnls[i].nb
      BY <1>2, <3>2 DEF Sound, Continues
    <3>5. rd.nbs[i + 1] \in Nat /\ 1 <= rd.nbs[i + 1] /\ jnls[i + 1].first \in Nat
      <4>1. rd.nbs \in Seq(Nat)
        BY <1>1 DEF RdType
      <4>2. rd.nbs[i + 1] \in Nat
        <5>1. i + 1 \in 1 .. Len(rd.nbs)
          BY <3>2
        <5> QED
          BY <4>1, <5>1, ElementOfSeq
      <4>3. 1 <= rd.nbs[i + 1]
        BY <3>2 DEF Placed
      <4>4. i + 1 \in 1 .. Len(jnls)
        BY <1>2, <3>2
      <4> QED
        BY <4>2, <4>3, <4>4, SoundTypes
    <3>6. rd.from < jnls[i + 1].first /\ jnls[i + 1].first + rd.nbs[i + 1] > rd.from
      <4> HIDE DEF i
      <4>1. jnls[i + 1].first = jnls[i].first + rd.k
        BY <2>1, <3>3, <3>4
      <4>2. rd.from < jnls[i + 1].first
        BY <1>3, <1>4, <1>5, <4>1
      <4> QED
        BY <1>3, <3>5, <4>2
    <3>7. m = i + 1
      <4>1. ~(i + 1 < m)
        <5>1. i + 1 < m => i + 1 \in i + 1 .. m - 1
          BY <1>1, <1>2
        <5> QED
          BY <2>4, <3>6, <5>1 DEF SeeksTo
      <4> QED
        BY <1>1, <1>2, <3>1, <4>1
    <3>8. /\ next.nbs = rd.nbs /\ next.jnl = i + 1 /\ next.cur = rd.cur
          /\ next.from = jnls[i + 1].first /\ next.k = next.from - jnls[i + 1].first + 1
      BY <2>4, <3>6, <3>7 DEF SeeksTo
    <3>9. next.k = 1
      BY <3>5, <3>8
    <3>10. /\ Pos(jnls, next) = jnls[i + 1].first
           /\ jnls[i + 1].first = Pos(jnls, rd) + 1
      <4>1. jnls[i + 1].first = jnls[i].first + rd.k
        BY <2>1, <3>3, <3>4
      <4>2. Pos(jnls, next) = jnls[i + 1].first + 1 - 1
        BY <3>8, <3>9 DEF Pos
      <4>3. Pos(jnls, rd) = jnls[i].first + rd.k - 1
        BY DEF Pos
      <4> HIDE DEF i
      <4> QED
        BY <1>3, <1>4, <3>5, <4>1, <4>2, <4>3
    <3>11. next.k \in 1 .. next.nbs[next.jnl] /\ next.from <= Pos(jnls, next)
      BY <3>5, <3>8, <3>9, <3>10
    <3> QED
      BY <1>1, <3>2, <3>8, <3>10, <3>11 DEF Placed
  <2> QED
    BY <2>2, <2>3, <2>4 DEF SeeksTo
<1> QED
  BY <1>6, <1>7

-----------------------------------------------------------------------------
(* The invariant of the reader.                                            *)

LEMMA ReadInit == Init => ReadInv
<1> SUFFICES ASSUME Init PROVE ReadInv
  OBVIOUS
<1>1. jnls = <<>> /\ rd.pc = "idle" /\ rd.cur = 0 /\ view = {} /\ wr.pc = "idle"
  BY DEF Init, ReaderInit, Idle
<1>2. Sound(jnls)
  BY <1>1 DEF Sound, Readable, Continues, Ordered
<1>3. Len(LogIn(jnls)) = 0
  BY <1>1, <1>2, LogType DEF mdir_last_version
<1> QED
  BY <1>1, <1>3 DEF ReadInv, Shows, NonEmpty, Unread

(* One turn of the loop of synch_list.                                     *)
LEMMA ListOneReads ==
  ASSUME TypeInv, FilesInv, Sound(jnls), LogInv, ReadInv, ListOne
  PROVE  /\ Shows(LogIn(jnls), Aim(wr), view', rd'.cur)
         /\ rd'.pc = "list" => /\ Placed(jnls, rd')
                               /\ Passed(LogIn(jnls), rd'.cur, Pos(jnls, rd'))
<1> DEFINE L == LogIn(jnls)
           p == Pos(jnls, rd)
           j == jnls[rd.jnl]
           nb == rd.nbs[rd.jnl]
           r == jnl_read(j, rd.k)
           version == j.first + rd.k - 1
           next == IF rd.k < nb THEN [rd EXCEPT !.k = @ + 1]
                                ELSE Seek(rd.jnl + 1, rd.from, rd.nbs)
<1>1. rd \in RdType /\ rd.pc = "list" /\ rd.cur \in Nat
  BY DEF ListOne, TypeInv, TypeOK, RdType
<1>2. /\ Shows(L, Aim(wr), view, rd.cur) /\ Placed(jnls, rd) /\ Passed(L, rd.cur, p)
      /\ Unread(jnls, wr) /\ RemsErased(L)
  BY <1>1 DEF ReadInv, LogInv
<1>3. L \in Seq(Patches) /\ Len(L) \in Nat
  BY LogType
<1>4. /\ next.cur = rd.cur
      /\ next.pc = "list" => Placed(jnls, next) /\ Pos(jnls, next) = p + 1
  <2>1. next = IF rd.k < rd.nbs[rd.jnl] THEN [rd EXCEPT !.k = @ + 1]
                                        ELSE Seek(rd.jnl + 1, rd.from, rd.nbs)
    OBVIOUS
  <2> HIDE DEF next
  <2> QED
    BY <1>1, <1>2, <2>1, NextPlaced
<1>5. ASSUME UNCHANGED view, rd'.cur = rd.cur, rd'.pc # "list"
      PROVE  /\ Shows(L, Aim(wr), view', rd'.cur)
             /\ rd'.pc = "list" => Placed(jnls, rd') /\ Passed(L, rd'.cur, Pos(jnls, rd'))
  BY <1>2, <1>5
<1>6. CASE rd' = [rd EXCEPT !.pc = "aborted"] /\ UNCHANGED view
  BY <1>1, <1>5, <1>6 DEF RdType
<1>7. CASE rd' = [rd EXCEPT !.pc = "idle"] /\ UNCHANGED view
  BY <1>1, <1>5, <1>7 DEF RdType
<1>8. ASSUME AssertOffsets(j, nb, rd.k), r.full
      PROVE  p \in 1 .. Len(L) /\ L[p].tag = r.tag /\ L[p].ref = r.ref
  BY <1>2, <1>8, ReadsCounted DEF Patch
<1>9. CASE /\ AssertOffsets(j, nb, rd.k) /\ r.full /\ r.tag = "%"
           /\ rd' = next /\ UNCHANGED view
  <2>1. p \in 1 .. Len(L) /\ L[p].tag = "%"
    BY <1>8, <1>9
  <2> HIDE DEF next, p, L
  <2>2. ASSUME rd'.pc = "list" PROVE Placed(jnls, rd') /\ Passed(L, rd'.cur, Pos(jnls, rd'))
    <3>1. Placed(jnls, rd') /\ Pos(jnls, rd') = p + 1 /\ rd'.cur = rd.cur
      BY <1>4, <1>9, <2>2
    <3>2. Passed(L, rd.cur, p + 1)
      BY <1>1, <1>2, <1>3, <2>1 DEF Passed
    <3> QED
      BY <3>1, <3>2
  <2> QED
    BY <1>2, <1>4, <1>9, <2>2 DEF L
<1>10. CASE /\ AssertOffsets(j, nb, rd.k) /\ r.full /\ r.tag # "%"
            /\ rd' = [next EXCEPT !.cur = version]
            /\ view' = IF r.tag = "-" THEN view \ {r.ref} ELSE view \cup {version}
  <2>1. p \in 1 .. Len(L) /\ L[p].tag = r.tag /\ L[p].ref = r.ref /\ version = p
    BY <1>8, <1>10 DEF Pos
  <2> HIDE DEF r, version
  <2>2. Shows(L, Aim(wr), view', p)
    <3> HIDE DEF p, L
    <3> QED
      BY <1>1, <1>2, <1>3, <1>10, <2>1, ShowsRead
  <2>3. next \in RdType
    <3>1. CASE rd.k < nb
      BY <1>1, <3>1, SMTT(30) DEF RdType
    <3>2. CASE ~(rd.k < nb)
      <4>1. /\ next = Seek(rd.jnl + 1, rd.from, rd.nbs)
            /\ rd.jnl + 1 \in Nat \ {0} /\ rd.from \in Nat /\ rd.nbs \in Seq(Nat)
            /\ Len(rd.nbs) <= Len(jnls)
        BY <1>1, <1>2, <3>2 DEF RdType, Placed
      <4> HIDE DEF next
      <4> QED
        BY <4>1, SeekType DEF RdType
    <3> QED
      BY <3>1, <3>2
  <2> HIDE DEF next
  <2>4. /\ rd'.cur = p /\ rd'.pc = next.pc /\ rd'.jnl = next.jnl /\ rd'.k = next.k
        /\ rd'.nbs = next.nbs /\ rd'.from = next.from
    BY <1>10, <2>1, <2>3 DEF RdType
  <2>5. ASSUME rd'.pc = "list" PROVE Placed(jnls, rd') /\ Passed(L, rd'.cur, Pos(jnls, rd'))
    <3>1. Placed(jnls, next) /\ Pos(jnls, next) = p + 1
      BY <1>4, <2>4, <2>5
    <3>2. Pos(jnls, rd') = p + 1
      BY <2>4, <3>1 DEF Pos
    <3>3. Placed(jnls, rd')
      BY <2>4, <3>1, <3>2 DEF Placed
    <3> HIDE DEF p, L
    <3>4. Passed(L, p, p + 1)
      BY <1>3, <2>1 DEF Passed
    <3> QED
      BY <2>4, <3>2, <3>3, <3>4
  <2> QED
    BY <2>2, <2>4, <2>5
<1> QED
  BY <1>6, <1>7, <1>9, <1>10 DEF ListOne

(* Every step keeps the invariant: the writer's through the steps of the   *)
(* log, the reader's one by one.                                           *)
LEMMA ReadStep ==
  ASSUME ~WithMarks, MaxFaults = 0, TypeInv, TypeInv', WriterRuns, FilesInv,
         Sound(jnls), Sound(jnls'), LogInv, ReadInv, [Next]_vars
  PROVE  ReadInv'
<1>1. Stretch(jnls, jnls') /\ NonEmpty(jnls') /\ Unread(jnls', wr')
  BY StepStretch, StepUnread DEF ReadInv
<1>2. rd \in RdType /\ rd.cur \in Nat /\ jnls \in Seq(Journal) /\ jnls' \in Seq(Journal)
  BY DEF TypeInv, TypeOK, RdType
<1>3. CASE UNCHANGED <<rd, view>>
  <2> DEFINE L == LogIn(jnls)
             M == LogIn(jnls')
  <2>1. LogStep(L, M, Aim(wr), Aim(wr')) /\ L \in Seq(Patches) /\ AimsAtBlank(L, Aim(wr))
    BY StepLog, LogType DEF LogInv
  <2>2. Shows(M, Aim(wr'), view, rd.cur)
    BY <1>2, <2>1, ShowsStep DEF ReadInv
  <2>3. ASSUME rd.pc = "list" PROVE Placed(jnls', rd) /\ Passed(M, rd.cur, Pos(jnls', rd))
    <3>1. Placed(jnls, rd) /\ Passed(L, rd.cur, Pos(jnls, rd))
      BY <2>3 DEF ReadInv
    <3>2. Placed(jnls', rd) /\ Pos(jnls', rd) = Pos(jnls, rd)
      BY <1>1, <1>2, <3>1, PlacedStep
    <3>3. Pos(jnls, rd) \in Nat
      <4>1. rd.jnl \in 1 .. Len(jnls) /\ rd.k \in Nat /\ rd.k >= 1
        BY <1>2, <3>1 DEF Placed, RdType
      <4>2. jnls[rd.jnl].first \in Nat
        BY <4>1, SoundTypes
      <4> QED
        BY <4>1, <4>2 DEF Pos
    <3> QED
      BY <1>2, <2>1, <3>1, <3>2, <3>3, PassedStep
  <2> QED
    BY <1>1, <1>3, <2>2, <2>3 DEF ReadInv
<1>4. CASE ListBegin
  <2>1. /\ rd'.cur = rd.cur /\ UNCHANGED <<jnls, wr, view>>
        /\ rd'.pc = "list" => Placed(jnls, rd') /\ Pos(jnls, rd') = rd.cur + 1
    BY <1>4, ListBeginPlaced DEF ListBegin, ReadInv
  <2>2. Passed(LogIn(jnls), rd.cur, rd.cur + 1)
    <3>1. rd.cur <= Len(LogIn(jnls))
      BY DEF ReadInv, Shows
    <3> QED
      BY <1>2, <3>1 DEF Passed
  <2> QED
    BY <1>1, <2>1, <2>2 DEF ReadInv
<1>5. CASE ListOne
  <2>1. UNCHANGED <<jnls, wr>>
    BY <1>5 DEF ListOne
  <2> QED
    BY <1>1, <1>5, <2>1, ListOneReads DEF ReadInv
<1>6. CASE ReaderRestart
  <2>1. rd'.pc = "idle" /\ rd'.cur = 0 /\ view' = {}
    BY <1>6 DEF ReaderRestart, ReaderInit
  <2>2. Len(LogIn(jnls')) \in Nat
    BY LogType
  <2>3. Shows(LogIn(jnls'), Aim(wr'), view', rd'.cur)
    BY <2>1, <2>2 DEF Shows
  <2> QED
    BY <1>1, <2>1, <2>3 DEF ReadInv
<1>7. CASE Writer \/ UNCHANGED vars
  <2>1. UNCHANGED <<rd, view>>
    BY <1>7 DEF Writer, Requests, mdir_patch, WriteIndex, WriteBlank, PrepareAdd, PrepareRem,
                WriteTag, WriteHeader, ReplaceMarks, WriteFails, Crash, Stop, Start, vars
  <2> QED
    BY <1>3, <2>1
<1> QED
  BY <1>4, <1>5, <1>6, <1>7 DEF Next, Reader

(* Under the same conditions a program that lists an mdir incrementally,   *)
(* while the writer appends to it, opens new journals and erases what was  *)
(* listed already, shows exactly the additions that are not deleted once   *)
(* it has caught up (property ListExact).                                  *)
THEOREM ListingIsExact ==
  ASSUME ~WithMarks, MaxFaults = 0 PROVE Spec => []ListExact
<1>1. TypeInv /\ TypeInv' /\ WriterRuns /\ FilesInv /\ Sound(jnls) /\ Sound(jnls)'
        /\ LogInv /\ ReadInv /\ [Next]_vars => ReadInv'
  BY ReadStep
<1>2. ASSUME TypeInv, Sound(jnls), ReadInv PROVE ListExact
  <2> DEFINE L == LogIn(jnls)
             n == mdir_last_version(jnls)
  <2> SUFFICES ASSUME wr.pc = "idle", rd.cur = n PROVE view = Live
    BY DEF ListExact
  <2>1. Len(L) = n /\ n \in Nat /\ Aim(wr) = {}
    BY <1>2, LogType, SoundTypes DEF Aim
  <2>2. Live = {v \in 1 .. n : L[v].tag = "+"}
    BY LogOfIn DEF Live, LogIn, Patch
  <2>3. Shows(L, {}, view, n)
    BY <1>2, <2>1 DEF ReadInv
  <2> HIDE DEF L, n
  <2>4. \A v \in view : v \in 1 .. n /\ L[v].tag = "+"
    <3>1. n + 1 .. Len(L) = {}
      BY <2>1
    <3> QED
      BY <2>3, <3>1 DEF Shows
  <2>5. \A v \in 1 .. n : L[v].tag = "+" => v \in view
    BY <2>3 DEF Shows
  <2> QED
    BY <2>2, <2>4, <2>5
<1> QED
  BY <1>1, <1>2, ReadInit, LogInvariant, PTL DEF Spec

=============================================================================
