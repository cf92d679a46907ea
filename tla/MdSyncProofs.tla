---------------------------- MODULE MdSyncProofs ----------------------------
(***************************************************************************)
(* Theorems about the synchronisation of module MdSync, for every number   *)
(* of requests, of foreign patches and of broken connections, with and     *)
(* without contention and refusals.                                        *)
(***************************************************************************)
EXTENDS MdSync, SequenceTheorems, FiniteSetTheorems, WellFoundedInduction, TLAPS

-----------------------------------------------------------------------------
(* Types.  A version may be that of a transient, which is negative, in the *)
(* mark that a program puts on it (module Vadrouille).                     *)

LogEntry  == [tag : {"+", "-", "%"}, ref : Int, org : Nat, lid : Nat]
Keywords  == {"sub", "put", "rem"}
QueryMsg  == {q \in [kw : Keywords, id : Nat, ref : Int] : q.kw = "sub" => q.id = 0 /\ q.ref \in Nat}
AnswerMsg == {a \in [kw : Keywords, id : Nat, status : Nat, version : Nat] : a.kw = "sub" => a.id = 0}
PatchMsg  == [kw : {"patch"}, old : Nat, new : Nat, tag : {"+", "-"}, ref : Int, org : Nat]
RequestFile == [id : Nat, tag : {"+", "-"}, ref : Int]
Queued    == [old : Nat, new : Nat, e : LogEntry]
Command   == [kw : Keywords, id : Nat]

ServerTypes ==
  /\ slog \in Seq(LogEntry)
  /\ answer \in Seq(AnswerMsg) /\ Len(answer) <= 1
  /\ sub \in [on : BOOLEAN, version : Nat]
  /\ orphans \in Seq(QueryMsg)

FileTypes ==
  /\ clog \in Seq(LogEntry)
  /\ drafts \subseteq RequestFile /\ tmp \subseteq RequestFile
  /\ err \subseteq Nat
  /\ nextLocal \in Nat

MemoryTypes ==
  /\ commands \subseteq Command /\ IsFiniteSet(commands)
  /\ acks \in Int
  /\ c2l \subseteq [central : Nat, local : Nat]
  /\ patches \in Seq(Queued)
  /\ applying \in BOOLEAN /\ subscribed \in BOOLEAN /\ quarantine \in BOOLEAN
  /\ unsaved \subseteq Nat /\ unreported \subseteq Nat

NetTypes ==
  /\ up \in Seq(QueryMsg)
  /\ down \in Seq(AnswerMsg \cup PatchMsg)
  /\ link \in BOOLEAN
  /\ breaks \in Nat

(* A patch leads to a later version, and is not blank.                     *)
Forward ==
  /\ \A i \in 1 .. Len(down) : down[i].kw = "patch" => down[i].old < down[i].new
  /\ \A i \in 1 .. Len(patches) : /\ patches[i].old < patches[i].new
                                  /\ patches[i].e.tag # "%"

(* The last version of the server's mdir is not blank: mdir_read_next      *)
(* finds one.  A removal comes after its target, which it made blank.      *)
LogSane(log) ==
  /\ Len(log) > 0 => log[Len(log)].tag # "%"
  /\ \A v \in 1 .. Len(log) :
       log[v].tag = "-" => log[v].ref \in 1 .. v - 1 /\ log[log[v].ref].tag = "%"

TypeInv ==
  ServerTypes /\ FileTypes /\ MemoryTypes /\ NetTypes /\ Forward /\ LogSane(slog)

-----------------------------------------------------------------------------
(* The version log.                                                        *)

(* An entry that a removal made blank keeps everything but its tag.        *)
Blanked(x) == [x EXCEPT !.tag = "%"]

LEMMA BlankedEntry ==
  ASSUME NEW x \in LogEntry
  PROVE  /\ Blanked(x) \in LogEntry /\ Blanked(x).tag = "%"
         /\ Blanked(x).ref = x.ref /\ Blanked(x).org = x.org
BY DEF Blanked, LogEntry

(* What mdir_patch returns for a log of len entries: those entries, where  *)
(* a removal made its target blank, the blanks, and the new entry.         *)
LEMMA PatchResult ==
  ASSUME NEW log \in Seq(LogEntry), NEW e \in LogEntry, NEW n \in Nat,
         CanPatch(log \o Blanks(n), e.tag, e.ref), NEW len \in Nat, len = Len(log)
  PROVE  LET new == mdir_patch(log, e, n)
         IN  /\ new \in Seq(LogEntry) /\ Len(new) = len + n + 1
             /\ new[len + n + 1] = e
             /\ \A v \in 1 .. len :
                  new[v] = IF e.tag = "-" /\ v = e.ref THEN Blanked(log[v]) ELSE log[v]
             /\ \A v \in len + 1 .. len + n : new[v].tag = "%"
             /\ e.tag = "-" => e.ref \in 1 .. len + n /\ new[e.ref].tag = "%"
<1> DEFINE long == log \o Blanks(n)
           hit == Erase(long, e.tag, e.ref)
<1>1. BlankEntry \in LogEntry /\ BlankEntry.tag = "%"
  BY DEF BlankEntry, Entry, LogEntry
<1>2. Blanks(n) \in Seq(LogEntry) /\ Len(Blanks(n)) = n /\ \A v \in 1 .. n : Blanks(n)[v] = BlankEntry
  BY <1>1 DEF Blanks
<1>3. long \in Seq(LogEntry) /\ Len(long) = len + n
      /\ \A v \in 1 .. len + n : long[v] = IF v <= len THEN log[v] ELSE Blanks(n)[v - len]
  BY <1>2, ConcatProperties, ZenonT(40)
<1>4. /\ \A v \in 1 .. len : long[v] = log[v]
      /\ \A v \in len + 1 .. len + n : long[v] = BlankEntry
      /\ \A v \in 1 .. len + n : long[v] \in LogEntry
  <2>1. ASSUME NEW v \in len + 1 .. len + n PROVE long[v] = BlankEntry
    <3>1. v - len \in 1 .. n /\ v \in 1 .. len + n /\ ~(v <= len)
      OBVIOUS
    <3> QED
      BY <1>2, <1>3, <3>1
  <2> QED
    BY <1>3, <2>1
<1> HIDE DEF long
<1>5. e.tag = "-" => e.ref \in 1 .. len + n
  <2>1. DOMAIN long = 1 .. len + n
    BY <1>3
  <2> QED
    BY <2>1 DEF CanPatch, long
<1>6. /\ hit \in Seq(LogEntry) /\ Len(hit) = len + n
      /\ \A v \in 1 .. len + n :
           hit[v] = IF e.tag = "-" /\ v = e.ref THEN Blanked(long[v]) ELSE long[v]
  <2>1. CASE e.tag # "-"
    BY <1>3, <2>1 DEF Erase
  <2>2. CASE e.tag = "-"
    <3>1. hit = [long EXCEPT ![e.ref] = Blanked(long[e.ref])]
      BY <1>3, <2>2 DEF Erase, Blanked
    <3>2. Blanked(long[e.ref]) \in LogEntry
      BY <1>4, <1>5, <2>2, BlankedEntry
    <3>3. long \in Seq(LogEntry) /\ e.ref \in 1 .. Len(long)
      BY <1>3, <1>5, <2>2
    <3>4. /\ hit \in Seq(LogEntry) /\ Len(hit) = Len(long)
          /\ \A v \in 1 .. Len(long) : hit[v] = IF v = e.ref THEN Blanked(long[e.ref]) ELSE long[v]
      BY <3>1, <3>2, <3>3, ExceptSeq
    <3> QED
      BY <1>3, <2>2, <3>4
  <2> QED
    BY <2>1, <2>2
<1> HIDE DEF hit
<1>7. /\ Append(hit, e) \in Seq(LogEntry) /\ Len(Append(hit, e)) = len + n + 1
      /\ Append(hit, e)[len + n + 1] = e
      /\ \A v \in 1 .. len + n : Append(hit, e)[v] = hit[v]
  BY <1>6, AppendProperties, SMTT(30)
<1>8. mdir_patch(log, e, n) = Append(hit, e)
  BY DEF mdir_patch, hit, long
<1>9. \A v \in 1 .. len :
        Append(hit, e)[v] = IF e.tag = "-" /\ v = e.ref THEN Blanked(log[v]) ELSE log[v]
  BY <1>4, <1>6, <1>7
<1>10. \A v \in len + 1 .. len + n : Append(hit, e)[v].tag = "%"
  <2> SUFFICES ASSUME NEW v \in len + 1 .. len + n PROVE Append(hit, e)[v].tag = "%"
    OBVIOUS
  <2>1. v \in 1 .. len + n /\ long[v] = BlankEntry
    BY <1>4
  <2> QED
    BY <1>1, <1>6, <1>7, <2>1, BlankedEntry
<1>11. e.tag = "-" => Append(hit, e)[e.ref].tag = "%"
  BY <1>4, <1>5, <1>6, <1>7, BlankedEntry
<1> QED
  BY <1>5, <1>7, <1>8, <1>9, <1>10, <1>11

(* How the server's mdir changes: no entry goes, and all that happens to   *)
(* one is that it becomes blank, which a removal never does.               *)
Grows(old, new) ==
  /\ new \in Seq(LogEntry) /\ Len(old) <= Len(new)
  /\ \A v \in 1 .. Len(old) :
       /\ new[v].ref = old[v].ref /\ new[v].org = old[v].org
       /\ new[v].tag \in {old[v].tag, "%"}
       /\ old[v].tag = "-" => new[v].tag = "-"

(* A patch of the server's mdir: no blanks.                                *)
Patches(old, new) ==
  \E e \in LogEntry : /\ e.tag # "%" /\ CanPatch(old, e.tag, e.ref)
                      /\ new = mdir_patch(old, e, 0)

LEMMA ServerPatch ==
  ASSUME NEW log \in Seq(LogEntry), NEW e \in LogEntry, CanPatch(log, e.tag, e.ref),
         NEW len \in Nat, len = Len(log)
  PROVE  LET new == mdir_patch(log, e, 0)
         IN  /\ new \in Seq(LogEntry) /\ Len(new) = len + 1 /\ new[len + 1] = e
             /\ \A v \in 1 .. len :
                  new[v] = IF e.tag = "-" /\ v = e.ref THEN Blanked(log[v]) ELSE log[v]
             /\ e.tag = "-" => e.ref \in 1 .. len /\ log[e.ref].tag # "-" /\ new[e.ref].tag = "%"
<1>1. Blanks(0) = <<>>
  BY DEF Blanks
<1>2. log \o Blanks(0) = log
  BY <1>1, ConcatEmptySeq
<1>3. e.tag = "-" => log[e.ref].tag # "-"
  BY DEF CanPatch
<1>4. CanPatch(log \o Blanks(0), e.tag, e.ref)
  BY <1>2
<1> QED
  BY <1>3, <1>4, PatchResult

LEMMA PatchGrows ==
  ASSUME NEW old \in Seq(LogEntry), NEW new, Patches(old, new)
  PROVE  Grows(old, new)
<1>1. PICK e \in LogEntry : CanPatch(old, e.tag, e.ref) /\ new = mdir_patch(old, e, 0)
  BY DEF Patches
<1>2. PICK len \in Nat : len = Len(old)
  OBVIOUS
<1>3. /\ new \in Seq(LogEntry) /\ Len(new) = len + 1
      /\ \A v \in 1 .. len :
           new[v] = IF e.tag = "-" /\ v = e.ref THEN Blanked(old[v]) ELSE old[v]
      /\ e.tag = "-" => old[e.ref].tag # "-"
  BY <1>1, <1>2, ServerPatch
<1>4. ASSUME NEW v \in 1 .. len
      PROVE  /\ new[v].ref = old[v].ref /\ new[v].org = old[v].org
             /\ new[v].tag \in {old[v].tag, "%"}
             /\ old[v].tag = "-" => new[v].tag = "-"
  <2>1. old[v] \in LogEntry
    BY <1>2
  <2> QED
    BY <1>3, <2>1, BlankedEntry
<1> QED
  BY <1>2, <1>3, <1>4 DEF Grows

LEMMA PatchSane ==
  ASSUME NEW old \in Seq(LogEntry), NEW new, Patches(old, new), LogSane(old)
  PROVE  LogSane(new)
<1>1. PICK e \in LogEntry : e.tag # "%" /\ CanPatch(old, e.tag, e.ref) /\ new = mdir_patch(old, e, 0)
  BY DEF Patches
<1>2. PICK len \in Nat : len = Len(old)
  OBVIOUS
<1>3. /\ new \in Seq(LogEntry) /\ Len(new) = len + 1 /\ new[len + 1] = e
      /\ \A v \in 1 .. len :
           new[v] = IF e.tag = "-" /\ v = e.ref THEN Blanked(old[v]) ELSE old[v]
      /\ e.tag = "-" => e.ref \in 1 .. len /\ new[e.ref].tag = "%"
  BY <1>1, <1>2, ServerPatch
<1>4. ASSUME NEW v \in 1 .. len + 1, new[v].tag = "-"
      PROVE  new[v].ref \in 1 .. v - 1 /\ new[new[v].ref].tag = "%"
  <2>1. CASE v = len + 1
    BY <1>3, <1>4, <2>1
  <2>2. CASE v \in 1 .. len
    <3>1. old[v] \in LogEntry /\ \A w \in 1 .. len : old[w] \in LogEntry
      BY <1>2, <2>2
    <3>2. new[v] = old[v]
      BY <1>3, <1>4, <2>2, <3>1, BlankedEntry
    <3>3. old[v].ref \in 1 .. v - 1 /\ old[old[v].ref].tag = "%" /\ old[v].ref \in 1 .. len
      BY <1>2, <1>4, <2>2, <3>2 DEF LogSane
    <3> QED
      BY <1>3, <3>1, <3>2, <3>3, BlankedEntry
  <2> QED
    BY <1>2, <2>1, <2>2
<1> QED
  BY <1>1, <1>2, <1>3, <1>4 DEF LogSane

(* A set of numbers that is not empty has a least element.                 *)
LEMMA LeastNumber ==
  ASSUME NEW T, T \subseteq Nat, T # {} PROVE \E x \in T : \A y \in T : x <= y
<1>1. PICK x \in T : \A y \in T : <<y, x>> \notin OpToRel(<, Nat)
  BY NatLessThanWellFounded, WFMin
<1>2. \A y \in T : ~ (y < x)
  BY <1>1 DEF OpToRel
<1> QED
  BY <1>2

(* mdir_read_next skips blanks only, and finds a version if there is one.  *)
LEMMA ReadNext ==
  ASSUME NEW log \in Seq(LogEntry), LogSane(log), NEW v \in Nat, v < Len(log)
  PROVE  LET next == mdir_read_next(log, v)
         IN  /\ next \in 1 .. Len(log) /\ v < next /\ log[next].tag # "%"
             /\ \A w \in v + 1 .. next - 1 : log[w].tag = "%"
<1> DEFINE later == {w \in DOMAIN log : w > v /\ log[w].tag # "%"}
<1>1. DOMAIN log = 1 .. Len(log) /\ Len(log) \in Nat
  OBVIOUS
<1>2. Len(log) \in later
  BY <1>1 DEF LogSane
<1>3. later \subseteq Nat
  BY <1>1
<1>4. PICK m \in later : \A x \in later : m <= x
  BY <1>2, <1>3, LeastNumber
<1>5. mdir_read_next(log, v) \in later /\ \A x \in later : mdir_read_next(log, v) <= x
  BY <1>4 DEF mdir_read_next
<1> DEFINE next == mdir_read_next(log, v)
<1> HIDE DEF next
<1>6. next \in 1 .. Len(log) /\ v < next /\ log[next].tag # "%" /\ \A x \in later : next <= x
  BY <1>1, <1>5 DEF next
<1>7. ASSUME NEW w \in v + 1 .. next - 1 PROVE log[w].tag = "%"
  <2>1. w \in DOMAIN log /\ w > v /\ ~(next <= w)
    BY <1>1, <1>6
  <2> QED
    BY <1>6, <2>1
<1> QED
  BY <1>6, <1>7 DEF next

-----------------------------------------------------------------------------
(* The types, action by action.                                            *)

(* A query that is accepted is a patch of the server's mdir.               *)
LEMMA AcceptPatches ==
  ASSUME slog \in Seq(LogEntry), NEW q \in QueryMsg, NEW granted, Accepts(q, granted)
  PROVE  /\ Patches(slog, add_header(q))
         /\ \E e \in LogEntry : /\ e.org = q.id /\ CanPatch(slog, e.tag, e.ref)
                                /\ add_header(q) = mdir_patch(slog, e, 0)
<1> DEFINE tag == IF q.kw = "put" THEN "+" ELSE "-"
           e == Entry(tag, q.ref, q.id, 0)
<1>1. e \in LogEntry /\ e.tag # "%" /\ e.org = q.id /\ e.tag = tag /\ e.ref = q.ref
  BY DEF Entry, LogEntry, QueryMsg
<1>2. CanPatch(slog, e.tag, e.ref) /\ add_header(q) = mdir_patch(slog, e, 0)
  BY <1>1 DEF Accepts, add_header
<1> HIDE DEF e
<1> QED
  BY <1>1, <1>2 DEF Patches

LEMMA PatchTypes ==
  ASSUME slog \in Seq(LogEntry), LogSane(slog), NEW new, new = slog \/ Patches(slog, new)
  PROVE  new \in Seq(LogEntry) /\ LogSane(new)
BY PatchGrows, PatchSane DEF Grows

LEMMA ServeQueryType ==
  ASSUME TypeInv, ServeQuery PROVE TypeInv'
<1>1. up # <<>> /\ up \in Seq(QueryMsg)
  BY DEF TypeInv, NetTypes, ServeQuery
<1>2. Head(up) \in QueryMsg /\ up' \in Seq(QueryMsg)
  BY <1>1, HeadTailProperties DEF ServeQuery
<1>3. PICK granted \in {TRUE, ~Denials}, confirmed \in {TRUE, ~Incomplete} :
        IF Head(up).kw = "sub" THEN exec_sub(Head(up), granted) ELSE exec_putrem(Head(up), granted, confirmed)
  BY DEF ServeQuery
<1>4. UNCHANGED <<orphans, clog, drafts, tmp, err, nextLocal, commands, acks, c2l, patches, applying,
                  subscribed, quarantine, unsaved, unreported, down, link, breaks>>
  BY DEF ServeQuery, files, memory, refusals
<1>5. slog' = slog \/ Patches(slog, slog')
  BY <1>2, <1>3, AcceptPatches DEF exec_sub, exec_putrem, TypeInv, ServerTypes
<1>6. slog' \in Seq(LogEntry) /\ LogSane(slog')
  BY <1>5, PatchTypes DEF TypeInv, ServerTypes
<1>7. \E a \in AnswerMsg : answer' = <<a>>
  <2>1. CASE Head(up).kw = "sub"
    <3>1. PICK st \in Nat : answer' = <<Answer("sub", 0, st, 0)>>
      BY <1>3, <2>1 DEF exec_sub
    <3>2. Answer("sub", 0, st, 0) \in AnswerMsg
      BY DEF Answer, AnswerMsg, Keywords
    <3> QED
      BY <3>1, <3>2
  <2>2. CASE Head(up).kw # "sub"
    <3>1. PICK st \in Nat, v \in Nat : answer' = <<Answer(Head(up).kw, Head(up).id, st, v)>>
      BY <1>3, <2>2 DEF exec_putrem, TypeInv, ServerTypes
    <3>2. Answer(Head(up).kw, Head(up).id, st, v) \in AnswerMsg
      BY <1>2 DEF Answer, AnswerMsg, QueryMsg
    <3> QED
      BY <3>1, <3>2
  <2> QED
    BY <2>1, <2>2
<1>8. answer' \in Seq(AnswerMsg) /\ Len(answer') <= 1
  BY <1>7
<1>9. sub' \in [on : BOOLEAN, version : Nat]
  <2>1. sub \in [on : BOOLEAN, version : Nat] /\ (Head(up).kw = "sub" => Head(up).ref \in Nat)
    BY <1>2 DEF TypeInv, ServerTypes, QueryMsg
  <2>2. \/ sub' = sub
        \/ Head(up).kw = "sub" /\ sub' = [on |-> TRUE, version |-> Head(up).ref]
        \/ Head(up).kw = "sub" /\ sub' = [sub EXCEPT !.version = Head(up).ref]
        \/ sub' = [sub EXCEPT !.version = sub.version]
    BY <1>3 DEF exec_sub, exec_putrem
  <2>3. \A x \in Nat : [sub EXCEPT !.version = x] \in [on : BOOLEAN, version : Nat]
    BY <2>1
  <2>4. sub.version \in Nat
    BY <2>1
  <2>5. Head(up).kw = "sub" => [on |-> TRUE, version |-> Head(up).ref] \in [on : BOOLEAN, version : Nat]
    BY <2>1
  <2> QED
    BY <2>1, <2>2, <2>3, <2>4, <2>5, Zenon
<1> QED
  BY <1>2, <1>4, <1>6, <1>8, <1>9
     DEF TypeInv, ServerTypes, FileTypes, MemoryTypes, NetTypes, Forward

LEMMA SendAnswerType ==
  ASSUME TypeInv, SendAnswer PROVE TypeInv'
<1>1. answer # <<>> /\ answer \in Seq(AnswerMsg) /\ Head(answer) \in AnswerMsg
  BY DEF TypeInv, ServerTypes, SendAnswer, NoAnswer
<1>2. answer' \in Seq(AnswerMsg) /\ Len(answer') <= 1
  BY DEF SendAnswer, NoAnswer
<1>3. /\ down' \in Seq(AnswerMsg \cup PatchMsg) /\ Len(down') = Len(down) + 1
      /\ down'[Len(down) + 1] = Head(answer)
      /\ \A i \in 1 .. Len(down) : down'[i] = down[i]
  BY <1>1, AppendProperties DEF SendAnswer, TypeInv, NetTypes
<1>4. Head(answer).kw # "patch"
  BY <1>1 DEF AnswerMsg, Keywords
<1>5. UNCHANGED <<slog, sub, orphans, clog, drafts, tmp, err, nextLocal, commands, acks, c2l, patches,
                  applying, subscribed, quarantine, unsaved, unreported, up, link, breaks>>
  BY DEF SendAnswer, files, memory, refusals
<1>6. Forward'
  BY <1>3, <1>4, <1>5, SMTT(30) DEF Forward, TypeInv, NetTypes
<1> QED
  BY <1>2, <1>3, <1>5, <1>6 DEF TypeInv, ServerTypes, FileTypes, MemoryTypes, NetTypes

(* The patch that the subscription sends next.                             *)
LEMMA NextPatch ==
  ASSUME TypeInv, SendNextPatch
  PROVE  \E next \in 1 .. Len(slog) :
           /\ sub.version < next /\ slog[next].tag # "%"
           /\ \A w \in sub.version + 1 .. next - 1 : slog[w].tag = "%"
           /\ Patch(sub.version, next, slog[next]) \in PatchMsg
           /\ down' = Append(down, Patch(sub.version, next, slog[next]))
           /\ sub' = [sub EXCEPT !.version = next]
           /\ sub.on /\ sub.version < Len(slog)
<1> DEFINE next == mdir_read_next(slog, sub.version)
<1>1. /\ slog \in Seq(LogEntry) /\ LogSane(slog) /\ sub.version \in Nat
      /\ sub.on /\ sub.version < Len(slog)
  BY DEF TypeInv, ServerTypes, SendNextPatch, client_needs_patch
<1>2. down' = Append(down, Patch(sub.version, next, slog[next])) /\ sub' = [sub EXCEPT !.version = next]
  BY DEF SendNextPatch
<1>3. /\ next \in 1 .. Len(slog) /\ sub.version < next /\ slog[next].tag # "%"
      /\ \A w \in sub.version + 1 .. next - 1 : slog[w].tag = "%"
  BY <1>1, ReadNext
<1> HIDE DEF next
<1>4. Patch(sub.version, next, slog[next]) \in PatchMsg
  <2>1. slog[next] \in LogEntry /\ next \in Nat
    BY <1>1, <1>3
  <2>2. slog[next].tag \in {"+", "-"} /\ slog[next].ref \in Int /\ slog[next].org \in Nat
    BY <1>3, <2>1 DEF LogEntry
  <2> QED
    BY <1>1, <2>1, <2>2 DEF Patch, PatchMsg
<1> QED
  BY <1>1, <1>2, <1>3, <1>4

LEMMA SendNextPatchType ==
  ASSUME TypeInv, SendNextPatch PROVE TypeInv'
<1>1. PICK next \in 1 .. Len(slog) :
        /\ sub.version < next
        /\ Patch(sub.version, next, slog[next]) \in PatchMsg
        /\ down' = Append(down, Patch(sub.version, next, slog[next]))
        /\ sub' = [sub EXCEPT !.version = next]
  BY NextPatch
<1> DEFINE p == Patch(sub.version, next, slog[next])
<1>2. p.old < p.new
  BY <1>1 DEF Patch
<1> HIDE DEF p
<1>3. /\ down' \in Seq(AnswerMsg \cup PatchMsg) /\ Len(down') = Len(down) + 1
      /\ down'[Len(down) + 1] = p
      /\ \A i \in 1 .. Len(down) : down'[i] = down[i]
  BY <1>1, AppendProperties DEF TypeInv, NetTypes, p
<1>4. sub' \in [on : BOOLEAN, version : Nat]
  <2>1. next \in Nat /\ sub \in [on : BOOLEAN, version : Nat] /\ sub' = [sub EXCEPT !.version = next]
    BY <1>1 DEF TypeInv, ServerTypes
  <2> QED
    BY <2>1
<1>5. UNCHANGED <<slog, answer, orphans, clog, drafts, tmp, err, nextLocal, commands, acks, c2l, patches,
                  applying, subscribed, quarantine, unsaved, unreported, up, link, breaks>>
  BY DEF SendNextPatch, files, memory, refusals
<1>6. Forward'
  BY <1>2, <1>3, <1>5 DEF Forward, TypeInv, NetTypes
<1> QED
  BY <1>3, <1>4, <1>5, <1>6 DEF TypeInv, ServerTypes, FileTypes, MemoryTypes, NetTypes

LEMMA ForeignPatches ==
  ASSUME TypeInv, ForeignPatch
  PROVE  \E e \in LogEntry :
           /\ e.tag # "%" /\ CanPatch(slog, e.tag, e.ref) /\ slog' = mdir_patch(slog, e, 0)
           /\ e.org = MaxLocal + 1 + Cardinality({v \in DOMAIN slog : slog[v].org > MaxLocal})
           /\ e.ref <= Len(slog)
<1> DEFINE foreign == {v \in DOMAIN slog : slog[v].org > MaxLocal}
           org == 1 + Cardinality(foreign) + MaxLocal
<1>1. slog \in Seq(LogEntry) /\ DOMAIN slog = 1 .. Len(slog) /\ Len(slog) \in Nat
  BY DEF TypeInv, ServerTypes
<1>2. Cardinality(foreign) \in Nat
  <2>1. IsFiniteSet(1 .. Len(slog))
    BY <1>1, FS_Interval
  <2>2. IsFiniteSet(foreign)
    BY <1>1, <2>1, FS_Subset
  <2> QED
    BY <2>2, FS_CardinalityType
<1>3. org \in Nat /\ org = MaxLocal + 1 + Cardinality(foreign)
  BY <1>2, MdSyncAssumption
<1>4. \/ slog' = mdir_patch(slog, Entry("+", 0, org, 0), 0)
      \/ \E t \in DOMAIN slog : /\ CanPatch(slog, "-", t)
                                /\ slog' = mdir_patch(slog, Entry("-", t, org, 0), 0)
  BY DEF ForeignPatch
<1> HIDE DEF org, foreign
<1>5. ASSUME slog' = mdir_patch(slog, Entry("+", 0, org, 0), 0)
      PROVE  \E e \in LogEntry :
               /\ e.tag # "%" /\ CanPatch(slog, e.tag, e.ref) /\ slog' = mdir_patch(slog, e, 0)
               /\ e.org = MaxLocal + 1 + Cardinality(foreign) /\ e.ref <= Len(slog)
  <2>1. /\ Entry("+", 0, org, 0) \in LogEntry /\ Entry("+", 0, org, 0).tag = "+"
        /\ Entry("+", 0, org, 0).org = org /\ Entry("+", 0, org, 0).ref = 0
    BY <1>3 DEF Entry, LogEntry
  <2>2. CanPatch(slog, "+", Entry("+", 0, org, 0).ref)
    BY DEF CanPatch
  <2> QED
    BY <1>1, <1>3, <1>5, <2>1, <2>2
<1>6. ASSUME NEW t \in DOMAIN slog, CanPatch(slog, "-", t), slog' = mdir_patch(slog, Entry("-", t, org, 0), 0)
      PROVE  \E e \in LogEntry :
               /\ e.tag # "%" /\ CanPatch(slog, e.tag, e.ref) /\ slog' = mdir_patch(slog, e, 0)
               /\ e.org = MaxLocal + 1 + Cardinality(foreign) /\ e.ref <= Len(slog)
  <2>1. /\ Entry("-", t, org, 0) \in LogEntry /\ Entry("-", t, org, 0).tag = "-"
        /\ Entry("-", t, org, 0).org = org /\ Entry("-", t, org, 0).ref = t
    BY <1>1, <1>3 DEF Entry, LogEntry
  <2> QED
    BY <1>1, <1>3, <1>6, <2>1
<1> QED
  BY <1>4, <1>5, <1>6 DEF foreign

(* The actions of the server and of its other clients.                     *)
LEMMA ServerTypeStep ==
  ASSUME TypeInv, ForeignPatch \/ ServeOrphan \/ LoseOrphan PROVE TypeInv'
<1>1. slog \in Seq(LogEntry) /\ LogSane(slog) /\ orphans \in Seq(QueryMsg)
  BY DEF TypeInv, ServerTypes
<1>2. UNCHANGED <<answer, sub, clog, drafts, tmp, err, nextLocal, commands, acks, c2l, patches,
                  applying, subscribed, quarantine, unsaved, unreported, up, down, link, breaks>>
  BY DEF ForeignPatch, ServeOrphan, LoseOrphan, files, memory, refusals, net
<1>3. (slog' = slog \/ Patches(slog, slog')) /\ orphans' \in Seq(QueryMsg)
  <2>1. CASE ForeignPatch
    BY <1>1, <2>1, ForeignPatches DEF Patches, ForeignPatch
  <2>2. CASE ServeOrphan
    <3>1. Head(orphans) \in QueryMsg /\ orphans' \in Seq(QueryMsg)
      BY <1>1, <2>2, HeadTailProperties DEF ServeOrphan
    <3>2. PICK granted \in {TRUE, ~Denials} :
            slog' = IF Head(orphans).kw # "sub" /\ Accepts(Head(orphans), granted)
                    THEN add_header(Head(orphans)) ELSE slog
      BY <2>2 DEF ServeOrphan
    <3> QED
      BY <1>1, <3>1, <3>2, AcceptPatches
  <2>3. CASE LoseOrphan
    BY <2>3 DEF LoseOrphan
  <2> QED
    BY <2>1, <2>2, <2>3
<1>4. slog' \in Seq(LogEntry) /\ LogSane(slog')
  BY <1>1, <1>3, PatchTypes
<1> QED
  BY <1>2, <1>3, <1>4 DEF TypeInv, ServerTypes, FileTypes, MemoryTypes, NetTypes, Forward

(* The writer thread of mdsyncc.                                           *)
LEMMA WriterTypeStep ==
  ASSUME TypeInv, WriterSub \/ QuarantineEnds \/ \E f \in tmp : WriterSend(f) PROVE TypeInv'
<1>1. /\ commands \subseteq Command /\ IsFiniteSet(commands) /\ acks \in Int /\ quarantine \in BOOLEAN
      /\ up \in Seq(QueryMsg) /\ tmp \subseteq RequestFile /\ Len(clog) \in Nat
  BY DEF TypeInv, MemoryTypes, NetTypes, FileTypes
<1>2. UNCHANGED <<slog, answer, sub, orphans, clog, drafts, tmp, err, nextLocal, c2l, patches, applying,
                  subscribed, unsaved, unreported, down, link, breaks>>
  BY DEF WriterSub, QuarantineEnds, WriterSend, server, files, refusals, net
<1>3. /\ commands' \subseteq Command /\ IsFiniteSet(commands') /\ acks' \in Int
      /\ up' \in Seq(QueryMsg) /\ quarantine' \in BOOLEAN
  <2>1. CASE WriterSub
    <3>1. [kw |-> "sub", id |-> 0] \in Command /\ Query("sub", 0, Len(clog)) \in QueryMsg
      BY <1>1 DEF Command, Keywords, Query, QueryMsg
    <3> QED
      BY <1>1, <2>1, <3>1, FS_AddElement DEF WriterSub
  <2>2. CASE QuarantineEnds
    BY <1>1, <2>2 DEF QuarantineEnds, net
  <2>3. ASSUME NEW f \in tmp, WriterSend(f)
        PROVE  /\ commands' \subseteq Command /\ IsFiniteSet(commands') /\ acks' \in Int
               /\ up' \in Seq(QueryMsg) /\ quarantine' \in BOOLEAN
    <3>1. [kw |-> kw(f), id |-> f.id] \in Command /\ Query(kw(f), f.id, f.ref) \in QueryMsg
      BY <1>1 DEF Command, Keywords, Query, QueryMsg, RequestFile, kw
    <3> QED
      BY <1>1, <2>3, <3>1, FS_AddElement DEF WriterSend
  <2> QED
    BY <2>1, <2>2, <2>3
<1> QED
  BY <1>2, <1>3 DEF TypeInv, ServerTypes, FileTypes, MemoryTypes, NetTypes, Forward

(* A received message goes; the others move up.                            *)
LEMMA Receive ==
  ASSUME TypeInv, NEW k, Receives(k)
  PROVE  /\ down' \in Seq(AnswerMsg \cup PatchMsg) /\ Len(down') = Len(down) - 1 /\ Len(down) >= 1
         /\ \A i \in 1 .. Len(down') : down'[i] = down[i + 1]
         /\ Head(down) = down[1] /\ down[1] \in AnswerMsg \cup PatchMsg /\ down[1].kw \in k
<1>1. down \in Seq(AnswerMsg \cup PatchMsg) /\ down # <<>> /\ down' = Tail(down) /\ Head(down).kw \in k
  BY DEF TypeInv, NetTypes, Receives
<1> QED
  BY <1>1, HeadTailProperties

(* The reader thread of mdsyncc, when an answer arrives.                   *)
LEMMA AnswerTypeStep ==
  ASSUME TypeInv, finalize_sub \/ finalize_putrem PROVE TypeInv'
<1>1. PICK k : Receives(k) /\ k \subseteq Keywords
  BY DEF finalize_sub, finalize_putrem, Keywords
<1>2. /\ down' \in Seq(AnswerMsg \cup PatchMsg) /\ Len(down') = Len(down) - 1 /\ Len(down) >= 1
      /\ \A i \in 1 .. Len(down') : down'[i] = down[i + 1]
      /\ Head(down) = down[1] /\ down[1] \in AnswerMsg \cup PatchMsg /\ down[1].kw \in Keywords
  BY <1>1, Receive
<1>3. down[1] \in AnswerMsg
  BY <1>2 DEF AnswerMsg, PatchMsg, Keywords
<1>4. UNCHANGED <<slog, answer, sub, orphans, clog, drafts, err, nextLocal, patches, applying, unreported, up, link, breaks>>
  BY DEF finalize_sub, finalize_putrem, server, files, refusals
<1>5. /\ commands' \subseteq commands /\ acks' \in Int /\ tmp' \subseteq tmp
      /\ unsaved' \subseteq Nat /\ c2l' \subseteq [central : Nat, local : Nat]
      /\ subscribed' \in BOOLEAN /\ quarantine' \in BOOLEAN
  <2>1. CASE finalize_sub
    BY <2>1 DEF finalize_sub, files, refusals, TypeInv, MemoryTypes, FileTypes
  <2>2. CASE finalize_putrem
    <3>1. down[1].id \in Nat /\ [central |-> down[1].version, local |-> down[1].id] \in [central : Nat, local : Nat]
      BY <1>3 DEF AnswerMsg
    <3>2. /\ acks' = acks - 1 /\ commands' \subseteq commands /\ tmp' \subseteq tmp
          /\ unsaved' = unsaved \/ unsaved' = {down[1].id}
          /\ c2l' = c2l \/ c2l' = c2l \cup {[central |-> down[1].version, local |-> down[1].id]}
          /\ UNCHANGED <<subscribed, quarantine>>
      BY <1>2, <2>2 DEF finalize_putrem
    <3>3. subscribed' \in BOOLEAN /\ quarantine' \in BOOLEAN
      BY <3>2 DEF TypeInv, MemoryTypes
    <3>4. acks \in Int /\ unsaved \subseteq Nat /\ c2l \subseteq [central : Nat, local : Nat]
      BY DEF TypeInv, MemoryTypes, FileTypes
    <3>5. unsaved' \subseteq Nat
      BY <3>1, <3>2, <3>4
    <3>6. c2l' \subseteq [central : Nat, local : Nat]
      BY <3>1, <3>2, <3>4, Zenon
    <3> QED
      BY <3>2, <3>3, <3>4, <3>5, <3>6
  <2> QED
    BY <2>1, <2>2
<1>6. commands' \subseteq Command /\ IsFiniteSet(commands') /\ tmp' \subseteq RequestFile
  BY <1>5, FS_Subset DEF TypeInv, MemoryTypes, FileTypes
<1>7. Forward'
  <2>1. \A i \in 1 .. Len(down') : i + 1 \in 1 .. Len(down)
    BY <1>2 DEF TypeInv, NetTypes
  <2> QED
    BY <1>2, <1>4, <2>1 DEF Forward, TypeInv
<1> QED
  BY <1>2, <1>4, <1>5, <1>6, <1>7 DEF TypeInv, ServerTypes, FileTypes, MemoryTypes, NetTypes

(* A newcomer to mdirc->patches is one of them, the others stay.           *)
LEMMA InsertType ==
  ASSUME patches \in Seq(Queued), NEW p \in Queued
  PROVE  /\ Insert(p) \in Seq(Queued)
         /\ \A i \in 1 .. Len(Insert(p)) : \/ Insert(p)[i] = p
                                           \/ \E k \in 1 .. Len(patches) : Insert(p)[i] = patches[k]
<1>0. PICK len \in Nat : len = Len(patches)
  OBVIOUS
<1> DEFINE n == Cardinality({i \in DOMAIN patches : patches[i].old <= p.old})
           front == SubSeq(patches, 1, n)
           back == SubSeq(patches, n + 1, Len(patches))
<1>1. DOMAIN patches = 1 .. len /\ Len(patches) = len
  BY <1>0
<1>2. n \in 0 .. len
  <2>1. IsFiniteSet(1 .. len) /\ Cardinality(1 .. len) = len
    BY <1>1, FS_Interval
  <2>2. {i \in DOMAIN patches : patches[i].old <= p.old} \subseteq 1 .. len
    BY <1>1
  <2>3. n \in Nat /\ n <= len
    BY <2>1, <2>2, FS_Subset, FS_CardinalityType
  <2> QED
    BY <1>1, <2>3
<1> HIDE DEF n
<1>3. front \in Seq(Queued) /\ Len(front) = n /\ \A i \in 1 .. n : front[i] = patches[i]
  BY <1>1, <1>2, SubSeqProperties
<1>4. /\ back \in Seq(Queued) /\ Len(back) = len - n
      /\ \A i \in 1 .. len - n : back[i] = patches[n + i]
  <2>1. n + 1 \in 1 .. len + 1 /\ len \in (n + 1) - 1 .. len
    BY <1>1, <1>2
  <2>2. /\ back \in Seq(Queued)
        /\ Len(back) = IF n + 1 <= len THEN len - (n + 1) + 1 ELSE 0
        /\ \A i \in 1 .. len - (n + 1) + 1 : back[i] = patches[(n + 1) + i - 1]
    BY <1>1, <2>1, SubSeqProperties
  <2> QED
    BY <1>1, <1>2, <2>2
<1> HIDE DEF front, back
<1>5. /\ front \o <<p>> \in Seq(Queued) /\ Len(front \o <<p>>) = n + 1
      /\ \A i \in 1 .. n + 1 : (front \o <<p>>)[i] = IF i <= n THEN front[i] ELSE p
  BY <1>2, <1>3, ConcatProperties
<1>6. /\ Insert(p) \in Seq(Queued) /\ Len(Insert(p)) = len + 1
      /\ \A i \in 1 .. len + 1 :
           Insert(p)[i] = IF i <= n + 1 THEN (front \o <<p>>)[i] ELSE back[i - (n + 1)]
  <2>1. Insert(p) = (front \o <<p>>) \o back
    BY DEF Insert, n, front, back
  <2> DEFINE start == front \o <<p>>
  <2>2. start \in Seq(Queued) /\ Len(start) = n + 1 /\ back \in Seq(Queued) /\ Len(back) = len - n
    BY <1>4, <1>5
  <2> HIDE DEF start
  <2>3. /\ start \o back \in Seq(Queued) /\ Len(start \o back) = Len(start) + Len(back)
        /\ \A i \in 1 .. Len(start) + Len(back) :
             (start \o back)[i] = IF i <= Len(start) THEN start[i] ELSE back[i - Len(start)]
    BY <2>2, ConcatProperties
  <2>4. Len(start) + Len(back) = len + 1
    BY <1>2, <2>2
  <2>5. Insert(p) = start \o back
    BY <2>1 DEF start
  <2> QED
    BY <2>2, <2>3, <2>4, <2>5 DEF start
<1>7. ASSUME NEW i \in 1 .. len + 1
      PROVE  Insert(p)[i] = p \/ \E k \in 1 .. len : Insert(p)[i] = patches[k]
  <2>1. CASE i <= n
    BY <1>1, <1>2, <1>3, <1>5, <1>6, <2>1
  <2>2. CASE i = n + 1
    BY <1>2, <1>5, <1>6, <2>2
  <2>3. CASE i > n + 1
    <3>1. i - (n + 1) \in 1 .. len - n /\ n + (i - (n + 1)) = i - 1 /\ i - 1 \in 1 .. len
      BY <1>1, <1>2, <2>3
    <3>2. ~(i <= n + 1)
      BY <1>1, <1>2, <2>3
    <3>3. Insert(p)[i] = back[i - (n + 1)]
      BY <1>6, <3>2
    <3>4. back[i - (n + 1)] = patches[i - 1]
      BY <1>4, <3>1
    <3> QED
      BY <3>1, <3>3, <3>4
  <2> QED
    BY <1>1, <1>2, <2>1, <2>2, <2>3
<1> QED
  BY <1>1, <1>6, <1>7

(* What patch_service queues for the patch that arrived.                   *)
LEMMA Arrives ==
  ASSUME TypeInv, patch_service
  PROVE  \E lid \in Nat :
           LET p == down[1]
               q == [old |-> p.old, new |-> p.new, e |-> Entry(p.tag, p.ref, p.org, lid)]
           IN  /\ p \in PatchMsg /\ q \in Queued
               /\ p.old < p.new /\ p.tag # "%" /\ patches' = Insert(q)
<1> DEFINE p == down[1]
           maps == {m \in c2l : m.central = p.new}
           lid == IF maps = {} THEN 0 ELSE (CHOOSE m \in maps : TRUE).local
<1>1. p \in AnswerMsg \cup PatchMsg /\ p.kw = "patch" /\ Head(down) = p /\ Len(down) >= 1
  BY Receive DEF patch_service
<1>2. p \in PatchMsg
  BY <1>1 DEF AnswerMsg, PatchMsg, Keywords
<1>3. p.old < p.new
  BY <1>1 DEF TypeInv, NetTypes, Forward
<1>4. lid \in Nat
  <2>1. CASE maps = {}
    BY <2>1
  <2>2. CASE maps # {}
    <3>1. (CHOOSE m \in maps : TRUE) \in c2l
      BY <2>2
    <3> QED
      BY <2>2, <3>1 DEF TypeInv, MemoryTypes
  <2> QED
    BY <2>1, <2>2
<1>5. patches' = Insert([old |-> p.old, new |-> p.new, e |-> Entry(p.tag, p.ref, p.org, lid)])
  BY <1>1 DEF patch_service
<1> HIDE DEF lid, p
<1>6. [old |-> p.old, new |-> p.new, e |-> Entry(p.tag, p.ref, p.org, lid)] \in Queued /\ p.tag # "%"
  BY <1>2, <1>4 DEF Queued, PatchMsg, Entry, LogEntry
<1> QED
  BY <1>2, <1>3, <1>4, <1>5, <1>6 DEF p

LEMMA ServiceTypeStep ==
  ASSUME TypeInv, patch_service PROVE TypeInv'
<1>1. /\ down' \in Seq(AnswerMsg \cup PatchMsg) /\ Len(down') = Len(down) - 1 /\ Len(down) >= 1
      /\ \A i \in 1 .. Len(down') : down'[i] = down[i + 1]
  BY Receive DEF patch_service
<1>2. UNCHANGED <<slog, answer, sub, orphans, clog, drafts, tmp, err, nextLocal, commands, acks, subscribed,
                  quarantine, unsaved, unreported, up, link, breaks>> /\ c2l' \subseteq c2l /\ applying' \in BOOLEAN
  BY DEF patch_service, server, files, refusals
<1>3. PICK q \in Queued : q.old < q.new /\ q.e.tag # "%" /\ patches' = Insert(q)
  <2>1. PICK lid \in Nat :
          LET p == down[1]
              q == [old |-> p.old, new |-> p.new, e |-> Entry(p.tag, p.ref, p.org, lid)]
          IN  q \in Queued /\ p.old < p.new /\ p.tag # "%" /\ patches' = Insert(q)
    BY Arrives
  <2> QED
    BY <2>1 DEF Entry
<1>4. /\ patches' \in Seq(Queued)
      /\ \A i \in 1 .. Len(patches') : patches'[i] = q \/ \E k \in 1 .. Len(patches) : patches'[i] = patches[k]
  BY <1>3, InsertType DEF TypeInv, MemoryTypes
<1>5. Forward'
  <2>1. \A i \in 1 .. Len(down') : i + 1 \in 1 .. Len(down)
    BY <1>1 DEF TypeInv, NetTypes
  <2> QED
    BY <1>1, <1>3, <1>4, <2>1 DEF Forward, TypeInv
<1> QED
  BY <1>1, <1>2, <1>4, <1>5 DEF TypeInv, ServerTypes, FileTypes, MemoryTypes, NetTypes

(* try_apply.                                                              *)
LEMMA ApplyTypeStep ==
  ASSUME TypeInv, ApplyOne \/ ApplyEnd PROVE TypeInv'
<1>1. UNCHANGED <<slog, answer, sub, orphans, drafts, tmp, err, nextLocal, commands, acks, c2l, subscribed,
                  quarantine, unsaved, unreported, up, down, breaks>>
  BY DEF ApplyOne, ApplyEnd, server, files, refusals, net
<1>2. CASE ApplyOne
  <2> DEFINE p == patches[1]
             nb == p.new - p.old - 1
  <2>1. /\ patches \in Seq(Queued) /\ patches # <<>> /\ p \in Queued /\ Head(patches) = p
        /\ Tail(patches) \in Seq(Queued) /\ Len(Tail(patches)) = Len(patches) - 1 /\ Len(patches) >= 1
        /\ \A i \in 1 .. Len(patches) - 1 : Tail(patches)[i] = patches[i + 1]
    BY <1>2, HeadTailProperties DEF ApplyOne, CanApply, TypeInv, MemoryTypes
  <2>2. nb \in Nat /\ p.e \in LogEntry
    BY <2>1 DEF TypeInv, Forward, Queued
  <2> HIDE DEF nb
  <2>3. clog' \in Seq(LogEntry) /\ patches' \in {patches, Tail(patches)} /\ applying' \in BOOLEAN /\ link' \in BOOLEAN
    <3>1. CASE CanPatch(clog \o Blanks(nb), p.e.tag, p.e.ref)
      <4>1. clog' = mdir_patch(clog, p.e, nb) /\ patches' = Tail(patches) /\ UNCHANGED <<applying, link>>
        BY <1>2, <2>1, <3>1 DEF ApplyOne, nb
      <4>2. clog \in Seq(LogEntry) /\ Len(clog) \in Nat
        BY DEF TypeInv, FileTypes
      <4>3. clog' \in Seq(LogEntry)
        BY <2>2, <3>1, <4>1, <4>2, PatchResult
      <4> QED
        BY <4>1, <4>3 DEF TypeInv, MemoryTypes, NetTypes
    <3>2. CASE ~CanPatch(clog \o Blanks(nb), p.e.tag, p.e.ref)
      <4>1. clog' = clog \o Blanks(nb) /\ patches' = patches /\ applying' = FALSE /\ link' = FALSE
        BY <1>2, <2>1, <3>2 DEF ApplyOne, nb
      <4>2. Blanks(nb) \in Seq(LogEntry)
        BY <2>2 DEF Blanks, BlankEntry, Entry, LogEntry
      <4> QED
        BY <4>1, <4>2, ConcatProperties DEF TypeInv, FileTypes
    <3> QED
      BY <3>1, <3>2
  <2>4. Forward' /\ patches' \in Seq(Queued)
    <3>1. CASE patches' = patches
      BY <1>1, <2>1, <3>1 DEF Forward, TypeInv
    <3>2. CASE patches' = Tail(patches)
      <4>1. \A i \in 1 .. Len(patches') : i + 1 \in 1 .. Len(patches) /\ patches'[i] = patches[i + 1]
        BY <2>1, <3>2
      <4> QED
        BY <1>1, <2>1, <3>2, <4>1 DEF Forward, TypeInv
    <3> QED
      BY <2>3, <3>1, <3>2
  <2> QED
    BY <1>1, <2>3, <2>4 DEF TypeInv, ServerTypes, FileTypes, MemoryTypes, NetTypes
<1>3. CASE ApplyEnd
  BY <1>1, <1>3 DEF ApplyEnd, files, net, TypeInv, ServerTypes, FileTypes, MemoryTypes, NetTypes, Forward
<1> QED
  BY <1>2, <1>3

(* The plugins of the client's host.                                       *)
LEMMA PluginTypeStep ==
  ASSUME TypeInv,
         \/ mdir_patch_request("+", 0)
         \/ \E t \in DOMAIN clog : mdir_patch_request("-", t)
         \/ CreateTransient
  PROVE  TypeInv'
<1>1. UNCHANGED <<slog, answer, sub, orphans, clog, err, commands, acks, c2l, patches, applying, subscribed,
                  quarantine, unsaved, unreported, up, down, link, breaks>>
  BY DEF mdir_patch_request, CreateTransient, server, memory, refusals, net
<1>2. drafts \subseteq RequestFile /\ tmp \subseteq RequestFile /\ nextLocal \in Nat /\ DOMAIN clog \subseteq Nat
  BY DEF TypeInv, FileTypes
<1>3. drafts' \subseteq RequestFile /\ tmp' \subseteq RequestFile /\ nextLocal' \in Nat
  <2>1. ASSUME NEW tag \in {"+", "-"}, NEW ref \in Nat, mdir_patch_request(tag, ref)
        PROVE  drafts' \subseteq RequestFile /\ tmp' \subseteq RequestFile /\ nextLocal' \in Nat
    <3>1. [id |-> nextLocal, tag |-> tag, ref |-> ref] \in RequestFile
      BY <1>2 DEF RequestFile
    <3> QED
      BY <1>2, <2>1, <3>1 DEF mdir_patch_request
  <2>2. CASE CreateTransient
    BY <1>2, <2>2 DEF CreateTransient
  <2> QED
    BY <1>2, <2>1, <2>2
<1> QED
  BY <1>1, <1>3 DEF TypeInv, ServerTypes, FileTypes, MemoryTypes, NetTypes, Forward

(* What becomes of a refused patch.                                        *)
LEMMA SaveTypeStep ==
  ASSUME TypeInv, SaveError \/ SaveErrorFails PROVE TypeInv'
<1>1. UNCHANGED <<slog, answer, sub, orphans, clog, drafts, tmp, nextLocal, commands, acks, c2l, patches, applying,
                  subscribed, quarantine, up, down, link>>
  BY DEF SaveError, SaveErrorFails, server, files, net
<1>2. err' \subseteq Nat /\ unsaved' \subseteq Nat /\ unreported' \subseteq Nat /\ breaks' \in Nat
  <2>1. err \subseteq Nat /\ unsaved \subseteq Nat /\ unreported \subseteq Nat /\ breaks \in Nat
    BY DEF TypeInv, FileTypes, MemoryTypes, NetTypes
  <2>2. CASE SaveError
    BY <2>1, <2>2 DEF SaveError, net
  <2>3. CASE SaveErrorFails
    BY <2>1, <2>3 DEF SaveErrorFails, files
  <2> QED
    BY <2>2, <2>3
<1> QED
  BY <1>1, <1>2 DEF TypeInv, ServerTypes, FileTypes, MemoryTypes, NetTypes, Forward

(* A lost connection, a restart.                                           *)
LEMMA FailureTypeStep ==
  ASSUME TypeInv, LinkBreaks \/ ClientRestarts PROVE TypeInv'
<1>1. /\ breaks' = breaks + 1 /\ sub' = [on |-> FALSE, version |-> 0] /\ answer' = <<>>
      /\ orphans' = orphans \o up /\ up' = <<>> /\ down' = <<>> /\ slog' = slog
      /\ UNCHANGED <<clog, drafts, tmp, err, nextLocal>>
  BY DEF LinkBreaks, ClientRestarts, Disconnect, NoAnswer, files
<1>2. orphans' \in Seq(QueryMsg)
  BY <1>1, ConcatProperties DEF TypeInv, ServerTypes, NetTypes
<1>3. ServerTypes' /\ LogSane(slog)'
  BY <1>1, <1>2 DEF TypeInv, ServerTypes
<1>4. FileTypes' /\ NetTypes'
  <2>1. link' \in BOOLEAN
    BY DEF LinkBreaks, ClientRestarts
  <2>2. breaks' \in Nat /\ FileTypes'
    BY <1>1 DEF TypeInv, FileTypes, NetTypes
  <2> QED
    BY <1>1, <2>1, <2>2 DEF NetTypes
<1>5. MemoryTypes' /\ Forward'
  <2>1. CASE LinkBreaks
    BY <1>1, <2>1 DEF LinkBreaks, memory, refusals, TypeInv, MemoryTypes, Forward
  <2>2. CASE ClientRestarts
    <3>1. commands' = {} /\ IsFiniteSet({})
      BY <2>2, FS_EmptySet DEF ClientRestarts
    <3>2. patches' = <<>> /\ acks' = 0 /\ c2l' = {}
      BY <2>2 DEF ClientRestarts
    <3>3. applying' \in BOOLEAN /\ subscribed' \in BOOLEAN /\ quarantine' \in BOOLEAN
      BY <2>2 DEF ClientRestarts
    <3>4. unsaved' \subseteq Nat /\ unreported' \subseteq Nat
      BY <2>2 DEF ClientRestarts, TypeInv, MemoryTypes
    <3> QED
      BY <1>1, <3>1, <3>2, <3>3, <3>4 DEF MemoryTypes, Forward
  <2> QED
    BY <2>1, <2>2
<1> QED
  BY <1>3, <1>4, <1>5 DEF TypeInv

LEMMA TypeInit == Init => TypeInv
<1> SUFFICES ASSUME Init PROVE TypeInv
  OBVIOUS
<1>1. ServerTypes
  BY DEF Init, ServerTypes, NoAnswer
<1>2. FileTypes /\ Forward /\ LogSane(slog)
  BY DEF Init, FileTypes, Forward, LogSane
<1>3. MemoryTypes
  <2>1. commands = {} /\ IsFiniteSet({}) /\ acks \in Int /\ c2l = {} /\ patches \in Seq(Queued)
    BY FS_EmptySet DEF Init
  <2>2. applying \in BOOLEAN /\ subscribed \in BOOLEAN /\ quarantine \in BOOLEAN
    BY DEF Init
  <2>3. unsaved = {} /\ unreported = {}
    BY DEF Init
  <2> QED
    BY <2>1, <2>2, <2>3 DEF MemoryTypes
<1>4. NetTypes
  <2>1. up \in Seq(QueryMsg) /\ down \in Seq(AnswerMsg \cup PatchMsg) /\ breaks \in Nat
    BY DEF Init
  <2>2. link \in BOOLEAN
    BY DEF Init
  <2> QED
    BY <2>1, <2>2 DEF NetTypes
<1> QED
  BY <1>1, <1>2, <1>3, <1>4 DEF TypeInv

LEMMA TypeStep == TypeInv /\ [Next]_vars => TypeInv'
<1> SUFFICES ASSUME TypeInv, [Next]_vars PROVE TypeInv'
  OBVIOUS
<1>1. CASE Server
  BY <1>1, ServeQueryType, SendAnswerType, SendNextPatchType DEF Server
<1>2. CASE Client
  BY <1>2, WriterTypeStep, AnswerTypeStep, SaveTypeStep, ServiceTypeStep, ApplyTypeStep DEF Client
<1>3. CASE Environment
  BY <1>3, PluginTypeStep, ServerTypeStep, SaveTypeStep, FailureTypeStep DEF Environment
<1>4. CASE UNCHANGED vars
  BY <1>4 DEF vars, server, files, memory, refusals, net, TypeInv, ServerTypes, FileTypes, MemoryTypes, NetTypes, Forward
<1> QED
  BY <1>1, <1>2, <1>3, <1>4 DEF Next

(* Whatever happens to the server's mdir is a patch.                       *)
LEMMA SlogStep ==
  ASSUME TypeInv, [Next]_vars
  PROVE  slog' = slog \/ Patches(slog, slog')
<1>1. CASE ServeQuery
  <2>1. Head(up) \in QueryMsg /\ slog \in Seq(LogEntry)
    BY <1>1 DEF TypeInv, NetTypes, ServerTypes, ServeQuery
  <2> QED
    BY <1>1, <2>1, AcceptPatches DEF ServeQuery, exec_sub, exec_putrem
<1>2. CASE ForeignPatch
  BY <1>2, ForeignPatches DEF Patches
<1>3. CASE ServeOrphan
  <2>1. Head(orphans) \in QueryMsg /\ slog \in Seq(LogEntry)
    BY <1>3 DEF TypeInv, ServerTypes, ServeOrphan
  <2> QED
    BY <1>3, <2>1, AcceptPatches DEF ServeOrphan
<1>4. CASE ~ServeQuery /\ ~ForeignPatch /\ ~ServeOrphan
  BY <1>4 DEF Next, Server, Client, Environment, vars, server, SendAnswer, SendNextPatch, WriterSub,
     QuarantineEnds, WriterSend, finalize_sub, finalize_putrem, SaveError, SaveErrorFails, patch_service,
     ApplyOne, ApplyEnd, mdir_patch_request, CreateTransient, LinkBreaks, ClientRestarts, Disconnect, LoseOrphan
<1> QED
  BY <1>1, <1>2, <1>3, <1>4

LEMMA SlogGrows ==
  ASSUME TypeInv, [Next]_vars PROVE Grows(slog, slog')
<1>1. slog \in Seq(LogEntry)
  BY DEF TypeInv, ServerTypes
<1>2. CASE slog' = slog
  BY <1>1, <1>2 DEF Grows
<1> QED
  BY <1>1, <1>2, SlogStep, PatchGrows

-----------------------------------------------------------------------------
(* No requested patch is lost.                                             *)

RecordedIn(log, n) == \E v \in 1 .. Len(log) : log[v].org = n

(* An accepted patch is recorded before it is acknowledged.                *)
Acknowledges(m) == m.kw \in {"put", "rem"} /\ m.status = 200

AckedRecorded ==
  /\ \A i \in 1 .. Len(answer) : Acknowledges(answer[i]) => RecordedIn(slog, answer[i].id)
  /\ \A i \in 1 .. Len(down) : Acknowledges(down[i]) => RecordedIn(slog, down[i].id)

LEMMA RecordedStays ==
  ASSUME TypeInv, [Next]_vars, NEW n, RecordedIn(slog, n) PROVE RecordedIn(slog', n)
<1>1. PICK v \in 1 .. Len(slog) : slog[v].org = n
  BY DEF RecordedIn
<1>2. Len(slog) \in Nat /\ Len(slog') \in Nat /\ Len(slog) <= Len(slog') /\ slog'[v].org = slog[v].org
  BY SlogGrows DEF Grows, TypeInv, ServerTypes
<1>3. v \in 1 .. Len(slog')
  BY <1>2
<1> QED
  BY <1>1, <1>2, <1>3 DEF RecordedIn

LEMMA AckedStep ==
  ASSUME TypeInv, AckedRecorded, [Next]_vars PROVE AckedRecorded'
<1>1. CASE ServeQuery
  <2>1. UNCHANGED down
    BY <1>1 DEF ServeQuery
  <2>2. PICK granted \in {TRUE, ~Denials}, confirmed \in {TRUE, ~Incomplete} :
          IF Head(up).kw = "sub" THEN exec_sub(Head(up), granted) ELSE exec_putrem(Head(up), granted, confirmed)
    BY <1>1 DEF ServeQuery
  <2>3. ASSUME Len(answer') >= 1, Acknowledges(answer'[1]) PROVE RecordedIn(slog', answer'[1].id)
    <3>1. Head(up) \in QueryMsg /\ slog \in Seq(LogEntry)
      BY <1>1 DEF TypeInv, NetTypes, ServerTypes, ServeQuery
    <3>2. Head(up).kw # "sub" /\ Accepts(Head(up), granted) /\ slog' = add_header(Head(up)) /\ answer'[1].id = Head(up).id
      BY <2>2, <2>3 DEF exec_sub, exec_putrem, Answer, Acknowledges
    <3>3. PICK e \in LogEntry : e.org = Head(up).id /\ CanPatch(slog, e.tag, e.ref) /\ slog' = mdir_patch(slog, e, 0)
      BY <3>1, <3>2, AcceptPatches
    <3>4. PICK len \in Nat : len = Len(slog)
      BY <3>1
    <3>5. Len(slog') = len + 1 /\ slog'[len + 1] = e
      <4> DEFINE new == mdir_patch(slog, e, 0)
      <4>1. Len(new) = len + 1 /\ new[len + 1] = e
        BY <3>1, <3>3, <3>4, ServerPatch
      <4> HIDE DEF new
      <4>2. slog' = new
        BY <3>3 DEF new
      <4> QED
        BY <4>1, <4>2
    <3>6. len + 1 \in 1 .. Len(slog') /\ slog'[len + 1].org = answer'[1].id
      BY <3>2, <3>3, <3>5
    <3> QED
      BY <3>6 DEF RecordedIn
  <2>4. \A i \in 1 .. Len(answer') : i = 1 /\ Len(answer') >= 1
    BY TypeStep DEF TypeInv, ServerTypes
  <2>5. \A i \in 1 .. Len(answer') : Acknowledges(answer'[i]) => RecordedIn(slog', answer'[i].id)
    BY <2>3, <2>4
  <2>6. \A i \in 1 .. Len(down) : Acknowledges(down[i]) => RecordedIn(slog', down[i].id)
    BY RecordedStays DEF AckedRecorded
  <2> QED
    BY <2>1, <2>5, <2>6 DEF AckedRecorded
<1>2. CASE SendAnswer
  <2>1. answer' = <<>> /\ Len(answer) >= 1 /\ Head(answer) = answer[1]
    BY <1>2 DEF SendAnswer, NoAnswer, TypeInv, ServerTypes
  <2>2. /\ Len(down') = Len(down) + 1 /\ down'[Len(down) + 1] = answer[1]
        /\ \A i \in 1 .. Len(down) : down'[i] = down[i]
    BY <1>2, <2>1, AppendProperties DEF SendAnswer, TypeInv, NetTypes
  <2> QED
    BY <2>1, <2>2, RecordedStays DEF AckedRecorded, TypeInv, NetTypes
<1>3. CASE SendNextPatch
  <2>1. PICK p \in PatchMsg : down' = Append(down, p)
    BY <1>3, NextPatch
  <2>2. /\ Len(down') = Len(down) + 1 /\ down'[Len(down) + 1] = p /\ p.kw = "patch"
        /\ \A i \in 1 .. Len(down) : down'[i] = down[i]
    BY <2>1, AppendProperties DEF PatchMsg, TypeInv, NetTypes
  <2>3. answer' = answer
    BY <1>3 DEF SendNextPatch
  <2> QED
    BY <2>2, <2>3, RecordedStays DEF AckedRecorded, TypeInv, NetTypes, Acknowledges
<1>4. ASSUME NEW k, Receives(k), answer' = answer PROVE AckedRecorded'
  <2>1. Len(down') = Len(down) - 1 /\ \A i \in 1 .. Len(down') : down'[i] = down[i + 1]
    BY <1>4, Receive
  <2>2. \A i \in 1 .. Len(down') : i + 1 \in 1 .. Len(down)
    BY <2>1 DEF TypeInv, NetTypes
  <2> QED
    BY <1>4, <2>1, <2>2, RecordedStays DEF AckedRecorded
<1>5. CASE finalize_sub \/ finalize_putrem \/ patch_service
  BY <1>4, <1>5 DEF finalize_sub, finalize_putrem, patch_service, server
<1>6. CASE LinkBreaks \/ ClientRestarts
  <2>1. answer' = <<>> /\ down' = <<>>
    BY <1>6 DEF LinkBreaks, ClientRestarts, Disconnect, NoAnswer
  <2> QED
    BY <2>1 DEF AckedRecorded
<1>7. CASE ~(ServeQuery \/ SendAnswer \/ SendNextPatch \/ finalize_sub \/ finalize_putrem \/ patch_service
             \/ LinkBreaks \/ ClientRestarts)
  <2>1. answer' = answer /\ down' = down
    BY <1>7 DEF Next, Server, Client, Environment, vars, server, net, WriterSub, QuarantineEnds, WriterSend,
       SaveError, SaveErrorFails, ApplyOne, ApplyEnd, mdir_patch_request, CreateTransient, ForeignPatch,
       ServeOrphan, LoseOrphan
  <2> QED
    BY <2>1, RecordedStays DEF AckedRecorded
<1> QED
  BY <1>1, <1>2, <1>3, <1>5, <1>6, <1>7

(* The requests that were refused: reported, about to be, or never.        *)
Refused == err \cup unsaved \cup unreported

(* RequestNotLost, for request n.                                          *)
Kept(requests, refused, log, n) == (\E f \in requests : f.id = n) \/ n \in refused \/ RecordedIn(log, n)

(* What the steps of mdsyncc do to the refused requests.                   *)
LEMMA RefusedFinalize ==
  ASSUME TypeInv, finalize_putrem
  PROVE  /\ tmp' = {f \in tmp : f.id # down[1].id} /\ down[1].kw \in {"put", "rem"} /\ Len(down) >= 1
         /\ Refused' = IF down[1].status = 200 THEN Refused ELSE Refused \cup {down[1].id}
         /\ UNCHANGED <<slog, clog, drafts, err, nextLocal>>
<1>1. down[1].kw \in {"put", "rem"} /\ Head(down) = down[1] /\ Len(down) >= 1 /\ unsaved = {}
  BY Receive DEF finalize_putrem, Receives
<1>2. /\ tmp' = {f \in tmp : f.id # down[1].id}
      /\ unsaved' = IF down[1].status = 200 THEN unsaved ELSE {down[1].id}
      /\ UNCHANGED <<slog, clog, drafts, err, nextLocal, unreported>>
  BY <1>1 DEF finalize_putrem, server
<1>3. Refused' = IF down[1].status = 200 THEN Refused ELSE Refused \cup {down[1].id}
  BY <1>1, <1>2 DEF Refused
<1> QED
  BY <1>1, <1>2, <1>3

LEMMA RefusedSame ==
  ASSUME [Next]_vars, ~finalize_putrem PROVE Refused' = Refused
<1>1. CASE SaveError \/ SaveErrorFails \/ ClientRestarts
  BY <1>1 DEF SaveError, SaveErrorFails, ClientRestarts, files, Refused
<1>2. CASE UNCHANGED <<err, unsaved, unreported>>
  BY <1>2 DEF Refused
<1>3. \/ SaveError \/ SaveErrorFails \/ ClientRestarts \/ UNCHANGED <<err, unsaved, unreported>>
  BY DEF Next, Server, Client, Environment, vars, files, memory, refusals, ServeQuery, SendAnswer, SendNextPatch,
     WriterSub, QuarantineEnds, WriterSend, finalize_sub, patch_service, ApplyOne, ApplyEnd, mdir_patch_request,
     CreateTransient, ForeignPatch, LinkBreaks, ServeOrphan, LoseOrphan
<1> QED
  BY <1>1, <1>2, <1>3

LEMMA NotLostStep ==
  ASSUME TypeInv, AckedRecorded, RequestNotLost, [Next]_vars
  PROVE  \A n \in 1 .. nextLocal' - 1 : Kept(tmp' \cup drafts', Refused', slog', n)
<1>1. \A n \in 1 .. nextLocal - 1 : Kept(tmp \cup drafts, Refused, slog, n)
  <2>1. DOMAIN slog = 1 .. Len(slog)
    BY DEF TypeInv, ServerTypes
  <2> QED
    BY <2>1 DEF RequestNotLost, Kept, RecordedIn, Refused
<1>2. nextLocal \in Nat
  BY DEF TypeInv, FileTypes
<1>3. ASSUME NEW tag, NEW ref, mdir_patch_request(tag, ref), ~finalize_putrem
      PROVE  \A n \in 1 .. nextLocal' - 1 : Kept(tmp' \cup drafts', Refused', slog', n)
  <2>1. /\ drafts' = drafts \cup {[id |-> nextLocal, tag |-> tag, ref |-> ref]} /\ nextLocal' = nextLocal + 1
        /\ tmp' = tmp /\ slog' = slog
    BY <1>3 DEF mdir_patch_request, server
  <2>2. Kept(tmp' \cup drafts', Refused', slog', nextLocal)
    <3> DEFINE f == [id |-> nextLocal, tag |-> tag, ref |-> ref]
    <3>1. f \in tmp' \cup drafts' /\ f.id = nextLocal
      BY <2>1
    <3> QED
      BY <3>1, Zenon DEF Kept
  <2>3. ASSUME NEW n, Kept(tmp \cup drafts, Refused, slog, n) PROVE Kept(tmp' \cup drafts', Refused', slog', n)
    <3>1. Refused' = Refused
      BY <1>3, RefusedSame
    <3> QED
      BY <2>1, <2>3, <3>1 DEF Kept
  <2>4. \A n \in 1 .. nextLocal' - 1 : n = nextLocal \/ n \in 1 .. nextLocal - 1
    BY <1>2, <2>1
  <2> QED
    BY <1>1, <2>2, <2>3, <2>4, Zenon
<1>4. CASE CreateTransient /\ ~finalize_putrem
  <2>1. PICK f \in drafts : tmp' = tmp \cup {f} /\ drafts' = drafts \ {f}
    BY <1>4 DEF CreateTransient
  <2>2. nextLocal' = nextLocal /\ Refused' = Refused /\ slog' = slog
    BY <1>4, RefusedSame DEF CreateTransient, server
  <2>3. tmp' \cup drafts' = tmp \cup drafts
    BY <2>1
  <2> QED
    BY <1>1, <2>2, <2>3 DEF Kept
<1>5. CASE finalize_putrem
  <2>1. /\ tmp' = {f \in tmp : f.id # down[1].id} /\ drafts' = drafts /\ nextLocal' = nextLocal /\ slog' = slog
        /\ down[1].kw \in {"put", "rem"} /\ Len(down) >= 1
        /\ Refused' = IF down[1].status = 200 THEN Refused ELSE Refused \cup {down[1].id}
    BY <1>5, RefusedFinalize
  <2>2. down[1].status = 200 => RecordedIn(slog, down[1].id)
    BY <2>1 DEF AckedRecorded, Acknowledges, TypeInv, NetTypes
  <2>3. ASSUME NEW n, Kept(tmp \cup drafts, Refused, slog, n) PROVE Kept(tmp' \cup drafts', Refused', slog', n)
    BY <2>1, <2>2, <2>3 DEF Kept
  <2> QED
    BY <1>1, <2>1, <2>3
<1>6. CASE UNCHANGED <<tmp, drafts, nextLocal>> /\ ~finalize_putrem
  <2>1. ASSUME NEW n, Kept(tmp \cup drafts, Refused, slog, n) PROVE Kept(tmp' \cup drafts', Refused', slog', n)
    BY <1>6, <2>1, RecordedStays, RefusedSame DEF Kept
  <2> QED
    BY <1>1, <1>6, <2>1
<1>7. UNCHANGED <<tmp, drafts, nextLocal>> \/ CreateTransient \/ finalize_putrem
      \/ mdir_patch_request("+", 0) \/ \E t \in DOMAIN clog : mdir_patch_request("-", t)
  BY DEF Next, Server, Client, Environment, vars, files, ServeQuery, SendAnswer, SendNextPatch, WriterSub,
     QuarantineEnds, WriterSend, finalize_sub, SaveError, SaveErrorFails, patch_service, ApplyOne, ApplyEnd,
     ForeignPatch, LinkBreaks, ClientRestarts, ServeOrphan, LoseOrphan
<1> QED
  BY <1>3, <1>4, <1>5, <1>6, <1>7

(* One refused patch at a time is on its way to .err, and a break leaves   *)
(* at most that one unreported.                                            *)
OnePerBreak ==
  /\ \A m, n \in unsaved : m = n
  /\ IsFiniteSet(unreported) /\ Cardinality(unreported) <= breaks

LEMMA OnePerBreakStep ==
  ASSUME TypeInv, OnePerBreak, [Next]_vars PROVE OnePerBreak'
<1>1. CASE SaveErrorFails \/ ClientRestarts
  <2>1. unreported' = unreported \cup unsaved /\ unsaved' = {} /\ breaks' = breaks + 1 /\ breaks \in Nat
    BY <1>1 DEF SaveErrorFails, ClientRestarts, Disconnect, TypeInv, NetTypes
  <2>2. CASE unsaved = {}
    BY <2>1, <2>2, FS_CardinalityType DEF OnePerBreak
  <2>3. CASE unsaved # {}
    <3>1. PICK n \in unsaved : TRUE
      BY <2>3
    <3>2. unreported' = unreported \cup {n}
      BY <2>1, <3>1 DEF OnePerBreak
    <3>3. /\ IsFiniteSet(unreported')
          /\ Cardinality(unreported') = IF n \in unreported THEN Cardinality(unreported) ELSE Cardinality(unreported) + 1
      BY <3>2, FS_AddElement DEF OnePerBreak
    <3>4. Cardinality(unreported) \in Nat
      BY FS_CardinalityType DEF OnePerBreak
    <3> QED
      BY <2>1, <3>3, <3>4 DEF OnePerBreak
  <2> QED
    BY <2>2, <2>3
<1>2. CASE finalize_putrem
  <2>1. unreported' = unreported /\ breaks' = breaks /\ (unsaved' = unsaved \/ unsaved' = {Head(down).id})
    BY <1>2 DEF finalize_putrem
  <2> QED
    BY <2>1 DEF OnePerBreak
<1>3. CASE (unsaved' = unsaved \/ unsaved' = {}) /\ unreported' = unreported /\ (breaks' = breaks \/ breaks' = breaks + 1)
  <2>1. Cardinality(unreported) \in Nat /\ breaks \in Nat
    BY FS_CardinalityType DEF OnePerBreak, TypeInv, NetTypes
  <2> QED
    BY <1>3, <2>1 DEF OnePerBreak
<1>4. \/ SaveErrorFails \/ ClientRestarts \/ finalize_putrem
      \/ (unsaved' = unsaved \/ unsaved' = {}) /\ unreported' = unreported /\ (breaks' = breaks \/ breaks' = breaks + 1)
  BY DEF Next, Server, Client, Environment, vars, memory, refusals, net, ServeQuery, SendAnswer, SendNextPatch,
     WriterSub, QuarantineEnds, WriterSend, finalize_sub, SaveError, patch_service, ApplyOne, ApplyEnd,
     mdir_patch_request, CreateTransient, ForeignPatch, LinkBreaks, Disconnect, ServeOrphan, LoseOrphan
<1> QED
  BY <1>1, <1>2, <1>3, <1>4

LostInv == TypeInv /\ AckedRecorded /\ OnePerBreak /\ RequestNotLost

(* A patch that a plugin requested is in .tmp, recorded by the server, or  *)
(* was refused and is in .err or about to be, whatever breaks and whenever *)
(* mdsyncc is restarted: finalize_putrem removes the file of an accepted   *)
(* patch only once the server has recorded it.  A refusal is lost only if  *)
(* mdsyncc ends, or .err cannot be written, right after the file left      *)
(* .tmp: each break loses one at most.                                     *)
THEOREM NoRequestLost == Spec => []RequestNotLost
<1>1. Init => LostInv
  <2> SUFFICES ASSUME Init PROVE LostInv
    OBVIOUS
  <2>1. AckedRecorded
    BY DEF Init, NoAnswer, AckedRecorded
  <2>2. unsaved = {} /\ unreported = {} /\ breaks = 0 /\ nextLocal = 1
    BY DEF Init
  <2>3. IsFiniteSet({}) /\ Cardinality({}) = 0
    BY FS_EmptySet
  <2>4. OnePerBreak /\ RequestNotLost
    BY <2>2, <2>3 DEF OnePerBreak, RequestNotLost
  <2> QED
    BY <2>1, <2>4, TypeInit DEF LostInv
<1>2. LostInv /\ [Next]_vars => LostInv'
  <2> SUFFICES ASSUME LostInv, [Next]_vars PROVE LostInv'
    OBVIOUS
  <2>1. TypeInv' /\ AckedRecorded' /\ OnePerBreak'
    BY TypeStep, AckedStep, OnePerBreakStep DEF LostInv
  <2>2. \A n \in 1 .. nextLocal' - 1 : Kept(tmp' \cup drafts', Refused', slog', n)
    BY NotLostStep DEF LostInv
  <2>3. DOMAIN slog' = 1 .. Len(slog')
    BY <2>1 DEF TypeInv, ServerTypes
  <2>4. RequestNotLost'
    BY <2>1, <2>2, <2>3 DEF RequestNotLost, OnePerBreak, Kept, RecordedIn, Refused
  <2> QED
    BY <2>1, <2>4 DEF LostInv
<1>3. LostInv => RequestNotLost
  BY DEF LostInv
<1> QED
  BY <1>1, <1>2, <1>3, PTL DEF Spec

-----------------------------------------------------------------------------
(* Answers and commands.                                                   *)

(* The command that a message is about, unless it is a patch.              *)
Cmd(m) == [kw |-> m.kw, id |-> m.id]
IsAnswer(m) == m.kw # "patch"

(* No message is unexpected.                                               *)
Expected ==
  /\ \A i \in 1 .. Len(up) : Cmd(up[i]) \in commands
  /\ \A i \in 1 .. Len(answer) : Cmd(answer[i]) \in commands
  /\ \A i \in 1 .. Len(down) : IsAnswer(down[i]) => Cmd(down[i]) \in commands

(* No two messages are about the same command.                             *)
OnceEach ==
  /\ \A i, k \in 1 .. Len(up) : Cmd(up[i]) = Cmd(up[k]) => i = k
  /\ \A i \in 1 .. Len(up), k \in 1 .. Len(answer) : Cmd(up[i]) # Cmd(answer[k])
  /\ \A i \in 1 .. Len(up), k \in 1 .. Len(down) : IsAnswer(down[k]) => Cmd(up[i]) # Cmd(down[k])
  /\ \A i \in 1 .. Len(answer), k \in 1 .. Len(down) : IsAnswer(down[k]) => Cmd(answer[i]) # Cmd(down[k])
  /\ \A i, k \in 1 .. Len(down) :
       IsAnswer(down[i]) /\ IsAnswer(down[k]) /\ Cmd(down[i]) = Cmd(down[k]) => i = k

(* Every command is still answered.                                        *)
Answered ==
  \A c \in commands : \/ \E i \in 1 .. Len(up) : Cmd(up[i]) = c
                      \/ \E i \in 1 .. Len(answer) : Cmd(answer[i]) = c
                      \/ \E i \in 1 .. Len(down) : IsAnswer(down[i]) /\ Cmd(down[i]) = c

AcksCount == acks = Cardinality({c \in commands : c.kw # "sub"})

Matching == link => Expected /\ OnceEach /\ Answered /\ AcksCount

-----------------------------------------------------------------------------
(* The replica.                                                            *)

(* A lost connection leaves nothing behind.                                *)
Offline == ~link => up = <<>> /\ answer = <<>> /\ down = <<>> /\ ~sub.on /\ ~applying

SubCmd == [kw |-> "sub", id |-> 0]

(* The server has at most one subscription of ours to create, with the     *)
(* version that we have, and it knows of ours exactly if we do.            *)
SubState ==
  link =>
    /\ \A i \in 1 .. Len(up) : up[i].kw = "sub" => ~sub.on /\ up[i].ref = Len(clog)
    /\ \A i \in 1 .. Len(answer) : answer[i].kw = "sub" => (sub.on <=> answer[i].status = 200)
    /\ \A i \in 1 .. Len(down) : down[i].kw = "sub" => (sub.on <=> down[i].status = 200)
    /\ SubCmd \in commands => ~subscribed
    /\ SubCmd \notin commands => (sub.on <=> subscribed)

(* Without a subscription there are no patches.                            *)
NoPatches ==
  link /\ ~sub.on => patches = <<>> /\ \A i \in 1 .. Len(down) : IsAnswer(down[i])

(* A patch says what the server's mdir is between two versions, but for    *)
(* what was removed since.                                                 *)
TrueOf(log, old, new, tag, ref, org) ==
  /\ new <= Len(log)
  /\ log[new].ref = ref /\ log[new].org = org
  /\ log[new].tag \in {tag, "%"}
  /\ tag = "-" => log[new].tag = "-"
  /\ \A v \in old + 1 .. new - 1 : log[v].tag = "%"

TrueIn(log, pts, dn) ==
  /\ \A i \in 1 .. Len(pts) :
       TrueOf(log, pts[i].old, pts[i].new, pts[i].e.tag, pts[i].e.ref, pts[i].e.org)
  /\ \A i \in 1 .. Len(dn) :
       ~IsAnswer(dn[i]) => TrueOf(log, dn[i].old, dn[i].new, dn[i].tag, dn[i].ref, dn[i].org)

PatchesTrue == link => TrueIn(slog, patches, down)

(* Patches are sent, and so arrive and are queued, by their old versions.  *)
SortedIn(pts, dn, ver) ==
  /\ \A i, k \in 1 .. Len(pts) : i <= k => pts[i].old <= pts[k].old
  /\ \A i \in 1 .. Len(pts), k \in 1 .. Len(dn) : ~IsAnswer(dn[k]) => pts[i].old <= dn[k].old
  /\ \A i, k \in 1 .. Len(dn) :
       ~IsAnswer(dn[i]) /\ ~IsAnswer(dn[k]) /\ i <= k => dn[i].old <= dn[k].old
  /\ \A i \in 1 .. Len(pts) : pts[i].old <= ver
  /\ \A i \in 1 .. Len(dn) : ~IsAnswer(dn[i]) => dn[i].old <= ver

PatchesSorted == link => SortedIn(patches, down, sub.version)

(* PatchChain, without the last part: pts are the received patches, dn the *)
(* messages that are still to arrive, len is the client's last version and *)
(* ver the version of its subscription.                                    *)
ReceivedOf(pts, len) == IF Len(pts) = 0 THEN len ELSE pts[Len(pts)].new

LeadIn(dn, r, i, v) ==
  \/ v = r /\ \A k \in 1 .. i - 1 : IsAnswer(dn[k])
  \/ \E k \in 1 .. i - 1 : /\ ~IsAnswer(dn[k]) /\ v = dn[k].new
                           /\ \A m \in k + 1 .. i - 1 : IsAnswer(dn[m])

ChainIn(pts, dn, len, ver) ==
  /\ \A i \in 1 .. Len(pts) : pts[i].old = IF i = 1 THEN len ELSE pts[i - 1].new
  /\ \A i \in 1 .. Len(dn) : ~IsAnswer(dn[i]) => LeadIn(dn, ReceivedOf(pts, len), i, dn[i].old)
  /\ LeadIn(dn, ReceivedOf(pts, len), Len(dn) + 1, ver)

Chain == link /\ sub.on => ChainIn(patches, down, Len(clog), sub.version)

(* ReplicaPrefix, and a removal on the client is one on the server.        *)
SameEntry(c, s) ==
  /\ c.tag = "%" => s.tag = "%"
  /\ c.tag = "-" => s.tag = "-"
  /\ c.tag # "%" => s.tag \in {c.tag, "%"} /\ s.ref = c.ref /\ s.org = c.org

ReplicaIn(c, s) ==
  /\ Len(c) <= Len(s)
  /\ \A v \in 1 .. Len(c) : SameEntry(c[v], s[v])

Replica == ReplicaIn(clog, slog)

Synced == Offline /\ SubState /\ NoPatches /\ PatchesTrue /\ PatchesSorted /\ Chain /\ Replica

SyncInv == TypeInv /\ Matching /\ Synced

-----------------------------------------------------------------------------
(* What the actions do to the messages, one by one.                        *)

LEMMA ServeEffect ==
  ASSUME TypeInv, ServeQuery
  PROVE  /\ Len(up') = Len(up) - 1 /\ Len(up) >= 1 /\ \A i \in 1 .. Len(up') : up'[i] = up[i + 1]
         /\ up[1] \in QueryMsg /\ Head(up) = up[1]
         /\ Len(answer) = 0 /\ Len(answer') = 1 /\ Cmd(answer'[1]) = Cmd(up[1])
         /\ UNCHANGED <<orphans, clog, drafts, tmp, err, nextLocal, commands, acks, c2l, patches, applying,
                        subscribed, quarantine, unsaved, unreported, down, link, breaks>>
<1>1. up \in Seq(QueryMsg) /\ up # <<>> /\ up' = Tail(up) /\ answer = <<>>
  BY DEF TypeInv, NetTypes, ServeQuery, NoAnswer
<1>2. /\ Len(up') = Len(up) - 1 /\ Len(up) >= 1 /\ \A i \in 1 .. Len(up') : up'[i] = up[i + 1]
      /\ up[1] \in QueryMsg /\ Head(up) = up[1]
  BY <1>1, HeadTailProperties
<1>3. Len(answer') = 1 /\ Cmd(answer'[1]) = Cmd(up[1])
  <2>1. PICK granted \in {TRUE, ~Denials}, confirmed \in {TRUE, ~Incomplete} :
          IF up[1].kw = "sub" THEN exec_sub(up[1], granted) ELSE exec_putrem(up[1], granted, confirmed)
    BY <1>2 DEF ServeQuery
  <2>2. CASE up[1].kw = "sub"
    <3>1. up[1].id = 0
      BY <1>2, <2>2 DEF QueryMsg
    <3>2. PICK st : answer' = <<Answer("sub", 0, st, 0)>>
      BY <2>1, <2>2 DEF exec_sub
    <3> QED
      BY <2>2, <3>1, <3>2 DEF Answer, Cmd
  <2>3. CASE up[1].kw # "sub"
    <3>1. PICK st, v : answer' = <<Answer(up[1].kw, up[1].id, st, v)>>
      BY <2>1, <2>3 DEF exec_putrem
    <3> QED
      BY <3>1 DEF Answer, Cmd
  <2> QED
    BY <2>2, <2>3
<1>4. UNCHANGED <<orphans, clog, drafts, tmp, err, nextLocal, commands, acks, c2l, patches, applying,
                  subscribed, quarantine, unsaved, unreported, down, link, breaks>>
  BY DEF ServeQuery, files, memory, refusals
<1> QED
  BY <1>1, <1>2, <1>3, <1>4

LEMMA AnswerEffect ==
  ASSUME TypeInv, SendAnswer
  PROVE  /\ Len(answer) = 1 /\ Len(answer') = 0 /\ answer[1] \in AnswerMsg /\ IsAnswer(answer[1])
         /\ Len(down') = Len(down) + 1 /\ down'[Len(down) + 1] = answer[1]
         /\ \A i \in 1 .. Len(down) : down'[i] = down[i]
         /\ UNCHANGED <<slog, sub, orphans, clog, drafts, tmp, err, nextLocal, commands, acks, c2l, patches,
                        applying, subscribed, quarantine, unsaved, unreported, up, link, breaks>>
<1>1. /\ answer \in Seq(AnswerMsg) /\ answer # <<>> /\ Len(answer) <= 1
      /\ down \in Seq(AnswerMsg \cup PatchMsg) /\ down' = Append(down, Head(answer)) /\ answer' = <<>>
  BY DEF TypeInv, ServerTypes, NetTypes, SendAnswer, NoAnswer
<1>2. Len(answer) = 1 /\ answer[1] \in AnswerMsg /\ Head(answer) = answer[1]
  <2>1. Len(answer) \in Nat /\ Len(answer) >= 1 /\ Len(answer) <= 1
    BY <1>1, EmptySeq
  <2>2. \A n \in Nat : n >= 1 /\ n <= 1 => n = 1
    OBVIOUS
  <2>3. Len(answer) = 1
    BY <2>1, <2>2
  <2> QED
    BY <1>1, <2>3
<1>3. IsAnswer(answer[1])
  BY <1>2 DEF IsAnswer, AnswerMsg, Keywords
<1>4. /\ Len(down') = Len(down) + 1 /\ down'[Len(down) + 1] = answer[1]
      /\ \A i \in 1 .. Len(down) : down'[i] = down[i]
  BY <1>1, <1>2, AppendProperties
<1>5. UNCHANGED <<slog, sub, orphans, clog, drafts, tmp, err, nextLocal, commands, acks, c2l, patches,
                  applying, subscribed, quarantine, unsaved, unreported, up, link, breaks>>
  BY DEF SendAnswer, files, memory, refusals
<1> QED
  BY <1>1, <1>2, <1>3, <1>4, <1>5

LEMMA NextPatchEffect ==
  ASSUME TypeInv, SendNextPatch
  PROVE  \E p \in PatchMsg :
           /\ Len(down') = Len(down) + 1 /\ down'[Len(down) + 1] = p /\ ~IsAnswer(p)
           /\ \A i \in 1 .. Len(down) : down'[i] = down[i]
           /\ sub.on /\ sub'.on /\ p.old = sub.version /\ sub'.version = p.new /\ p.old < p.new
           /\ TrueOf(slog, p.old, p.new, p.tag, p.ref, p.org)
           /\ UNCHANGED <<slog, answer, orphans, clog, drafts, tmp, err, nextLocal, commands, acks, c2l,
                          patches, applying, subscribed, quarantine, unsaved, unreported, up, link, breaks>>
<1>1. PICK next \in 1 .. Len(slog) :
        /\ sub.version < next /\ slog[next].tag # "%"
        /\ \A w \in sub.version + 1 .. next - 1 : slog[w].tag = "%"
        /\ Patch(sub.version, next, slog[next]) \in PatchMsg
        /\ down' = Append(down, Patch(sub.version, next, slog[next]))
        /\ sub' = [sub EXCEPT !.version = next]
        /\ sub.on
  BY NextPatch
<1> DEFINE p == Patch(sub.version, next, slog[next])
<1>2. /\ p.old = sub.version /\ p.new = next /\ p.tag = slog[next].tag /\ p.ref = slog[next].ref
      /\ p.org = slog[next].org /\ p.kw = "patch"
  BY DEF Patch
<1> HIDE DEF p
<1>3. /\ Len(down') = Len(down) + 1 /\ down'[Len(down) + 1] = p
      /\ \A i \in 1 .. Len(down) : down'[i] = down[i]
  BY <1>1, AppendProperties DEF TypeInv, NetTypes, p
<1>4. sub'.version = next /\ sub'.on
  BY <1>1 DEF TypeInv, ServerTypes
<1>5. TrueOf(slog, p.old, p.new, p.tag, p.ref, p.org)
  BY <1>1, <1>2 DEF TrueOf
<1>6. UNCHANGED <<slog, answer, orphans, clog, drafts, tmp, err, nextLocal, commands, acks, c2l, patches,
                  applying, subscribed, quarantine, unsaved, unreported, up, link, breaks>>
  BY DEF SendNextPatch, files, memory, refusals
<1> QED
  BY <1>1, <1>2, <1>3, <1>4, <1>5, <1>6 DEF p, IsAnswer

(* The writer thread sends a query for a command that it did not have.     *)
Sends(c, q) ==
  /\ link /\ ~applying /\ c \in Command /\ c \notin commands /\ commands' = commands \cup {c}
  /\ q \in QueryMsg /\ Cmd(q) = c
  /\ Len(up') = Len(up) + 1 /\ up'[Len(up) + 1] = q
  /\ \A i \in 1 .. Len(up) : up'[i] = up[i]
  /\ UNCHANGED <<slog, answer, sub, orphans, clog, drafts, tmp, err, nextLocal, c2l, patches, applying,
                 subscribed, quarantine, unsaved, unreported, down, link, breaks>>

LEMMA WriterSubEffect ==
  ASSUME TypeInv, WriterSub
  PROVE  \E q : Sends(SubCmd, q) /\ q.kw = "sub" /\ q.ref = Len(clog) /\ acks' = acks /\ ~subscribed
<1> DEFINE q == Query("sub", 0, Len(clog))
<1>1. q \in QueryMsg /\ Cmd(q) = SubCmd /\ q.kw = "sub" /\ q.ref = Len(clog) /\ SubCmd \in Command /\ SubCmd.kw = "sub"
  BY DEF Query, QueryMsg, Keywords, Cmd, SubCmd, Command, TypeInv, FileTypes
<1>2. up \in Seq(QueryMsg) /\ up' = Append(up, q)
  BY DEF TypeInv, NetTypes, WriterSub
<1>3. SubCmd \notin commands /\ commands' = commands \cup {SubCmd}
  BY <1>1 DEF WriterSub, SubCmd
<1>4. /\ UNCHANGED <<slog, answer, sub, orphans, clog, drafts, tmp, err, nextLocal, c2l, patches, applying,
                     subscribed, quarantine, unsaved, unreported, down, link, breaks, acks>>
      /\ link /\ ~applying /\ ~subscribed
  BY DEF WriterSub, server, files, refusals
<1> HIDE DEF q
<1>5. Len(up') = Len(up) + 1 /\ up'[Len(up) + 1] = q /\ \A i \in 1 .. Len(up) : up'[i] = up[i]
  BY <1>1, <1>2, AppendProperties
<1> QED
  BY <1>1, <1>3, <1>4, <1>5 DEF Sends

LEMMA WriterSendEffect ==
  ASSUME TypeInv, NEW f \in tmp, WriterSend(f)
  PROVE  \E c, q : /\ Sends(c, q) /\ c = [kw |-> kw(f), id |-> f.id]
                   /\ c.kw # "sub" /\ q.kw # "sub" /\ acks' = acks + 1
<1> DEFINE q == Query(kw(f), f.id, f.ref)
           c == [kw |-> kw(f), id |-> f.id]
<1>1. f \in RequestFile
  BY DEF TypeInv, FileTypes
<1>2. q \in QueryMsg /\ Cmd(q) = c /\ q.kw # "sub" /\ c \in Command /\ c.kw # "sub"
  BY <1>1 DEF Query, QueryMsg, Keywords, Cmd, Command, RequestFile, kw
<1>3. up \in Seq(QueryMsg) /\ up' = Append(up, q) /\ c \notin commands /\ commands' = commands \cup {c}
  BY DEF TypeInv, NetTypes, WriterSend
<1>4. /\ UNCHANGED <<slog, answer, sub, orphans, clog, drafts, tmp, err, nextLocal, c2l, patches, applying,
                     subscribed, quarantine, unsaved, unreported, down, link, breaks>>
      /\ link /\ ~applying /\ acks' = acks + 1
  BY DEF WriterSend, server, files, refusals
<1> HIDE DEF q
<1>5. Len(up') = Len(up) + 1 /\ up'[Len(up) + 1] = q /\ \A i \in 1 .. Len(up) : up'[i] = up[i]
  BY <1>2, <1>3, AppendProperties
<1> QED
  BY <1>2, <1>3, <1>4, <1>5 DEF Sends

(* The reader thread takes an answer.                                      *)
LEMMA FinalizeEffect ==
  ASSUME TypeInv, finalize_sub \/ finalize_putrem
  PROVE  /\ Len(down') = Len(down) - 1 /\ Len(down) >= 1
         /\ \A i \in 1 .. Len(down') : down'[i] = down[i + 1]
         /\ down[1] \in AnswerMsg /\ IsAnswer(down[1]) /\ link
         /\ commands' = commands \ {Cmd(down[1])}
         /\ UNCHANGED <<slog, answer, sub, orphans, clog, drafts, nextLocal, patches, applying, up, link, breaks>>
<1>1. PICK k : Receives(k) /\ k \subseteq Keywords
  BY DEF finalize_sub, finalize_putrem, Keywords
<1>2. /\ Len(down') = Len(down) - 1 /\ Len(down) >= 1
      /\ \A i \in 1 .. Len(down') : down'[i] = down[i + 1]
      /\ Head(down) = down[1] /\ down[1] \in AnswerMsg \cup PatchMsg /\ down[1].kw \in Keywords
  BY <1>1, Receive
<1>3. down[1] \in AnswerMsg /\ IsAnswer(down[1])
  BY <1>2 DEF AnswerMsg, PatchMsg, Keywords, IsAnswer
<1>4. link /\ UNCHANGED <<slog, answer, sub, orphans, clog, drafts, nextLocal, patches, applying, up, link, breaks>>
  BY DEF finalize_sub, finalize_putrem, server, files, Receives
<1>5. commands' = commands \ {Cmd(down[1])}
  <2>1. CASE finalize_sub
    <3>1. down[1].kw = "sub"
      BY <2>1, Receive DEF finalize_sub
    <3> QED
      BY <1>3, <2>1, <3>1 DEF finalize_sub, Cmd, AnswerMsg
  <2>2. CASE finalize_putrem
    BY <1>2, <2>2 DEF finalize_putrem, Cmd
  <2> QED
    BY <2>1, <2>2
<1> QED
  BY <1>2, <1>3, <1>4, <1>5

-----------------------------------------------------------------------------
(* Every step keeps commands and messages matched.                         *)

LEMMA ServeMatching ==
  ASSUME TypeInv, Matching, ServeQuery PROVE Matching'
<1> SUFFICES ASSUME link' PROVE (Expected /\ OnceEach /\ Answered /\ AcksCount)'
  BY DEF Matching
<1>1. /\ Len(up') = Len(up) - 1 /\ Len(up) >= 1 /\ \A i \in 1 .. Len(up') : up'[i] = up[i + 1]
      /\ Len(answer) = 0 /\ Len(answer') = 1 /\ Cmd(answer'[1]) = Cmd(up[1])
      /\ commands' = commands /\ acks' = acks /\ down' = down /\ link' = link
  BY ServeEffect
<1>2. Expected /\ OnceEach /\ Answered /\ AcksCount
  BY <1>1 DEF Matching
<1>3. Len(up) \in Nat /\ 1 \in 1 .. Len(up) /\ \A i \in 1 .. Len(up') : i + 1 \in 1 .. Len(up) /\ i + 1 # 1
  BY <1>1 DEF TypeInv, NetTypes
<1>4. \A i \in 1 .. Len(answer') : i = 1
  BY <1>1
<1>5. Expected'
  BY <1>1, <1>2, <1>3, <1>4 DEF Expected
<1>6. OnceEach'
  <2>1. \A i, k \in 1 .. Len(up') : Cmd(up'[i]) = Cmd(up'[k]) => i = k
    <3> SUFFICES ASSUME NEW i \in 1 .. Len(up'), NEW k \in 1 .. Len(up'), Cmd(up'[i]) = Cmd(up'[k]) PROVE i = k
      OBVIOUS
    <3>1. i + 1 \in 1 .. Len(up) /\ k + 1 \in 1 .. Len(up) /\ Cmd(up[i + 1]) = Cmd(up[k + 1])
      BY <1>1, <1>3
    <3>2. \A m, n \in 1 .. Len(up) : Cmd(up[m]) = Cmd(up[n]) => m = n
      BY <1>2 DEF OnceEach
    <3>3. i + 1 = k + 1
      BY <3>1, <3>2
    <3> QED
      BY <3>3
  <2>2. \A i \in 1 .. Len(up'), k \in 1 .. Len(answer') : Cmd(up'[i]) # Cmd(answer'[k])
    BY <1>1, <1>2, <1>3, <1>4 DEF OnceEach
  <2>3. \A i \in 1 .. Len(up'), k \in 1 .. Len(down) : IsAnswer(down[k]) => Cmd(up'[i]) # Cmd(down[k])
    BY <1>1, <1>2, <1>3 DEF OnceEach
  <2>4. \A i \in 1 .. Len(answer'), k \in 1 .. Len(down) : IsAnswer(down[k]) => Cmd(answer'[i]) # Cmd(down[k])
    BY <1>1, <1>2, <1>3, <1>4 DEF OnceEach
  <2> QED
    BY <1>1, <1>2, <2>1, <2>2, <2>3, <2>4 DEF OnceEach
<1>7. Answered'
  <2> SUFFICES ASSUME NEW c \in commands
               PROVE  \/ \E i \in 1 .. Len(up') : Cmd(up'[i]) = c
                      \/ \E i \in 1 .. Len(answer') : Cmd(answer'[i]) = c
                      \/ \E i \in 1 .. Len(down) : IsAnswer(down[i]) /\ Cmd(down[i]) = c
    BY <1>1 DEF Answered
  <2>1. CASE \E i \in 1 .. Len(up) : Cmd(up[i]) = c
    <3>1. PICK i \in 1 .. Len(up) : Cmd(up[i]) = c
      BY <2>1
    <3>2. CASE i = 1
      <4>1. 1 \in 1 .. Len(answer') /\ Cmd(answer'[1]) = c
        BY <1>1, <3>1, <3>2
      <4> QED
        BY <4>1
    <3>3. CASE i # 1
      <4>1. i - 1 \in 1 .. Len(up') /\ (i - 1) + 1 = i
        BY <1>1, <1>3, <3>3
      <4>2. up'[i - 1] = up[i]
        BY <1>1, <4>1
      <4> QED
        BY <3>1, <4>1, <4>2
    <3> QED
      BY <3>2, <3>3
  <2>2. CASE \E i \in 1 .. Len(down) : IsAnswer(down[i]) /\ Cmd(down[i]) = c
    BY <2>2
  <2>3. \A i \in 1 .. Len(answer) : FALSE
    BY <1>1
  <2> QED
    BY <1>2, <2>1, <2>2, <2>3 DEF Answered
<1> QED
  BY <1>1, <1>2, <1>5, <1>6, <1>7 DEF AcksCount

LEMMA SendAnswerMatching ==
  ASSUME TypeInv, Matching, SendAnswer PROVE Matching'
<1> SUFFICES ASSUME link' PROVE (Expected /\ OnceEach /\ Answered /\ AcksCount)'
  BY DEF Matching
<1>1. /\ Len(answer) = 1 /\ Len(answer') = 0 /\ IsAnswer(answer[1])
      /\ Len(down') = Len(down) + 1 /\ down'[Len(down) + 1] = answer[1]
      /\ \A i \in 1 .. Len(down) : down'[i] = down[i]
      /\ commands' = commands /\ acks' = acks /\ up' = up /\ link' = link
  BY AnswerEffect
<1>2. Expected /\ OnceEach /\ Answered /\ AcksCount
  BY <1>1 DEF Matching
<1>3. /\ Len(down) \in Nat /\ 1 \in 1 .. Len(answer) /\ Len(down) + 1 \in 1 .. Len(down')
      /\ \A i \in 1 .. Len(down') : i = Len(down) + 1 \/ i \in 1 .. Len(down)
      /\ \A i \in 1 .. Len(down) : i \in 1 .. Len(down')
  BY <1>1 DEF TypeInv, NetTypes
<1>4. \A i \in 1 .. Len(answer') : FALSE
  BY <1>1
<1>5. Expected'
  BY <1>1, <1>2, <1>3, <1>4 DEF Expected
<1>6. OnceEach'
  BY <1>1, <1>2, <1>3, <1>4, SMTT(30) DEF OnceEach
<1>7. Answered'
  <2> SUFFICES ASSUME NEW c \in commands
               PROVE  \/ \E i \in 1 .. Len(up) : Cmd(up[i]) = c
                      \/ \E i \in 1 .. Len(down') : IsAnswer(down'[i]) /\ Cmd(down'[i]) = c
    BY <1>1 DEF Answered
  <2>1. CASE \E i \in 1 .. Len(answer) : Cmd(answer[i]) = c
    <3>1. Cmd(down'[Len(down) + 1]) = c /\ IsAnswer(down'[Len(down) + 1])
      BY <1>1, <2>1
    <3> QED
      BY <1>3, <3>1
  <2>2. CASE \E i \in 1 .. Len(down) : IsAnswer(down[i]) /\ Cmd(down[i]) = c
    BY <1>1, <1>3, <2>2
  <2> QED
    BY <1>2, <2>1, <2>2 DEF Answered
<1> QED
  BY <1>1, <1>2, <1>5, <1>6, <1>7 DEF AcksCount

LEMMA SendPatchMatching ==
  ASSUME TypeInv, Matching, SendNextPatch PROVE Matching'
<1> SUFFICES ASSUME link' PROVE (Expected /\ OnceEach /\ Answered /\ AcksCount)'
  BY DEF Matching
<1>1. /\ Len(down') = Len(down) + 1 /\ ~IsAnswer(down'[Len(down) + 1])
      /\ \A i \in 1 .. Len(down) : down'[i] = down[i]
      /\ commands' = commands /\ acks' = acks /\ up' = up /\ answer' = answer /\ link' = link
  BY NextPatchEffect
<1>2. Expected /\ OnceEach /\ Answered /\ AcksCount
  BY <1>1 DEF Matching
<1>3. /\ Len(down) \in Nat
      /\ \A i \in 1 .. Len(down') : i = Len(down) + 1 \/ i \in 1 .. Len(down)
      /\ \A i \in 1 .. Len(down) : i \in 1 .. Len(down')
  BY <1>1 DEF TypeInv, NetTypes
<1>4. Expected' /\ OnceEach'
  BY <1>1, <1>2, <1>3, ZenonT(40) DEF Expected, OnceEach
<1>5. Answered'
  BY <1>1, <1>2, <1>3 DEF Answered
<1> QED
  BY <1>1, <1>2, <1>4, <1>5 DEF AcksCount

(* The commands that are not subscriptions are counted one by one.         *)
LEMMA CountCommands ==
  ASSUME NEW S, IsFiniteSet(S), NEW c
  PROVE  /\ c.kw # "sub" /\ c \notin S =>
              Cardinality({x \in S \cup {c} : x.kw # "sub"}) = Cardinality({x \in S : x.kw # "sub"}) + 1
         /\ c.kw # "sub" /\ c \in S =>
              Cardinality({x \in S \ {c} : x.kw # "sub"}) = Cardinality({x \in S : x.kw # "sub"}) - 1
         /\ c.kw = "sub" =>
              /\ {x \in S \cup {c} : x.kw # "sub"} = {x \in S : x.kw # "sub"}
              /\ {x \in S \ {c} : x.kw # "sub"} = {x \in S : x.kw # "sub"}
<1> DEFINE T == {x \in S : x.kw # "sub"}
<1>1. IsFiniteSet(T)
  BY FS_Subset
<1>2. ASSUME c.kw # "sub", c \notin S PROVE Cardinality({x \in S \cup {c} : x.kw # "sub"}) = Cardinality(T) + 1
  <2>1. {x \in S \cup {c} : x.kw # "sub"} = T \cup {c} /\ c \notin T
    BY <1>2
  <2> HIDE DEF T
  <2> QED
    BY <1>1, <2>1, FS_AddElement
<1>3. ASSUME c.kw # "sub", c \in S PROVE Cardinality({x \in S \ {c} : x.kw # "sub"}) = Cardinality(T) - 1
  <2>1. {x \in S \ {c} : x.kw # "sub"} = T \ {c} /\ c \in T
    BY <1>3
  <2> HIDE DEF T
  <2> QED
    BY <1>1, <2>1, FS_RemoveElement
<1>4. ASSUME c.kw = "sub"
      PROVE  {x \in S \cup {c} : x.kw # "sub"} = T /\ {x \in S \ {c} : x.kw # "sub"} = T
  BY <1>4
<1> QED
  BY <1>2, <1>3, <1>4

LEMMA SendsMatching ==
  ASSUME TypeInv, Matching, NEW c, NEW q, Sends(c, q),
         acks' = IF c.kw = "sub" THEN acks ELSE acks + 1
  PROVE  Matching'
<1> SUFFICES (Expected /\ OnceEach /\ Answered /\ AcksCount)'
  BY DEF Matching
<1>1. /\ Len(up') = Len(up) + 1 /\ up'[Len(up) + 1] = q /\ Cmd(q) = c
      /\ \A i \in 1 .. Len(up) : up'[i] = up[i]
      /\ c \notin commands /\ commands' = commands \cup {c} /\ answer' = answer /\ down' = down
  BY DEF Sends
<1>2. Expected /\ OnceEach /\ Answered /\ AcksCount
  BY DEF Matching, Sends
<1>3. /\ Len(up) \in Nat /\ Len(up) + 1 \in 1 .. Len(up')
      /\ \A i \in 1 .. Len(up') : i = Len(up) + 1 \/ i \in 1 .. Len(up)
      /\ \A i \in 1 .. Len(up) : i \in 1 .. Len(up')
  BY <1>1 DEF TypeInv, NetTypes
<1>4. Expected'
  BY <1>1, <1>2, <1>3 DEF Expected
<1>5. OnceEach'
  <2>1. \A i, k \in 1 .. Len(up') : Cmd(up'[i]) = Cmd(up'[k]) => i = k
    BY <1>1, <1>2, <1>3 DEF OnceEach, Expected
  <2>2. \A i \in 1 .. Len(up'), k \in 1 .. Len(answer) : Cmd(up'[i]) # Cmd(answer[k])
    BY <1>1, <1>2, <1>3 DEF OnceEach, Expected
  <2>3. \A i \in 1 .. Len(up'), k \in 1 .. Len(down) : IsAnswer(down[k]) => Cmd(up'[i]) # Cmd(down[k])
    BY <1>1, <1>2, <1>3 DEF OnceEach, Expected
  <2> QED
    BY <1>1, <1>2, <2>1, <2>2, <2>3 DEF OnceEach
<1>6. Answered'
  <2> SUFFICES ASSUME NEW d \in commands'
               PROVE  \/ \E i \in 1 .. Len(up') : Cmd(up'[i]) = d
                      \/ \E i \in 1 .. Len(answer) : Cmd(answer[i]) = d
                      \/ \E i \in 1 .. Len(down) : IsAnswer(down[i]) /\ Cmd(down[i]) = d
    BY <1>1 DEF Answered
  <2>1. CASE d = c
    BY <1>1, <1>3, <2>1
  <2>2. CASE d # c
    BY <1>1, <1>2, <1>3, <2>2 DEF Answered
  <2> QED
    BY <2>1, <2>2
<1>7. AcksCount'
  <2>1. IsFiniteSet(commands) /\ commands' = commands \cup {c} /\ c \notin commands
    BY <1>1 DEF TypeInv, MemoryTypes
  <2> QED
    BY <1>2, <2>1, CountCommands DEF AcksCount
<1> QED
  BY <1>4, <1>5, <1>6, <1>7

LEMMA FinalizeMatching ==
  ASSUME TypeInv, Matching, finalize_sub \/ finalize_putrem PROVE Matching'
<1>1. /\ Len(down') = Len(down) - 1 /\ Len(down) >= 1
      /\ \A i \in 1 .. Len(down') : down'[i] = down[i + 1]
      /\ IsAnswer(down[1]) /\ link
      /\ commands' = commands \ {Cmd(down[1])} /\ up' = up /\ answer' = answer
  BY FinalizeEffect
<1> SUFFICES (Expected /\ OnceEach /\ Answered /\ AcksCount)'
  BY DEF Matching
<1>2. Expected /\ OnceEach /\ Answered /\ AcksCount
  BY <1>1 DEF Matching
<1>3. Len(down) \in Nat /\ 1 \in 1 .. Len(down) /\ \A i \in 1 .. Len(down') : i + 1 \in 1 .. Len(down) /\ i + 1 # 1
  BY <1>1 DEF TypeInv, NetTypes
<1>4. Expected'
  <2>1. \A i \in 1 .. Len(up) : Cmd(up[i]) \in commands'
    BY <1>1, <1>2, <1>3 DEF Expected, OnceEach
  <2>2. \A i \in 1 .. Len(answer) : Cmd(answer[i]) \in commands'
    BY <1>1, <1>2, <1>3 DEF Expected, OnceEach
  <2>3. \A i \in 1 .. Len(down') : IsAnswer(down'[i]) => Cmd(down'[i]) \in commands'
    <3> SUFFICES ASSUME NEW i \in 1 .. Len(down'), IsAnswer(down'[i]) PROVE Cmd(down'[i]) \in commands'
      OBVIOUS
    <3>1. i + 1 \in 1 .. Len(down) /\ down'[i] = down[i + 1] /\ i + 1 # 1
      BY <1>1, <1>3
    <3>2. \A m \in 1 .. Len(down) : IsAnswer(down[m]) /\ Cmd(down[m]) = Cmd(down[1]) => m = 1
      BY <1>1, <1>2, <1>3 DEF OnceEach
    <3>3. Cmd(down[i + 1]) # Cmd(down[1])
      BY <3>1, <3>2
    <3>4. Cmd(down[i + 1]) \in commands
      BY <1>2, <3>1 DEF Expected
    <3> QED
      BY <1>1, <3>1, <3>3, <3>4
  <2> QED
    BY <1>1, <2>1, <2>2, <2>3 DEF Expected
<1>5. OnceEach'
  <2>1. \A i, k \in 1 .. Len(down') : IsAnswer(down'[i]) /\ IsAnswer(down'[k]) /\ Cmd(down'[i]) = Cmd(down'[k]) => i = k
    <3> SUFFICES ASSUME NEW i \in 1 .. Len(down'), NEW k \in 1 .. Len(down'), IsAnswer(down'[i]), IsAnswer(down'[k]),
                        Cmd(down'[i]) = Cmd(down'[k])
                 PROVE  i = k
      OBVIOUS
    <3>1. /\ i + 1 \in 1 .. Len(down) /\ k + 1 \in 1 .. Len(down) /\ Cmd(down[i + 1]) = Cmd(down[k + 1])
          /\ IsAnswer(down[i + 1]) /\ IsAnswer(down[k + 1])
      BY <1>1, <1>3
    <3>2. \A m, n \in 1 .. Len(down) : IsAnswer(down[m]) /\ IsAnswer(down[n]) /\ Cmd(down[m]) = Cmd(down[n]) => m = n
      BY <1>2 DEF OnceEach
    <3>3. i + 1 = k + 1
      BY <3>1, <3>2
    <3> QED
      BY <3>3
  <2>2. \A i \in 1 .. Len(up), k \in 1 .. Len(down') : IsAnswer(down'[k]) => Cmd(up[i]) # Cmd(down'[k])
    BY <1>1, <1>2, <1>3 DEF OnceEach
  <2>3. \A i \in 1 .. Len(answer), k \in 1 .. Len(down') : IsAnswer(down'[k]) => Cmd(answer[i]) # Cmd(down'[k])
    BY <1>1, <1>2, <1>3 DEF OnceEach
  <2> QED
    BY <1>1, <1>2, <2>1, <2>2, <2>3 DEF OnceEach
<1>6. Answered'
  <2> SUFFICES ASSUME NEW c \in commands, c # Cmd(down[1])
               PROVE  \/ \E i \in 1 .. Len(up) : Cmd(up[i]) = c
                      \/ \E i \in 1 .. Len(answer) : Cmd(answer[i]) = c
                      \/ \E i \in 1 .. Len(down') : IsAnswer(down'[i]) /\ Cmd(down'[i]) = c
    BY <1>1 DEF Answered
  <2>1. CASE \E i \in 1 .. Len(down) : IsAnswer(down[i]) /\ Cmd(down[i]) = c
    <3>1. PICK i \in 1 .. Len(down) : IsAnswer(down[i]) /\ Cmd(down[i]) = c
      BY <2>1
    <3>2. i # 1
      BY <3>1
    <3>3. i - 1 \in 1 .. Len(down') /\ (i - 1) + 1 = i
      BY <1>1, <1>3, <3>2
    <3>4. down'[i - 1] = down[i]
      BY <1>1, <3>3
    <3> QED
      BY <3>1, <3>3, <3>4
  <2> QED
    BY <1>2, <2>1 DEF Answered
<1>7. AcksCount'
  <2>1. IsFiniteSet(commands) /\ Cmd(down[1]) \in commands
    BY <1>1, <1>2, <1>3 DEF TypeInv, MemoryTypes, Expected
  <2>2. CASE finalize_sub
    <3>1. Cmd(down[1]).kw = "sub" /\ acks' = acks
      BY <2>2, Receive DEF finalize_sub, Cmd
    <3> QED
      BY <1>1, <1>2, <2>1, <3>1, CountCommands DEF AcksCount
  <2>3. CASE finalize_putrem
    <3>1. Cmd(down[1]).kw # "sub" /\ acks' = acks - 1
      BY <2>3, Receive DEF finalize_putrem, Cmd
    <3> QED
      BY <1>1, <1>2, <2>1, <3>1, CountCommands DEF AcksCount
  <2> QED
    BY <2>2, <2>3
<1> QED
  BY <1>4, <1>5, <1>6, <1>7

(* The reader thread takes a patch.                                        *)
LEMMA ServiceEffect ==
  ASSUME TypeInv, patch_service
  PROVE  /\ Len(down') = Len(down) - 1 /\ Len(down) >= 1
         /\ \A i \in 1 .. Len(down') : down'[i] = down[i + 1]
         /\ down[1] \in PatchMsg /\ ~IsAnswer(down[1]) /\ link /\ ~applying
         /\ UNCHANGED <<slog, answer, sub, orphans, clog, drafts, tmp, err, nextLocal, commands, acks,
                        subscribed, quarantine, unsaved, unreported, up, link, breaks>>
<1>1. /\ Len(down') = Len(down) - 1 /\ Len(down) >= 1
      /\ \A i \in 1 .. Len(down') : down'[i] = down[i + 1]
      /\ Head(down) = down[1] /\ down[1] \in AnswerMsg \cup PatchMsg /\ down[1].kw = "patch"
  BY Receive DEF patch_service
<1>2. down[1] \in PatchMsg /\ ~IsAnswer(down[1])
  BY <1>1 DEF AnswerMsg, PatchMsg, Keywords, IsAnswer
<1>3. link /\ ~applying
      /\ UNCHANGED <<slog, answer, sub, orphans, clog, drafts, tmp, err, nextLocal, commands, acks,
                     subscribed, quarantine, unsaved, unreported, up, link, breaks>>
  BY DEF patch_service, server, files, refusals, Receives
<1> QED
  BY <1>1, <1>2, <1>3

LEMMA ServiceMatching ==
  ASSUME TypeInv, Matching, patch_service PROVE Matching'
<1>1. /\ Len(down') = Len(down) - 1 /\ Len(down) >= 1
      /\ \A i \in 1 .. Len(down') : down'[i] = down[i + 1]
      /\ ~IsAnswer(down[1]) /\ link
      /\ commands' = commands /\ up' = up /\ answer' = answer /\ acks' = acks
  BY ServiceEffect
<1> SUFFICES (Expected /\ OnceEach /\ Answered /\ AcksCount)'
  BY DEF Matching
<1>2. Expected /\ OnceEach /\ Answered /\ AcksCount
  BY <1>1 DEF Matching
<1>3. Len(down) \in Nat /\ 1 \in 1 .. Len(down) /\ \A i \in 1 .. Len(down') : i + 1 \in 1 .. Len(down)
  BY <1>1 DEF TypeInv, NetTypes
<1>4. Expected'
  BY <1>1, <1>2, <1>3 DEF Expected
<1>5. OnceEach'
  <2>1. \A i, k \in 1 .. Len(down') : IsAnswer(down'[i]) /\ IsAnswer(down'[k]) /\ Cmd(down'[i]) = Cmd(down'[k]) => i = k
    <3> SUFFICES ASSUME NEW i \in 1 .. Len(down'), NEW k \in 1 .. Len(down'), IsAnswer(down'[i]), IsAnswer(down'[k]),
                        Cmd(down'[i]) = Cmd(down'[k])
                 PROVE  i = k
      OBVIOUS
    <3>1. /\ i + 1 \in 1 .. Len(down) /\ k + 1 \in 1 .. Len(down) /\ Cmd(down[i + 1]) = Cmd(down[k + 1])
          /\ IsAnswer(down[i + 1]) /\ IsAnswer(down[k + 1])
      BY <1>1, <1>3
    <3>2. \A m, n \in 1 .. Len(down) : IsAnswer(down[m]) /\ IsAnswer(down[n]) /\ Cmd(down[m]) = Cmd(down[n]) => m = n
      BY <1>2 DEF OnceEach
    <3>3. i + 1 = k + 1
      BY <3>1, <3>2
    <3> QED
      BY <3>3
  <2>2. \A i \in 1 .. Len(up), k \in 1 .. Len(down') : IsAnswer(down'[k]) => Cmd(up[i]) # Cmd(down'[k])
    BY <1>1, <1>2, <1>3 DEF OnceEach
  <2>3. \A i \in 1 .. Len(answer), k \in 1 .. Len(down') : IsAnswer(down'[k]) => Cmd(answer[i]) # Cmd(down'[k])
    BY <1>1, <1>2, <1>3 DEF OnceEach
  <2> QED
    BY <1>1, <1>2, <2>1, <2>2, <2>3 DEF OnceEach
<1>6. Answered'
  <2> SUFFICES ASSUME NEW c \in commands, \E i \in 1 .. Len(down) : IsAnswer(down[i]) /\ Cmd(down[i]) = c
               PROVE  \E i \in 1 .. Len(down') : IsAnswer(down'[i]) /\ Cmd(down'[i]) = c
    BY <1>1, <1>2 DEF Answered
  <2>1. PICK i \in 1 .. Len(down) : IsAnswer(down[i]) /\ Cmd(down[i]) = c
    OBVIOUS
  <2>2. i # 1
    BY <1>1, <2>1
  <2>3. i - 1 \in 1 .. Len(down') /\ (i - 1) + 1 = i
    BY <1>1, <1>3, <2>2
  <2>4. down'[i - 1] = down[i]
    BY <1>1, <2>3
  <2> QED
    BY <2>1, <2>3, <2>4
<1> QED
  BY <1>1, <1>2, <1>4, <1>5, <1>6 DEF AcksCount

LEMMA MatchingStep ==
  ASSUME TypeInv, Matching, [Next]_vars PROVE Matching'
<1>1. CASE WriterSub
  <2>1. PICK q : Sends(SubCmd, q) /\ acks' = acks
    BY <1>1, WriterSubEffect
  <2>2. SubCmd.kw = "sub"
    BY DEF SubCmd
  <2> QED
    BY <2>1, <2>2, SendsMatching
<1>2. CASE \E f \in tmp : WriterSend(f)
  <2>1. PICK c, q : Sends(c, q) /\ c.kw # "sub" /\ acks' = acks + 1
    BY <1>2, WriterSendEffect
  <2> QED
    BY <2>1, SendsMatching
<1>3. CASE LinkBreaks
  BY <1>3 DEF LinkBreaks, Matching
<1>4. CASE ClientRestarts
  <2>1. up' = <<>> /\ answer' = <<>> /\ down' = <<>> /\ commands' = {} /\ acks' = 0
    BY <1>4 DEF ClientRestarts, Disconnect, NoAnswer
  <2>2. {c \in commands' : c.kw # "sub"} = {} /\ Cardinality({}) = 0
    BY <2>1, FS_EmptySet
  <2> QED
    BY <2>1, <2>2 DEF Matching, Expected, OnceEach, Answered, AcksCount
<1>5. CASE link' = FALSE
  BY <1>5 DEF Matching
<1>6. CASE UNCHANGED <<commands, acks, up, answer, down, link>>
  BY <1>6 DEF Matching, Expected, OnceEach, Answered, AcksCount
<1>7. \/ ServeQuery \/ SendAnswer \/ SendNextPatch \/ WriterSub \/ (\E f \in tmp : WriterSend(f))
      \/ finalize_sub \/ finalize_putrem \/ patch_service \/ LinkBreaks \/ ClientRestarts \/ link' = FALSE
      \/ UNCHANGED <<commands, acks, up, answer, down, link>>
  BY DEF Next, Server, Client, Environment, vars, server, memory, refusals, net, QuarantineEnds, SaveError, SaveErrorFails,
     ApplyOne, ApplyEnd, mdir_patch_request, CreateTransient, ForeignPatch, ServeOrphan, LoseOrphan
<1> QED
  BY <1>1, <1>2, <1>3, <1>4, <1>5, <1>6, <1>7, ServeMatching, SendAnswerMatching, SendPatchMatching,
     FinalizeMatching, ServiceMatching

LEMMA MatchingInit == Init => Matching
<1> SUFFICES ASSUME Init PROVE Matching
  OBVIOUS
<1>1. up = <<>> /\ answer = <<>> /\ down = <<>> /\ commands = {} /\ acks = 0
  BY DEF Init, NoAnswer
<1>2. {c \in commands : c.kw # "sub"} = {} /\ Cardinality({}) = 0
  BY <1>1, FS_EmptySet
<1> QED
  BY <1>1, <1>2 DEF Matching, Expected, OnceEach, Answered, AcksCount

(* Messages about one command are counted by About.                        *)
LEMMA AboutCount ==
  ASSUME NEW s, NEW c \in Command, NEW len \in Nat, DOMAIN s = 1 .. len
  PROVE  /\ (\A i \in 1 .. len : ~(s[i].kw = c.kw /\ s[i].id = c.id)) => Cardinality(About(s, c)) = 0
         /\ \A k \in 1 .. len :
              /\ s[k].kw = c.kw /\ s[k].id = c.id
              /\ \A i \in 1 .. len : s[i].kw = c.kw /\ s[i].id = c.id => i = k
              => Cardinality(About(s, c)) = 1
<1>1. ASSUME \A i \in 1 .. len : ~(s[i].kw = c.kw /\ s[i].id = c.id) PROVE Cardinality(About(s, c)) = 0
  <2>1. About(s, c) = {}
    BY <1>1 DEF About
  <2> QED
    BY <2>1, FS_EmptySet
<1>2. ASSUME NEW k \in 1 .. len, s[k].kw = c.kw /\ s[k].id = c.id,
             \A i \in 1 .. len : s[i].kw = c.kw /\ s[i].id = c.id => i = k
      PROVE  Cardinality(About(s, c)) = 1
  <2>1. About(s, c) = {k}
    BY <1>2 DEF About
  <2> QED
    BY <2>1, FS_Singleton
<1> QED
  BY <1>1, <1>2

LEMMA MatchingGives ==
  ASSUME TypeInv, Matching PROVE AnswersMatchCommands
<1> SUFFICES ASSUME link PROVE AnswersMatchCommands
  BY DEF AnswersMatchCommands
<1>1. Expected /\ OnceEach /\ Answered /\ AcksCount
  BY DEF Matching
<1>2. /\ Len(up) \in Nat /\ DOMAIN up = 1 .. Len(up) /\ \A i \in 1 .. Len(up) : up[i] \in QueryMsg
      /\ Len(answer) \in Nat /\ DOMAIN answer = 1 .. Len(answer) /\ \A i \in 1 .. Len(answer) : answer[i] \in AnswerMsg
      /\ Len(down) \in Nat /\ DOMAIN down = 1 .. Len(down)
      /\ \A i, k \in 1 .. Len(answer) : i = k
  BY DEF TypeInv, NetTypes, ServerTypes
<1>3. ASSUME NEW c \in commands PROVE Outstanding(c) = 1
  <2>1. c \in Command /\ c.kw # "patch" /\ c = [kw |-> c.kw, id |-> c.id]
    BY DEF TypeInv, MemoryTypes, Command, Keywords
  <2>2. \A m : m.kw = c.kw /\ m.id = c.id => Cmd(m) = c /\ IsAnswer(m)
    BY <2>1 DEF Cmd, IsAnswer
  <2>3. \A m : Cmd(m) = c => m.kw = c.kw /\ m.id = c.id
    BY <2>1 DEF Cmd
  <2>4. CASE \E i \in 1 .. Len(up) : Cmd(up[i]) = c
    <3>1. PICK k \in 1 .. Len(up) : Cmd(up[k]) = c
      BY <2>4
    <3>2. \A i \in 1 .. Len(up) : Cmd(up[i]) = c => i = k
      BY <1>1, <3>1 DEF OnceEach
    <3>3. \A i \in 1 .. Len(answer) : Cmd(answer[i]) # c
      BY <1>1, <3>1 DEF OnceEach
    <3>4. \A i \in 1 .. Len(down) : IsAnswer(down[i]) => Cmd(down[i]) # c
      BY <1>1, <3>1 DEF OnceEach
    <3>5. Cardinality(About(up, c)) = 1
      BY <1>2, <2>1, <2>2, <2>3, <3>1, <3>2, AboutCount
    <3>6. Cardinality(About(answer, c)) = 0 /\ Cardinality(About(down, c)) = 0
      BY <1>2, <2>1, <2>2, <3>3, <3>4, AboutCount
    <3> QED
      BY <3>5, <3>6 DEF Outstanding
  <2>5. CASE \E i \in 1 .. Len(answer) : Cmd(answer[i]) = c
    <3>1. PICK k \in 1 .. Len(answer) : Cmd(answer[k]) = c
      BY <2>5
    <3>2. \A i \in 1 .. Len(answer) : Cmd(answer[i]) = c => i = k
      BY <1>2, <3>1
    <3>3. \A i \in 1 .. Len(up) : Cmd(up[i]) # c
      BY <1>1, <3>1 DEF OnceEach
    <3>4. \A i \in 1 .. Len(down) : IsAnswer(down[i]) => Cmd(down[i]) # c
      BY <1>1, <3>1 DEF OnceEach
    <3>5. Cardinality(About(answer, c)) = 1
      BY <1>2, <2>1, <2>2, <2>3, <3>1, <3>2, AboutCount
    <3>6. Cardinality(About(up, c)) = 0 /\ Cardinality(About(down, c)) = 0
      BY <1>2, <2>1, <2>2, <3>3, <3>4, AboutCount
    <3> QED
      BY <3>5, <3>6 DEF Outstanding
  <2>6. CASE \E i \in 1 .. Len(down) : IsAnswer(down[i]) /\ Cmd(down[i]) = c
    <3>1. PICK k \in 1 .. Len(down) : IsAnswer(down[k]) /\ Cmd(down[k]) = c
      BY <2>6
    <3>2. \A i \in 1 .. Len(down) : IsAnswer(down[i]) /\ Cmd(down[i]) = c => i = k
      BY <1>1, <3>1 DEF OnceEach
    <3>3. \A i \in 1 .. Len(up) : Cmd(up[i]) # c
      BY <1>1, <3>1 DEF OnceEach
    <3>4. \A i \in 1 .. Len(answer) : Cmd(answer[i]) # c
      BY <1>1, <3>1 DEF OnceEach
    <3>5. Cardinality(About(down, c)) = 1
      BY <1>2, <2>1, <2>2, <2>3, <3>1, <3>2, AboutCount, SMTT(30)
    <3>6. Cardinality(About(up, c)) = 0 /\ Cardinality(About(answer, c)) = 0
      BY <1>2, <2>1, <2>2, <3>3, <3>4, AboutCount
    <3> QED
      BY <3>5, <3>6 DEF Outstanding
  <2> QED
    BY <1>1, <2>4, <2>5, <2>6 DEF Answered
<1>4. ASSUME NEW q \in {m \in {up[i] : i \in DOMAIN up} \cup {answer[i] : i \in DOMAIN answer}
                              \cup {down[i] : i \in DOMAIN down} : m.kw # "patch"}
      PROVE  [kw |-> q.kw, id |-> q.id] \in commands
  BY <1>1, <1>2 DEF Expected, Cmd, IsAnswer
<1> QED
  BY <1>1, <1>3, <1>4 DEF AcksCount, AnswersMatchCommands

(* While the connection holds, every command of mdsyncc awaits exactly one *)
(* message, and nb_pending_acks counts those that are not subscriptions:   *)
(* the assertion of fin_putrem holds and no answer is unexpected.          *)
THEOREM CommandsAnswered == Spec => []AnswersMatchCommands
<1>1. Init => TypeInv /\ Matching
  BY TypeInit, MatchingInit
<1>2. TypeInv /\ Matching /\ [Next]_vars => (TypeInv /\ Matching)'
  BY TypeStep, MatchingStep
<1>3. TypeInv /\ Matching => AnswersMatchCommands
  BY MatchingGives
<1> QED
  BY <1>1, <1>2, <1>3, PTL DEF Spec

-----------------------------------------------------------------------------
(* The chain of patches, as messages come and go.                          *)

(* The sequence dm is dn with one more message, m.                         *)
Longer(dn, dm, m) ==
  /\ Len(dn) \in Nat /\ Len(dm) = Len(dn) + 1 /\ dm[Len(dn) + 1] = m
  /\ \A i \in 1 .. Len(dn) : dm[i] = dn[i]

(* The sequence dm is dn without its first message.                        *)
Shorter(dn, dm) ==
  /\ Len(dn) \in Nat /\ Len(dn) >= 1 /\ Len(dm) = Len(dn) - 1
  /\ \A i \in 1 .. Len(dm) : dm[i] = dn[i + 1]

(* What comes before the i-th message does not depend on what comes after. *)
LEMMA LeadStays ==
  ASSUME NEW dn, NEW dm, NEW n \in Nat, \A k \in 1 .. n : dm[k] = dn[k],
         NEW i \in 1 .. n + 1, NEW r, NEW v, LeadIn(dn, r, i, v)
  PROVE  LeadIn(dm, r, i, v)
<1>1. \A k \in 1 .. i - 1 : dm[k] = dn[k]
  OBVIOUS
<1> QED
  BY <1>1 DEF LeadIn

LEMMA LongerIndex ==
  ASSUME NEW dn, NEW dm, NEW m, Longer(dn, dm, m)
  PROVE  /\ Len(dn) + 1 \in 1 .. Len(dm)
         /\ \A i \in 1 .. Len(dm) : i = Len(dn) + 1 \/ i \in 1 .. Len(dn)
         /\ \A i \in 1 .. Len(dn) : i \in 1 .. Len(dm)
BY DEF Longer

LEMMA LeadOn ==
  ASSUME NEW dn, NEW n \in Nat, NEW r, NEW v, LeadIn(dn, r, n + 1, v), IsAnswer(dn[n + 1])
  PROVE  LeadIn(dn, r, n + 2, v)
<1>1. CASE v = r /\ \A k \in 1 .. n : IsAnswer(dn[k])
  <2>1. \A k \in 1 .. (n + 2) - 1 : k \in 1 .. n \/ k = n + 1
    OBVIOUS
  <2> QED
    BY <1>1, <2>1 DEF LeadIn
<1>2. CASE \E k \in 1 .. n : ~IsAnswer(dn[k]) /\ v = dn[k].new /\ \A m \in k + 1 .. n : IsAnswer(dn[m])
  <2>1. PICK k \in 1 .. n : ~IsAnswer(dn[k]) /\ v = dn[k].new /\ \A m \in k + 1 .. n : IsAnswer(dn[m])
    BY <1>2
  <2>2. k \in 1 .. (n + 2) - 1 /\ \A m \in k + 1 .. (n + 2) - 1 : m \in k + 1 .. n \/ m = n + 1
    OBVIOUS
  <2>3. \A m \in k + 1 .. (n + 2) - 1 : IsAnswer(dn[m])
    BY <2>1, <2>2
  <2> QED
    BY <2>1, <2>2, <2>3 DEF LeadIn
<1>3. (n + 1) - 1 = n
  OBVIOUS
<1> QED
  BY <1>1, <1>2, <1>3 DEF LeadIn

LEMMA ChainAnswer ==
  ASSUME NEW pts, NEW dn, NEW dm, NEW m, NEW len, NEW ver,
         Longer(dn, dm, m), IsAnswer(m), ChainIn(pts, dn, len, ver)
  PROVE  ChainIn(pts, dm, len, ver)
<1>1. PICK n \in Nat : n = Len(dn)
  BY DEF Longer
<1> DEFINE r == ReceivedOf(pts, len)
<1> HIDE DEF r
<1>2. /\ Len(dm) = n + 1 /\ dm[n + 1] = m /\ (\A i \in 1 .. n : dm[i] = dn[i])
      /\ n + 1 \in 1 .. n + 1 /\ \A i \in 1 .. Len(dm) : i = n + 1 \/ i \in 1 .. n
  BY <1>1, LongerIndex DEF Longer
<1>3. /\ \A i \in 1 .. n : ~IsAnswer(dn[i]) => LeadIn(dn, r, i, dn[i].old)
      /\ LeadIn(dn, r, n + 1, ver)
  BY <1>1 DEF ChainIn, r
<1>4. ASSUME NEW i \in 1 .. Len(dm), ~IsAnswer(dm[i]) PROVE LeadIn(dm, r, i, dm[i].old)
  <2>1. i \in 1 .. n /\ i \in 1 .. n + 1 /\ dm[i] = dn[i]
    BY <1>2, <1>4
  <2>2. LeadIn(dn, r, i, dm[i].old)
    BY <1>3, <1>4, <2>1
  <2> QED
    BY <1>2, <2>1, <2>2, LeadStays
<1>5. LeadIn(dm, r, Len(dm) + 1, ver)
  <2>1. LeadIn(dm, r, n + 1, ver)
    BY <1>2, <1>3, LeadStays
  <2>2. LeadIn(dm, r, n + 2, ver)
    BY <1>2, <2>1, LeadOn
  <2>3. Len(dm) + 1 = n + 2
    BY <1>2
  <2> QED
    BY <2>2, <2>3
<1> QED
  BY <1>4, <1>5 DEF ChainIn, r

LEMMA ChainSend ==
  ASSUME NEW pts, NEW dn, NEW dm, NEW m, NEW len, NEW ver,
         Longer(dn, dm, m), ~IsAnswer(m), m.old = ver, ChainIn(pts, dn, len, ver)
  PROVE  ChainIn(pts, dm, len, m.new)
<1>1. PICK n \in Nat : n = Len(dn)
  BY DEF Longer
<1> DEFINE r == ReceivedOf(pts, len)
<1> HIDE DEF r
<1>2. /\ Len(dm) = n + 1 /\ dm[n + 1] = m /\ (\A i \in 1 .. n : dm[i] = dn[i])
      /\ n + 1 \in 1 .. n + 1 /\ \A i \in 1 .. Len(dm) : i = n + 1 \/ i \in 1 .. n
  BY <1>1, LongerIndex DEF Longer
<1>3. /\ \A i \in 1 .. n : ~IsAnswer(dn[i]) => LeadIn(dn, r, i, dn[i].old)
      /\ LeadIn(dn, r, n + 1, ver)
  BY <1>1 DEF ChainIn, r
<1>4. ASSUME NEW i \in 1 .. Len(dm), ~IsAnswer(dm[i]) PROVE LeadIn(dm, r, i, dm[i].old)
  <2>1. CASE i \in 1 .. n
    <3>1. i \in 1 .. n + 1 /\ dm[i] = dn[i]
      BY <1>2, <2>1
    <3>2. LeadIn(dn, r, i, dm[i].old)
      BY <1>3, <1>4, <2>1, <3>1
    <3> QED
      BY <1>2, <3>1, <3>2, LeadStays
  <2>2. CASE i = n + 1
    <3>1. LeadIn(dm, r, n + 1, ver)
      BY <1>2, <1>3, LeadStays
    <3> QED
      BY <1>2, <2>2, <3>1
  <2> QED
    BY <1>2, <2>1, <2>2
<1>5. LeadIn(dm, r, Len(dm) + 1, m.new)
  <2>1. n + 1 \in 1 .. (Len(dm) + 1) - 1 /\ \A k \in (n + 1) + 1 .. (Len(dm) + 1) - 1 : FALSE
    BY <1>2
  <2> QED
    BY <1>2, <2>1 DEF LeadIn
<1> QED
  BY <1>4, <1>5 DEF ChainIn, r

(* Once the first message is taken, the others lead where they did, from   *)
(* where the patch that was taken leads, if it was one.                    *)
LEMMA LeadShift ==
  ASSUME NEW dn, NEW dm, Shorter(dn, dm), NEW r, NEW v, NEW i \in 1 .. Len(dn), LeadIn(dn, r, i + 1, v)
  PROVE  LeadIn(dm, IF IsAnswer(dn[1]) THEN r ELSE dn[1].new, i, v)
<1>1. PICK n \in Nat : n = Len(dn)
  BY DEF Shorter
<1>2. Len(dm) = n - 1 /\ n >= 1 /\ \A k \in 1 .. n - 1 : dm[k] = dn[k + 1]
  BY <1>1 DEF Shorter
<1>3. (i + 1) - 1 = i /\ i \in 1 .. n
  BY <1>1
<1>4. CASE v = r /\ \A k \in 1 .. i : IsAnswer(dn[k])
  <2>1. \A k \in 1 .. i - 1 : k + 1 \in 1 .. i /\ dm[k] = dn[k + 1]
    BY <1>2, <1>3
  <2>2. IsAnswer(dn[1])
    BY <1>3, <1>4
  <2> QED
    BY <1>4, <2>1, <2>2 DEF LeadIn
<1>5. CASE \E k \in 1 .. i : ~IsAnswer(dn[k]) /\ v = dn[k].new /\ \A m \in k + 1 .. i : IsAnswer(dn[m])
  <2>1. PICK k \in 1 .. i : ~IsAnswer(dn[k]) /\ v = dn[k].new /\ \A m \in k + 1 .. i : IsAnswer(dn[m])
    BY <1>5
  <2>2. CASE k = 1
    <3>1. \A m \in 1 .. i - 1 : m + 1 \in k + 1 .. i /\ dm[m] = dn[m + 1]
      BY <1>2, <1>3, <2>2
    <3>2. v = dn[1].new /\ ~IsAnswer(dn[1])
      BY <2>1, <2>2
    <3> QED
      BY <2>1, <3>1, <3>2 DEF LeadIn
  <2>3. CASE k # 1
    <3>1. k - 1 \in 1 .. i - 1 /\ (k - 1) + 1 = k /\ k - 1 \in 1 .. n - 1
      BY <1>3, <2>3
    <3>2. dm[k - 1] = dn[k]
      BY <1>2, <3>1
    <3>3. \A m \in (k - 1) + 1 .. i - 1 : m + 1 \in k + 1 .. i /\ m \in 1 .. n - 1
      BY <1>3
    <3>4. \A m \in (k - 1) + 1 .. i - 1 : IsAnswer(dm[m])
      BY <1>2, <2>1, <3>3
    <3> QED
      BY <2>1, <3>1, <3>2, <3>4 DEF LeadIn
  <2> QED
    BY <2>2, <2>3
<1> QED
  BY <1>3, <1>4, <1>5 DEF LeadIn

LEMMA ChainTakeAnswer ==
  ASSUME NEW pts, NEW dn, NEW dm, NEW len, NEW ver,
         Shorter(dn, dm), IsAnswer(dn[1]), ChainIn(pts, dn, len, ver)
  PROVE  ChainIn(pts, dm, len, ver)
<1> DEFINE r == ReceivedOf(pts, len)
<1> HIDE DEF r
<1>1. PICK n \in Nat : n = Len(dn)
  BY DEF Shorter
<1>2. Len(dm) = n - 1 /\ n >= 1 /\ \A k \in 1 .. n - 1 : dm[k] = dn[k + 1]
  BY <1>1 DEF Shorter
<1>3. /\ \A i \in 1 .. n : ~IsAnswer(dn[i]) => LeadIn(dn, r, i, dn[i].old)
      /\ LeadIn(dn, r, n + 1, ver)
  BY <1>1 DEF ChainIn, r
<1>4. ASSUME NEW i \in 1 .. Len(dm), ~IsAnswer(dm[i]) PROVE LeadIn(dm, r, i, dm[i].old)
  <2>1. i \in 1 .. Len(dn) /\ i + 1 \in 1 .. n /\ dm[i] = dn[i + 1]
    BY <1>1, <1>2
  <2>2. LeadIn(dn, r, i + 1, dm[i].old)
    BY <1>3, <1>4, <2>1
  <2> QED
    BY <2>1, <2>2, LeadShift
<1>5. LeadIn(dm, r, Len(dm) + 1, ver)
  <2>1. n \in 1 .. Len(dn) /\ Len(dm) + 1 = n
    BY <1>1, <1>2
  <2>2. LeadIn(dm, r, n, ver)
    BY <1>3, <2>1, LeadShift
  <2> QED
    BY <2>1, <2>2
<1> QED
  BY <1>4, <1>5 DEF ChainIn, r

(* The patch at the head of the connection follows the received ones.      *)
LEMMA ChainTakePatch ==
  ASSUME NEW pts, NEW pts2, NEW dn, NEW dm, NEW q, NEW len, NEW ver,
         Shorter(dn, dm), ~IsAnswer(dn[1]), Longer(pts, pts2, q),
         q.old = dn[1].old, q.new = dn[1].new, ChainIn(pts, dn, len, ver)
  PROVE  ChainIn(pts2, dm, len, ver)
<1> DEFINE r == ReceivedOf(pts, len)
<1>1. PICK n \in Nat : n = Len(dn)
  BY DEF Shorter
<1>2. PICK l \in Nat : l = Len(pts)
  BY DEF Longer
<1>3. Len(dm) = n - 1 /\ n >= 1 /\ \A k \in 1 .. n - 1 : dm[k] = dn[k + 1]
  BY <1>1 DEF Shorter
<1>4. Len(pts2) = l + 1 /\ pts2[l + 1] = q /\ \A i \in 1 .. l : pts2[i] = pts[i]
  BY <1>2 DEF Longer
<1>5. ReceivedOf(pts2, len) = dn[1].new
  <2>1. Len(pts2) # 0
    BY <1>4
  <2> QED
    BY <1>4, <2>1 DEF ReceivedOf
<1>6. r = IF l = 0 THEN len ELSE pts[l].new
  BY <1>2 DEF ReceivedOf
<1> HIDE DEF r
<1>7. /\ \A i \in 1 .. n : ~IsAnswer(dn[i]) => LeadIn(dn, r, i, dn[i].old)
      /\ LeadIn(dn, r, n + 1, ver)
      /\ \A i \in 1 .. l : pts[i].old = IF i = 1 THEN len ELSE pts[i - 1].new
  BY <1>1, <1>2 DEF ChainIn, r
<1>8. dn[1].old = r
  <2>1. LeadIn(dn, r, 1, dn[1].old)
    BY <1>3, <1>7
  <2>2. \A k \in 1 .. 1 - 1 : FALSE
    OBVIOUS
  <2> QED
    BY <2>1, <2>2 DEF LeadIn
<1>9. ASSUME NEW i \in 1 .. Len(pts2) PROVE pts2[i].old = IF i = 1 THEN len ELSE pts2[i - 1].new
  <2>1. CASE i = l + 1
    <3>1. CASE l = 0
      BY <1>4, <1>6, <1>8, <2>1, <3>1
    <3>2. CASE l # 0
      <4>1. i # 1 /\ i - 1 = l /\ l \in 1 .. l
        BY <2>1, <3>2
      <4> QED
        BY <1>4, <1>6, <1>8, <2>1, <3>2, <4>1
    <3> QED
      BY <3>1, <3>2
  <2>2. CASE i \in 1 .. l
    <3>1. i # 1 => i - 1 \in 1 .. l
      BY <2>2
    <3> QED
      BY <1>4, <1>7, <2>2, <3>1
  <2> QED
    BY <1>4, <2>1, <2>2
<1>10. ASSUME NEW i \in 1 .. Len(dm), ~IsAnswer(dm[i]) PROVE LeadIn(dm, dn[1].new, i, dm[i].old)
  <2>1. i \in 1 .. Len(dn) /\ i + 1 \in 1 .. n /\ dm[i] = dn[i + 1]
    BY <1>1, <1>3
  <2>2. LeadIn(dn, r, i + 1, dm[i].old)
    BY <1>7, <1>10, <2>1
  <2> QED
    BY <2>1, <2>2, LeadShift
<1>11. LeadIn(dm, dn[1].new, Len(dm) + 1, ver)
  <2>1. n \in 1 .. Len(dn) /\ Len(dm) + 1 = n
    BY <1>1, <1>3
  <2>2. LeadIn(dm, dn[1].new, n, ver)
    BY <1>7, <2>1, LeadShift
  <2> QED
    BY <2>1, <2>2
<1> QED
  BY <1>5, <1>9, <1>10, <1>11 DEF ChainIn

(* The first received patch is applied.                                    *)
LEMMA ChainApply ==
  ASSUME NEW pts, NEW pts2, NEW dn, NEW len, NEW ver,
         Shorter(pts, pts2), ChainIn(pts, dn, len, ver)
  PROVE  ChainIn(pts2, dn, pts[1].new, ver)
<1>1. PICK l \in Nat : l = Len(pts)
  BY DEF Shorter
<1>2. Len(pts2) = l - 1 /\ l >= 1 /\ \A i \in 1 .. l - 1 : pts2[i] = pts[i + 1]
  BY <1>1 DEF Shorter
<1>3. \A i \in 1 .. l : pts[i].old = IF i = 1 THEN len ELSE pts[i - 1].new
  BY <1>1 DEF ChainIn
<1>4. ReceivedOf(pts2, pts[1].new) = ReceivedOf(pts, len)
  <2>1. CASE l = 1
    BY <1>1, <1>2, <2>1 DEF ReceivedOf
  <2>2. CASE l # 1
    <3>1. l - 1 \in 1 .. l - 1 /\ (l - 1) + 1 = l /\ l - 1 # 0 /\ l # 0
      BY <1>2, <2>2
    <3>2. pts2[l - 1] = pts[l]
      BY <1>2, <3>1
    <3> QED
      BY <1>1, <1>2, <3>1, <3>2 DEF ReceivedOf
  <2> QED
    BY <2>1, <2>2
<1>5. ASSUME NEW i \in 1 .. Len(pts2) PROVE pts2[i].old = IF i = 1 THEN pts[1].new ELSE pts2[i - 1].new
  <2>1. i + 1 \in 1 .. l /\ i + 1 # 1 /\ (i + 1) - 1 = i /\ i \in 1 .. l - 1
    BY <1>2
  <2>2. pts2[i].old = pts[i].new
    BY <1>2, <1>3, <2>1
  <2>3. i # 1 => i - 1 \in 1 .. l - 1 /\ (i - 1) + 1 = i
    BY <2>1
  <2>4. i # 1 => pts2[i - 1] = pts[i]
    BY <1>2, <2>3
  <2> QED
    BY <2>2, <2>4
<1> QED
  BY <1>4, <1>5 DEF ChainIn

(* A subscription starts at the client's last version.                     *)
LEMMA ChainStart ==
  ASSUME NEW dn, NEW len, NEW pts, Len(pts) = 0, Len(dn) \in Nat, \A i \in 1 .. Len(dn) : IsAnswer(dn[i])
  PROVE  ChainIn(pts, dn, len, len)
<1>1. \A i \in 1 .. (Len(dn) + 1) - 1 : i \in 1 .. Len(dn)
  OBVIOUS
<1> QED
  BY <1>1 DEF ChainIn, LeadIn, ReceivedOf

-----------------------------------------------------------------------------
(* Their order.                                                            *)

(* The versions are numbers.                                               *)
Versions(pts, dn) ==
  /\ \A i \in 1 .. Len(pts) : pts[i].old \in Nat
  /\ \A i \in 1 .. Len(dn) : ~IsAnswer(dn[i]) => dn[i].old \in Nat

LEMMA SortedSend ==
  ASSUME NEW pts, NEW dn, NEW dm, NEW m, NEW ver \in Nat, NEW next \in Nat, Versions(pts, dn),
         Longer(dn, dm, m), ver <= next, ~IsAnswer(m) => m.old = ver, SortedIn(pts, dn, ver)
  PROVE  SortedIn(pts, dm, next)
<1>1. PICK n \in Nat : n = Len(dn)
  BY DEF Longer
<1>2. /\ Len(dm) = n + 1 /\ dm[n + 1] = m /\ (\A i \in 1 .. n : dm[i] = dn[i])
      /\ \A i \in 1 .. Len(dm) : i = n + 1 \/ i \in 1 .. n
  BY <1>1, LongerIndex DEF Longer
<1>3. /\ \A i, k \in 1 .. Len(pts) : i <= k => pts[i].old <= pts[k].old
      /\ \A i \in 1 .. Len(pts), k \in 1 .. n : ~IsAnswer(dn[k]) => pts[i].old <= dn[k].old
      /\ \A i, k \in 1 .. n : ~IsAnswer(dn[i]) /\ ~IsAnswer(dn[k]) /\ i <= k => dn[i].old <= dn[k].old
      /\ \A i \in 1 .. Len(pts) : pts[i].old <= ver /\ pts[i].old \in Nat
      /\ \A i \in 1 .. n : ~IsAnswer(dn[i]) => dn[i].old <= ver /\ dn[i].old \in Nat
  BY <1>1 DEF SortedIn, Versions
<1>4. \A i \in 1 .. Len(pts), k \in 1 .. Len(dm) : ~IsAnswer(dm[k]) => pts[i].old <= dm[k].old
  BY <1>2, <1>3
<1>5. \A i, k \in 1 .. Len(dm) : ~IsAnswer(dm[i]) /\ ~IsAnswer(dm[k]) /\ i <= k => dm[i].old <= dm[k].old
  <2> SUFFICES ASSUME NEW i \in 1 .. Len(dm), NEW k \in 1 .. Len(dm), ~IsAnswer(dm[i]), ~IsAnswer(dm[k]), i <= k
               PROVE  dm[i].old <= dm[k].old
    OBVIOUS
  <2>1. CASE k \in 1 .. n
    BY <1>2, <1>3, <2>1
  <2>2. CASE k = n + 1
    BY <1>2, <1>3, <2>2
  <2> QED
    BY <1>2, <2>1, <2>2
<1>6. \A i \in 1 .. Len(pts) : pts[i].old <= next
  BY <1>3
<1>7. \A i \in 1 .. Len(dm) : ~IsAnswer(dm[i]) => dm[i].old <= next
  BY <1>2, <1>3
<1> QED
  BY <1>3, <1>4, <1>5, <1>6, <1>7 DEF SortedIn

LEMMA SortedTakeAnswer ==
  ASSUME NEW pts, NEW dn, NEW dm, NEW ver, Shorter(dn, dm), SortedIn(pts, dn, ver)
  PROVE  SortedIn(pts, dm, ver)
<1>1. PICK n \in Nat : n = Len(dn)
  BY DEF Shorter
<1>2. /\ Len(dm) = n - 1 /\ \A i \in 1 .. n - 1 : dm[i] = dn[i + 1] /\ i + 1 \in 1 .. n
  BY <1>1 DEF Shorter
<1>3. \A i, k \in 1 .. n - 1 : i <= k => i + 1 <= k + 1
  OBVIOUS
<1> QED
  BY <1>1, <1>2, <1>3 DEF SortedIn

LEMMA SortedTakePatch ==
  ASSUME NEW pts, NEW pts2, NEW dn, NEW dm, NEW q, NEW ver, Versions(pts, dn),
         Shorter(dn, dm), ~IsAnswer(dn[1]), Longer(pts, pts2, q), q.old = dn[1].old, SortedIn(pts, dn, ver)
  PROVE  SortedIn(pts2, dm, ver)
<1>1. PICK n \in Nat : n = Len(dn)
  BY DEF Shorter
<1>2. PICK l \in Nat : l = Len(pts)
  BY DEF Longer
<1>3. /\ Len(dm) = n - 1 /\ \A i \in 1 .. n - 1 : dm[i] = dn[i + 1] /\ i + 1 \in 1 .. n /\ 1 <= i + 1
      /\ 1 \in 1 .. n
  BY <1>1 DEF Shorter
<1>4. /\ Len(pts2) = l + 1 /\ pts2[l + 1] = q /\ (\A i \in 1 .. l : pts2[i] = pts[i])
      /\ \A i \in 1 .. l + 1 : i = l + 1 \/ i \in 1 .. l
  BY <1>2 DEF Longer
<1>5. /\ \A i, k \in 1 .. l : i <= k => pts[i].old <= pts[k].old
      /\ \A i \in 1 .. l, k \in 1 .. n : ~IsAnswer(dn[k]) => pts[i].old <= dn[k].old
      /\ \A i, k \in 1 .. n : ~IsAnswer(dn[i]) /\ ~IsAnswer(dn[k]) /\ i <= k => dn[i].old <= dn[k].old
      /\ \A i \in 1 .. l : pts[i].old <= ver
      /\ \A i \in 1 .. n : ~IsAnswer(dn[i]) => dn[i].old <= ver
      /\ dn[1].old \in Nat
  BY <1>1, <1>2, <1>3 DEF SortedIn, Versions
<1>6. \A i, k \in 1 .. l + 1 : i <= k => pts2[i].old <= pts2[k].old
  <2> SUFFICES ASSUME NEW i \in 1 .. l + 1, NEW k \in 1 .. l + 1, i <= k PROVE pts2[i].old <= pts2[k].old
    OBVIOUS
  <2>1. CASE k \in 1 .. l
    BY <1>4, <1>5, <2>1
  <2>2. CASE k = l + 1
    <3>1. CASE i = l + 1
      BY <1>4, <1>5, <2>2, <3>1
    <3>2. CASE i \in 1 .. l
      BY <1>3, <1>4, <1>5, <2>2, <3>2
    <3> QED
      BY <3>1, <3>2
  <2> QED
    BY <2>1, <2>2
<1>7. \A i \in 1 .. l + 1, k \in 1 .. n - 1 : ~IsAnswer(dm[k]) => pts2[i].old <= dm[k].old
  BY <1>3, <1>4, <1>5
<1>8. \A i, k \in 1 .. n - 1 : ~IsAnswer(dm[i]) /\ ~IsAnswer(dm[k]) /\ i <= k => dm[i].old <= dm[k].old
  <2>1. \A i, k \in 1 .. n - 1 : i <= k => i + 1 <= k + 1
    OBVIOUS
  <2> QED
    BY <1>3, <1>5, <2>1
<1>9. \A i \in 1 .. l + 1 : pts2[i].old <= ver
  BY <1>3, <1>4, <1>5
<1>10. \A i \in 1 .. n - 1 : ~IsAnswer(dm[i]) => dm[i].old <= ver
  BY <1>3, <1>5
<1> QED
  BY <1>3, <1>4, <1>6, <1>7, <1>8, <1>9, <1>10 DEF SortedIn

LEMMA SortedApply ==
  ASSUME NEW pts, NEW pts2, NEW dn, NEW ver, Shorter(pts, pts2), SortedIn(pts, dn, ver)
  PROVE  SortedIn(pts2, dn, ver)
<1>1. PICK l \in Nat : l = Len(pts)
  BY DEF Shorter
<1>2. /\ Len(pts2) = l - 1 /\ \A i \in 1 .. l - 1 : pts2[i] = pts[i + 1] /\ i + 1 \in 1 .. l
  BY <1>1 DEF Shorter
<1>3. \A i, k \in 1 .. l - 1 : i <= k => i + 1 <= k + 1
  OBVIOUS
<1> QED
  BY <1>1, <1>2, <1>3 DEF SortedIn

-----------------------------------------------------------------------------
(* What patches and replica say stays true as the server's mdir grows.     *)

LEMMA TrueGrows ==
  ASSUME NEW log \in Seq(LogEntry), NEW log2, Grows(log, log2), NEW old \in Nat, NEW new \in Nat, old < new,
         NEW tag, NEW ref, NEW org, TrueOf(log, old, new, tag, ref, org)
  PROVE  TrueOf(log2, old, new, tag, ref, org)
<1>1. PICK len \in Nat : len = Len(log)
  OBVIOUS
<1>2. PICK len2 \in Nat : len2 = Len(log2)
  BY DEF Grows
<1>3. new \in 1 .. len /\ len <= len2 /\ \A v \in old + 1 .. new - 1 : v \in 1 .. len
  BY <1>1, <1>2 DEF TrueOf, Grows
<1>4. new <= Len(log2)
  BY <1>2, <1>3
<1>5. \A v \in 1 .. len : /\ log2[v].ref = log[v].ref /\ log2[v].org = log[v].org
                          /\ log2[v].tag \in {log[v].tag, "%"}
                          /\ log[v].tag = "-" => log2[v].tag = "-"
  BY <1>1 DEF Grows
<1>6. /\ log[new].ref = ref /\ log[new].org = org /\ log[new].tag \in {tag, "%"}
      /\ tag = "-" => log[new].tag = "-"
      /\ \A v \in old + 1 .. new - 1 : log[v].tag = "%"
  BY DEF TrueOf
<1>7. \A v \in old + 1 .. new - 1 : log2[v].tag = "%"
  BY <1>3, <1>5, <1>6
<1>8. /\ log2[new].ref = ref /\ log2[new].org = org /\ log2[new].tag \in {tag, "%"}
      /\ tag = "-" => log2[new].tag = "-"
  BY <1>3, <1>5, <1>6
<1> QED
  BY <1>4, <1>7, <1>8 DEF TrueOf

(* Received patches and messages have their types, and lead forward.       *)
Typed(pts, dn) ==
  /\ \A i \in 1 .. Len(pts) : pts[i].old \in Nat /\ pts[i].new \in Nat /\ pts[i].old < pts[i].new
  /\ \A i \in 1 .. Len(dn) :
       ~IsAnswer(dn[i]) => dn[i].old \in Nat /\ dn[i].new \in Nat /\ dn[i].old < dn[i].new

LEMMA TypedState == ASSUME TypeInv PROVE Typed(patches, down) /\ Versions(patches, down)
<1>1. \A i \in 1 .. Len(patches) : patches[i] \in Queued /\ patches[i].old < patches[i].new
  BY DEF TypeInv, MemoryTypes, Forward
<1>2. ASSUME NEW i \in 1 .. Len(down), ~IsAnswer(down[i])
      PROVE  down[i].old \in Nat /\ down[i].new \in Nat /\ down[i].old < down[i].new
  <2>1. down[i] \in AnswerMsg \cup PatchMsg /\ down[i].kw = "patch"
    BY <1>2 DEF TypeInv, NetTypes, IsAnswer
  <2>2. down[i] \in PatchMsg
    BY <2>1 DEF AnswerMsg, Keywords
  <2> QED
    BY <2>1, <2>2 DEF PatchMsg, TypeInv, Forward
<1>3. \A i \in 1 .. Len(patches) : patches[i].old \in Nat /\ patches[i].new \in Nat
  BY <1>1 DEF Queued
<1> QED
  BY <1>1, <1>2, <1>3 DEF Typed, Versions

LEMMA TrueInGrows ==
  ASSUME NEW log \in Seq(LogEntry), NEW log2, Grows(log, log2), NEW pts, NEW dn, Typed(pts, dn),
         TrueIn(log, pts, dn)
  PROVE  TrueIn(log2, pts, dn)
<1>1. ASSUME NEW i \in 1 .. Len(pts)
      PROVE  TrueOf(log2, pts[i].old, pts[i].new, pts[i].e.tag, pts[i].e.ref, pts[i].e.org)
  <2>1. TrueOf(log, pts[i].old, pts[i].new, pts[i].e.tag, pts[i].e.ref, pts[i].e.org)
    BY DEF TrueIn
  <2> QED
    BY <2>1, TrueGrows DEF Typed
<1>2. ASSUME NEW i \in 1 .. Len(dn), ~IsAnswer(dn[i])
      PROVE  TrueOf(log2, dn[i].old, dn[i].new, dn[i].tag, dn[i].ref, dn[i].org)
  <2>1. TrueOf(log, dn[i].old, dn[i].new, dn[i].tag, dn[i].ref, dn[i].org)
    BY <1>2 DEF TrueIn
  <2> QED
    BY <1>2, <2>1, TrueGrows DEF Typed
<1> QED
  BY <1>1, <1>2 DEF TrueIn

LEMMA ReplicaGrows ==
  ASSUME NEW c \in Seq(LogEntry), NEW log \in Seq(LogEntry), NEW log2, Grows(log, log2), ReplicaIn(c, log)
  PROVE  ReplicaIn(c, log2)
<1>1. PICK n \in Nat, len \in Nat, len2 \in Nat : n = Len(c) /\ len = Len(log) /\ len2 = Len(log2)
  BY DEF Grows
<1>2. n <= len /\ len <= len2
  BY <1>1 DEF ReplicaIn, Grows
<1>3. ASSUME NEW v \in 1 .. n PROVE SameEntry(c[v], log2[v])
  <2>1. SameEntry(c[v], log[v]) /\ v \in 1 .. len
    BY <1>1, <1>2 DEF ReplicaIn
  <2>2. /\ log2[v].ref = log[v].ref /\ log2[v].org = log[v].org
        /\ log2[v].tag \in {log[v].tag, "%"}
        /\ log[v].tag = "-" => log2[v].tag = "-"
    BY <1>1, <2>1 DEF Grows
  <2> QED
    BY <2>1, <2>2 DEF SameEntry
<1> QED
  BY <1>1, <1>2, <1>3 DEF ReplicaIn

(* A patch that is not older than the others goes last.                    *)
LEMMA InsertLast ==
  ASSUME patches \in Seq(Queued), NEW p \in Queued, \A i \in 1 .. Len(patches) : patches[i].old <= p.old
  PROVE  Longer(patches, Insert(p), p)
<1>0. PICK len \in Nat : len = Len(patches)
  OBVIOUS
<1>1. {i \in DOMAIN patches : patches[i].old <= p.old} = 1 .. len
  BY <1>0
<1>2. Cardinality(1 .. len) = len
  BY FS_Interval
<1>3. Insert(p) = (SubSeq(patches, 1, len) \o <<p>>) \o SubSeq(patches, len + 1, len)
  BY <1>0, <1>1, <1>2 DEF Insert
<1>4. SubSeq(patches, 1, len) = patches
  BY <1>0
<1>5. SubSeq(patches, len + 1, len) = <<>>
  BY <1>0
<1>6. Insert(p) = Append(patches, p)
  <2>1. patches \o <<p>> = Append(patches, p)
    OBVIOUS
  <2>2. Append(patches, p) \in Seq(Queued)
    OBVIOUS
  <2>3. Append(patches, p) \o <<>> = Append(patches, p)
    BY <2>2, ConcatEmptySeq
  <2> QED
    BY <1>3, <1>4, <1>5, <2>1, <2>3
<1> QED
  BY <1>6, AppendProperties DEF Longer

-----------------------------------------------------------------------------
(* Every step keeps the replica in sync.                                   *)

LEMMA SubMessage ==
  ASSUME NEW m \in QueryMsg \cup AnswerMsg, m.kw = "sub" PROVE Cmd(m) = SubCmd
BY DEF QueryMsg, AnswerMsg, Cmd, SubCmd

(* Whatever leaves the connection and the replica alone.                   *)
LEMMA QuietSynced ==
  ASSUME SyncInv, [Next]_vars, applying' => applying,
         UNCHANGED <<answer, sub, clog, patches, subscribed, commands, up, down, link>>
  PROVE  Synced'
<1>1. TypeInv /\ Synced /\ Grows(slog, slog') /\ slog \in Seq(LogEntry) /\ clog \in Seq(LogEntry)
  BY SlogGrows DEF SyncInv, TypeInv, ServerTypes, FileTypes
<1>2. Offline' /\ SubState' /\ NoPatches' /\ PatchesSorted' /\ Chain'
  BY <1>1 DEF Synced, Offline, SubState, NoPatches, PatchesSorted, Chain
<1>3. PatchesTrue'
  BY <1>1, TypedState, TrueInGrows DEF Synced, PatchesTrue
<1>4. Replica'
  BY <1>1, ReplicaGrows DEF Synced, Replica
<1> QED
  BY <1>2, <1>3, <1>4 DEF Synced

(* A query is executed: a subscription starts, is refused, or it is not    *)
(* about subscriptions.                                                    *)
LEMMA ServeSub ==
  ASSUME SyncInv, ServeQuery
  PROVE  /\ link
         /\ \/ /\ up[1].kw = "sub" /\ ~sub.on /\ SubCmd \in commands /\ answer'[1].kw = "sub"
               /\ sub'.on <=> answer'[1].status = 200
               /\ sub'.on => sub'.version = Len(clog)
            \/ up[1].kw # "sub" /\ answer'[1].kw # "sub" /\ sub' = sub
<1>1. /\ Len(up) >= 1 /\ up[1] \in QueryMsg /\ Head(up) = up[1] /\ Len(answer') = 1
      /\ Cmd(answer'[1]) = Cmd(up[1])
  BY ServeEffect DEF SyncInv
<1>2. link
  <2>1. up # <<>>
    BY DEF ServeQuery
  <2> QED
    BY <2>1 DEF SyncInv, Synced, Offline, TypeInv, NetTypes
<1>3. 1 \in 1 .. Len(up)
  BY <1>1 DEF SyncInv, TypeInv, NetTypes
<1>4. PICK granted \in {TRUE, ~Denials}, confirmed \in {TRUE, ~Incomplete} :
        IF up[1].kw = "sub" THEN exec_sub(up[1], granted) ELSE exec_putrem(up[1], granted, confirmed)
  BY <1>1 DEF ServeQuery
<1>5. CASE up[1].kw = "sub"
  <2>1. ~sub.on /\ up[1].ref = Len(clog)
    BY <1>2, <1>3, <1>5 DEF SyncInv, Synced, SubState
  <2>2. SubCmd \in commands
    BY <1>1, <1>2, <1>3, <1>5, SubMessage DEF SyncInv, Matching, Expected
  <2>3. /\ sub' = IF granted THEN [on |-> TRUE, version |-> up[1].ref] ELSE sub
        /\ answer' = <<Answer("sub", 0, IF granted THEN 200 ELSE 403, 0)>>
    BY <1>4, <1>5, <2>1 DEF exec_sub
  <2>4. answer'[1].kw = "sub" /\ answer'[1].status = IF granted THEN 200 ELSE 403
    BY <2>3 DEF Answer
  <2>5. CASE granted
    BY <1>2, <1>5, <2>1, <2>2, <2>3, <2>4, <2>5
  <2>6. CASE ~granted
    <3>1. 403 # 200
      OBVIOUS
    <3>2. ~sub'.on /\ answer'[1].status # 200
      BY <2>1, <2>3, <2>4, <2>6, <3>1
    <3> QED
      BY <1>2, <1>5, <2>1, <2>2, <2>4, <3>2
  <2> QED
    BY <2>5, <2>6
<1>6. CASE up[1].kw # "sub"
  <2>1. sub' = sub
    BY <1>4, <1>6 DEF exec_putrem
  <2>2. answer'[1].kw # "sub"
    BY <1>1, <1>6 DEF Cmd
  <2> QED
    BY <1>2, <1>6, <2>1, <2>2
<1> QED
  BY <1>5, <1>6

LEMMA ServeSynced ==
  ASSUME SyncInv, ServeQuery PROVE Synced'
<1>1. TypeInv /\ Matching /\ Synced /\ Grows(slog, slog') /\ slog \in Seq(LogEntry) /\ clog \in Seq(LogEntry)
  BY SlogGrows DEF SyncInv, TypeInv, ServerTypes, FileTypes, Next, Server
<1>2. /\ Len(up') = Len(up) - 1 /\ Len(up) >= 1 /\ \A i \in 1 .. Len(up') : up'[i] = up[i + 1]
      /\ Len(answer') = 1
      /\ UNCHANGED <<clog, commands, patches, applying, subscribed, down, link>>
  BY <1>1, ServeEffect
<1>3. Len(up) \in Nat /\ 1 \in 1 .. Len(up) /\ \A i \in 1 .. Len(up') : i + 1 \in 1 .. Len(up) /\ i + 1 # 1
  BY <1>1, <1>2 DEF TypeInv, NetTypes
<1>4. \A i \in 1 .. Len(answer') : i = 1
  BY <1>2
<1>5. link /\ link' /\ Expected /\ OnceEach
  BY <1>1, <1>2, ServeSub DEF Matching
<1>6. Offline' /\ Replica' /\ PatchesTrue'
  BY <1>1, <1>2, <1>5, TypedState, TrueInGrows, ReplicaGrows DEF Offline, Synced, Replica, PatchesTrue
<1>7. CASE up[1].kw # "sub" /\ answer'[1].kw # "sub" /\ sub' = sub
  <2>1. SubState'
    BY <1>1, <1>2, <1>3, <1>4, <1>5, <1>7, SMTT(30) DEF Synced, SubState
  <2>2. NoPatches' /\ PatchesSorted' /\ Chain'
    BY <1>1, <1>2, <1>7 DEF Synced, NoPatches, PatchesSorted, Chain
  <2> QED
    BY <1>6, <2>1, <2>2 DEF Synced
<1>8. CASE /\ up[1].kw = "sub" /\ ~sub.on /\ SubCmd \in commands /\ answer'[1].kw = "sub"
           /\ sub'.on <=> answer'[1].status = 200
           /\ sub'.on => sub'.version = Len(clog)
  <2>1. Cmd(up[1]) = SubCmd /\ \A i \in 1 .. Len(up) : up[i].kw = "sub" => i = 1
    <3>1. \A i \in 1 .. Len(up) : up[i].kw = "sub" => Cmd(up[i]) = SubCmd
      BY <1>1, SubMessage DEF TypeInv, NetTypes
    <3> QED
      BY <1>3, <1>5, <1>8, <3>1 DEF OnceEach
  <2>2. \A i \in 1 .. Len(down) : down[i].kw # "sub"
    <3> SUFFICES ASSUME NEW i \in 1 .. Len(down), down[i].kw = "sub" PROVE FALSE
      OBVIOUS
    <3>1. IsAnswer(down[i]) /\ down[i] \in AnswerMsg
      BY <1>1 DEF IsAnswer, TypeInv, NetTypes, PatchMsg
    <3>2. Cmd(down[i]) = Cmd(up[1])
      BY <2>1, <3>1, SubMessage
    <3> QED
      BY <1>3, <1>5, <3>1, <3>2 DEF OnceEach
  <2>3. \A i \in 1 .. Len(up') : up'[i].kw # "sub"
    BY <1>2, <1>3, <2>1
  <2>4. ~subscribed
    BY <1>1, <1>5, <1>8 DEF Synced, SubState
  <2>5. SubState'
    BY <1>2, <1>4, <1>8, <2>2, <2>3, <2>4 DEF SubState
  <2>6. patches = <<>> /\ Len(patches) = 0 /\ Len(down) \in Nat /\ \A i \in 1 .. Len(down) : IsAnswer(down[i])
    BY <1>1, <1>5, <1>8 DEF Synced, NoPatches, TypeInv, NetTypes
  <2>7. NoPatches' /\ PatchesSorted'
    BY <1>2, <2>6 DEF NoPatches, PatchesSorted, SortedIn
  <2>8. Chain'
    BY <1>2, <1>8, <2>6, ChainStart DEF Chain
  <2> QED
    BY <1>6, <2>5, <2>7, <2>8 DEF Synced
<1> QED
  BY <1>7, <1>8, ServeSub

(* The server's threads write to the connection.                           *)
LEMMA AnswerSynced ==
  ASSUME SyncInv, SendAnswer PROVE Synced'
<1>1. TypeInv /\ Synced
  BY DEF SyncInv
<1>2. /\ Len(answer) = 1 /\ Len(answer') = 0 /\ IsAnswer(answer[1])
      /\ Len(down') = Len(down) + 1 /\ down'[Len(down) + 1] = answer[1]
      /\ \A i \in 1 .. Len(down) : down'[i] = down[i]
      /\ UNCHANGED <<slog, sub, clog, commands, patches, applying, subscribed, up, link>>
  BY <1>1, AnswerEffect
<1>3. Longer(down, down', answer[1]) /\ 1 \in 1 .. Len(answer) /\ sub.version \in Nat
  BY <1>1, <1>2 DEF Longer, TypeInv, NetTypes, ServerTypes
<1>4. \A i \in 1 .. Len(down') : i = Len(down) + 1 \/ i \in 1 .. Len(down)
  BY <1>3, LongerIndex
<1>5. link /\ link'
  <2>1. answer # <<>>
    BY DEF SendAnswer, NoAnswer
  <2> QED
    BY <1>1, <1>2, <2>1 DEF Synced, Offline, TypeInv, NetTypes
<1>6. \A i \in 1 .. Len(answer') : FALSE
  BY <1>2
<1>7. Offline' /\ SubState'
  BY <1>1, <1>2, <1>3, <1>4, <1>5, <1>6 DEF Synced, Offline, SubState
<1>8. NoPatches'
  BY <1>1, <1>2, <1>4 DEF Synced, NoPatches
<1>9. PatchesTrue'
  BY <1>1, <1>2, <1>4 DEF Synced, PatchesTrue, TrueIn
<1>10. PatchesSorted'
  <2>1. SortedIn(patches, down, sub.version) /\ sub.version <= sub.version
    BY <1>1, <1>3, <1>5 DEF Synced, PatchesSorted
  <2>2. SortedIn(patches, down', sub.version)
    BY <1>1, <1>2, <1>3, <2>1, TypedState, SortedSend
  <2> QED
    BY <1>2, <2>2 DEF PatchesSorted
<1>11. Chain'
  BY <1>1, <1>2, <1>3, ChainAnswer DEF Synced, Chain
<1>12. Replica'
  BY <1>1, <1>2 DEF Synced, Replica
<1> QED
  BY <1>7, <1>8, <1>9, <1>10, <1>11, <1>12 DEF Synced

LEMMA SendPatchSynced ==
  ASSUME SyncInv, SendNextPatch PROVE Synced'
<1>1. TypeInv /\ Synced
  BY DEF SyncInv
<1>2. PICK p \in PatchMsg :
        /\ Len(down') = Len(down) + 1 /\ down'[Len(down) + 1] = p /\ ~IsAnswer(p)
        /\ \A i \in 1 .. Len(down) : down'[i] = down[i]
        /\ sub.on /\ sub'.on /\ p.old = sub.version /\ sub'.version = p.new /\ p.old < p.new
        /\ TrueOf(slog, p.old, p.new, p.tag, p.ref, p.org)
        /\ UNCHANGED <<slog, answer, clog, commands, patches, applying, subscribed, up, link>>
  BY <1>1, NextPatchEffect
<1>3. Longer(down, down', p) /\ sub.version \in Nat /\ p.new \in Nat /\ sub.version <= p.new
  BY <1>1, <1>2 DEF Longer, TypeInv, NetTypes, ServerTypes, PatchMsg
<1>4. \A i \in 1 .. Len(down') : i = Len(down) + 1 \/ i \in 1 .. Len(down)
  BY <1>3, LongerIndex
<1>5. link /\ link'
  BY <1>1, <1>2 DEF Synced, Offline, TypeInv, NetTypes
<1>6. p.kw # "sub"
  BY DEF PatchMsg
<1>7. Offline' /\ SubState' /\ NoPatches'
  BY <1>1, <1>2, <1>4, <1>5, <1>6 DEF Synced, Offline, SubState, NoPatches
<1>8. PatchesTrue'
  BY <1>1, <1>2, <1>4 DEF Synced, PatchesTrue, TrueIn
<1>9. PatchesSorted'
  <2>1. SortedIn(patches, down, sub.version)
    BY <1>1, <1>5 DEF Synced, PatchesSorted
  <2>2. SortedIn(patches, down', p.new)
    BY <1>1, <1>2, <1>3, <2>1, TypedState, SortedSend
  <2> QED
    BY <1>2, <2>2 DEF PatchesSorted
<1>10. Chain'
  <2>1. ChainIn(patches, down, Len(clog), sub.version)
    BY <1>1, <1>2, <1>5 DEF Synced, Chain
  <2>2. ChainIn(patches, down', Len(clog), p.new)
    BY <1>2, <1>3, <2>1, ChainSend
  <2> QED
    BY <1>2, <2>2 DEF Chain
<1>11. Replica'
  BY <1>1, <1>2 DEF Synced, Replica
<1> QED
  BY <1>7, <1>8, <1>9, <1>10, <1>11 DEF Synced

(* The writer thread.                                                      *)
LEMMA SendsSynced ==
  ASSUME SyncInv, NEW c, NEW q, Sends(c, q),
         c = SubCmd => q.ref = Len(clog) /\ ~subscribed
  PROVE  Synced'
<1>1. TypeInv /\ Synced
  BY DEF SyncInv
<1>2. /\ link /\ c \notin commands /\ commands' = commands \cup {c} /\ q \in QueryMsg /\ Cmd(q) = c
      /\ Len(up') = Len(up) + 1 /\ up'[Len(up) + 1] = q /\ (\A i \in 1 .. Len(up) : up'[i] = up[i])
      /\ UNCHANGED <<slog, answer, sub, clog, patches, applying, subscribed, down, link>>
  BY DEF Sends
<1>3. \A i \in 1 .. Len(up') : i = Len(up) + 1 \/ i \in 1 .. Len(up)
  BY <1>1, <1>2 DEF TypeInv, NetTypes
<1>4. SubState'
  <2>1. q.kw = "sub" => c = SubCmd
    BY <1>2, SubMessage
  <2>2. c = SubCmd => ~sub.on /\ q.ref = Len(clog) /\ ~subscribed
    BY <1>1, <1>2 DEF Synced, SubState
  <2>3. \A i \in 1 .. Len(up') : up'[i].kw = "sub" => ~sub.on /\ up'[i].ref = Len(clog)
    BY <1>1, <1>2, <1>3, <2>1, <2>2 DEF Synced, SubState
  <2>4. /\ SubCmd \in commands' => ~subscribed
        /\ SubCmd \notin commands' => (sub.on <=> subscribed)
    BY <1>1, <1>2, <2>2 DEF Synced, SubState
  <2> QED
    BY <1>1, <1>2, <2>3, <2>4 DEF Synced, SubState
<1>5. Offline' /\ NoPatches' /\ PatchesTrue' /\ PatchesSorted' /\ Chain' /\ Replica'
  BY <1>1, <1>2 DEF Synced, Offline, NoPatches, PatchesTrue, PatchesSorted, Chain, Replica
<1> QED
  BY <1>4, <1>5 DEF Synced

(* The reader thread.                                                      *)
LEMMA FinalizeSynced ==
  ASSUME SyncInv, finalize_sub \/ finalize_putrem PROVE Synced'
<1>1. TypeInv /\ Matching /\ Synced
  BY DEF SyncInv
<1>2. /\ Len(down') = Len(down) - 1 /\ Len(down) >= 1
      /\ \A i \in 1 .. Len(down') : down'[i] = down[i + 1]
      /\ down[1] \in AnswerMsg /\ IsAnswer(down[1]) /\ link
      /\ commands' = commands \ {Cmd(down[1])}
      /\ UNCHANGED <<slog, answer, sub, clog, patches, applying, up, link>>
  BY <1>1, FinalizeEffect
<1>3. Shorter(down, down') /\ 1 \in 1 .. Len(down) /\ \A i \in 1 .. Len(down') : i + 1 \in 1 .. Len(down)
  BY <1>1, <1>2 DEF Shorter, TypeInv, NetTypes
<1>4. SubState'
  <2>1. \A i \in 1 .. Len(down') : down'[i].kw = "sub" => (sub.on <=> down'[i].status = 200)
    BY <1>1, <1>2, <1>3 DEF Synced, SubState
  <2>2. /\ SubCmd \in commands' => ~subscribed'
        /\ SubCmd \notin commands' => (sub.on <=> subscribed')
    <3>1. CASE finalize_sub
      <4>1. down[1].kw = "sub" /\ subscribed' = (subscribed \/ down[1].status = 200)
        BY <1>1, <3>1, Receive DEF finalize_sub
      <4>2. Cmd(down[1]) = SubCmd
        BY <1>2, <4>1, SubMessage
      <4>3. SubCmd \in commands
        BY <1>1, <1>2, <1>3, <4>2 DEF Matching, Expected
      <4>4. ~subscribed /\ (sub.on <=> down[1].status = 200)
        BY <1>1, <1>2, <1>3, <4>1, <4>3 DEF Synced, SubState
      <4> QED
        BY <1>2, <4>1, <4>2, <4>4
    <3>2. CASE finalize_putrem
      <4>1. down[1].kw # "sub" /\ subscribed' = subscribed
        BY <1>1, <3>2, Receive DEF finalize_putrem
      <4>2. Cmd(down[1]) # SubCmd
        BY <4>1 DEF Cmd, SubCmd
      <4> QED
        BY <1>1, <1>2, <4>1, <4>2 DEF Synced, SubState
    <3> QED
      BY <3>1, <3>2
  <2> QED
    BY <1>1, <1>2, <2>1, <2>2 DEF Synced, SubState
<1>5. Offline' /\ NoPatches' /\ Replica'
  BY <1>1, <1>2, <1>3 DEF Synced, Offline, NoPatches, Replica
<1>6. PatchesTrue'
  BY <1>1, <1>2, <1>3 DEF Synced, PatchesTrue, TrueIn
<1>7. PatchesSorted'
  BY <1>1, <1>2, <1>3, SortedTakeAnswer DEF Synced, PatchesSorted
<1>8. Chain'
  BY <1>1, <1>2, <1>3, ChainTakeAnswer DEF Synced, Chain
<1> QED
  BY <1>4, <1>5, <1>6, <1>7, <1>8 DEF Synced

LEMMA ServiceSynced ==
  ASSUME SyncInv, patch_service PROVE Synced'
<1>1. TypeInv /\ Synced
  BY DEF SyncInv
<1>2. /\ Len(down') = Len(down) - 1 /\ Len(down) >= 1
      /\ \A i \in 1 .. Len(down') : down'[i] = down[i + 1]
      /\ down[1] \in PatchMsg /\ ~IsAnswer(down[1]) /\ link
      /\ UNCHANGED <<slog, answer, sub, clog, commands, subscribed, up, link>>
  BY <1>1, ServiceEffect
<1>3. Shorter(down, down') /\ 1 \in 1 .. Len(down) /\ \A i \in 1 .. Len(down') : i + 1 \in 1 .. Len(down)
  BY <1>1, <1>2 DEF Shorter, TypeInv, NetTypes
<1>4. PICK q \in Queued : /\ q.old = down[1].old /\ q.new = down[1].new /\ patches' = Insert(q)
                          /\ q.e.tag = down[1].tag /\ q.e.ref = down[1].ref /\ q.e.org = down[1].org
  <2>1. PICK lid \in Nat :
          LET p == down[1]
              q == [old |-> p.old, new |-> p.new, e |-> Entry(p.tag, p.ref, p.org, lid)]
          IN  q \in Queued /\ patches' = Insert(q)
    BY <1>1, Arrives
  <2> QED
    BY <2>1 DEF Entry
<1>5. Longer(patches, patches', q)
  <2>1. \A i \in 1 .. Len(patches) : patches[i].old <= q.old
    BY <1>1, <1>2, <1>3, <1>4 DEF Synced, PatchesSorted, SortedIn
  <2>2. patches \in Seq(Queued)
    BY <1>1 DEF TypeInv, MemoryTypes
  <2> QED
    BY <1>4, <2>1, <2>2, InsertLast
<1>6. sub.on
  BY <1>1, <1>2, <1>3 DEF Synced, NoPatches
<1>7. Offline' /\ SubState' /\ NoPatches' /\ Replica'
  BY <1>1, <1>2, <1>3, <1>6 DEF Synced, Offline, SubState, NoPatches, Replica
<1>8. PatchesTrue'
  <2>1. TrueIn(slog, patches, down)
    BY <1>1, <1>2 DEF Synced, PatchesTrue
  <2>2. TrueOf(slog, q.old, q.new, q.e.tag, q.e.ref, q.e.org)
    BY <1>2, <1>3, <1>4, <2>1 DEF TrueIn
  <2>3. \A i \in 1 .. Len(patches') : i = Len(patches) + 1 \/ i \in 1 .. Len(patches)
    BY <1>5, LongerIndex
  <2>4. \A i \in 1 .. Len(patches') : patches'[i] = q \/ \E k \in 1 .. Len(patches) : patches'[i] = patches[k]
    BY <1>5, <2>3 DEF Longer
  <2>5. \A i \in 1 .. Len(patches') :
          TrueOf(slog, patches'[i].old, patches'[i].new, patches'[i].e.tag, patches'[i].e.ref, patches'[i].e.org)
    BY <2>1, <2>2, <2>4 DEF TrueIn
  <2>6. \A i \in 1 .. Len(down') :
          ~IsAnswer(down'[i]) => TrueOf(slog, down'[i].old, down'[i].new, down'[i].tag, down'[i].ref, down'[i].org)
    BY <1>2, <1>3, <2>1 DEF TrueIn
  <2> QED
    BY <1>2, <2>5, <2>6 DEF PatchesTrue, TrueIn
<1>9. PatchesSorted'
  BY <1>1, <1>2, <1>3, <1>4, <1>5, TypedState, SortedTakePatch DEF Synced, PatchesSorted
<1>10. Chain'
  BY <1>1, <1>2, <1>3, <1>4, <1>5, ChainTakePatch DEF Synced, Chain
<1> QED
  BY <1>7, <1>8, <1>9, <1>10 DEF Synced

(* A patch that says what the server's mdir is, from the client's last     *)
(* version on, can be applied, and the replica stays one.                  *)
LEMMA ReplicaApply ==
  ASSUME NEW c \in Seq(LogEntry), NEW log \in Seq(LogEntry), LogSane(log), ReplicaIn(c, log),
         NEW e \in LogEntry, e.tag # "%", NEW n \in Nat, n = Len(c), NEW new \in Nat, n < new,
         NEW nb \in Nat, nb = new - n - 1,
         TrueOf(log, n, new, e.tag, e.ref, e.org)
  PROVE  /\ CanPatch(c \o Blanks(nb), e.tag, e.ref)
         /\ LET r == mdir_patch(c, e, nb) IN Len(r) = new /\ ReplicaIn(r, log)
<1>1. PICK len \in Nat : len = Len(log)
  OBVIOUS
<1>2. /\ new \in 1 .. len /\ n + nb + 1 = new
      /\ \A v \in 1 .. new : v \in 1 .. n \/ v \in n + 1 .. n + nb \/ v = new
      /\ \A v \in n + 1 .. n + nb : v \in n + 1 .. new - 1
  BY <1>1 DEF TrueOf
<1>3. e.tag = "-" => e.ref \in 1 .. n + nb /\ log[e.ref].tag = "%"
  <2> SUFFICES ASSUME e.tag = "-" PROVE e.ref \in 1 .. n + nb /\ log[e.ref].tag = "%"
    OBVIOUS
  <2>1. log[new].tag = "-" /\ log[new].ref = e.ref
    BY DEF TrueOf
  <2>2. e.ref \in 1 .. new - 1 /\ log[e.ref].tag = "%"
    BY <1>1, <1>2, <2>1 DEF LogSane
  <2> QED
    BY <1>2, <2>2
<1>4. \A v \in 1 .. n : SameEntry(c[v], log[v])
  BY DEF ReplicaIn
<1>5. CanPatch(c \o Blanks(nb), e.tag, e.ref)
  <2> SUFFICES ASSUME e.tag = "-"
               PROVE  e.ref \in DOMAIN (c \o Blanks(nb)) /\ (c \o Blanks(nb))[e.ref].tag # "-"
    BY DEF CanPatch
  <2>1. BlankEntry \in LogEntry /\ BlankEntry.tag = "%"
    BY DEF BlankEntry, Entry, LogEntry
  <2>2. Blanks(nb) \in Seq(LogEntry) /\ Len(Blanks(nb)) = nb /\ \A v \in 1 .. nb : Blanks(nb)[v] = BlankEntry
    BY <2>1 DEF Blanks
  <2>3. /\ c \o Blanks(nb) \in Seq(LogEntry) /\ Len(c \o Blanks(nb)) = n + nb
        /\ \A v \in 1 .. n + nb : (c \o Blanks(nb))[v] = IF v <= n THEN c[v] ELSE Blanks(nb)[v - n]
    BY <2>2, ConcatProperties
  <2>4. e.ref \in 1 .. n + nb
    BY <1>3
  <2>5. e.ref \in DOMAIN (c \o Blanks(nb))
    BY <2>3, <2>4
  <2>6. CASE e.ref <= n
    <3>1. e.ref \in 1 .. n
      BY <2>4, <2>6
    <3>2. c[e.ref].tag # "-"
      BY <1>3, <1>4, <3>1 DEF SameEntry
    <3>3. (c \o Blanks(nb))[e.ref] = c[e.ref]
      BY <2>3, <2>4, <2>6
    <3> QED
      BY <2>5, <3>2, <3>3
  <2>7. CASE ~(e.ref <= n)
    <3>1. e.ref - n \in 1 .. nb
      BY <2>4, <2>7
    <3>2. (c \o Blanks(nb))[e.ref] = BlankEntry
      BY <2>2, <2>3, <2>4, <2>7, <3>1
    <3> QED
      BY <2>1, <2>5, <3>2
  <2> QED
    BY <2>6, <2>7
<1> DEFINE r == mdir_patch(c, e, nb)
<1>6. /\ r \in Seq(LogEntry) /\ Len(r) = n + nb + 1 /\ r[n + nb + 1] = e
      /\ \A v \in 1 .. n : r[v] = IF e.tag = "-" /\ v = e.ref THEN Blanked(c[v]) ELSE c[v]
      /\ \A v \in n + 1 .. n + nb : r[v].tag = "%"
  BY <1>5, PatchResult
<1> HIDE DEF r
<1>7. ASSUME NEW v \in 1 .. new PROVE SameEntry(r[v], log[v])
  <2>1. CASE v \in 1 .. n
    <3>1. CASE e.tag = "-" /\ v = e.ref
      <4>1. r[v].tag = "%"
        BY <1>6, <2>1, <3>1, BlankedEntry
      <4> QED
        BY <1>3, <3>1, <4>1 DEF SameEntry
    <3>2. CASE ~(e.tag = "-" /\ v = e.ref)
      BY <1>4, <1>6, <2>1, <3>2
    <3> QED
      BY <3>1, <3>2
  <2>2. CASE v \in n + 1 .. n + nb
    <3>1. log[v].tag = "%"
      BY <1>2, <2>2 DEF TrueOf
    <3> QED
      BY <1>6, <2>2, <3>1 DEF SameEntry
  <2>3. CASE v = new
    <3>1. r[v] = e
      BY <1>2, <1>6, <2>3
    <3> QED
      BY <2>3, <3>1 DEF SameEntry, TrueOf
  <2> QED
    BY <1>2, <2>1, <2>2, <2>3
<1>8. Len(r) = new
  BY <1>2, <1>6
<1>9. new <= Len(log)
  BY DEF TrueOf
<1>10. ReplicaIn(r, log)
  BY <1>7, <1>8, <1>9 DEF ReplicaIn
<1> QED
  BY <1>5, <1>8, <1>10 DEF r

(* The first received patch can be applied.                                *)
LEMMA HeadApplies ==
  ASSUME SyncInv, applying, CanApply
  PROVE  LET p == patches[1]
             nb == p.new - p.old - 1
         IN  /\ link /\ sub.on /\ Len(patches) >= 1 /\ Head(patches) = p
             /\ CanPatch(clog \o Blanks(nb), p.e.tag, p.e.ref)
             /\ Len(mdir_patch(clog, p.e, nb)) = p.new /\ ReplicaIn(mdir_patch(clog, p.e, nb), slog)
<1> DEFINE p == patches[1]
           nb == p.new - p.old - 1
<1>1. TypeInv /\ Synced
  BY DEF SyncInv
<1>2. patches # <<>> /\ patches \in Seq(Queued) /\ Head(patches).old = Len(clog)
  BY <1>1 DEF CanApply, TypeInv, MemoryTypes
<1>3. Len(patches) >= 1 /\ 1 \in 1 .. Len(patches) /\ Head(patches) = p /\ p \in Queued
  BY <1>2
<1>4. link /\ sub.on
  BY <1>1, <1>2 DEF Synced, Offline, NoPatches
<1>5. /\ p.e \in LogEntry /\ p.e.tag # "%" /\ p.new \in Nat /\ p.old \in Nat /\ p.old < p.new /\ p.old = Len(clog)
      /\ clog \in Seq(LogEntry) /\ slog \in Seq(LogEntry) /\ LogSane(slog) /\ ReplicaIn(clog, slog)
  BY <1>1, <1>2, <1>3 DEF TypeInv, Forward, Queued, FileTypes, ServerTypes, Synced, Replica
<1>6. TrueOf(slog, p.old, p.new, p.e.tag, p.e.ref, p.e.org)
  BY <1>1, <1>3, <1>4 DEF Synced, PatchesTrue, TrueIn
<1> HIDE DEF p
<1>7. nb \in Nat
  BY <1>5
<1> HIDE DEF nb
<1>8. nb = p.new - p.old - 1
  BY DEF nb
<1>9. /\ CanPatch(clog \o Blanks(nb), p.e.tag, p.e.ref)
      /\ Len(mdir_patch(clog, p.e, nb)) = p.new /\ ReplicaIn(mdir_patch(clog, p.e, nb), slog)
  BY <1>5, <1>6, <1>7, <1>8, ReplicaApply
<1> QED
  BY <1>3, <1>4, <1>9 DEF p, nb

LEMMA ApplySynced ==
  ASSUME SyncInv, ApplyOne PROVE Synced'
<1>1. TypeInv /\ Synced /\ applying /\ CanApply
  BY DEF SyncInv, ApplyOne
<1> DEFINE p == patches[1]
           nb == p.new - p.old - 1
<1>2. /\ link /\ sub.on /\ Len(patches) >= 1 /\ Head(patches) = p
      /\ CanPatch(clog \o Blanks(nb), p.e.tag, p.e.ref)
      /\ Len(mdir_patch(clog, p.e, nb)) = p.new /\ ReplicaIn(mdir_patch(clog, p.e, nb), slog)
  BY <1>1, HeadApplies
<1>3. /\ clog' = mdir_patch(clog, p.e, nb) /\ patches' = Tail(patches) /\ UNCHANGED <<applying, link>>
      /\ UNCHANGED <<slog, answer, sub, commands, subscribed, up, down>>
  BY <1>2 DEF ApplyOne, server
<1>4. Len(clog') = p.new /\ ReplicaIn(clog', slog')
  BY <1>2, <1>3
<1> HIDE DEF nb
<1>5. Shorter(patches, patches') /\ \A i \in 1 .. Len(patches') : i + 1 \in 1 .. Len(patches)
  <2>1. patches \in Seq(Queued) /\ patches # <<>>
    BY <1>1 DEF TypeInv, MemoryTypes, CanApply
  <2> QED
    BY <1>2, <1>3, <2>1, HeadTailProperties DEF Shorter
<1>6. Offline' /\ NoPatches' /\ Replica'
  BY <1>1, <1>2, <1>3, <1>4 DEF Offline, NoPatches, Replica
<1>7. SubState'
  BY <1>1, <1>2, <1>3 DEF Synced, SubState
<1>8. PatchesTrue'
  BY <1>1, <1>2, <1>3, <1>5 DEF Synced, PatchesTrue, TrueIn, Shorter
<1>9. PatchesSorted'
  BY <1>1, <1>2, <1>3, <1>5, SortedApply DEF Synced, PatchesSorted
<1>10. Chain'
  <2>1. ChainIn(patches, down, Len(clog), sub.version)
    BY <1>1, <1>2 DEF Synced, Chain
  <2>2. ChainIn(patches', down, p.new, sub.version)
    BY <1>5, <2>1, ChainApply
  <2> QED
    BY <1>3, <1>4, <2>2 DEF Chain
<1> QED
  BY <1>6, <1>7, <1>8, <1>9, <1>10 DEF Synced

(* A lost connection, or a restart, leaves nothing to be in order.         *)
LEMMA BreakSynced ==
  ASSUME SyncInv, LinkBreaks \/ ClientRestarts PROVE Synced'
<1>1. TypeInv /\ Synced
  BY DEF SyncInv
<1>2. /\ up' = <<>> /\ answer' = <<>> /\ down' = <<>> /\ ~sub'.on /\ ~applying' /\ slog' = slog /\ clog' = clog
      /\ link' => patches' = <<>> /\ commands' = {} /\ ~subscribed'
  BY <1>1 DEF LinkBreaks, ClientRestarts, Disconnect, NoAnswer, files, memory, refusals
<1>3. Len(up') = 0 /\ Len(answer') = 0 /\ Len(down') = 0 /\ (link' => Len(patches') = 0)
  BY <1>2
<1>4. Offline' /\ NoPatches' /\ Chain'
  BY <1>2, <1>3 DEF Offline, NoPatches, Chain
<1>5. SubState'
  BY <1>2, <1>3 DEF SubState
<1>6. PatchesTrue' /\ PatchesSorted'
  BY <1>3 DEF PatchesTrue, PatchesSorted, TrueIn, SortedIn
<1>7. Replica'
  BY <1>1, <1>2 DEF Synced, Replica
<1> QED
  BY <1>4, <1>5, <1>6, <1>7 DEF Synced

LEMMA SyncedStep ==
  ASSUME SyncInv, [Next]_vars PROVE Synced'
<1>1. CASE WriterSub
  BY <1>1, WriterSubEffect, SendsSynced DEF SyncInv
<1>2. CASE \E f \in tmp : WriterSend(f)
  <2>1. PICK c, q : Sends(c, q) /\ c.kw # "sub"
    BY <1>2, WriterSendEffect DEF SyncInv
  <2>2. c # SubCmd
    BY <2>1 DEF SubCmd
  <2> QED
    BY <2>1, <2>2, SendsSynced
<1>3. CASE UNCHANGED <<answer, sub, clog, patches, subscribed, commands, up, down, link>> /\ (applying' => applying)
  BY <1>3, QuietSynced
<1>4. \/ ServeQuery \/ SendAnswer \/ SendNextPatch \/ WriterSub \/ (\E f \in tmp : WriterSend(f))
      \/ finalize_sub \/ finalize_putrem \/ patch_service \/ ApplyOne \/ LinkBreaks \/ ClientRestarts
      \/ UNCHANGED <<answer, sub, clog, patches, subscribed, commands, up, down, link>> /\ (applying' => applying)
  BY DEF Next, Server, Client, Environment, vars, server, files, memory, refusals, net, QuarantineEnds, SaveError, SaveErrorFails,
     ApplyEnd, mdir_patch_request, CreateTransient, ForeignPatch, ServeOrphan, LoseOrphan
<1> QED
  BY <1>1, <1>2, <1>3, <1>4, ServeSynced, AnswerSynced, SendPatchSynced, FinalizeSynced, ServiceSynced,
     ApplySynced, BreakSynced

LEMMA SyncedInit == Init => Synced
<1> SUFFICES ASSUME Init PROVE Synced
  OBVIOUS
<1>1. /\ up = <<>> /\ answer = <<>> /\ down = <<>> /\ patches = <<>> /\ slog = <<>> /\ clog = <<>> /\ commands = {}
      /\ ~sub.on /\ ~applying /\ link /\ ~subscribed
  BY DEF Init, NoAnswer
<1>2. Len(up) = 0 /\ Len(answer) = 0 /\ Len(down) = 0 /\ Len(patches) = 0 /\ Len(clog) = 0 /\ Len(slog) = 0
  BY <1>1
<1>3. Offline /\ NoPatches /\ Chain /\ SubState
  BY <1>1, <1>2 DEF Offline, NoPatches, Chain, SubState
<1>4. PatchesTrue /\ PatchesSorted /\ Replica
  BY <1>2 DEF PatchesTrue, PatchesSorted, TrueIn, SortedIn, Replica, ReplicaIn
<1> QED
  BY <1>3, <1>4 DEF Synced

LEMMA SyncInvariant == Spec => []SyncInv
<1>1. Init => SyncInv
  BY TypeInit, MatchingInit, SyncedInit DEF SyncInv
<1>2. SyncInv /\ [Next]_vars => SyncInv'
  BY TypeStep, MatchingStep, SyncedStep DEF SyncInv
<1> QED
  BY <1>1, <1>2, PTL DEF Spec

(* The client's mdir is the server's, as it was at some time, up to the    *)
(* client's last version: neither the interleaving of answers and patches, *)
(* nor refusals, broken connections or restarts of mdsyncc ever make the   *)
(* client show what the server never had, or keep what it no longer had    *)
(* then.                                                                   *)
THEOREM ClientIsReplica == Spec => []ReplicaPrefix
<1>1. SyncInv => ReplicaPrefix
  <2> SUFFICES ASSUME SyncInv PROVE ReplicaPrefix
    OBVIOUS
  <2>1. DOMAIN clog = 1 .. Len(clog) /\ ReplicaIn(clog, slog)
    BY DEF SyncInv, TypeInv, FileTypes, Synced, Replica
  <2> QED
    BY <2>1 DEF ReplicaPrefix, ReplicaIn, SameEntry
<1> QED
  BY <1>1, SyncInvariant, PTL

(* Patches on their way link the client's last version to the version of   *)
(* its subscription without a hole or an overlap, and try_apply never      *)
(* fails on one, which would end the reader thread.                        *)
THEOREM PatchesFollow == Spec => []PatchChain
<1>1. SyncInv => PatchChain
  <2> SUFFICES ASSUME SyncInv PROVE PatchChain
    OBVIOUS
  <2>1. DOMAIN patches = 1 .. Len(patches) /\ DOMAIN down = 1 .. Len(down) /\ (patches = <<>> <=> Len(patches) = 0)
    BY DEF SyncInv, TypeInv, MemoryTypes, NetTypes
  <2>2. Received = ReceivedOf(patches, Len(clog))
    BY <2>1 DEF Received, ReceivedOf
  <2>3. \A i, v : LeadIn(down, ReceivedOf(patches, Len(clog)), i, v) => LeadTo(i, v)
    BY <2>2 DEF LeadIn, LeadTo, IsAnswer
  <2>4. link /\ sub.on => ChainIn(patches, down, Len(clog), sub.version)
    BY DEF SyncInv, Synced, Chain
  <2>5. link /\ sub.on =>
          /\ \A i \in DOMAIN patches : patches[i].old = IF i = 1 THEN Len(clog) ELSE patches[i - 1].new
          /\ \A i \in DOMAIN down : down[i].kw = "patch" => LeadTo(i, down[i].old)
          /\ LeadTo(Len(down) + 1, sub.version)
    BY <2>1, <2>3, <2>4 DEF ChainIn, IsAnswer
  <2>6. applying /\ CanApply =>
          LET p == Head(patches) IN CanPatch(clog \o Blanks(p.new - p.old - 1), p.e.tag, p.e.ref)
    BY HeadApplies
  <2> QED
    BY <2>5, <2>6 DEF PatchChain
<1> QED
  BY <1>1, SyncInvariant, PTL

-----------------------------------------------------------------------------
(* Requests become at most one version, as long as no connection breaks.   *)

FileCmd(f) == [kw |-> kw(f), id |-> f.id]

(* The numbers of requests and of others' patches.                         *)
Numbers ==
  /\ nextLocal <= MaxLocal + 1
  /\ \A f \in tmp \cup drafts : f.id < nextLocal
  /\ \A v \in 1 .. Len(slog) : slog[v].org < nextLocal \/ slog[v].org > MaxLocal

(* A request has one file.                                                 *)
OneFile ==
  /\ \A f, g \in tmp \cup drafts : f.id = g.id => f = g
  /\ \A f \in drafts : f \notin tmp

(* A command is about a file of .tmp.                                      *)
CommandFiles == \A c \in commands : c.kw # "sub" => \E f \in tmp : c = FileCmd(f)

(* What has not been executed is not recorded; a file that is recorded has *)
(* a command, so that it is not sent again.                                *)
Fresh ==
  /\ \A i \in 1 .. Len(up) : up[i].kw # "sub" => ~RecordedIn(slog, up[i].id)
  /\ \A f \in tmp \cup drafts : RecordedIn(slog, f.id) => FileCmd(f) \in commands

Unique(log) == \A v, w \in 1 .. Len(log) : log[v].org = log[w].org => v = w

(* The patches of others are numbered one by one.                          *)
Others(log) == {v \in DOMAIN log : log[v].org > MaxLocal}
Numbered(log) ==
  \A v \in 1 .. Len(log) : log[v].org > MaxLocal => log[v].org <= MaxLocal + Cardinality(Others(log))

Unbroken ==
  breaks = 0 => /\ link /\ Len(orphans) = 0
                /\ Numbers /\ OneFile /\ CommandFiles /\ Fresh /\ Unique(slog) /\ Numbered(slog)

(* The log new is old with one more version, of origin org.                *)
AddsOrg(old, new, org) ==
  /\ old \in Seq(LogEntry) /\ new \in Seq(LogEntry) /\ Len(new) = Len(old) + 1
  /\ org \in Nat /\ new[Len(old) + 1].org = org
  /\ \A v \in 1 .. Len(old) : new[v].org = old[v].org

LEMMA PatchAddsOrg ==
  ASSUME NEW log \in Seq(LogEntry), NEW e \in LogEntry, CanPatch(log, e.tag, e.ref)
  PROVE  AddsOrg(log, mdir_patch(log, e, 0), e.org)
<1> DEFINE new == mdir_patch(log, e, 0)
<1>1. PICK len \in Nat : len = Len(log)
  OBVIOUS
<1>2. /\ new \in Seq(LogEntry) /\ Len(new) = len + 1 /\ new[len + 1] = e
      /\ \A v \in 1 .. len : new[v] = IF e.tag = "-" /\ v = e.ref THEN Blanked(log[v]) ELSE log[v]
  BY <1>1, ServerPatch
<1> HIDE DEF new
<1>3. \A v \in 1 .. len : log[v] \in LogEntry
  BY <1>1
<1>4. \A v \in 1 .. len : new[v].org = log[v].org
  BY <1>2, <1>3, BlankedEntry
<1>5. e.org \in Nat
  BY DEF LogEntry
<1>6. AddsOrg(log, new, e.org)
  BY <1>1, <1>2, <1>4, <1>5 DEF AddsOrg
<1> QED
  BY <1>6 DEF new

LEMMA AddRecorded ==
  ASSUME NEW old, NEW new, NEW org, AddsOrg(old, new, org)
  PROVE  /\ \A n : RecordedIn(new, n) <=> RecordedIn(old, n) \/ n = org
         /\ Unique(old) /\ ~RecordedIn(old, org) => Unique(new)
         /\ \A v \in 1 .. Len(new) : new[v].org = org \/ \E w \in 1 .. Len(old) : new[v].org = old[w].org
<1>1. PICK len \in Nat : len = Len(old)
  BY DEF AddsOrg
<1>2. /\ Len(new) = len + 1 /\ new[len + 1].org = org /\ (\A v \in 1 .. len : new[v].org = old[v].org)
      /\ len + 1 \in 1 .. len + 1
      /\ \A v \in 1 .. len : v \in 1 .. len + 1
      /\ \A v \in 1 .. len + 1 : v = len + 1 \/ v \in 1 .. len
  BY <1>1 DEF AddsOrg
<1>3. \A n : RecordedIn(new, n) <=> RecordedIn(old, n) \/ n = org
  BY <1>1, <1>2 DEF RecordedIn
<1>4. ASSUME Unique(old), ~RecordedIn(old, org) PROVE Unique(new)
  BY <1>1, <1>2, <1>4 DEF RecordedIn, Unique
<1>5. \A v \in 1 .. Len(new) : new[v].org = org \/ \E w \in 1 .. Len(old) : new[v].org = old[w].org
  BY <1>1, <1>2
<1> QED
  BY <1>3, <1>4, <1>5

LEMMA AddNumbered ==
  ASSUME NEW old, NEW new, NEW org, AddsOrg(old, new, org), Numbered(old),
         org <= MaxLocal \/ org = MaxLocal + 1 + Cardinality(Others(old))
  PROVE  Numbered(new)
<1>1. PICK len \in Nat : len = Len(old)
  BY DEF AddsOrg
<1>2. /\ DOMAIN old = 1 .. len /\ DOMAIN new = 1 .. len + 1 /\ Len(new) = len + 1 /\ new[len + 1].org = org
      /\ (\A v \in 1 .. len : new[v].org = old[v].org /\ old[v].org \in Nat) /\ org \in Nat
  <2>1. old \in Seq(LogEntry) /\ new \in Seq(LogEntry)
    BY DEF AddsOrg
  <2>2. \A v \in 1 .. len : old[v] \in LogEntry
    BY <1>1, <2>1
  <2>3. \A v \in 1 .. len : old[v].org \in Nat
    BY <2>2 DEF LogEntry
  <2> QED
    BY <1>1, <2>1, <2>3 DEF AddsOrg
<1>3. \A v \in 1 .. len + 1 : v = len + 1 \/ v \in 1 .. len
  OBVIOUS
<1>4. IsFiniteSet(Others(old)) /\ len + 1 \notin Others(old) /\ Cardinality(Others(old)) \in Nat
  <2>1. IsFiniteSet(1 .. len)
    BY FS_Interval
  <2>2. Others(old) \subseteq 1 .. len
    BY <1>2 DEF Others
  <2>3. IsFiniteSet(Others(old)) /\ len + 1 \notin Others(old)
    BY <2>1, <2>2, FS_Subset
  <2> QED
    BY <2>3, FS_CardinalityType
<1>5. PICK n \in Nat : n = Cardinality(Others(old))
  BY <1>4
<1>6. \A v \in 1 .. len : old[v].org > MaxLocal => old[v].org <= MaxLocal + n
  BY <1>1, <1>5 DEF Numbered
<1>7. CASE org <= MaxLocal
  <2>1. Others(new) = Others(old)
    BY <1>2, <1>3, <1>7, MdSyncAssumption DEF Others
  <2>2. ~(org > MaxLocal)
    BY <1>2, <1>7, MdSyncAssumption
  <2> QED
    BY <1>2, <1>3, <1>5, <1>6, <2>1, <2>2 DEF Numbered
<1>8. CASE org = MaxLocal + 1 + n
  <2>1. org > MaxLocal
    BY <1>8, MdSyncAssumption
  <2>2. Others(new) = Others(old) \cup {len + 1}
    BY <1>2, <1>3, <2>1 DEF Others
  <2>3. Cardinality(Others(new)) = n + 1
    BY <1>4, <1>5, <2>2, FS_AddElement
  <2>4. ASSUME NEW v \in 1 .. len + 1, new[v].org > MaxLocal PROVE new[v].org <= MaxLocal + (n + 1)
    <3>1. CASE v = len + 1
      BY <1>2, <1>8, <3>1, MdSyncAssumption
    <3>2. CASE v \in 1 .. len
      BY <1>2, <1>6, <2>4, <3>2, MdSyncAssumption
    <3> QED
      BY <1>3, <3>1, <3>2
  <2> QED
    BY <1>2, <2>3, <2>4 DEF Numbered
<1> QED
  BY <1>5, <1>7, <1>8

(* Commands that are not subscriptions differ by their numbers.            *)
LEMMA CommandNumbers ==
  ASSUME OneFile, CommandFiles, NEW c \in commands, NEW d \in commands, c.kw # "sub", d.kw # "sub", c.id = d.id
  PROVE  c = d
<1>1. PICK f \in tmp : c = FileCmd(f)
  BY DEF CommandFiles
<1>2. PICK g \in tmp : d = FileCmd(g)
  BY DEF CommandFiles
<1>3. f.id = g.id
  BY <1>1, <1>2 DEF FileCmd
<1>4. f = g
  BY <1>3 DEF OneFile
<1> QED
  BY <1>1, <1>2, <1>4

LEMMA ServeUnbroken ==
  ASSUME SyncInv, Unbroken, breaks = 0, ServeQuery PROVE Unbroken'
<1>1. /\ TypeInv /\ link /\ Len(orphans) = 0 /\ Numbers /\ OneFile /\ CommandFiles /\ Fresh
      /\ Unique(slog) /\ Numbered(slog) /\ Expected /\ OnceEach /\ slog \in Seq(LogEntry)
  BY DEF SyncInv, Unbroken, Matching, TypeInv, ServerTypes
<1>2. /\ Len(up') = Len(up) - 1 /\ Len(up) >= 1 /\ \A i \in 1 .. Len(up') : up'[i] = up[i + 1]
      /\ up[1] \in QueryMsg /\ Head(up) = up[1] /\ Len(answer') = 1 /\ Cmd(answer'[1]) = Cmd(up[1])
      /\ UNCHANGED <<orphans, drafts, tmp, nextLocal, commands, down, link>>
  BY <1>1, ServeEffect
<1>3. Len(up) \in Nat /\ 1 \in 1 .. Len(up) /\ \A i \in 1 .. Len(up') : i + 1 \in 1 .. Len(up) /\ i + 1 # 1
  BY <1>1, <1>2 DEF TypeInv, NetTypes
<1>4. \A i \in 1 .. Len(answer') : i = 1
  BY <1>2
<1>5. OneFile' /\ CommandFiles' /\ link' /\ Len(orphans') = 0
  BY <1>1, <1>2 DEF OneFile, CommandFiles
<1>6. PICK granted \in {TRUE, ~Denials}, confirmed \in {TRUE, ~Incomplete} :
        IF up[1].kw = "sub" THEN exec_sub(up[1], granted) ELSE exec_putrem(up[1], granted, confirmed)
  BY <1>2 DEF ServeQuery
<1>7. CASE up[1].kw = "sub"
  <2>1. slog' = slog /\ answer'[1].kw = "sub"
    BY <1>2, <1>6, <1>7 DEF exec_sub, Cmd
  <2>2. Fresh'
    BY <1>1, <1>2, <1>3, <1>4, <2>1, SMTT(30) DEF Fresh
  <2> QED
    BY <1>1, <1>2, <1>5, <2>1, <2>2 DEF Unbroken, Numbers
<1>8. CASE up[1].kw # "sub" /\ ~Accepts(up[1], granted)
  <2>1. slog' = slog
    BY <1>6, <1>8 DEF exec_putrem
  <2>2. Fresh'
    BY <1>1, <1>2, <1>3, <2>1 DEF Fresh
  <2> QED
    BY <1>1, <1>2, <1>5, <2>1, <2>2 DEF Unbroken, Numbers
<1>9. CASE up[1].kw # "sub" /\ Accepts(up[1], granted)
  <2>1. slog' = add_header(up[1])
    BY <1>6, <1>9 DEF exec_putrem
  <2>2. PICK org : org = up[1].id
    OBVIOUS
  <2>3. AddsOrg(slog, slog', org)
    BY <1>1, <1>2, <1>9, <2>1, <2>2, AcceptPatches, PatchAddsOrg
  <2>4. PICK f \in tmp : Cmd(up[1]) = FileCmd(f)
    <3>1. Cmd(up[1]) \in commands /\ Cmd(up[1]).kw # "sub"
      BY <1>1, <1>3, <1>9 DEF Expected, Cmd
    <3> QED
      BY <1>1, <3>1 DEF CommandFiles
  <2>5. /\ f.id = org /\ org < nextLocal /\ org <= MaxLocal /\ ~RecordedIn(slog, org)
        /\ nextLocal \in Nat /\ org \in Nat
    <3>1. f.id = org /\ f \in RequestFile
      BY <1>1, <2>2, <2>4 DEF Cmd, FileCmd, TypeInv, FileTypes
    <3>2. org < nextLocal /\ nextLocal <= MaxLocal + 1 /\ nextLocal \in Nat /\ org \in Nat
      BY <1>1, <3>1 DEF Numbers, OneFile, TypeInv, FileTypes, RequestFile
    <3>3. ~RecordedIn(slog, org)
      BY <1>1, <1>3, <1>9, <2>2 DEF Fresh
    <3>4. org <= MaxLocal
      BY <3>2, MdSyncAssumption
    <3> QED
      BY <3>1, <3>2, <3>3, <3>4
  <2>6. \A n : RecordedIn(slog', n) <=> RecordedIn(slog, n) \/ n = org
    BY <2>3, AddRecorded
  <2>7. Unique(slog') /\ Numbered(slog')
    BY <1>1, <2>3, <2>5, AddRecorded, AddNumbered
  <2>8. Numbers'
    <3>1. \A v \in 1 .. Len(slog') : slog'[v].org = org \/ \E w \in 1 .. Len(slog) : slog'[v].org = slog[w].org
      BY <2>3, AddRecorded
    <3>2. \A v \in 1 .. Len(slog') : slog'[v].org < nextLocal \/ slog'[v].org > MaxLocal
      BY <1>1, <2>5, <3>1 DEF Numbers
    <3> QED
      BY <1>1, <1>2, <3>2 DEF Numbers
  <2>9. \A c \in commands : c.kw # "sub" /\ c.id = org => c = Cmd(up[1])
    <3>1. Cmd(up[1]) \in commands /\ Cmd(up[1]).kw # "sub" /\ Cmd(up[1]).id = org
      BY <1>1, <1>3, <1>9, <2>2 DEF Expected, Cmd
    <3> QED
      BY <1>1, <3>1, CommandNumbers
  <2>10. Fresh'
    <3>1. ASSUME NEW i \in 1 .. Len(up'), up'[i].kw # "sub" PROVE ~RecordedIn(slog', up'[i].id)
      <4>1. up'[i] = up[i + 1] /\ i + 1 \in 1 .. Len(up) /\ i + 1 # 1
        BY <1>2, <1>3
      <4>2. ~RecordedIn(slog, up[i + 1].id)
        BY <1>1, <3>1, <4>1 DEF Fresh
      <4>3. Cmd(up[i + 1]) # Cmd(up[1])
        BY <1>1, <1>3, <4>1 DEF OnceEach
      <4>4. Cmd(up[i + 1]) \in commands /\ Cmd(up[i + 1]).kw # "sub" /\ Cmd(up[i + 1]).id = up[i + 1].id
        BY <1>1, <3>1, <4>1 DEF Expected, Cmd
      <4> QED
        BY <2>6, <2>9, <4>1, <4>2, <4>3, <4>4
    <3>2. ASSUME NEW g \in tmp \cup drafts, RecordedIn(slog', g.id) PROVE FileCmd(g) \in commands
      <4>1. CASE g.id = org
        <5>1. g = f
          BY <1>1, <2>5, <4>1 DEF OneFile
        <5> QED
          BY <1>1, <1>3, <2>4, <5>1 DEF Expected
      <4>2. CASE RecordedIn(slog, g.id)
        BY <1>1, <4>2 DEF Fresh
      <4> QED
        BY <2>6, <3>2, <4>1, <4>2
    <3> QED
      BY <1>2, <3>1, <3>2 DEF Fresh
  <2> QED
    BY <1>5, <2>7, <2>8, <2>10 DEF Unbroken
<1> QED
  BY <1>7, <1>8, <1>9

(* Messages of the server.                                                 *)
LEMMA AnswerUnbroken ==
  ASSUME SyncInv, Unbroken, breaks = 0, SendAnswer PROVE Unbroken'
<1>1. /\ TypeInv /\ link /\ Len(orphans) = 0 /\ Numbers /\ OneFile /\ CommandFiles /\ Fresh
      /\ Unique(slog) /\ Numbered(slog)
  BY DEF SyncInv, Unbroken
<1>2. /\ Len(answer) = 1 /\ Len(answer') = 0
      /\ Len(down') = Len(down) + 1 /\ down'[Len(down) + 1] = answer[1]
      /\ \A i \in 1 .. Len(down) : down'[i] = down[i]
      /\ UNCHANGED <<slog, orphans, drafts, tmp, nextLocal, commands, up, link>>
  BY <1>1, AnswerEffect
<1>3. Longer(down, down', answer[1]) /\ 1 \in 1 .. Len(answer)
  BY <1>1, <1>2 DEF Longer, TypeInv, NetTypes
<1>4. (\A i \in 1 .. Len(down') : i = Len(down) + 1 \/ i \in 1 .. Len(down)) /\ \A i \in 1 .. Len(answer') : FALSE
  BY <1>2, <1>3, LongerIndex
<1>5. Fresh'
  BY <1>1, <1>2, <1>3, <1>4 DEF Fresh
<1> QED
  BY <1>1, <1>2, <1>5 DEF Unbroken, Numbers, OneFile, CommandFiles

LEMMA SendPatchUnbroken ==
  ASSUME SyncInv, Unbroken, breaks = 0, SendNextPatch PROVE Unbroken'
<1>1. /\ TypeInv /\ link /\ Len(orphans) = 0 /\ Numbers /\ OneFile /\ CommandFiles /\ Fresh
      /\ Unique(slog) /\ Numbered(slog)
  BY DEF SyncInv, Unbroken
<1>2. PICK p \in PatchMsg :
      /\ Len(down') = Len(down) + 1 /\ down'[Len(down) + 1] = p
      /\ \A i \in 1 .. Len(down) : down'[i] = down[i]
      /\ UNCHANGED <<slog, answer, orphans, drafts, tmp, nextLocal, commands, up, link>>
  BY <1>1, NextPatchEffect
<1>3. Longer(down, down', p)
  BY <1>1, <1>2 DEF Longer, TypeInv, NetTypes
<1>4. \A i \in 1 .. Len(down') : i = Len(down) + 1 \/ i \in 1 .. Len(down)
  BY <1>3, LongerIndex
<1>5. Fresh'
  BY <1>1, <1>2, <1>3, <1>4 DEF Fresh
<1> QED
  BY <1>1, <1>2, <1>5 DEF Unbroken, Numbers, OneFile, CommandFiles

(* The writer thread.                                                      *)
LEMMA SendsUnbroken ==
  ASSUME SyncInv, Unbroken, breaks = 0, NEW c, NEW q, Sends(c, q),
         (c = SubCmd /\ q.kw = "sub") \/ (\E f \in tmp : c = FileCmd(f))
  PROVE  Unbroken'
<1>1. /\ TypeInv /\ link /\ Len(orphans) = 0 /\ Numbers /\ OneFile /\ CommandFiles /\ Fresh
      /\ Unique(slog) /\ Numbered(slog)
  BY DEF SyncInv, Unbroken
<1>2. /\ c \notin commands /\ commands' = commands \cup {c} /\ Cmd(q) = c
      /\ Len(up') = Len(up) + 1 /\ up'[Len(up) + 1] = q
      /\ \A i \in 1 .. Len(up) : up'[i] = up[i]
      /\ UNCHANGED <<slog, answer, orphans, drafts, tmp, nextLocal, down, link>>
  BY DEF Sends
<1>3. Longer(up, up', q)
  BY <1>1, <1>2 DEF Longer, TypeInv, NetTypes
<1>4. \A i \in 1 .. Len(up') : i = Len(up) + 1 \/ i \in 1 .. Len(up)
  BY <1>3, LongerIndex
<1>5. q.kw # "sub" => ~RecordedIn(slog, q.id)
  <2> SUFFICES ASSUME q.kw # "sub" PROVE ~RecordedIn(slog, q.id)
    OBVIOUS
  <2>1. PICK f \in tmp : c = FileCmd(f)
    OBVIOUS
  <2>2. q.id = f.id
    BY <1>2, <2>1 DEF Cmd, FileCmd
  <2> QED
    BY <1>1, <1>2, <2>1, <2>2 DEF Fresh
<1>6. CommandFiles'
  BY <1>1, <1>2 DEF CommandFiles, SubCmd
<1>7. Fresh'
  BY <1>1, <1>2, <1>4, <1>5 DEF Fresh
<1> QED
  BY <1>1, <1>2, <1>6, <1>7 DEF Unbroken, Numbers, OneFile

(* The reader thread.                                                      *)
LEMMA FinalizeUnbroken ==
  ASSUME SyncInv, Unbroken, breaks = 0, finalize_sub \/ finalize_putrem PROVE Unbroken'
<1>1. /\ TypeInv /\ link /\ Len(orphans) = 0 /\ Numbers /\ OneFile /\ CommandFiles /\ Fresh
      /\ Unique(slog) /\ Numbered(slog) /\ Expected
  BY DEF SyncInv, Unbroken, Matching
<1>2. /\ Len(down') = Len(down) - 1 /\ Len(down) >= 1
      /\ \A i \in 1 .. Len(down') : down'[i] = down[i + 1]
      /\ IsAnswer(down[1]) /\ commands' = commands \ {Cmd(down[1])}
      /\ UNCHANGED <<slog, answer, orphans, drafts, nextLocal, up, link>>
  BY <1>1, FinalizeEffect
<1>3. 1 \in 1 .. Len(down) /\ \A i \in 1 .. Len(down') : i + 1 \in 1 .. Len(down)
  BY <1>1, <1>2 DEF TypeInv, NetTypes
<1>4. Cmd(down[1]) \in commands
  BY <1>1, <1>2, <1>3 DEF Expected
<1>5. CASE finalize_sub
  <2>1. tmp' = tmp /\ down[1].kw = "sub"
    BY <1>1, <1>5, Receive DEF finalize_sub, files
  <2>2. CommandFiles'
    BY <1>1, <1>2, <2>1 DEF CommandFiles
  <2>3. \A f : FileCmd(f) # Cmd(down[1])
    BY <2>1 DEF FileCmd, Cmd, kw
  <2>4. Fresh'
    BY <1>1, <1>2, <1>3, <2>1, <2>3 DEF Fresh
  <2> QED
    BY <1>1, <1>2, <2>1, <2>2, <2>4 DEF Unbroken, Numbers, OneFile
<1>6. CASE finalize_putrem
  <2>1. PICK id : id = down[1].id
    OBVIOUS
  <2>2. /\ down[1].kw \in {"put", "rem"} /\ Head(down) = down[1]
        /\ tmp' = {f \in tmp : f.id # id}
    <3>1. down[1].kw \in {"put", "rem"} /\ Head(down) = down[1]
      BY <1>1, <1>6, Receive DEF finalize_putrem
    <3> QED
      BY <1>6, <2>1, <3>1 DEF finalize_putrem
  <2>3. PICK g \in tmp : Cmd(down[1]) = FileCmd(g)
    <3>1. Cmd(down[1]).kw # "sub"
      BY <2>2 DEF Cmd
    <3> QED
      BY <1>1, <1>4, <3>1 DEF CommandFiles
  <2>4. g.id = id /\ id < nextLocal
    BY <1>1, <2>1, <2>3 DEF Cmd, FileCmd, Numbers
  <2>5. \A f \in tmp' \cup drafts : f \in tmp \cup drafts /\ f.id # id
    <3>1. \A f \in drafts : f # g
      BY <1>1 DEF OneFile
    <3>2. \A f \in drafts : f.id # id
      BY <1>1, <2>4, <3>1 DEF OneFile
    <3> QED
      BY <2>2, <3>2
  <2>6. Numbers'
    BY <1>1, <1>2, <2>2, <2>4, <2>5 DEF Numbers
  <2>7. OneFile'
    <3>1. \A f \in drafts : f \notin tmp'
      BY <1>1, <2>2 DEF OneFile
    <3> QED
      BY <1>1, <1>2, <2>5, <3>1 DEF OneFile
  <2>8. CommandFiles'
    <3> SUFFICES ASSUME NEW c \in commands', c.kw # "sub" PROVE \E f \in tmp' : c = FileCmd(f)
      BY DEF CommandFiles
    <3>1. c \in commands /\ c # Cmd(down[1])
      BY <1>2
    <3>2. PICK f \in tmp : c = FileCmd(f)
      BY <1>1, <3>1 DEF CommandFiles
    <3>3. f # g
      BY <2>3, <3>1, <3>2
    <3>4. f.id # id
      BY <1>1, <2>4, <3>3 DEF OneFile
    <3> QED
      BY <2>2, <3>2, <3>4
  <2>9. Fresh'
    <3>1. \A f \in tmp' \cup drafts : FileCmd(f) # Cmd(down[1])
      BY <2>1, <2>5 DEF FileCmd, Cmd
    <3> QED
      BY <1>1, <1>2, <2>5, <3>1 DEF Fresh
  <2> QED
    BY <1>1, <1>2, <2>6, <2>7, <2>8, <2>9 DEF Unbroken
<1> QED
  BY <1>5, <1>6

LEMMA ServiceUnbroken ==
  ASSUME SyncInv, Unbroken, breaks = 0, patch_service PROVE Unbroken'
<1>1. /\ TypeInv /\ link /\ Len(orphans) = 0 /\ Numbers /\ OneFile /\ CommandFiles /\ Fresh
      /\ Unique(slog) /\ Numbered(slog)
  BY DEF SyncInv, Unbroken
<1>2. /\ Len(down') = Len(down) - 1 /\ Len(down) >= 1
      /\ \A i \in 1 .. Len(down') : down'[i] = down[i + 1]
      /\ UNCHANGED <<slog, answer, orphans, drafts, tmp, nextLocal, commands, up, link>>
  BY <1>1, ServiceEffect
<1>3. \A i \in 1 .. Len(down') : i + 1 \in 1 .. Len(down)
  BY <1>1, <1>2 DEF TypeInv, NetTypes
<1>4. Fresh'
  BY <1>1, <1>2, <1>3 DEF Fresh
<1> QED
  BY <1>1, <1>2, <1>4 DEF Unbroken, Numbers, OneFile, CommandFiles

(* The plugins and the other clients.                                      *)
LEMMA RequestUnbroken ==
  ASSUME SyncInv, Unbroken, breaks = 0, NEW tag, NEW ref, mdir_patch_request(tag, ref) PROVE Unbroken'
<1>1. /\ TypeInv /\ link /\ Len(orphans) = 0 /\ Numbers /\ OneFile /\ CommandFiles /\ Fresh
      /\ Unique(slog) /\ Numbered(slog)
  BY DEF SyncInv, Unbroken
<1>2. PICK d : /\ d.id = nextLocal /\ drafts' = drafts \cup {d} /\ nextLocal <= MaxLocal /\ nextLocal' = nextLocal + 1
               /\ UNCHANGED <<slog, answer, orphans, tmp, commands, up, down, link>>
  BY DEF mdir_patch_request, server, memory, refusals, net
<1>3. nextLocal \in Nat /\ (\A f \in tmp \cup drafts : f.id \in Nat)
      /\ \A v \in 1 .. Len(slog) : slog[v].org \in Nat
  <2>1. tmp \cup drafts \subseteq RequestFile /\ slog \in Seq(LogEntry) /\ nextLocal \in Nat
    BY <1>1 DEF TypeInv, FileTypes, ServerTypes
  <2>2. \A v \in 1 .. Len(slog) : slog[v] \in LogEntry
    BY <2>1
  <2> QED
    BY <2>1, <2>2 DEF RequestFile, LogEntry
<1>4. (\A f \in tmp \cup drafts : f.id # nextLocal) /\ ~RecordedIn(slog, nextLocal)
  <2>1. \A f \in tmp \cup drafts : f.id # nextLocal
    BY <1>1, <1>3 DEF Numbers
  <2>2. ~RecordedIn(slog, nextLocal)
    BY <1>1, <1>2, <1>3, MdSyncAssumption DEF Numbers, RecordedIn
  <2> QED
    BY <2>1, <2>2
<1>5. \A f \in tmp' \cup drafts' : f = d \/ f \in tmp \cup drafts
  BY <1>2
<1>6. Numbers'
  <2>1. nextLocal' <= MaxLocal + 1
    BY <1>2, <1>3, MdSyncAssumption
  <2>2. \A f \in tmp' \cup drafts' : f.id < nextLocal'
    BY <1>1, <1>2, <1>3, <1>5 DEF Numbers
  <2>3. \A v \in 1 .. Len(slog) : slog[v].org < nextLocal' \/ slog[v].org > MaxLocal
    BY <1>1, <1>2, <1>3 DEF Numbers
  <2> QED
    BY <1>2, <2>1, <2>2, <2>3 DEF Numbers
<1>7. OneFile'
  <2>1. \A f, g \in tmp' \cup drafts' : f.id = g.id => f = g
    BY <1>1, <1>2, <1>4, <1>5 DEF OneFile
  <2>2. \A f \in drafts' : f \notin tmp'
    BY <1>1, <1>2, <1>4 DEF OneFile
  <2> QED
    BY <1>2, <2>1, <2>2 DEF OneFile
<1>8. Fresh'
  BY <1>1, <1>2, <1>4, <1>5 DEF Fresh
<1> QED
  BY <1>1, <1>2, <1>6, <1>7, <1>8 DEF Unbroken, CommandFiles

LEMMA CreateUnbroken ==
  ASSUME SyncInv, Unbroken, breaks = 0, CreateTransient PROVE Unbroken'
<1>1. /\ link /\ Len(orphans) = 0 /\ Numbers /\ OneFile /\ CommandFiles /\ Fresh
      /\ Unique(slog) /\ Numbered(slog)
  BY DEF Unbroken
<1>2. PICK d \in drafts : tmp' = tmp \cup {d} /\ drafts' = drafts \ {d}
  BY DEF CreateTransient
<1>3. UNCHANGED <<slog, answer, orphans, nextLocal, commands, up, down, link>>
  BY DEF CreateTransient, server, memory, refusals, net
<1>4. tmp' \cup drafts' = tmp \cup drafts /\ \A f \in drafts' : f \notin tmp'
  BY <1>1, <1>2 DEF OneFile
<1>5. Numbers' /\ OneFile'
  BY <1>1, <1>3, <1>4 DEF Numbers, OneFile
<1>6. CommandFiles' /\ Fresh'
  BY <1>1, <1>2, <1>3, <1>4 DEF CommandFiles, Fresh
<1> QED
  BY <1>1, <1>3, <1>5, <1>6 DEF Unbroken

LEMMA ForeignUnbroken ==
  ASSUME SyncInv, Unbroken, breaks = 0, ForeignPatch PROVE Unbroken'
<1>1. /\ TypeInv /\ link /\ Len(orphans) = 0 /\ Numbers /\ OneFile /\ CommandFiles /\ Fresh /\ Expected
      /\ Unique(slog) /\ Numbered(slog) /\ slog \in Seq(LogEntry)
  BY DEF SyncInv, Unbroken, Matching, TypeInv, ServerTypes
<1>2. PICK e \in LogEntry : /\ CanPatch(slog, e.tag, e.ref) /\ slog' = mdir_patch(slog, e, 0)
                            /\ e.org = MaxLocal + 1 + Cardinality(Others(slog))
  BY <1>1, ForeignPatches DEF Others
<1>3. PICK org : org = e.org
  OBVIOUS
<1>4. AddsOrg(slog, slog', org)
  BY <1>1, <1>2, <1>3, PatchAddsOrg
<1>5. UNCHANGED <<answer, orphans, drafts, tmp, nextLocal, commands, up, down, link>>
  BY DEF ForeignPatch, files, memory, refusals, net
<1>6. org \in Nat /\ org > MaxLocal /\ Cardinality(Others(slog)) \in Nat
  <2>1. DOMAIN slog = 1 .. Len(slog) /\ Len(slog) \in Nat
    BY <1>1
  <2>2. IsFiniteSet(1 .. Len(slog)) /\ Others(slog) \subseteq 1 .. Len(slog)
    BY <2>1, FS_Interval DEF Others
  <2>3. Cardinality(Others(slog)) \in Nat
    BY <2>2, FS_Subset, FS_CardinalityType
  <2> QED
    BY <1>2, <1>3, <2>3, MdSyncAssumption
<1>7. ~RecordedIn(slog, org)
  BY <1>1, <1>2, <1>3, <1>6, MdSyncAssumption DEF RecordedIn, Numbered
<1>8. Unique(slog') /\ Numbered(slog')
  BY <1>1, <1>2, <1>3, <1>4, <1>7, AddRecorded, AddNumbered
<1>9. \A n : RecordedIn(slog', n) <=> RecordedIn(slog, n) \/ n = org
  BY <1>4, AddRecorded
<1>10. nextLocal \in Nat /\ nextLocal <= org /\ \A f \in tmp \cup drafts : f.id \in Nat
  BY <1>1, <1>6, MdSyncAssumption DEF Numbers, TypeInv, FileTypes, RequestFile
<1>11. \A f \in tmp \cup drafts : f.id # org
  BY <1>1, <1>6, <1>10 DEF Numbers, TypeInv, FileTypes
<1>12. Numbers'
  <2>1. \A v \in 1 .. Len(slog') : slog'[v].org = org \/ \E w \in 1 .. Len(slog) : slog'[v].org = slog[w].org
    BY <1>4, AddRecorded
  <2> QED
    BY <1>1, <1>5, <1>6, <2>1 DEF Numbers
<1>13. \A c \in commands : c.kw # "sub" => c.id # org
  <2> SUFFICES ASSUME NEW c \in commands, c.kw # "sub" PROVE c.id # org
    OBVIOUS
  <2>1. PICK f \in tmp : c = FileCmd(f)
    BY <1>1 DEF CommandFiles
  <2> QED
    BY <1>11, <2>1 DEF FileCmd
<1>14. Fresh'
  <2>1. \A i \in 1 .. Len(up) : up[i].kw # "sub" => ~RecordedIn(slog', up[i].id)
    <3>1. \A i \in 1 .. Len(up) : up[i].kw # "sub" => up[i].id # org
      BY <1>1, <1>13 DEF Expected, Cmd
    <3> QED
      BY <1>1, <1>9, <3>1 DEF Fresh
  <2>2. \A f \in tmp \cup drafts : RecordedIn(slog', f.id) => FileCmd(f) \in commands
    BY <1>1, <1>9, <1>11 DEF Fresh
  <2> QED
    BY <1>5, <2>1, <2>2 DEF Fresh
<1> QED
  BY <1>1, <1>5, <1>8, <1>12, <1>14 DEF Unbroken, OneFile, CommandFiles

LEMMA UnbrokenStep ==
  ASSUME SyncInv, Unbroken, [Next]_vars PROVE Unbroken'
<1> SUFFICES ASSUME breaks' = 0 PROVE Unbroken'
  BY DEF Unbroken
<1>1. breaks \in Nat /\ ~LinkBreaks /\ ~ClientRestarts /\ ~SaveErrorFails
  BY DEF SyncInv, TypeInv, NetTypes, LinkBreaks, ClientRestarts, Disconnect, SaveErrorFails
<1>2. breaks = 0
  BY <1>1 DEF Next, Server, Client, Environment, vars, net, ServeQuery, SendAnswer, SendNextPatch, WriterSub,
     QuarantineEnds, WriterSend, finalize_sub, finalize_putrem, SaveError, patch_service, ApplyOne, ApplyEnd,
     mdir_patch_request, CreateTransient, ForeignPatch, ServeOrphan, LoseOrphan
<1>3. link /\ Len(orphans) = 0 /\ ~ServeOrphan /\ ~LoseOrphan
  <2>1. link /\ Len(orphans) = 0 /\ orphans \in Seq(QueryMsg)
    BY <1>2 DEF Unbroken, SyncInv, TypeInv, ServerTypes
  <2>2. orphans = <<>>
    BY <2>1
  <2> QED
    BY <2>1, <2>2 DEF ServeOrphan, LoseOrphan
<1>4. CASE UNCHANGED <<slog, answer, orphans, drafts, tmp, nextLocal, commands, up, down, link>>
  BY <1>2, <1>4 DEF Unbroken, Numbers, OneFile, CommandFiles, Fresh
<1>5. CASE ApplyOne
  <2>1. applying /\ CanApply
    BY <1>5 DEF ApplyOne
  <2>2. UNCHANGED <<slog, answer, orphans, drafts, tmp, nextLocal, commands, up, down, link>>
    BY <1>5, <2>1, HeadApplies DEF ApplyOne, server
  <2> QED
    BY <1>4, <2>2
<1>6. CASE WriterSub
  <2>1. PICK q : Sends(SubCmd, q) /\ q.kw = "sub"
    BY <1>6, WriterSubEffect DEF SyncInv
  <2> QED
    BY <1>2, <2>1, SendsUnbroken
<1>7. CASE \E f \in tmp : WriterSend(f)
  <2>1. PICK f \in tmp : WriterSend(f)
    BY <1>7
  <2>2. PICK c, q : Sends(c, q) /\ c = FileCmd(f)
    BY <2>1, WriterSendEffect DEF SyncInv, FileCmd
  <2> QED
    BY <1>2, <2>2, SendsUnbroken
<1>8. CASE mdir_patch_request("+", 0) \/ \E t \in DOMAIN clog : mdir_patch_request("-", t)
  BY <1>2, <1>8, RequestUnbroken
<1>9. \/ ServeQuery \/ SendAnswer \/ SendNextPatch \/ WriterSub \/ (\E f \in tmp : WriterSend(f))
      \/ finalize_sub \/ finalize_putrem \/ patch_service \/ ApplyOne \/ CreateTransient \/ ForeignPatch
      \/ mdir_patch_request("+", 0) \/ (\E t \in DOMAIN clog : mdir_patch_request("-", t))
      \/ UNCHANGED <<slog, answer, orphans, drafts, tmp, nextLocal, commands, up, down, link>>
  BY <1>1, <1>3 DEF Next, Server, Client, Environment, vars, server, files, memory, refusals, net, QuarantineEnds, SaveError, ApplyEnd
<1> QED
  BY <1>2, <1>4, <1>5, <1>6, <1>7, <1>8, <1>9, ServeUnbroken, AnswerUnbroken, SendPatchUnbroken,
     FinalizeUnbroken, ServiceUnbroken, CreateUnbroken, ForeignUnbroken

(* As long as no connection was lost and mdsyncc was not restarted, a      *)
(* request becomes at most one version of the mdir, also if the server     *)
(* reports a failure after it recorded the patch, whatever the threads,    *)
(* the other clients and the plugins do.  (Module MdView checks AtMostOnce *)
(* there; once a connection is lost it does not hold: the file of a query  *)
(* that was executed may be sent again.)                                   *)
THEOREM RecordedOnce == Spec => [](breaks = 0 => AtMostOnce)
<1>1. Init => Unbroken
  <2> SUFFICES ASSUME Init PROVE Unbroken
    OBVIOUS
  <2>1. /\ Len(slog) = 0 /\ Len(orphans) = 0 /\ Len(up) = 0 /\ Len(answer) = 0 /\ Len(down) = 0 /\ link
        /\ tmp = {} /\ drafts = {} /\ commands = {} /\ nextLocal = 1
    BY DEF Init, NoAnswer
  <2>2. nextLocal <= MaxLocal + 1
    BY <2>1, MdSyncAssumption
  <2> QED
    BY <2>1, <2>2 DEF Unbroken, Numbers, OneFile, CommandFiles, Fresh, Unique, Numbered
<1>2. SyncInv /\ Unbroken /\ [Next]_vars => Unbroken'
  BY UnbrokenStep
<1>3. SyncInv /\ Unbroken => (breaks = 0 => AtMostOnce)
  <2> SUFFICES ASSUME SyncInv, Unbroken, breaks = 0 PROVE AtMostOnce
    OBVIOUS
  <2>1. DOMAIN slog = 1 .. Len(slog) /\ Unique(slog)
    BY DEF SyncInv, TypeInv, ServerTypes, Unbroken
  <2> QED
    BY <2>1 DEF AtMostOnce, Unique
<1> QED
  BY <1>1, <1>2, <1>3, SyncInvariant, PTL DEF Spec

=============================================================================
