----------------------------- MODULE MailProofs -----------------------------
(***************************************************************************)
(* Theorems about the mail programs of module Mail, all of them at once:   *)
(* sendmail, smtpd with both its clients, and stribution, for every number *)
(* of mails, recipients, parts, rules and faults.                          *)
(***************************************************************************)
EXTENDS Mail, SequenceTheorems, TLAPS

-----------------------------------------------------------------------------
(* What the parts share: messages are only added to the folders.           *)

IsSeq(s) == \E S : s \in Seq(S)

Grows(a, b) ==
  /\ IsSeq(b) /\ Len(a) \in Nat /\ Len(b) \in Nat /\ Len(a) <= Len(b)
  /\ DOMAIN a = 1 .. Len(a) /\ DOMAIN b = 1 .. Len(b)
  /\ \A i \in 1 .. Len(a) : b[i] = a[i]

-----------------------------------------------------------------------------
(* stribution.                                                             *)

Pcs      == {"test", "lookup", "copy", "delete"}
Rulesets == {<<>>} \cup {Confs[n] : n \in DOMAIN Confs}
Thread   == [run : {"off", "run", "ended"}, cursor : Nat, done : Nat, conf : Rulesets, job : Nat, t : Nat,
             pc : Pcs, err : BOOLEAN]

(* A mark is on a message, and a configuration is one of those there are.  *)
BoxOk(box) ==
  /\ IsSeq(box)
  /\ \A i \in 1 .. Len(box) :
       /\ box[i].kind = "mark" => box[i].target \in 1 .. Len(box)
       /\ box[i].kind = "conf" => box[i].target \in DOMAIN Confs

(* The thread works on a message behind its cursor, with rules that it     *)
(* read before.                                                            *)
ThreadOk(st, box) ==
  /\ st \in Thread
  /\ st.job # 0 => st.run = "run" /\ st.job > st.cursor /\ st.job \in 1 .. Len(box) /\ st.t >= 1
  /\ st.job = 0 => st.done = st.cursor
  /\ \/ st.conf = <<>>
     \/ \E i \in 1 .. Len(box) :
          /\ i <= st.cursor /\ box[i].to = Owner /\ box[i].kind = "conf"
          /\ st.conf = Confs[box[i].target]

(* The body of Deletes, and the message that it looks at, for any folder.  *)
SubjectIn(box, v) == IF box[v].kind = "mark" THEN box[v].target ELSE v

DeletesIn(box, v) ==
  \E i \in 1 .. v - 1 :
    /\ box[i].to = Owner /\ box[i].kind = "conf"
    /\ \E t \in DOMAIN Confs[box[i].target] :
         LET test == Confs[box[i].target][t]
         IN  test.act = "delete" /\ box[SubjectIn(box, v)].mail \in test.when

FiledIn(f, v) == \E i \in 1 .. Len(f) : f[i].v = v

(* What is removed, or about to be, may be.                                *)
RemsOk(rs, st, box, f) ==
  /\ \A v \in rs : v \in 1 .. Len(box) /\ (DeletesIn(box, v) \/ FiledIn(f, v))
  /\ st.job # 0 /\ st.pc = "delete" => DeletesIn(box, st.job) \/ FiledIn(f, st.job)

(* What was filed lies behind the thread, which only goes forward.         *)
Past(e, st, sv) ==
  /\ st.run = "off" => e.v <= sv
  /\ st.run # "off" /\ st.job = 0 => e.v <= st.cursor
  /\ st.run # "off" /\ st.job # 0 =>
       \/ e.v < st.job
       \/ e.v = st.job /\ e.t < st.t
       \/ e.v = st.job /\ e.t = st.t /\ st.pc = "delete"

Once(f) == \A i, j \in 1 .. Len(f) : f[i] = f[j] => i = j

FiledOk(f, st, sv) ==
  /\ \A i \in 1 .. Len(f) : Past(f[i], st, sv)
  /\ Once(f)

StribInv ==
  /\ BoxOk(inbox) /\ ThreadOk(strib, inbox)
  /\ saved \in Nat /\ killed \in BOOLEAN
  /\ filed \in Seq([v : Nat, t : Nat])
  /\ RemsOk(rems, strib, inbox, filed)
  /\ ~ killed => FiledOk(filed, strib, saved)

-----------------------------------------------------------------------------
(* smtpd.                                                                  *)

Names   == Mails \cup OtherMails \cup Users \cup Strangers \cup {NoOne}
Kws   == {"none", "helo", "mail", "rcpt", "data", "body", "rset", "vrfy", "quit", "noop"}
Env   == [open : BOOLEAN, domain : BOOLEAN, from : Names, to : Names, mailbox : Names,
          mode : {"cmd", "body", "store", "answer"}, mail : Names, k : Nat]
Wire  == [t : {"none", "command", "answer"}, kw : Kws, arg : Names, status : Nat]

SmtpdTypes ==
  /\ env \in [Cnxs -> Env] /\ wire \in [Cnxs -> Wire]
  /\ faults \in Nat

(* The parts a thread has stored, and those of what is in a folder.        *)
PartsOf(e, st) == e.mode = "store" => \A k \in 1 .. e.k : <<e.mail, k>> \in st

Whole(box, st) ==
  \A i \in 1 .. Len(box) : box[i].kind = "mail" => \A k \in 1 .. Parts : <<box[i].mail, k>> \in st

PartsInv == (\A c \in Cnxs : PartsOf(env[c], stored)) /\ Whole(inbox, stored)

(* The other client sends its own mails.                                   *)
OtherTalk(e, w) ==
  /\ e.mode \in {"store", "answer"} => e.mail \in OtherMails
  /\ w.t = "command" => (w.kw = "body" <=> e.mode = "body")
  /\ w.t = "command" /\ w.kw = "body" => w.arg \in OtherMails

-----------------------------------------------------------------------------
(* sendmail and its connection.                                            *)

Passes == {"sleep", "scan", "open", "failed", "quit"} \cup Dialogue
FwdSt  == [pc : Passes, i : Nat, k : Nat, asked : BOOLEAN]

SendmailTypes ==
  /\ tosend \in Seq([mail : Mails, gone : BOOLEAN])
  /\ cursor \in Nat
  /\ waiting \in Seq(Nat) /\ \A j \in 1 .. Len(waiting) : waiting[j] \in 1 .. Len(tosend)
  /\ delivered \in Seq([v : Nat, status : Nat])
  /\ \A j \in 1 .. Len(delivered) : delivered[j].v \in 1 .. Len(tosend)
  /\ fwd \in FwdSt /\ sock \in {"none", "open", "reset"}
  /\ sent \subseteq [mail : Mails, status : Nat]
  /\ fwd.pc \in Dialogue \cup {"open"} => fwd.i \in 1 .. Len(waiting)
  /\ ~ up => fwd = Idle /\ sock = "none" /\ waiting = <<>> /\ delivered = <<>>

Current == MailOf(waiting[fwd.i])

ArrivedIn(box, m) ==
  \E i \in 1 .. Len(box) : box[i].mail = m /\ box[i].from = m /\ box[i].to = Last(To[m])

(* Where smtpd is, for each place of the forwarder.                        *)
Lines(w, f, m) ==
  /\ w.t # "none" => f.pc \in Dialogue /\ f.asked
  /\ w.t = "none" => w = Silent
  /\ w.t = "command" =>
       /\ w.kw = f.pc
       /\ f.pc \in {"mail", "body"} => w.arg = m
       /\ f.pc = "rcpt" => w.arg = To[m][f.k]

Session(e, w, f, m) ==
  /\ f.pc = "mail" /\ w.t = "answer" /\ w.status = 250 => e.from = m
  /\ f.pc \in {"rcpt", "data", "body"} /\ e.open => e.from = m
  /\ f.pc = "rcpt" => f.k \in 1 .. Len(To[m])
  /\ f.pc = "rcpt" /\ w.t = "answer" =>
       w.status \notin {251, 252} /\ (w.status = 250 => e.mailbox = To[m][f.k])
  /\ f.pc \in {"data", "body"} /\ e.open => e.mailbox = Last(To[m])

Modes(e, w, f, m, box) ==
  /\ e.mode = "body" =>
       \/ f.pc = "data" /\ w.t = "answer" /\ w.status = 354
       \/ f.pc \in {"mail", "body"} /\ w.t # "answer"
       \/ f.pc \notin Dialogue
  /\ e.mode \in {"store", "answer"} => f.pc = "body" /\ f.asked /\ w.t = "none" /\ e.mail = m
  /\ e.mode = "answer" => ArrivedIn(box, m)
  /\ f.pc = "data" /\ w.t = "answer" => w.status # 250
  /\ f.pc = "body" /\ w.t = "answer" /\ w.status = 250 => ArrivedIn(box, m)

Talks(e, w, f, sk, m, box) ==
  /\ ~ e.open => e = Closed
  /\ sk = "none" => e = Closed /\ w = Silent
  /\ f.pc \in Dialogue => sk # "none"
  /\ Lines(w, f, m) /\ Session(e, w, f, m) /\ Modes(e, w, f, m, box)

(* What the acker files under Sent with success has arrived.               *)
SentOk ==
  /\ \A j \in 1 .. Len(delivered) : delivered[j].status = 250 => ArrivedIn(inbox, MailOf(delivered[j].v))
  /\ \A r \in sent : r.status = 250 => ArrivedIn(inbox, r.mail)

DeliverInv ==
  /\ SmtpdTypes /\ SendmailTypes /\ IsSeq(inbox)
  /\ PartsInv
  /\ Talks(env[Me], wire[Me], fwd, sock, Current, inbox)
  /\ SentOk

-----------------------------------------------------------------------------
(* One copy.                                                               *)

Unlike(s) == \A i, j \in 1 .. Len(s) : s[i] = s[j] => i = j

(* Every mail is in at most one list, behind the crawler, and leaves       *)
(* To_Send when the acker has asked for it.                                *)
Tracked ==
  /\ \A v, w \in 1 .. Len(tosend) : MailOf(v) = MailOf(w) => v = w
  /\ \A j \in 1 .. Len(waiting) : waiting[j] <= cursor /\ waiting[j] \notin delreq
  /\ \A j \in 1 .. Len(delivered) : delivered[j].v <= cursor
  /\ Unlike(waiting)
  /\ \A i, j \in 1 .. Len(delivered) : delivered[i].v = delivered[j].v => i = j
  /\ \A i \in 1 .. Len(waiting), j \in 1 .. Len(delivered) : waiting[i] # delivered[j].v
  /\ \A j \in 1 .. Len(delivered) : delivered[j].v \in delreq => j = 1 /\ acker = "copy"
  /\ \A v \in delreq : v \in Nat /\ v <= cursor
  /\ \A v \in 1 .. Len(tosend) : tosend[v].gone => v \in delreq

IsOurs(x) == x.mail \in Mails

(* smtpd has requested the message of the mail at hand.                    *)
Answered == fwd.pc = "body" /\ (env[Me].mode = "answer" \/ wire[Me].t = "answer")

(* A mail that has still to be sent.                                       *)
Pending(v) == \E j \in 1 .. Len(waiting) : waiting[j] = v /\ ~ (Answered /\ j = fwd.i)

(* A mail that arrived has been sent, and is in the folders once.          *)
Single ==
  /\ \A i \in 1 .. Len(inbox) : IsOurs(inbox[i]) =>
       \E v \in 1 .. Len(tosend) : MailOf(v) = inbox[i].mail /\ v <= cursor /\ ~ Pending(v)
  /\ \A i, j \in 1 .. Len(inbox) : IsOurs(inbox[i]) /\ inbox[i].mail = inbox[j].mail => i = j

Copies ==
  /\ sock # "none" => sock = "open" /\ env[Me].open
  /\ Tracked /\ Single

(* The connection to filed lasts.                                          *)
Linked == up => "filed" \in alive

CopyInv == OtherTalk(env["other"], wire["other"]) /\ (faults = 0 => Copies /\ Linked)

-----------------------------------------------------------------------------
(* Facts about folders and sequences.                                      *)

(* A sequence has the indices it should have.                              *)
LEMMA SeqLen ==
  ASSUME NEW s, IsSeq(s)
  PROVE  Len(s) \in Nat /\ DOMAIN s = 1 .. Len(s)
BY DEF IsSeq

(* A message is appended.                                                  *)
LEMMA AppendGrows ==
  ASSUME NEW s, NEW e, IsSeq(s)
  PROVE  /\ Grows(s, Append(s, e)) /\ IsSeq(Append(s, e))
         /\ Len(s) \in Nat /\ Len(Append(s, e)) = Len(s) + 1
         /\ Append(s, e)[Len(s) + 1] = e
<1>1. PICK S : s \in Seq(S)
  BY DEF IsSeq
<1> DEFINE T == S \cup {e}
<1>2. s \in Seq(T) /\ e \in T
  <2>1. \A i \in 1 .. Len(s) : s[i] \in T
    BY <1>1
  <2> QED
    BY <1>1, <2>1, SeqDef, LenProperties
<1> HIDE DEF T
<1>3. Append(s, e) \in Seq(T)
  BY <1>2
<1>4. /\ Len(Append(s, e)) = Len(s) + 1 /\ Len(s) \in Nat
      /\ \A i \in 1 .. Len(s) : Append(s, e)[i] = s[i]
      /\ Append(s, e)[Len(s) + 1] = e
      /\ DOMAIN s = 1 .. Len(s) /\ DOMAIN Append(s, e) = 1 .. Len(Append(s, e))
  BY <1>2, <1>3
<1>5. IsSeq(Append(s, e))
  BY <1>3 DEF IsSeq
<1> QED
  BY <1>4, <1>5 DEF Grows

(* A folder that does not change grows by nothing.                         *)
LEMMA SameGrows ==
  ASSUME NEW s, IsSeq(s) PROVE Grows(s, s)
BY SeqLen DEF Grows

(* A message with a sound target is appended.                              *)
LEMMA BoxAppend ==
  ASSUME NEW box, NEW e, BoxOk(box),
         e.kind = "mark" => e.target \in 1 .. Len(box),
         e.kind = "conf" => e.target \in DOMAIN Confs
  PROVE  BoxOk(Append(box, e))
<1>1. IsSeq(box)
  BY DEF BoxOk
<1> DEFINE b == Append(box, e)
<1>2. /\ IsSeq(b) /\ Len(box) \in Nat /\ Len(b) = Len(box) + 1 /\ b[Len(box) + 1] = e
      /\ \A i \in 1 .. Len(box) : b[i] = box[i]
  BY <1>1, AppendGrows DEF Grows
<1> HIDE DEF b
<1>3. ASSUME NEW i \in 1 .. Len(b)
      PROVE  /\ b[i].kind = "mark" => b[i].target \in 1 .. Len(b)
             /\ b[i].kind = "conf" => b[i].target \in DOMAIN Confs
  <2>1. CASE i = Len(box) + 1
    BY <1>2, <2>1
  <2>2. CASE i # Len(box) + 1
    <3>1. i \in 1 .. Len(box) /\ b[i] = box[i]
      BY <1>2, <2>2
    <3> QED
      BY <1>2, <3>1 DEF BoxOk
  <2> QED
    BY <2>1, <2>2
<1>4. BoxOk(b)
  BY <1>2, <1>3 DEF BoxOk
<1> QED
  BY <1>4 DEF b

-----------------------------------------------------------------------------
(* stribution while the folder grows.                                      *)

(* The rules of the thread stay where they were read.                      *)
LEMMA ThreadGrows ==
  ASSUME NEW st, NEW a, NEW b, ThreadOk(st, a), Grows(a, b)
  PROVE  ThreadOk(st, b)
<1>1. /\ Len(a) \in Nat /\ Len(b) \in Nat /\ Len(a) <= Len(b)
      /\ \A i \in 1 .. Len(a) : i \in 1 .. Len(b) /\ b[i] = a[i]
  BY DEF Grows
<1>2. st.job # 0 => st.run = "run" /\ st.job > st.cursor /\ st.job \in 1 .. Len(b) /\ st.t >= 1
  BY <1>1 DEF ThreadOk
<1>3. \/ st.conf = <<>>
      \/ \E i \in 1 .. Len(b) :
          /\ i <= st.cursor /\ b[i].to = Owner /\ b[i].kind = "conf"
          /\ st.conf = Confs[b[i].target]
  BY <1>1 DEF ThreadOk
<1> QED
  BY <1>2, <1>3 DEF ThreadOk

(* A rule to delete a message stays one.                                   *)
LEMMA DeletesGrows ==
  ASSUME NEW a, NEW b, BoxOk(a), Grows(a, b), NEW v \in 1 .. Len(a), DeletesIn(a, v)
  PROVE  DeletesIn(b, v)
<1>1. /\ Len(a) \in Nat
      /\ \A i \in 1 .. Len(a) : b[i] = a[i]
  BY DEF Grows
<1>2. SubjectIn(a, v) \in 1 .. Len(a) /\ SubjectIn(b, v) = SubjectIn(a, v)
  BY <1>1 DEF SubjectIn, BoxOk
<1>3. b[SubjectIn(b, v)] = a[SubjectIn(a, v)]
  BY <1>1, <1>2
<1>4. PICK i \in 1 .. v - 1 :
        /\ a[i].to = Owner /\ a[i].kind = "conf"
        /\ \E t \in DOMAIN Confs[a[i].target] :
             /\ Confs[a[i].target][t].act = "delete"
             /\ a[SubjectIn(a, v)].mail \in Confs[a[i].target][t].when
  BY DEF DeletesIn
<1>5. b[i] = a[i]
  BY <1>1
<1> QED
  BY <1>3, <1>4, <1>5 DEF DeletesIn

(* Removals stay justified.                                                *)
LEMMA RemsGrows ==
  ASSUME NEW rs, NEW st, NEW a, NEW b, NEW f,
         BoxOk(a), ThreadOk(st, a), Grows(a, b), RemsOk(rs, st, a, f)
  PROVE  RemsOk(rs, st, b, f)
<1>1. Len(a) \in Nat /\ Len(b) \in Nat /\ Len(a) <= Len(b)
  BY DEF Grows
<1>2. ASSUME NEW v \in rs PROVE v \in 1 .. Len(b) /\ (DeletesIn(b, v) \/ FiledIn(f, v))
  <2>1. v \in 1 .. Len(a) /\ (DeletesIn(a, v) \/ FiledIn(f, v))
    BY DEF RemsOk
  <2> QED
    BY <1>1, <2>1, DeletesGrows
<1>3. ASSUME st.job # 0, st.pc = "delete" PROVE DeletesIn(b, st.job) \/ FiledIn(f, st.job)
  <2>1. st.job \in 1 .. Len(a) /\ (DeletesIn(a, st.job) \/ FiledIn(f, st.job))
    BY <1>3 DEF RemsOk, ThreadOk
  <2> QED
    BY <2>1, DeletesGrows
<1> QED
  BY <1>2, <1>3 DEF RemsOk

(* Other programs, and the owner of the folder, add messages to it.        *)
LEMMA StribGrows ==
  ASSUME StribInv, Grows(inbox, inbox'), BoxOk(inbox'), UNCHANGED <<strib, saved, filed, rems, killed>>
  PROVE  StribInv'
<1>1. /\ BoxOk(inbox) /\ ThreadOk(strib, inbox) /\ RemsOk(rems, strib, inbox, filed)
  BY DEF StribInv
<1>2. ThreadOk(strib, inbox') /\ RemsOk(rems, strib, inbox', filed)
  BY <1>1, ThreadGrows, RemsGrows
<1>3. ThreadOk(strib', inbox') /\ RemsOk(rems', strib', inbox', filed')
  BY <1>2
<1> QED
  BY <1>3 DEF StribInv

-----------------------------------------------------------------------------
(* The thread of stribution.                                               *)

(* A thread that does not run is sound in any folder.                      *)
LEMMA OffOk ==
  ASSUME NEW box PROVE ThreadOk(Off, box) /\ Off.job = 0 /\ Off.run = "off"
<1>1. Off \in Thread
  BY DEF Off, Thread, Pcs, Rulesets
<1> QED
  BY <1>1 DEF Off, ThreadOk

(* The thread is done with a message and waits for the next one.           *)
LEMMA MovesOn ==
  ASSUME NEW st \in Thread, NEW new \in Thread, NEW box, NEW rs, NEW sv,
         NEW f \in Seq([v : Nat, t : Nat]), Len(box) \in Nat, NEW v \in 1 .. Len(box),
         ThreadOk(st, box), st.run = "run",
         (st.job = 0 /\ v > st.cursor) \/ (st.job # 0 /\ st.job = v),
         new.run # "off", new.cursor = v, new.done = v, new.job = 0,
         \/ new.conf = st.conf
         \/ box[v].to = Owner /\ box[v].kind = "conf" /\ new.conf = Confs[box[v].target]
  PROVE  /\ ThreadOk(new, box)
         /\ RemsOk(rs, st, box, f) => RemsOk(rs, new, box, f)
         /\ FiledOk(f, st, sv) => FiledOk(f, new, sv)
<1>1. /\ st.cursor \in Nat /\ st.job \in Nat /\ v \in Nat
      /\ st.job # 0 => st.job > st.cursor
  BY DEF Thread, ThreadOk
<1>2. \/ new.conf = <<>>
      \/ \E i \in 1 .. Len(box) :
          /\ i <= new.cursor /\ box[i].to = Owner /\ box[i].kind = "conf"
          /\ new.conf = Confs[box[i].target]
  <2>1. CASE new.conf = st.conf
    <3>1. \A i \in 1 .. Len(box) : i <= st.cursor => i <= new.cursor
      BY <1>1
    <3> QED
      BY <2>1, <3>1 DEF ThreadOk
  <2>2. CASE box[v].to = Owner /\ box[v].kind = "conf" /\ new.conf = Confs[box[v].target]
    <3>1. v <= new.cursor
      BY <1>1
    <3> QED
      BY <2>2, <3>1
  <2> QED
    BY <2>1, <2>2
<1>3. ThreadOk(new, box)
  BY <1>2 DEF ThreadOk
<1>4. RemsOk(rs, st, box, f) => RemsOk(rs, new, box, f)
  BY DEF RemsOk
<1>5. ASSUME FiledOk(f, st, sv) PROVE FiledOk(f, new, sv)
  <2>1. ASSUME NEW i \in 1 .. Len(f) PROVE Past(f[i], new, sv)
    <3>1. f[i].v \in Nat /\ Past(f[i], st, sv)
      <4>1. f[i] \in [v : Nat, t : Nat]
        BY ElementOfSeq
      <4> QED
        BY <1>5, <4>1 DEF FiledOk
    <3>2. f[i].v <= new.cursor
      BY <1>1, <3>1 DEF Past
    <3> QED
      BY <3>2 DEF Past
  <2> QED
    BY <1>5, <2>1 DEF FiledOk
<1> QED
  BY <1>3, <1>4, <1>5

(* The thread goes on with its message: to the next test, or within one.   *)
LEMMA GoesAhead ==
  ASSUME NEW st \in Thread, NEW new \in Thread, NEW box, NEW rs, NEW sv,
         NEW f \in Seq([v : Nat, t : Nat]),
         ThreadOk(st, box), st.job # 0,
         new.run = st.run, new.cursor = st.cursor, new.done = st.done, new.job = st.job, new.conf = st.conf,
         new.t = st.t + 1 \/ (new.t = st.t /\ st.pc # "delete"),
         new.pc = "delete" => DeletesIn(box, st.job) \/ FiledIn(f, st.job)
  PROVE  /\ ThreadOk(new, box)
         /\ RemsOk(rs, st, box, f) => RemsOk(rs, new, box, f)
         /\ FiledOk(f, st, sv) => FiledOk(f, new, sv)
<1>1. st.t \in Nat /\ new.t \in Nat /\ st.run = "run" /\ new.t >= 1
  BY DEF Thread, ThreadOk
<1>2. ThreadOk(new, box)
  BY <1>1 DEF ThreadOk
<1>3. RemsOk(rs, st, box, f) => RemsOk(rs, new, box, f)
  BY DEF RemsOk
<1>4. ASSUME FiledOk(f, st, sv) PROVE FiledOk(f, new, sv)
  <2>1. ASSUME NEW i \in 1 .. Len(f) PROVE Past(f[i], new, sv)
    <3>1. f[i] \in [v : Nat, t : Nat]
      BY ElementOfSeq
    <3>2. f[i].v \in Nat /\ f[i].t \in Nat /\ Past(f[i], st, sv)
      BY <1>4, <3>1 DEF FiledOk
    <3>3. f[i].v < new.job \/ (f[i].v = new.job /\ f[i].t < new.t)
      BY <1>1, <3>2 DEF Past
    <3> QED
      BY <1>1, <3>3 DEF Past
  <2> QED
    BY <1>4, <2>1 DEF FiledOk
<1> QED
  BY <1>2, <1>3, <1>4

(* smdir_alloc goes on where smdir_free left off.                          *)
LEMMA StribAlloc == ASSUME StribInv, smdir_alloc PROVE StribInv'
<1>1. /\ strib.run = "off" /\ saved \in Nat /\ filed \in Seq([v : Nat, t : Nat])
      /\ strib' = [Off EXCEPT !.run = "run", !.cursor = saved, !.done = saved]
      /\ UNCHANGED <<inbox, saved, filed, rems, killed>>
  BY DEF StribInv, smdir_alloc, smtpd
<1>2. /\ strib' \in Thread /\ strib'.run = "run" /\ strib'.cursor = saved /\ strib'.done = saved
      /\ strib'.conf = <<>> /\ strib'.job = 0
  BY <1>1 DEF Off, Thread, Pcs, Rulesets
<1>3. ThreadOk(strib', inbox)
  BY <1>2 DEF ThreadOk
<1>4. RemsOk(rems, strib', inbox, filed)
  BY <1>2 DEF StribInv, RemsOk
<1>5. ASSUME FiledOk(filed, strib, saved) PROVE FiledOk(filed, strib', saved)
  <2>1. \A i \in 1 .. Len(filed) : Past(filed[i], strib', saved)
    BY <1>1, <1>2, <1>5 DEF FiledOk, Past
  <2> QED
    BY <1>5, <2>1 DEF FiledOk
<1>6. ThreadOk(strib', inbox') /\ RemsOk(rems', strib', inbox', filed')
  BY <1>1, <1>3, <1>4
<1>7. ~ killed' => FiledOk(filed', strib', saved')
  BY <1>1, <1>5 DEF StribInv
<1> QED
  BY <1>1, <1>6, <1>7 DEF StribInv

(* smdir_free saves the last version.                                      *)
LEMMA StribFree == ASSUME StribInv, smdir_free PROVE StribInv'
<1>1. /\ strib.run = "ended" /\ strib' = Off /\ saved' = strib.done
      /\ strib \in Thread /\ strib.job = 0 /\ strib.done = strib.cursor /\ strib.done \in Nat
      /\ filed \in Seq([v : Nat, t : Nat])
      /\ UNCHANGED <<inbox, filed, rems, killed>>
  BY DEF StribInv, smdir_free, smtpd, ThreadOk, Thread
<1>2. ThreadOk(strib', inbox') /\ strib'.job = 0 /\ strib'.run = "off"
  BY <1>1, OffOk
<1>3. RemsOk(rems', strib', inbox', filed')
  BY <1>1, <1>2 DEF StribInv, RemsOk
<1>4. ASSUME FiledOk(filed, strib, saved) PROVE FiledOk(filed, strib', saved')
  <2>1. \A i \in 1 .. Len(filed) : Past(filed[i], strib', saved')
    BY <1>1, <1>2, <1>4 DEF FiledOk, Past
  <2> QED
    BY <1>4, <2>1 DEF FiledOk
<1> QED
  BY <1>1, <1>2, <1>3, <1>4 DEF StribInv

(* The process ends without saving.                                        *)
LEMMA StribDies ==
  ASSUME StribInv, Dies, UNCHANGED <<inbox, saved, filed, rems>> PROVE StribInv'
<1>1. strib' = Off /\ killed' = TRUE
  BY DEF Dies
<1>2. ThreadOk(strib', inbox') /\ strib'.job = 0
  BY <1>1, OffOk
<1>3. RemsOk(rems', strib', inbox', filed')
  BY <1>2 DEF StribInv, RemsOk
<1> QED
  BY <1>1, <1>2, <1>3 DEF StribInv

(* The fields of a thread after each of its steps.                         *)
PassedSt(st, v) == [st EXCEPT !.cursor = v, !.done = v, !.job = 0, !.t = 0]
JobSt(st, v)    == [st EXCEPT !.done = v, !.job = v, !.t = 1, !.pc = "test"]

(* It passed a message.                                                    *)
LEMMA PassedFields ==
  ASSUME NEW st \in Thread, NEW v, v \in Nat, NEW new, new = PassedSt(st, v)
  PROVE  /\ new \in Thread /\ new.run = st.run /\ new.cursor = v /\ new.done = v
         /\ new.job = 0 /\ new.conf = st.conf
BY DEF Thread, PassedSt

(* It read a configuration.                                                *)
LEMMA ConfFields ==
  ASSUME NEW st \in Thread, NEW c \in Rulesets, NEW new, new = [st EXCEPT !.conf = c]
  PROVE  /\ new \in Thread /\ new.run = st.run /\ new.cursor = st.cursor /\ new.done = st.done
         /\ new.job = st.job /\ new.conf = c
BY DEF Thread

(* It ends, or goes on.                                                    *)
LEMMA RunFields ==
  ASSUME NEW st \in Thread, NEW r \in {"run", "ended"}, NEW new, new = [st EXCEPT !.run = r]
  PROVE  /\ new \in Thread /\ new.run = r /\ new.cursor = st.cursor /\ new.done = st.done
         /\ new.job = st.job /\ new.conf = st.conf
BY DEF Thread

(* It took a message up.                                                   *)
LEMMA JobFields ==
  ASSUME NEW st \in Thread, NEW v, v \in Nat, NEW new, new = JobSt(st, v)
  PROVE  /\ new \in Thread /\ new.run = st.run /\ new.cursor = st.cursor
         /\ new.job = v /\ new.t = 1 /\ new.pc = "test" /\ new.conf = st.conf
BY DEF Thread, Pcs, JobSt

(* It goes on to the next test.                                            *)
LEMMA NextFields ==
  ASSUME NEW st \in Thread, NEW new, new = [st EXCEPT !.t = @ + 1, !.pc = "test"]
  PROVE  /\ new \in Thread /\ new.run = st.run /\ new.cursor = st.cursor /\ new.done = st.done
         /\ new.job = st.job /\ new.conf = st.conf /\ new.t = st.t + 1 /\ new.pc = "test"
<1>1. st.t + 1 \in Nat
  BY DEF Thread
<1>2. new = [st EXCEPT !.t = st.t + 1, !.pc = "test"]
  OBVIOUS
<1> QED
  BY <1>1, <1>2 DEF Thread, Pcs

(* It goes on within a test.                                               *)
LEMMA PcFields ==
  ASSUME NEW st \in Thread, NEW p \in Pcs, NEW new, new = [st EXCEPT !.pc = p]
  PROVE  /\ new \in Thread /\ new.run = st.run /\ new.cursor = st.cursor /\ new.done = st.done
         /\ new.job = st.job /\ new.conf = st.conf /\ new.t = st.t /\ new.pc = p
BY DEF Thread

(* It notes an error, or forgets it.                                       *)
LEMMA ErrFields ==
  ASSUME NEW st \in Thread, NEW b \in BOOLEAN, NEW new, new = [st EXCEPT !.err = b]
  PROVE  /\ new \in Thread /\ new.run = st.run /\ new.cursor = st.cursor /\ new.done = st.done
         /\ new.job = st.job /\ new.conf = st.conf /\ new.t = st.t /\ new.pc = st.pc
BY DEF Thread

(* process_put takes up a message, or passes it.                           *)
LEMMA StribPut == ASSUME StribInv, process_put PROVE StribInv'
<1>1. /\ strib.run = "run" /\ strib.job = 0 /\ strib \in Thread /\ ThreadOk(strib, inbox)
      /\ BoxOk(inbox) /\ filed \in Seq([v : Nat, t : Nat])
      /\ UNCHANGED <<inbox, saved, filed, rems>>
  BY DEF StribInv, process_put, smtpd, ThreadOk
<1>2. Len(inbox) \in Nat /\ DOMAIN inbox = 1 .. Len(inbox)
  BY <1>1, SeqLen DEF BoxOk
<1>3. PICK v \in 1 .. Len(inbox) :
        /\ IsNext(v)
        /\ \/ Dies
           \/ strib' = Passed(v) /\ UNCHANGED killed
           \/ /\ Subject(v) = v /\ inbox[v].kind = "conf" /\ UNCHANGED killed
              /\ strib' = [Passed(v) EXCEPT !.conf = Confs[inbox[v].target]]
           \/ /\ strib' = [strib EXCEPT !.done = v, !.job = v, !.t = 1, !.pc = "test"]
              /\ UNCHANGED killed
  <2>1. PICK v \in DOMAIN inbox :
          /\ IsNext(v)
          /\ LET s == Subject(v)
             IN  \/ /\ s \in erased
                    /\ Dies
                 \/ /\ s \notin erased /\ inbox[s].kind = "dir"
                    /\ strib' = Passed(v) /\ UNCHANGED killed
                 \/ /\ s \notin erased /\ inbox[s].kind = "conf"
                    /\ strib' = IF s = v THEN [Passed(v) EXCEPT !.conf = Confs[inbox[v].target]] ELSE Passed(v)
                    /\ UNCHANGED killed
                 \/ /\ s \notin erased /\ inbox[s].kind = "mail"
                    /\ strib' = [strib EXCEPT !.done = v, !.job = v, !.t = 1, !.pc = "test"]
                    /\ UNCHANGED killed
    BY DEF process_put
  <2> QED
    BY <1>2, <2>1
<1>4. v > strib.cursor /\ inbox[v].to = Owner /\ strib.cursor \in Nat /\ v \in Nat
  BY <1>1, <1>2, <1>3 DEF IsNext, Thread
<1>5. CASE Dies
  BY <1>1, <1>5, StribDies
<1>6. CASE killed' = killed /\ strib' \in Thread /\ strib'.run = "run" /\ strib'.cursor = v /\ strib'.done = v
           /\ strib'.job = 0 /\ (strib'.conf = strib.conf
                                 \/ (inbox[v].kind = "conf" /\ strib'.conf = Confs[inbox[v].target]))
  <2>1. /\ ThreadOk(strib', inbox)
        /\ RemsOk(rems, strib, inbox, filed) => RemsOk(rems, strib', inbox, filed)
        /\ FiledOk(filed, strib, saved) => FiledOk(filed, strib', saved)
    BY <1>1, <1>2, <1>4, <1>6, MovesOn
  <2> QED
    BY <1>1, <1>6, <2>1 DEF StribInv
<1>7. CASE strib' = Passed(v) /\ UNCHANGED killed
  <2>1. /\ strib' \in Thread /\ strib'.run = "run" /\ strib'.cursor = v /\ strib'.done = v
        /\ strib'.job = 0 /\ strib'.conf = strib.conf
    <3>1. strib' = PassedSt(strib, v)
      BY <1>7 DEF Passed, PassedSt
    <3>2. strib \in Thread /\ v \in Nat /\ strib.run = "run"
      BY <1>1, <1>4
    <3>3. /\ strib' \in Thread /\ strib'.run = strib.run /\ strib'.cursor = v /\ strib'.done = v
          /\ strib'.job = 0 /\ strib'.conf = strib.conf
      BY <3>1, <3>2, PassedFields
    <3> QED
      BY <3>2, <3>3
  <2> QED
    BY <1>6, <1>7, <2>1
<1>8. CASE /\ Subject(v) = v /\ inbox[v].kind = "conf" /\ UNCHANGED killed
           /\ strib' = [Passed(v) EXCEPT !.conf = Confs[inbox[v].target]]
  <2>1. Confs[inbox[v].target] \in Rulesets
    BY <1>1, <1>8 DEF BoxOk, Rulesets
  <2>2. /\ strib' \in Thread /\ strib'.run = "run" /\ strib'.cursor = v /\ strib'.done = v
        /\ strib'.job = 0 /\ strib'.conf = Confs[inbox[v].target]
    <3>1. /\ Passed(v) \in Thread /\ Passed(v).run = "run" /\ Passed(v).cursor = v /\ Passed(v).done = v
          /\ Passed(v).job = 0
      <4>1. Passed(v) = PassedSt(strib, v)
        BY DEF Passed, PassedSt
      <4>2. strib \in Thread /\ v \in Nat /\ strib.run = "run"
        BY <1>1, <1>4
      <4>3. /\ Passed(v) \in Thread /\ Passed(v).run = strib.run /\ Passed(v).cursor = v
            /\ Passed(v).done = v /\ Passed(v).job = 0 /\ Passed(v).conf = strib.conf
        BY <4>1, <4>2, PassedFields
      <4> QED
        BY <4>2, <4>3
    <3> QED
      BY <1>8, <2>1, <3>1, ConfFields
  <2> QED
    BY <1>6, <1>8, <2>2
<1>9. CASE /\ strib' = [strib EXCEPT !.done = v, !.job = v, !.t = 1, !.pc = "test"]
           /\ UNCHANGED killed
  <2>1. /\ strib' \in Thread /\ strib'.run = "run" /\ strib'.cursor = strib.cursor
        /\ strib'.job = v /\ strib'.t = 1 /\ strib'.pc = "test" /\ strib'.conf = strib.conf
    <3>1. strib' = JobSt(strib, v)
      BY <1>9 DEF JobSt
    <3> QED
      BY <1>1, <1>4, <3>1, JobFields
  <2>2. ThreadOk(strib', inbox)
    BY <1>1, <1>2, <1>4, <2>1 DEF ThreadOk
  <2>3. RemsOk(rems, strib', inbox, filed)
    BY <2>1 DEF StribInv, RemsOk
  <2>4. ASSUME FiledOk(filed, strib, saved) PROVE FiledOk(filed, strib', saved)
    <3>1. ASSUME NEW i \in 1 .. Len(filed) PROVE Past(filed[i], strib', saved)
      <4>1. filed[i] \in [v : Nat, t : Nat]
        BY <1>1, ElementOfSeq
      <4>2. filed[i].v \in Nat /\ filed[i].v <= strib.cursor
        BY <1>1, <2>4, <4>1 DEF FiledOk, Past
      <4>3. filed[i].v < strib'.job /\ strib'.job # 0
        BY <1>2, <1>4, <2>1, <4>2
      <4> QED
        BY <2>1, <4>3 DEF Past
    <3> QED
      BY <2>4, <3>1 DEF FiledOk
  <2> QED
    BY <1>1, <1>9, <2>2, <2>3, <2>4 DEF StribInv
<1> QED
  BY <1>3, <1>5, <1>7, <1>8, <1>9

(* A configuration is refused with a mark.                                 *)
LEMMA StribNewFails == ASSUME StribInv, strib_new_fails PROVE StribInv'
<1>1. /\ strib.run = "run" /\ strib.job = 0 /\ strib \in Thread /\ ThreadOk(strib, inbox)
      /\ BoxOk(inbox) /\ filed \in Seq([v : Nat, t : Nat]) /\ IsSeq(inbox)
      /\ UNCHANGED <<saved, filed, rems, killed>>
  BY DEF StribInv, strib_new_fails, ThreadOk, BoxOk
<1>2. Len(inbox) \in Nat /\ DOMAIN inbox = 1 .. Len(inbox)
  BY <1>1, SeqLen
<1>3. PICK v \in 1 .. Len(inbox) : IsNext(v) /\ strib' = Passed(v) /\ Note("mark", v)
  BY <1>2 DEF strib_new_fails
<1>4. v > strib.cursor /\ strib.cursor \in Nat /\ v \in Nat
  BY <1>1, <1>2, <1>3 DEF IsNext, Thread
<1>5. /\ strib' \in Thread /\ strib'.run = "run" /\ strib'.cursor = v /\ strib'.done = v
      /\ strib'.job = 0 /\ strib'.conf = strib.conf
  <2>1. strib' = PassedSt(strib, v)
    BY <1>3 DEF Passed, PassedSt
  <2>2. strib \in Thread /\ v \in Nat /\ strib.run = "run"
    BY <1>1, <1>4
  <2>3. /\ strib' \in Thread /\ strib'.run = strib.run /\ strib'.cursor = v /\ strib'.done = v
        /\ strib'.job = 0 /\ strib'.conf = strib.conf
    BY <2>1, <2>2, PassedFields
  <2> QED
    BY <2>2, <2>3
<1>6. /\ ThreadOk(strib', inbox)
      /\ RemsOk(rems, strib, inbox, filed) => RemsOk(rems, strib', inbox, filed)
      /\ FiledOk(filed, strib, saved) => FiledOk(filed, strib', saved)
  BY <1>1, <1>2, <1>4, <1>5, MovesOn
<1>7. Grows(inbox, inbox') /\ BoxOk(inbox')
  BY <1>1, <1>3, AppendGrows, BoxAppend DEF Note
<1>8. ThreadOk(strib', inbox') /\ RemsOk(rems, strib', inbox', filed)
  BY <1>1, <1>6, <1>7, ThreadGrows, RemsGrows DEF StribInv
<1> QED
  BY <1>1, <1>6, <1>7, <1>8 DEF StribInv

(* What the thread knows while it works on a message.                      *)
LEMMA AtWork ==
  ASSUME StribInv, NEW pc, Working(pc)
  PROVE  /\ strib.run = "run" /\ strib.job # 0 /\ strib.pc = pc /\ strib \in Thread /\ ThreadOk(strib, inbox)
         /\ BoxOk(inbox) /\ filed \in Seq([v : Nat, t : Nat]) /\ IsSeq(inbox)
         /\ strib.t \in Nat /\ strib.t >= 1 /\ strib.job \in 1 .. Len(inbox) /\ strib.job \in Nat
         /\ strib.cursor \in Nat /\ strib.cursor < strib.job
         /\ RemsOk(rems, strib, inbox, filed)
         /\ /\ Next_test \in Thread /\ Next_test.run = "run" /\ Next_test.cursor = strib.cursor
            /\ Next_test.done = strib.done /\ Next_test.job = strib.job /\ Next_test.conf = strib.conf
            /\ Next_test.t = strib.t + 1 /\ Next_test.pc = "test"
<1>1. /\ strib.run = "run" /\ strib.job # 0 /\ strib.pc = pc /\ strib \in Thread /\ ThreadOk(strib, inbox)
      /\ BoxOk(inbox) /\ filed \in Seq([v : Nat, t : Nat]) /\ IsSeq(inbox)
      /\ RemsOk(rems, strib, inbox, filed)
  BY DEF StribInv, Working, ThreadOk, BoxOk
<1>2. /\ strib.t \in Nat /\ strib.t >= 1 /\ strib.job \in 1 .. Len(inbox) /\ strib.job \in Nat
      /\ strib.cursor \in Nat /\ strib.cursor < strib.job
  BY <1>1 DEF ThreadOk, Thread
<1>3. /\ Next_test \in Thread /\ Next_test.run = strib.run /\ Next_test.cursor = strib.cursor
      /\ Next_test.done = strib.done /\ Next_test.job = strib.job /\ Next_test.conf = strib.conf
      /\ Next_test.t = strib.t + 1 /\ Next_test.pc = "test"
  BY <1>1, NextFields DEF Next_test
<1> QED
  BY <1>1, <1>2, <1>3

(* A test that deletes is one of a configuration that came before.         *)
LEMMA TestDeletes ==
  ASSUME StribInv, Working("test"), Test.act = "delete", inbox[Subject(strib.job)].mail \in Test.when
  PROVE  DeletesIn(inbox, strib.job)
<1>1. /\ strib.t \in Nat /\ strib.t >= 1 /\ strib.t <= Len(strib.conf)
      /\ strib.job \in 1 .. Len(inbox) /\ strib.job \in Nat
      /\ strib.cursor \in Nat /\ strib.cursor < strib.job /\ BoxOk(inbox) /\ ThreadOk(strib, inbox)
  BY AtWork DEF Working
<1>2. strib.conf # <<>>
  <2>1. Len(<<>>) = 0
    OBVIOUS
  <2> QED
    BY <1>1, <2>1
<1>3. PICK i \in 1 .. Len(inbox) :
        /\ i <= strib.cursor /\ inbox[i].to = Owner /\ inbox[i].kind = "conf"
        /\ strib.conf = Confs[inbox[i].target]
  BY <1>1, <1>2 DEF ThreadOk
<1>4. inbox[i].target \in DOMAIN Confs
  BY <1>1, <1>3 DEF BoxOk
<1>5. strib.conf \in Seq(Range(strib.conf))
  BY <1>3, <1>4, StributionAssumption
<1>6. strib.t \in DOMAIN Confs[inbox[i].target]
  <2>1. DOMAIN strib.conf = 1 .. Len(strib.conf) /\ Len(strib.conf) \in Nat
    BY <1>5, LenProperties
  <2> QED
    BY <1>1, <1>3, <2>1
<1>7. i \in 1 .. strib.job - 1
  BY <1>1, <1>3
<1>8. /\ Confs[inbox[i].target][strib.t].act = "delete"
      /\ inbox[SubjectIn(inbox, strib.job)].mail \in Confs[inbox[i].target][strib.t].when
  BY <1>3 DEF Test, Subject, SubjectIn
<1> QED
  BY <1>3, <1>6, <1>7, <1>8 DEF DeletesIn

(* strib_eval, with its three outcomes.                                    *)
LEMMA StribEval == ASSUME StribInv, strib_eval PROVE StribInv'
<1>1. Working("test") /\ UNCHANGED <<inbox, saved, filed, rems, killed>>
  BY DEF strib_eval, smtpd
<1>2. /\ strib \in Thread /\ strib.job # 0 /\ strib.pc = "test" /\ strib.run = "run" /\ ThreadOk(strib, inbox)
      /\ filed \in Seq([v : Nat, t : Nat])
  BY <1>1, AtWork
<1>3. \/ strib' = Next_test
      \/ /\ inbox[Subject(strib.job)].mail \in Test.when /\ Test.act = "delete"
         /\ strib' = [strib EXCEPT !.pc = "delete"]
      \/ strib' = [strib EXCEPT !.pc = "lookup"]
  BY DEF strib_eval
<1>4. /\ strib' \in Thread /\ strib'.run = strib.run /\ strib'.cursor = strib.cursor /\ strib'.done = strib.done
      /\ strib'.job = strib.job /\ strib'.conf = strib.conf
      /\ strib'.t = strib.t + 1 \/ (strib'.t = strib.t /\ strib.pc # "delete")
      /\ strib'.pc = "delete" => DeletesIn(inbox, strib.job) \/ FiledIn(filed, strib.job)
  <2>1. CASE strib' = Next_test
    BY <1>1, <1>2, <2>1, AtWork
  <2>2. CASE /\ inbox[Subject(strib.job)].mail \in Test.when /\ Test.act = "delete"
             /\ strib' = [strib EXCEPT !.pc = "delete"]
    <3>1. "delete" \in Pcs
      BY DEF Pcs
    <3>2. DeletesIn(inbox, strib.job)
      BY <1>1, <2>2, TestDeletes
    <3> QED
      BY <1>2, <2>2, <3>1, <3>2, PcFields
  <2>3. CASE strib' = [strib EXCEPT !.pc = "lookup"]
    <3>1. "lookup" \in Pcs
      BY DEF Pcs
    <3> QED
      BY <1>2, <2>3, <3>1, PcFields
  <2> QED
    BY <1>3, <2>1, <2>2, <2>3
<1>5. /\ ThreadOk(strib', inbox)
      /\ RemsOk(rems, strib, inbox, filed) => RemsOk(rems, strib', inbox, filed)
      /\ FiledOk(filed, strib, saved) => FiledOk(filed, strib', saved)
  BY <1>2, <1>4, GoesAhead
<1> QED
  BY <1>1, <1>5 DEF StribInv

(* do_copy_string may create the folder.                                   *)
LEMMA StribLookup == ASSUME StribInv, do_copy_string PROVE StribInv'
<1>1. Working("lookup") /\ UNCHANGED <<saved, filed, rems, killed>>
  BY DEF do_copy_string
<1>2. /\ strib \in Thread /\ strib.job # 0 /\ strib.pc = "lookup" /\ strib.run = "run" /\ ThreadOk(strib, inbox)
      /\ filed \in Seq([v : Nat, t : Nat]) /\ BoxOk(inbox) /\ IsSeq(inbox)
  BY <1>1, AtWork
<1>3. /\ strib' \in Thread /\ strib'.run = strib.run /\ strib'.cursor = strib.cursor /\ strib'.done = strib.done
      /\ strib'.job = strib.job /\ strib'.conf = strib.conf /\ strib'.t = strib.t /\ strib'.pc = "copy"
  <2> DEFINE mid == [strib EXCEPT !.pc = "copy"]
  <2>1. "copy" \in Pcs
    BY DEF Pcs
  <2>2. /\ mid \in Thread /\ mid.run = strib.run /\ mid.cursor = strib.cursor /\ mid.done = strib.done
        /\ mid.job = strib.job /\ mid.conf = strib.conf /\ mid.t = strib.t /\ mid.pc = "copy"
    BY <1>2, <2>1, PcFields
  <2>3. strib' = [mid EXCEPT !.err = FALSE]
    BY DEF do_copy_string
  <2> HIDE DEF mid
  <2> QED
    BY <2>2, <2>3, ErrFields
<1>4. /\ ThreadOk(strib', inbox)
      /\ RemsOk(rems, strib, inbox, filed) => RemsOk(rems, strib', inbox, filed)
      /\ FiledOk(filed, strib, saved) => FiledOk(filed, strib', saved)
  BY <1>2, <1>3, GoesAhead
<1>5. Grows(inbox, inbox') /\ BoxOk(inbox')
  <2>1. CASE inbox' = inbox
    BY <1>2, <2>1, SameGrows
  <2>2. CASE Note("dir", 0)
    BY <1>2, <2>2, AppendGrows, BoxAppend DEF Note
  <2> QED
    BY <2>1, <2>2 DEF do_copy_string
<1>6. ThreadOk(strib', inbox') /\ RemsOk(rems, strib', inbox', filed)
  BY <1>2, <1>4, <1>5, ThreadGrows, RemsGrows DEF StribInv
<1> QED
  BY <1>1, <1>4, <1>5, <1>6 DEF StribInv

(* A copy fails.                                                           *)
LEMMA StribCopyFails == ASSUME StribInv, CopyFails PROVE StribInv'
<1>1. Working("copy") /\ UNCHANGED <<inbox, saved, filed, rems, killed>>
  BY DEF CopyFails, smtpd
<1>2. /\ strib \in Thread /\ strib.job # 0 /\ ThreadOk(strib, inbox) /\ filed \in Seq([v : Nat, t : Nat])
      /\ Next_test \in Thread /\ Next_test.run = strib.run /\ Next_test.cursor = strib.cursor
      /\ Next_test.done = strib.done /\ Next_test.job = strib.job /\ Next_test.conf = strib.conf
      /\ Next_test.t = strib.t + 1 /\ Next_test.pc = "test"
  BY <1>1, AtWork
<1>3. strib' = [Next_test EXCEPT !.err = TRUE]
  BY DEF CopyFails
<1>4. /\ strib' \in Thread /\ strib'.run = strib.run /\ strib'.cursor = strib.cursor /\ strib'.done = strib.done
      /\ strib'.job = strib.job /\ strib'.conf = strib.conf /\ strib'.t = strib.t + 1 /\ strib'.pc = "test"
  BY <1>2, <1>3, ErrFields
<1>5. /\ ThreadOk(strib', inbox)
      /\ RemsOk(rems, strib, inbox, filed) => RemsOk(rems, strib', inbox, filed)
      /\ FiledOk(filed, strib, saved) => FiledOk(filed, strib', saved)
  BY <1>2, <1>4, GoesAhead
<1> QED
  BY <1>1, <1>5 DEF StribInv

(* do_delete asks for the removal of a message that may be removed.        *)
LEMMA StribDelete == ASSUME StribInv, do_delete PROVE StribInv'
<1>1. Working("delete") /\ UNCHANGED <<inbox, saved, filed, killed>> /\ strib' = Next_test
      /\ rems' = rems \cup {strib.job}
  BY DEF do_delete, smtpd
<1>2. /\ strib \in Thread /\ strib.job # 0 /\ ThreadOk(strib, inbox) /\ filed \in Seq([v : Nat, t : Nat])
      /\ strib.pc = "delete" /\ strib.job \in 1 .. Len(inbox) /\ RemsOk(rems, strib, inbox, filed)
      /\ strib' \in Thread /\ strib'.run = strib.run /\ strib'.cursor = strib.cursor
      /\ strib'.done = strib.done /\ strib'.job = strib.job /\ strib'.conf = strib.conf
      /\ strib'.t = strib.t + 1 /\ strib'.pc = "test"
  BY <1>1, AtWork
<1>3. /\ ThreadOk(strib', inbox)
      /\ RemsOk(rems, strib, inbox, filed) => RemsOk(rems, strib', inbox, filed)
      /\ FiledOk(filed, strib, saved) => FiledOk(filed, strib', saved)
  BY <1>2, GoesAhead
<1>4. RemsOk(rems', strib', inbox, filed)
  BY <1>1, <1>2 DEF RemsOk
<1> QED
  BY <1>1, <1>3, <1>4 DEF StribInv

(* A copy is filed: no earlier one has its message and test.               *)
LEMMA StribCopy == ASSUME StribInv, CopyObject PROVE StribInv'
<1> DEFINE e == [v |-> strib.job, t |-> strib.t]
           f == Append(filed, e)
<1>1. /\ Working("copy") /\ UNCHANGED <<inbox, saved, rems, killed>> /\ filed' = f
      /\ strib' = Next_test \/ strib' = [strib EXCEPT !.pc = "delete"]
  BY DEF CopyObject, smtpd
<1>2. /\ strib \in Thread /\ strib.job # 0 /\ ThreadOk(strib, inbox) /\ filed \in Seq([v : Nat, t : Nat])
      /\ strib.pc = "copy" /\ strib.job \in Nat /\ strib.t \in Nat /\ strib.run = "run"
      /\ RemsOk(rems, strib, inbox, filed)
  BY <1>1, AtWork
<1>3. /\ strib' \in Thread /\ strib'.run = strib.run /\ strib'.cursor = strib.cursor
      /\ strib'.done = strib.done /\ strib'.job = strib.job /\ strib'.conf = strib.conf
      /\ \/ strib'.t = strib.t + 1
         \/ strib'.t = strib.t /\ strib'.pc = "delete"
  <2>1. CASE strib' = Next_test
    BY <1>1, <1>2, <2>1, AtWork
  <2>2. CASE strib' = [strib EXCEPT !.pc = "delete"]
    <3>1. "delete" \in Pcs
      BY DEF Pcs
    <3> QED
      BY <1>2, <2>2, <3>1, PcFields
  <2> QED
    BY <1>1, <2>1, <2>2
<1>4. /\ e \in [v : Nat, t : Nat] /\ e.v = strib.job /\ e.t = strib.t
  BY <1>2
<1> HIDE DEF e
<1>5. /\ f \in Seq([v : Nat, t : Nat]) /\ Len(filed) \in Nat /\ Len(f) = Len(filed) + 1
      /\ f[Len(filed) + 1] = e /\ \A i \in 1 .. Len(filed) : f[i] = filed[i]
  BY <1>2, <1>4
<1> HIDE DEF f
<1>6. strib'.t \in Nat /\ strib'.t >= 1
  BY <1>2, <1>3 DEF ThreadOk, Thread
<1>7. ThreadOk(strib', inbox)
  BY <1>2, <1>3, <1>6 DEF ThreadOk
<1>8. \A v : FiledIn(filed, v) \/ v = strib.job => FiledIn(f, v)
  <2>1. Len(filed) + 1 \in 1 .. Len(f) /\ \A i \in 1 .. Len(filed) : i \in 1 .. Len(f)
    BY <1>5
  <2> QED
    BY <1>4, <1>5, <2>1 DEF FiledIn
<1>9. RemsOk(rems, strib', inbox, f)
  BY <1>2, <1>3, <1>8 DEF RemsOk
<1>10. ASSUME FiledOk(filed, strib, saved) PROVE FiledOk(f, strib', saved)
  <2>1. ASSUME NEW i \in 1 .. Len(filed)
        PROVE  /\ filed[i].v \in Nat /\ filed[i].t \in Nat
               /\ filed[i].v < strib.job \/ (filed[i].v = strib.job /\ filed[i].t < strib.t)
    <3>1. filed[i] \in [v : Nat, t : Nat]
      BY <1>2, ElementOfSeq
    <3>2. Past(filed[i], strib, saved)
      BY <1>10 DEF FiledOk
    <3> QED
      BY <1>2, <3>1, <3>2 DEF Past
  <2>2. \A i \in 1 .. Len(filed) : filed[i] # e
    BY <1>2, <1>4, <2>1
  <2>3. ASSUME NEW i \in 1 .. Len(f) PROVE Past(f[i], strib', saved)
    <3>1. CASE i = Len(filed) + 1
      BY <1>2, <1>3, <1>4, <1>5, <3>1 DEF Past
    <3>2. CASE i # Len(filed) + 1
      <4>1. i \in 1 .. Len(filed) /\ f[i] = filed[i]
        BY <1>5, <3>2
      <4>2. f[i].v < strib'.job \/ (f[i].v = strib'.job /\ f[i].t < strib'.t)
        BY <1>2, <1>3, <2>1, <4>1
      <4> QED
        BY <1>2, <1>3, <4>2 DEF Past
    <3> QED
      BY <3>1, <3>2
  <2>4. Once(f)
    <3> SUFFICES ASSUME NEW i \in 1 .. Len(f), NEW j \in 1 .. Len(f), f[i] = f[j] PROVE i = j
      BY DEF Once
    <3>1. \A n \in 1 .. Len(f) : n = Len(filed) + 1 \/ n \in 1 .. Len(filed)
      BY <1>5
    <3>2. CASE i \in 1 .. Len(filed) /\ j \in 1 .. Len(filed)
      BY <1>5, <1>10, <3>2 DEF FiledOk, Once
    <3> QED
      BY <1>5, <2>2, <3>1, <3>2
  <2> QED
    BY <2>3, <2>4 DEF FiledOk
<1> QED
  BY <1>1, <1>5, <1>7, <1>9, <1>10 DEF StribInv

(* The thread is done with its message.                                    *)
LEMMA StribEnd == ASSUME StribInv, ProcessEnd PROVE StribInv'
<1>1. /\ strib.run = "run" /\ strib.job # 0 /\ strib \in Thread /\ ThreadOk(strib, inbox)
      /\ BoxOk(inbox) /\ IsSeq(inbox) /\ filed \in Seq([v : Nat, t : Nat])
      /\ UNCHANGED <<inbox, saved, filed, rems, killed>>
  BY DEF StribInv, ProcessEnd, smtpd, ThreadOk, BoxOk
<1>2. Len(inbox) \in Nat /\ strib.job \in 1 .. Len(inbox) /\ strib.job \in Nat
  BY <1>1, SeqLen DEF ThreadOk, Thread
<1> DEFINE mid == Passed(strib.job)
           r == IF strib.err THEN "ended" ELSE "run"
<1>3. /\ mid \in Thread /\ mid.cursor = strib.job /\ mid.done = strib.job
      /\ mid.job = 0 /\ mid.conf = strib.conf
  <2>1. mid = PassedSt(strib, strib.job) /\ strib \in Thread /\ strib.job \in Nat
    BY <1>1, <1>2 DEF Passed, PassedSt
  <2> HIDE DEF mid
  <2> QED
    BY <2>1, PassedFields
<1>4. strib' = [mid EXCEPT !.run = r] /\ r \in {"run", "ended"}
  BY DEF ProcessEnd
<1> HIDE DEF mid, r
<1>5. /\ strib' \in Thread /\ strib'.run = r /\ strib'.cursor = strib.job /\ strib'.done = strib.job
      /\ strib'.job = 0 /\ strib'.conf = strib.conf
  BY <1>3, <1>4, RunFields
<1>6. strib'.run # "off"
  BY <1>4, <1>5
<1>7. /\ ThreadOk(strib', inbox)
      /\ RemsOk(rems, strib, inbox, filed) => RemsOk(rems, strib', inbox, filed)
      /\ FiledOk(filed, strib, saved) => FiledOk(filed, strib', saved)
  BY <1>1, <1>2, <1>5, <1>6, MovesOn
<1> QED
  BY <1>1, <1>7 DEF StribInv

(* A step of stribution, of its user or of mdsyncc.                        *)
LEMMA StribStep == ASSUME StribInv, StribNext PROVE StribInv'
<1>0. BoxOk(inbox) /\ IsSeq(inbox) /\ Len(inbox) \in Nat /\ DOMAIN inbox = 1 .. Len(inbox)
  BY SeqLen DEF StribInv, BoxOk
<1>1. ASSUME NEW n \in DOMAIN Confs, Configure(n) PROVE StribInv'
  <2>1. UNCHANGED <<strib, saved, filed, rems, killed>> /\ Note("conf", n)
    BY <1>1 DEF Configure, stribution
  <2>2. Grows(inbox, inbox') /\ BoxOk(inbox')
    BY <1>0, <2>1, AppendGrows, BoxAppend DEF Note
  <2> QED
    BY <2>1, <2>2, StribGrows
<1>2. ASSUME NEW v \in DOMAIN inbox, mdir_mark(v) PROVE StribInv'
  <2>1. UNCHANGED <<strib, saved, filed, rems, killed>> /\ Note("mark", v)
    BY <1>2 DEF mdir_mark, stribution
  <2>2. Grows(inbox, inbox') /\ BoxOk(inbox')
    BY <1>0, <2>1, AppendGrows, BoxAppend DEF Note
  <2> QED
    BY <2>1, <2>2, StribGrows
<1>3. ASSUME NEW v \in DOMAIN inbox, Blank(v) PROVE StribInv'
  <2>1. UNCHANGED <<strib, saved, filed, rems, killed>> /\ inbox' = inbox
    BY <1>3 DEF Blank, smtpd
  <2> QED
    BY <1>0, <2>1, SameGrows, StribGrows
<1>4. CASE StribKilled
  BY <1>4, StribDies DEF StribKilled, smtpd
<1>5. CASE smdir_thread
  BY <1>5, StribPut, StribNewFails, StribEval, StribLookup, StribCopy, StribDelete, StribEnd DEF smdir_thread
<1> QED
  BY <1>1, <1>2, <1>3, <1>4, <1>5, StribAlloc, StribFree, StribCopyFails DEF StribNext

-----------------------------------------------------------------------------
(* What the other programs do to the folders.                              *)

(* sendmail puts nothing into a folder itself.                             *)
LEMMA SendmailBox == ASSUME SendmailNext PROVE inbox' = inbox
<1>1. ASSUME NEW m \in Mails, Submit(m) PROVE inbox' = inbox
  BY <1>1 DEF Submit, smtpd
<1>2. ASSUME NEW v \in DOMAIN tosend, Sync(v) \/ Withdraw(v) PROVE inbox' = inbox
  BY <1>2 DEF Sync, Withdraw, Gone, smtpd
<1>3. Ends => inbox' = inbox
  BY DEF Ends, Cut
<1>4. CASE Start \/ Killed
  BY <1>3, <1>4 DEF Start, Killed, smtpd
<1>5. CASE send_patch \/ CrawlerFails \/ FiledLost \/ FetchLost
  BY <1>3, <1>5 DEF send_patch, CrawlerFails, FiledLost, FetchLost, smtpd
<1>6. ASSUME NEW i \in DOMAIN waiting, TransferEnds(i) PROVE inbox' = inbox
  BY <1>6 DEF TransferEnds, smtpd
<1>7. \A s : Fails(s) => inbox' = inbox
  BY DEF Fails, smtpd
<1>8. CASE StartPass \/ transfers_done \/ may_open_connection \/ NoRelay
  BY <1>8 DEF StartPass, transfers_done, may_open_connection, NoRelay, smtpd
<1>9. CASE smtp_cmd \/ read_fails \/ LocalError \/ QuitFails
  BY <1>3, <1>7, <1>9 DEF smtp_cmd, read_fails, LocalError, QuitFails, smtpd
<1>10. CASE send_forward
  BY <1>10 DEF send_forward
<1>11. CASE may_close_connection
  BY <1>3, <1>11 DEF may_close_connection, Cut, smtpd
<1>12. CASE DelRequest \/ CopyRequest \/ AckerFails
  BY <1>3, <1>12 DEF DelRequest, CopyRequest, AckerFails, smtpd
<1> QED
  BY <1>1, <1>2, <1>4, <1>5, <1>6, <1>8, <1>9, <1>10, <1>11, <1>12 DEF SendmailNext, Forwarder

(* smtpd adds a message when it has stored all of it.                      *)
LEMMA SmtpdBox == ASSUME SmtpdNext PROVE inbox' = inbox \/ \E c \in Cnxs : PatchRequest(c)
<1>1. ASSUME NEW c \in Cnxs, serve_cnx(c) PROVE inbox' = inbox \/ PatchRequest(c)
  <2>1. CASE exec_helo(c) \/ exec_mail(c) \/ exec_rcpt(c) \/ exec_data(c)
    BY <2>1 DEF exec_helo, exec_mail, exec_rcpt, exec_data, Set
  <2>2. CASE exec_rset(c) \/ exec_vrfy(c) \/ exec_quit(c) \/ Unknown(c) \/ msg_tree_read(c)
    BY <2>2 DEF exec_rset, exec_vrfy, exec_quit, Unknown, msg_tree_read, Set
  <2>3. CASE store_file(c) \/ AnswerOk(c)
    BY <2>3 DEF store_file, AnswerOk, Set
  <2> QED
    BY <1>1, <2>1, <2>2, <2>3 DEF serve_cnx
<1>2. ASSUME NEW c \in Cnxs, ProcessFails(c) \/ LinkBreaks(c) PROVE inbox' = inbox
  BY <1>2 DEF ProcessFails, LinkBreaks, Cut
<1>3. CASE SmtpdDies \/ OtherClient
  BY <1>3 DEF SmtpdDies, Cut, OtherClient, OtherConnect, OtherSends
<1> QED
  BY <1>1, <1>2, <1>3 DEF SmtpdNext, SmtpdSteps

(* The folders, whatever happens.                                          *)
LEMMA StribInvStep == ASSUME StribInv, [MailNext]_mailvars PROVE StribInv'
<1>0. BoxOk(inbox) /\ IsSeq(inbox)
  BY DEF StribInv, BoxOk
<1>1. ASSUME inbox' = inbox, UNCHANGED stribution PROVE StribInv'
  BY <1>0, <1>1, SameGrows, StribGrows DEF stribution
<1>2. ASSUME NEW c \in Cnxs, PatchRequest(c), UNCHANGED stribution PROVE StribInv'
  <2> DEFINE e == [kind |-> "mail", to |-> env[c].mailbox, from |-> env[c].from,
                   mail |-> env[c].mail, target |-> 0]
  <2>1. inbox' = Append(inbox, e) /\ e.kind = "mail"
    BY <1>2 DEF PatchRequest
  <2> HIDE DEF e
  <2>2. Grows(inbox, inbox') /\ BoxOk(inbox')
    BY <1>0, <2>1, AppendGrows, BoxAppend
  <2> QED
    BY <1>2, <2>2, StribGrows DEF stribution
<1>3. CASE UNCHANGED mailvars
  BY <1>1, <1>3 DEF mailvars, smtpd
<1> QED
  BY <1>1, <1>2, <1>3, SendmailBox, SmtpdBox, StribStep DEF MailNext

(* What stribution removes it has filed, or a rule said to drop it, and it *)
(* files a message once per test, as long as it was not ended without      *)
(* saving: for any rules, marks and mails, whichever copies fail.          *)
THEOREM NothingMisfiled == MailSpec => []FiledOnce
<1>1. MailInit => StribInv
  <2> SUFFICES ASSUME MailInit PROVE StribInv
    OBVIOUS
  <2>1. /\ inbox = <<>> /\ strib = Off /\ saved = 0 /\ filed = <<>> /\ rems = {} /\ killed = FALSE
    BY DEF MailInit, SmtpdInit, StribInit
  <2>2. Len(<<>>) = 0 /\ <<>> \in Seq({}) /\ <<>> \in Seq([v : Nat, t : Nat])
    OBVIOUS
  <2>3. BoxOk(inbox)
    BY <2>1, <2>2 DEF BoxOk, IsSeq
  <2>4. ThreadOk(strib, inbox) /\ strib.job = 0
    BY <2>1, OffOk
  <2>5. RemsOk(rems, strib, inbox, filed) /\ FiledOk(filed, strib, saved)
    BY <2>1, <2>2, <2>4 DEF RemsOk, FiledOk, Once
  <2> QED
    BY <2>1, <2>2, <2>3, <2>4, <2>5 DEF StribInv
<1>2. StribInv => FiledOnce
  <2> SUFFICES ASSUME StribInv PROVE FiledOnce
    OBVIOUS
  <2>1. DOMAIN filed = 1 .. Len(filed)
    BY DEF StribInv
  <2>2. \A v \in rems : DeletesIn(inbox, v) \/ \E i \in DOMAIN filed : filed[i].v = v
    BY <2>1 DEF StribInv, RemsOk, FiledIn
  <2>3. \A v : DeletesIn(inbox, v) <=> Deletes(v)
    BY DEF DeletesIn, Deletes, IsConf, Subject, SubjectIn
  <2>4. ~ killed => \A i, j \in DOMAIN filed : filed[i] = filed[j] => i = j
    BY <2>1 DEF StribInv, FiledOk, Once
  <2> QED
    BY <2>2, <2>3, <2>4 DEF FiledOnce
<1> QED
  BY <1>1, <1>2, StribInvStep, PTL DEF MailSpec

-----------------------------------------------------------------------------
(* smtpd: what each step does to the connection it is on.                  *)

(* The records that are sent and kept.                                     *)
LEMMA RecordFacts ==
  /\ Closed \in Env /\ Closed.open = FALSE /\ Closed.mode = "cmd"
  /\ Opened \in Env /\ Opened.open = TRUE /\ Opened.mode = "cmd"
  /\ Silent \in Wire /\ Silent.t = "none"
<1>1. NoOne \in Names
  BY DEF Names
<1>2. Closed \in Env /\ Closed.open = FALSE /\ Closed.mode = "cmd"
  BY <1>1 DEF Closed, Env
<1>3. Opened \in Env /\ Opened.open = TRUE /\ Opened.mode = "cmd"
  BY <1>1 DEF Opened, Closed, Env
<1>4. Silent \in Wire /\ Silent.t = "none"
  BY <1>1 DEF Silent, Wire, Kws
<1> QED
  BY <1>2, <1>3, <1>4

(* An answer.                                                              *)
LEMMA StatusFields ==
  ASSUME NEW s \in Nat
  PROVE  Status(s) \in Wire /\ Status(s).t = "answer" /\ Status(s).status = s
BY DEF Status, Silent, Wire, Kws, Names

(* A command.                                                              *)
LEMMA CommandFields ==
  ASSUME NEW kw \in Kws, NEW arg \in Names
  PROVE  /\ Command(kw, arg) \in Wire /\ Command(kw, arg).t = "command"
         /\ Command(kw, arg).kw = kw /\ Command(kw, arg).arg = arg
BY DEF Command, Silent, Wire, Names

(* One connection changes, the other does not.                             *)
LEMMA SetAt ==
  ASSUME NEW S, NEW fn \in [Cnxs -> S], NEW c \in Cnxs, NEW x \in S,
         NEW g, g = [fn EXCEPT ![c] = x]
  PROVE  g \in [Cnxs -> S] /\ g[c] = x /\ \A d \in Cnxs : d # c => g[d] = fn[d]
OBVIOUS

(* A command w that is executed in the state e is answered with s.         *)
Executes(e, w, e2, s) ==
  /\ e.open /\ e.mode = "cmd" /\ w.t = "command"
  /\ e2 \in Env /\ e2.open = TRUE /\ s \in Nat
  /\ e2.mode = "cmd" \/ (e2.mode = "body" /\ w.kw = "data" /\ s = 354)
  /\ w.kw \in {"helo", "mail", "rcpt", "data", "rset", "vrfy"}
  /\ w.kw = "mail" /\ s = 250 => e2.from = w.arg
  /\ w.kw \in {"rcpt", "data"} => e2.from = e.from
  /\ w.kw = "rcpt" => s \notin {251, 252} /\ (s = 250 => e2.mailbox = w.arg)
  /\ w.kw = "data" => s # 250 /\ e2.mailbox = e.mailbox

Answers(c, e2, s) ==
  /\ env' = [env EXCEPT ![c] = e2] /\ wire' = [wire EXCEPT ![c] = Status(s)]
  /\ UNCHANGED <<stored, inbox, faults>>

(* The fields of the session after the commands that change them.          *)
LEMMA SessionFields ==
  ASSUME NEW e \in Env, NEW a \in Names
  PROVE  /\ LET h == [reset_state(e) EXCEPT !.domain = TRUE]
            IN  h \in Env /\ h.open = e.open /\ h.mode = e.mode
         /\ reset_state(e) \in Env /\ reset_state(e).open = e.open /\ reset_state(e).mode = e.mode
         /\ LET f == [e EXCEPT !.from = a]
            IN  f \in Env /\ f.open = e.open /\ f.mode = e.mode /\ f.from = a
         /\ LET t == set_forward_path(e, a)
            IN  /\ t \in Env /\ t.open = e.open /\ t.mode = e.mode /\ t.from = e.from
                /\ a \in Users => t.mailbox = a
         /\ LET b == [e EXCEPT !.mode = "body"]
            IN  b \in Env /\ b.open = e.open /\ b.mode = "body" /\ b.from = e.from /\ b.mailbox = e.mailbox
<1>1. NoOne \in Names
  BY DEF Names
<1>2. LET h == [reset_state(e) EXCEPT !.domain = TRUE]
      IN  h \in Env /\ h.open = e.open /\ h.mode = e.mode
  BY <1>1 DEF reset_state, Env
<1>3. reset_state(e) \in Env /\ reset_state(e).open = e.open /\ reset_state(e).mode = e.mode
  BY <1>1 DEF reset_state, Env
<1>4. LET f == [e EXCEPT !.from = a]
      IN  f \in Env /\ f.open = e.open /\ f.mode = e.mode /\ f.from = a
  BY DEF Env
<1>5. LET t == set_forward_path(e, a)
      IN  /\ t \in Env /\ t.open = e.open /\ t.mode = e.mode /\ t.from = e.from
          /\ a \in Users => t.mailbox = a
  BY <1>1 DEF Env, set_forward_path
<1>6. LET b == [e EXCEPT !.mode = "body"]
      IN  b \in Env /\ b.open = e.open /\ b.mode = "body" /\ b.from = e.from /\ b.mailbox = e.mailbox
  BY DEF Env
<1> QED
  BY <1>2, <1>3, <1>4, <1>5, <1>6

(* The commands.                                                           *)
LEMMA ExecFacts ==
  ASSUME SmtpdTypes, NEW c \in Cnxs,
         exec_helo(c) \/ exec_mail(c) \/ exec_rcpt(c) \/ exec_data(c) \/ exec_rset(c) \/ exec_vrfy(c)
  PROVE  \E e2, s : Executes(env[c], wire[c], e2, s) /\ Answers(c, e2, s)
<1> DEFINE e == env[c]
           w == wire[c]
<1>1. e \in Env /\ w \in Wire /\ w.arg \in Names /\ e.open \in BOOLEAN
  BY DEF SmtpdTypes, Env, Wire
<1>2. ASSUME NEW kw \in {"helo", "mail", "rcpt", "data", "rset", "vrfy"}, Asked(c, kw)
      PROVE  e.open = TRUE /\ e.mode = "cmd" /\ w.t = "command" /\ w.kw = kw
  BY <1>1, <1>2 DEF Asked
<1>3. \A x, s : Set(c, x) /\ answer(c, s) => Answers(c, x, s)
  BY DEF Set, answer, Answers
<1>4. CASE exec_helo(c)
  <2> DEFINE e2 == [reset_state(e) EXCEPT !.domain = TRUE]
  <2>1. Asked(c, "helo") /\ Answers(c, e2, 250)
    BY <1>3, <1>4 DEF exec_helo
  <2>2. e2 \in Env /\ e2.open = e.open /\ e2.mode = e.mode
    BY <1>1, SessionFields
  <2>0. e.open = TRUE /\ e.mode = "cmd" /\ w.t = "command" /\ w.kw = "helo" /\ e \in Env
    BY <1>1, <1>2, <2>1
  <2> HIDE DEF e2, e, w
  <2>3. Executes(e, w, e2, 250)
    BY <2>0, <2>2 DEF Executes
  <2> QED
    BY <2>1, <2>3 DEF e, w
<1>5. CASE exec_mail(c)
  <2>1. Asked(c, "mail")
    BY <1>5 DEF exec_mail
  <2>0. e.open = TRUE /\ e.mode = "cmd" /\ w.t = "command" /\ w.kw = "mail" /\ e \in Env
    BY <1>1, <1>2, <2>1
  <2>2. \/ \E s \in {500, 503} : Answers(c, e, s)
        \/ Answers(c, [e EXCEPT !.from = w.arg], 250)
    BY <1>3, <1>5 DEF exec_mail
  <2>3. LET f == [e EXCEPT !.from = w.arg]
        IN  f \in Env /\ f.open = e.open /\ f.mode = e.mode /\ f.from = w.arg
    BY <1>1, SessionFields
  <2> HIDE DEF e, w
  <2>4. \A s \in {500, 503} : Executes(e, w, e, s)
    BY <2>0 DEF Executes
  <2>5. Executes(e, w, [e EXCEPT !.from = w.arg], 250)
    BY <2>0, <2>3 DEF Executes
  <2> QED
    BY <2>2, <2>4, <2>5 DEF e, w
<1>6. CASE exec_rcpt(c)
  <2>1. Asked(c, "rcpt")
    BY <1>6 DEF exec_rcpt
  <2>0. e.open = TRUE /\ e.mode = "cmd" /\ w.t = "command" /\ w.kw = "rcpt" /\ e \in Env
    BY <1>1, <1>2, <2>1
  <2> DEFINE t == set_forward_path(e, w.arg)
             s2 == IF w.arg \in Users THEN 250 ELSE 550
  <2>2. \/ \E s \in {500, 503} : Answers(c, e, s)
        \/ Answers(c, t, s2)
    BY <1>3, <1>6 DEF exec_rcpt
  <2>3. /\ t \in Env /\ t.open = e.open /\ t.mode = e.mode /\ t.from = e.from
        /\ w.arg \in Users => t.mailbox = w.arg
    BY <1>1, SessionFields
  <2>4. s2 \in {250, 550} /\ (s2 = 250 => w.arg \in Users)
    OBVIOUS
  <2> HIDE DEF e, w, t, s2
  <2>5. \A s \in {500, 503} : Executes(e, w, e, s)
    BY <2>0 DEF Executes
  <2>6. Executes(e, w, t, s2)
    BY <2>0, <2>3, <2>4 DEF Executes
  <2> QED
    BY <2>2, <2>5, <2>6 DEF e, w
<1>7. CASE exec_data(c)
  <2>1. Asked(c, "data")
    BY <1>7 DEF exec_data
  <2>0. e.open = TRUE /\ e.mode = "cmd" /\ w.t = "command" /\ w.kw = "data" /\ e \in Env
    BY <1>1, <1>2, <2>1
  <2> DEFINE b == [e EXCEPT !.mode = "body"]
  <2>2. Answers(c, e, 503) \/ Answers(c, b, 354)
    BY <1>3, <1>7 DEF exec_data
  <2>3. b \in Env /\ b.open = e.open /\ b.mode = "body" /\ b.from = e.from /\ b.mailbox = e.mailbox
    BY <1>1, SessionFields
  <2> HIDE DEF e, w, b
  <2>4. Executes(e, w, e, 503)
    BY <2>0 DEF Executes
  <2>5. Executes(e, w, b, 354)
    BY <2>0, <2>3 DEF Executes
  <2> QED
    BY <2>2, <2>4, <2>5 DEF e, w
<1>8. CASE exec_rset(c)
  <2>1. Asked(c, "rset") /\ Answers(c, reset_state(e), 250)
    BY <1>3, <1>8 DEF exec_rset
  <2>2. reset_state(e) \in Env /\ reset_state(e).open = e.open /\ reset_state(e).mode = e.mode
    BY <1>1, SessionFields
  <2>0. e.open = TRUE /\ e.mode = "cmd" /\ w.t = "command" /\ w.kw = "rset" /\ e \in Env
    BY <1>1, <1>2, <2>1
  <2> HIDE DEF e, w
  <2>3. Executes(e, w, reset_state(e), 250)
    BY <2>0, <2>2 DEF Executes
  <2> QED
    BY <2>1, <2>3 DEF e, w
<1>9. CASE exec_vrfy(c)
  <2>1. Asked(c, "vrfy") /\ Answers(c, e, 451)
    BY <1>3, <1>9 DEF exec_vrfy
  <2>0. e.open = TRUE /\ e.mode = "cmd" /\ w.t = "command" /\ w.kw = "vrfy" /\ e \in Env
    BY <1>1, <1>2, <2>1
  <2> HIDE DEF e, w
  <2>2. Executes(e, w, e, 451)
    BY <2>0 DEF Executes
  <2> QED
    BY <2>1, <2>2 DEF e, w
<1> QED
  BY <1>4, <1>5, <1>6, <1>7, <1>8, <1>9

(* The steps of process_mail, on the connection alone.                     *)
Kept(e, e2) ==
  e2 \in Env /\ e2.open = e.open /\ e2.from = e.from /\ e2.mailbox = e.mailbox

Quits(e, w, e2, w2) ==
  /\ e.open /\ e.mode = "cmd" /\ w.t = "command" /\ w.kw \in {"quit", "noop"}
  /\ e2 = Closed /\ w2 \in {Silent, Status(221)}
  /\ UNCHANGED <<stored, inbox, faults>>

Reads(e, w, e2, w2) ==
  /\ e.open /\ e.mode = "body" /\ w.t = "command" /\ w.kw = "body"
  /\ Kept(e, e2) /\ e2.mode = "store" /\ e2.mail = w.arg /\ e2.k = 0 /\ w2 = Silent
  /\ UNCHANGED <<stored, inbox, faults>>

Stores(e, w, e2, w2) ==
  /\ e.mode = "store" /\ stored' = stored \cup {<<e.mail, e.k + 1>>}
  /\ Kept(e, e2) /\ e2.mode = "store" /\ e2.mail = e.mail /\ e2.k = e.k + 1 /\ w2 = w
  /\ UNCHANGED <<inbox, faults>>

Letter(e) == [kind |-> "mail", to |-> e.mailbox, from |-> e.from, mail |-> e.mail, target |-> 0]

Requests(e, w, e2, w2) ==
  /\ e.mode = "store" /\ e.k = Parts /\ inbox' = Append(inbox, Letter(e))
  /\ Kept(e, e2) /\ e2.mode = "answer" /\ e2.mail = e.mail /\ w2 = w
  /\ UNCHANGED <<stored, faults>>

Accepts(e, w, e2, w2) ==
  /\ e.mode = "answer" /\ Kept(e, e2) /\ e2.mode = "cmd" /\ w2 = Status(250)
  /\ UNCHANGED <<stored, inbox, faults>>

GivesUp(e, w, e2, w2) ==
  /\ e.mode = "store" /\ e2 = Closed /\ w2 = Status(451)
  /\ faults' = faults + 1 /\ UNCHANGED <<stored, inbox>>

Turn(e, w, e2, w2) ==
  \/ \E s : Executes(e, w, e2, s) /\ w2 = Status(s) /\ UNCHANGED <<stored, inbox, faults>>
  \/ Quits(e, w, e2, w2) \/ Reads(e, w, e2, w2) \/ Stores(e, w, e2, w2)
  \/ Requests(e, w, e2, w2) \/ Accepts(e, w, e2, w2) \/ GivesUp(e, w, e2, w2)

Delta(c, e2, w2) ==
  /\ env' = [env EXCEPT ![c] = e2] /\ wire' = [wire EXCEPT ![c] = w2]

ReadSt(e, a) == [e EXCEPT !.mode = "store", !.mail = a, !.k = 0]

(* The fields of a session whose mail was read.                            *)
LEMMA ReadFields ==
  ASSUME NEW e \in Env, NEW a \in Names
  PROVE  /\ Kept(e, ReadSt(e, a)) /\ ReadSt(e, a).mode = "store"
         /\ ReadSt(e, a).mail = a /\ ReadSt(e, a).k = 0
BY DEF Env, Kept, ReadSt

(* The fields of a session whose mail is processed.                        *)
LEMMA MailFields ==
  ASSUME NEW e \in Env
  PROVE  /\ LET s == [e EXCEPT !.k = e.k + 1]
            IN  Kept(e, s) /\ s.mode = e.mode /\ s.mail = e.mail /\ s.k = e.k + 1
         /\ LET q == [e EXCEPT !.mode = "answer"]
            IN  Kept(e, q) /\ q.mode = "answer" /\ q.mail = e.mail
         /\ LET t == [e EXCEPT !.mode = "cmd", !.mail = NoOne, !.k = 0]
            IN  Kept(e, t) /\ t.mode = "cmd"
<1>1. NoOne \in Names
  BY DEF Names
<1>3. LET s == [e EXCEPT !.k = e.k + 1]
      IN  Kept(e, s) /\ s.mode = e.mode /\ s.mail = e.mail /\ s.k = e.k + 1
  <2>1. e.k + 1 \in Nat
    BY DEF Env
  <2> QED
    BY <2>1 DEF Env, Kept
<1>4. LET q == [e EXCEPT !.mode = "answer"]
      IN  Kept(e, q) /\ q.mode = "answer" /\ q.mail = e.mail
  BY DEF Env, Kept
<1>5. LET t == [e EXCEPT !.mode = "cmd", !.mail = NoOne, !.k = 0]
      IN  Kept(e, t) /\ t.mode = "cmd"
  BY <1>1 DEF Env, Kept
<1> QED
  BY <1>3, <1>4, <1>5

(* Every step of a thread of smtpd is a turn.                              *)
LEMMA Turns ==
  ASSUME SmtpdTypes, NEW c \in Cnxs, serve_cnx(c) \/ ProcessFails(c)
  PROVE  \E e2 \in Env, w2 \in Wire : Delta(c, e2, w2) /\ Turn(env[c], wire[c], e2, w2)
<1> DEFINE e == env[c]
           w == wire[c]
<1>1. /\ e \in Env /\ w \in Wire /\ w.arg \in Names
      /\ env \in [Cnxs -> Env] /\ wire \in [Cnxs -> Wire]
  BY DEF SmtpdTypes, Wire
<1>2. wire' = wire => wire' = [wire EXCEPT ![c] = w]
  BY <1>1
<1>3. CASE exec_helo(c) \/ exec_mail(c) \/ exec_rcpt(c) \/ exec_data(c) \/ exec_rset(c) \/ exec_vrfy(c)
  <2>1. PICK e2, s : Executes(e, w, e2, s) /\ Answers(c, e2, s)
    BY <1>3, ExecFacts
  <2>2. e2 \in Env /\ Status(s) \in Wire
    BY <2>1, StatusFields DEF Executes
  <2>3. Delta(c, e2, Status(s)) /\ UNCHANGED <<stored, inbox, faults>>
    BY <2>1 DEF Delta, Answers
  <2> QED
    BY <2>1, <2>2, <2>3 DEF Turn
<1>4. CASE exec_quit(c) \/ Unknown(c)
  <2>1. /\ Delta(c, Closed, Status(221)) \/ Delta(c, Closed, Silent)
        /\ UNCHANGED <<stored, inbox, faults>>
        /\ e.open /\ e.mode = "cmd" /\ w.t = "command" /\ w.kw \in {"quit", "noop"}
    BY <1>4 DEF exec_quit, Unknown, Asked, Set, answer, Delta
  <2>2. Status(221) \in Wire /\ Silent \in Wire /\ Closed \in Env
    BY StatusFields, RecordFacts
  <2> QED
    BY <2>1, <2>2 DEF Turn, Quits
<1>5. CASE msg_tree_read(c)
  <2> DEFINE r == ReadSt(e, w.arg)
  <2>1. /\ Delta(c, r, Silent) /\ UNCHANGED <<stored, inbox, faults>>
        /\ e.open /\ e.mode = "body" /\ w.t = "command" /\ w.kw = "body"
    BY <1>5 DEF msg_tree_read, Set, Delta, ReadSt
  <2>2. Kept(e, r) /\ r.mode = "store" /\ r.mail = w.arg /\ r.k = 0
    <3>1. e \in Env /\ w.arg \in Names
      BY <1>1
    <3> HIDE DEF e, w
    <3> QED
      BY <3>1, ReadFields
  <2>3. r \in Env /\ Silent \in Wire
    BY <2>2, RecordFacts DEF Kept
  <2> HIDE DEF r
  <2> QED
    BY <2>1, <2>2, <2>3 DEF Turn, Reads
<1>6. CASE store_file(c)
  <2> DEFINE s == [e EXCEPT !.k = e.k + 1]
  <2>1. /\ Delta(c, s, w) /\ UNCHANGED <<inbox, faults>>
        /\ stored' = stored \cup {<<e.mail, e.k + 1>>} /\ e.mode = "store"
    BY <1>2, <1>6 DEF store_file, Delta
  <2>2. Kept(e, s) /\ s.mode = e.mode /\ s.mail = e.mail /\ s.k = e.k + 1
    BY <1>1, MailFields
  <2>3. s \in Env
    BY <2>2 DEF Kept
  <2> HIDE DEF s
  <2> QED
    BY <1>1, <2>1, <2>2, <2>3 DEF Turn, Stores
<1>7. CASE PatchRequest(c)
  <2> DEFINE q == [e EXCEPT !.mode = "answer"]
  <2>1. /\ Delta(c, q, w) /\ UNCHANGED <<stored, faults>>
        /\ inbox' = Append(inbox, Letter(e)) /\ e.mode = "store" /\ e.k = Parts
    BY <1>2, <1>7 DEF PatchRequest, Delta, Letter
  <2>2. Kept(e, q) /\ q.mode = "answer" /\ q.mail = e.mail
    BY <1>1, MailFields
  <2>3. q \in Env
    BY <2>2 DEF Kept
  <2> HIDE DEF q
  <2> QED
    BY <1>1, <2>1, <2>2, <2>3 DEF Turn, Requests
<1>8. CASE AnswerOk(c)
  <2> DEFINE t == [e EXCEPT !.mode = "cmd", !.mail = NoOne, !.k = 0]
  <2>1. Delta(c, t, Status(250)) /\ UNCHANGED <<stored, inbox, faults>> /\ e.mode = "answer"
    BY <1>8 DEF AnswerOk, Set, answer, Delta
  <2>2. Kept(e, t) /\ t.mode = "cmd"
    BY <1>1, MailFields
  <2>3. t \in Env /\ Status(250) \in Wire
    BY <2>2, StatusFields DEF Kept
  <2> HIDE DEF t
  <2> QED
    BY <2>1, <2>2, <2>3 DEF Turn, Accepts
<1>9. CASE ProcessFails(c)
  <2>1. /\ Delta(c, Closed, Status(451)) /\ UNCHANGED <<stored, inbox>>
        /\ faults' = faults + 1 /\ e.mode = "store"
    BY <1>9 DEF ProcessFails, answer, Delta
  <2>2. Closed \in Env /\ Status(451) \in Wire
    BY RecordFacts, StatusFields
  <2> QED
    BY <2>1, <2>2 DEF Turn, GivesUp
<1> QED
  BY <1>3, <1>4, <1>5, <1>6, <1>7, <1>8, <1>9 DEF serve_cnx

(* A turn on one connection.                                               *)
LEMMA DeltaFacts ==
  ASSUME SmtpdTypes, NEW c \in Cnxs, NEW e2 \in Env, NEW w2 \in Wire, Delta(c, e2, w2)
  PROVE  /\ env' \in [Cnxs -> Env] /\ wire' \in [Cnxs -> Wire]
         /\ env'[c] = e2 /\ wire'[c] = w2
         /\ \A d \in Cnxs : d # c => env'[d] = env[d] /\ wire'[d] = wire[d]
BY SetAt DEF SmtpdTypes, Delta

(* Connections that are cut.                                               *)
LEMMA CutFacts ==
  ASSUME SmtpdTypes, NEW cs, Cut(cs)
  PROVE  /\ env' \in [Cnxs -> Env] /\ wire' \in [Cnxs -> Wire]
         /\ \A c \in Cnxs : c \in cs => env'[c] = Closed /\ wire'[c] = Silent
         /\ \A c \in Cnxs : c \notin cs => env'[c] = env[c] /\ wire'[c] = wire[c]
         /\ UNCHANGED <<stored, inbox>>
<1>1. Closed \in Env /\ Silent \in Wire
  BY RecordFacts
<1> QED
  BY <1>1 DEF SmtpdTypes, Cut

(* What the other client does.                                             *)
LEMMA OtherFacts ==
  ASSUME SmtpdTypes, OtherClient
  PROVE  /\ UNCHANGED <<stored, inbox, faults>>
         /\ \E e2 \in Env, w2 \in Wire :
              /\ Delta("other", e2, w2)
              /\ \/ e2 = Opened /\ w2 = Silent
                 \/ /\ e2 = env["other"] /\ w2.t = "command"
                    /\ (w2.kw = "body") <=> (e2.mode = "body")
                    /\ w2.kw = "body" => w2.arg \in OtherMails
<1>1. /\ env \in [Cnxs -> Env] /\ wire \in [Cnxs -> Wire] /\ "other" \in Cnxs
      /\ env["other"] \in Env
  BY DEF SmtpdTypes, Cnxs
<1>2. CASE OtherConnect
  <2>1. Delta("other", Opened, Silent) /\ UNCHANGED <<stored, inbox, faults>>
    BY <1>2 DEF OtherConnect, Delta
  <2> QED
    BY <2>1, RecordFacts
<1>3. CASE OtherSends
  <2> DEFINE plain == {Command(kw, NoOne) : kw \in {"helo", "mail", "rcpt", "data", "rset", "vrfy", "quit", "noop"}}
             from  == {Command("mail", m) : m \in OtherMails}
             rcpt  == {Command("rcpt", u) : u \in Users \cup Strangers}
             body  == {Command("body", m) : m \in OtherMails}
  <2>1. PICK q \in plain \cup from \cup rcpt \cup body :
          /\ (q.kw = "body") <=> (env["other"].mode = "body")
          /\ wire' = [wire EXCEPT !["other"] = q]
    BY <1>3 DEF OtherSends
  <2>2. /\ q \in Wire /\ q.t = "command"
        /\ q.kw = "body" => q.arg \in OtherMails
    <3>1. CASE q \in plain
      <4>1. PICK kw \in {"helo", "mail", "rcpt", "data", "rset", "vrfy", "quit", "noop"} : q = Command(kw, NoOne)
        BY <3>1
      <4>2. kw \in Kws /\ NoOne \in Names /\ kw # "body"
        BY DEF Kws, Names
      <4> QED
        BY <4>1, <4>2, CommandFields
    <3>2. CASE q \in from
      <4>1. PICK m \in OtherMails : q = Command("mail", m)
        BY <3>2
      <4>2. "mail" \in Kws /\ m \in Names /\ "mail" # "body"
        BY DEF Kws, Names
      <4> QED
        BY <4>1, <4>2, CommandFields
    <3>3. CASE q \in rcpt
      <4>1. PICK u \in Users \cup Strangers : q = Command("rcpt", u)
        BY <3>3
      <4>2. "rcpt" \in Kws /\ u \in Names /\ "rcpt" # "body"
        BY DEF Kws, Names
      <4> QED
        BY <4>1, <4>2, CommandFields
    <3>4. CASE q \in body
      <4>1. PICK m \in OtherMails : q = Command("body", m)
        BY <3>4
      <4>2. "body" \in Kws /\ m \in Names
        BY DEF Kws, Names
      <4> QED
        BY <4>1, <4>2, CommandFields
    <3> QED
      BY <3>1, <3>2, <3>3, <3>4
  <2>3. env' = [env EXCEPT !["other"] = env["other"]] /\ UNCHANGED <<stored, inbox, faults>>
    BY <1>1, <1>3 DEF OtherSends
  <2> QED
    BY <1>1, <2>1, <2>2, <2>3 DEF Delta
<1> QED
  BY <1>2, <1>3 DEF OtherClient

-----------------------------------------------------------------------------
(* What is in a folder is whole.                                           *)

(* A message joins those in the folders.                                   *)
LEMMA WholeAppend ==
  ASSUME NEW box, NEW st, NEW x, IsSeq(box), Whole(box, st),
         x.kind = "mail" => \A k \in 1 .. Parts : <<x.mail, k>> \in st
  PROVE  Whole(Append(box, x), st)
<1>1. /\ Len(box) \in Nat /\ Len(Append(box, x)) = Len(box) + 1 /\ Append(box, x)[Len(box) + 1] = x
      /\ \A i \in 1 .. Len(box) : Append(box, x)[i] = box[i]
  BY AppendGrows DEF Grows
<1>2. \A i \in 1 .. Len(box) + 1 : i = Len(box) + 1 \/ i \in 1 .. Len(box)
  BY <1>1
<1> QED
  BY <1>1, <1>2 DEF Whole

(* One turn of smtpd.                                                      *)
LEMMA TurnParts ==
  ASSUME SmtpdTypes, PartsInv, IsSeq(inbox), NEW c \in Cnxs, NEW e2 \in Env, NEW w2 \in Wire,
         Delta(c, e2, w2), Turn(env[c], wire[c], e2, w2)
  PROVE  SmtpdTypes' /\ PartsInv' /\ IsSeq(inbox')
<1>1. /\ env' \in [Cnxs -> Env] /\ wire' \in [Cnxs -> Wire] /\ env'[c] = e2
      /\ \A d \in Cnxs : d # c => env'[d] = env[d]
  BY DeltaFacts
<1> DEFINE e == env[c]
           w == wire[c]
<1>2. e \in Env /\ e.k \in Nat /\ faults \in Nat /\ PartsOf(e, stored) /\ Whole(inbox, stored)
  BY DEF SmtpdTypes, PartsInv, Env
<1>3. faults' \in Nat
  BY <1>2 DEF Turn, Quits, Reads, Stores, Requests, Accepts, GivesUp
<1>4. SmtpdTypes'
  BY <1>1, <1>3 DEF SmtpdTypes
<1>5. ASSUME stored' = stored, inbox' = inbox, e2.mode # "store" PROVE PartsInv' /\ IsSeq(inbox')
  BY <1>1, <1>5 DEF PartsInv, PartsOf, Whole
<1>6. CASE \E s : Executes(e, w, e2, s) /\ w2 = Status(s) /\ UNCHANGED <<stored, inbox, faults>>
  BY <1>4, <1>5, <1>6 DEF Executes
<1>7. CASE Quits(e, w, e2, w2) \/ Accepts(e, w, e2, w2) \/ GivesUp(e, w, e2, w2)
  BY <1>4, <1>5, <1>7, RecordFacts DEF Quits, Accepts, GivesUp
<1>8. CASE Reads(e, w, e2, w2)
  <2>1. PartsOf(e2, stored)
    BY <1>8 DEF Reads, PartsOf
  <2> QED
    BY <1>1, <1>2, <1>4, <1>8, <2>1 DEF Reads, PartsInv
<1>9. CASE Stores(e, w, e2, w2)
  <2>1. /\ stored' = stored \cup {<<e.mail, e.k + 1>>} /\ e2.mail = e.mail /\ e2.k = e.k + 1 /\ e.mode = "store"
        /\ inbox' = inbox
    BY <1>9 DEF Stores
  <2>2. \A k \in 1 .. e.k + 1 : k = e.k + 1 \/ k \in 1 .. e.k
    BY <1>2
  <2>3. PartsOf(e2, stored')
    BY <1>2, <2>1, <2>2 DEF PartsOf
  <2>4. \A d \in Cnxs : d # c => PartsOf(env'[d], stored')
    BY <1>1, <2>1 DEF PartsInv, PartsOf
  <2>5. Whole(inbox', stored')
    BY <1>2, <2>1 DEF Whole
  <2> QED
    BY <1>1, <1>4, <2>1, <2>3, <2>4, <2>5 DEF PartsInv
<1>10. CASE Requests(e, w, e2, w2)
  <2>1. /\ e.mode = "store" /\ e.k = Parts /\ inbox' = Append(inbox, Letter(e)) /\ stored' = stored
        /\ e2.mode = "answer"
    BY <1>10 DEF Requests
  <2>2. Letter(e).mail = e.mail
    BY DEF Letter
  <2>3. \A k \in 1 .. Parts : <<Letter(e).mail, k>> \in stored
    BY <1>2, <2>1, <2>2 DEF PartsOf
  <2>4. Whole(inbox', stored') /\ IsSeq(inbox')
    BY <1>2, <2>1, <2>3, WholeAppend, AppendGrows
  <2>5. \A d \in Cnxs : PartsOf(env'[d], stored')
    BY <1>1, <2>1 DEF PartsInv, PartsOf
  <2> QED
    BY <1>4, <2>4, <2>5 DEF PartsInv
<1> QED
  BY <1>4, <1>6, <1>7, <1>8, <1>9, <1>10 DEF Turn

-----------------------------------------------------------------------------
(* The dialogue between sendmail and smtpd.                                *)

(* What has arrived stays.                                                 *)
LEMMA ArrivedGrows ==
  ASSUME NEW a, NEW b, NEW m, Grows(a, b), ArrivedIn(a, m)
  PROVE  ArrivedIn(b, m)
<1>1. \A i \in 1 .. Len(a) : i \in 1 .. Len(b) /\ b[i] = a[i]
  BY DEF Grows
<1> QED
  BY <1>1 DEF ArrivedIn

(* Neither end of the connection moves.                                    *)
LEMMA TalksFrame ==
  ASSUME NEW e, NEW w, NEW f, NEW sk, NEW m, NEW m2, NEW a, NEW b,
         Talks(e, w, f, sk, m, a), Grows(a, b), f.pc \in Dialogue => m2 = m
  PROVE  Talks(e, w, f, sk, m2, b)
<1>1. CASE f.pc \in Dialogue
  <2>1. m2 = m
    BY <1>1
  <2>2. Modes(e, w, f, m, b)
    BY ArrivedGrows DEF Talks, Modes
  <2> QED
    BY <2>1, <2>2 DEF Talks
<1>2. CASE f.pc \notin Dialogue
  <2>1. f.pc \notin {"helo", "mail", "rcpt", "data", "body"} /\ w.t = "none"
    BY <1>2 DEF Dialogue, Talks, Lines
  <2>2. Lines(w, f, m2) /\ Session(e, w, f, m2)
    BY <2>1 DEF Talks, Lines, Session
  <2>3. Modes(e, w, f, m2, b)
    BY <1>2, <2>1 DEF Talks, Modes
  <2> QED
    BY <2>2, <2>3 DEF Talks
<1> QED
  BY <1>1, <1>2

(* The forwarder is not in a dialogue, or leaves it.                       *)
LEMMA TalksLeave ==
  ASSUME NEW e, NEW f, NEW m, NEW box, NEW sk,
         ~ e.open => e = Closed, sk = "none" => e = Closed, e.mode \in {"cmd", "body"}, f.pc \notin Dialogue
  PROVE  Talks(e, Silent, f, sk, m, box)
<1>1. f.pc \notin {"helo", "mail", "rcpt", "data", "body"} /\ Silent.t = "none"
  BY RecordFacts DEF Dialogue
<1>2. Lines(Silent, f, m) /\ Session(e, Silent, f, m)
  BY <1>1 DEF Lines, Session
<1>3. Modes(e, Silent, f, m, box)
  BY <1>1 DEF Modes
<1> QED
  BY <1>1, <1>2, <1>3 DEF Talks, Dialogue

(* Outside a dialogue the line is silent and smtpd waits for a command, or *)
(* for the rest of a body.                                                 *)
LEMMA TalksQuiet ==
  ASSUME NEW e \in Env, NEW w, NEW f, NEW m, NEW box, NEW sk, Talks(e, w, f, sk, m, box),
         f.pc \notin Dialogue
  PROVE  w = Silent /\ e.mode \in {"cmd", "body"} /\ (~ e.open => e = Closed) /\ (sk = "none" => e = Closed)
<1>1. w.t = "none" /\ w = Silent
  BY DEF Talks, Lines
<1>2. e.mode \in {"cmd", "body", "store", "answer"}
  BY DEF Env
<1>3. f.pc \notin {"data", "body"}
  BY DEF Dialogue
<1> QED
  BY <1>1, <1>2, <1>3 DEF Talks, Modes

(* The connection is cut under the forwarder.                              *)
LEMMA TalksCut ==
  ASSUME NEW e, NEW w, NEW f, NEW m, NEW box, NEW sk, Talks(e, w, f, sk, m, box)
  PROVE  Talks(Closed, Silent, f, sk, m, box)
<1>1. Silent.t = "none" /\ Closed.open = FALSE /\ Closed.mode = "cmd"
  BY RecordFacts
<1>2. Lines(Silent, f, m) /\ Modes(Closed, Silent, f, m, box)
  BY <1>1 DEF Lines, Modes
<1>3. Session(Closed, Silent, f, m)
  BY <1>1 DEF Talks, Session
<1> QED
  BY <1>2, <1>3 DEF Talks

(* An answer that the dialogue accounts for.                               *)
Fits(e, e2, s, f, m, box) ==
  /\ e.open = TRUE /\ e2.open = TRUE /\ s \in Nat /\ f.pc \in Dialogue /\ f.asked
  /\ f.pc = "mail" /\ s = 250 => e2.from = m
  /\ f.pc \in {"rcpt", "data", "body"} => e2.from = e.from
  /\ f.pc = "rcpt" => s \notin {251, 252} /\ (s = 250 => e2.mailbox = To[m][f.k])
  /\ f.pc \in {"data", "body"} => e2.mailbox = e.mailbox
  /\ e2.mode = "cmd" \/ (e2.mode = "body" /\ f.pc = "data" /\ s = 354)
  /\ f.pc = "data" => s # 250
  /\ f.pc = "body" /\ s = 250 => ArrivedIn(box, m)

(* smtpd answers.                                                          *)
LEMMA TalksAnswered ==
  ASSUME NEW e, NEW w, NEW f, NEW m, NEW box, NEW sk, Talks(e, w, f, sk, m, box),
         NEW e2, NEW s, Fits(e, e2, s, f, m, box)
  PROVE  Talks(e2, Status(s), f, sk, m, box)
<1>1. Status(s).t = "answer" /\ Status(s).status = s
  BY StatusFields DEF Fits
<1>2. Lines(Status(s), f, m)
  BY <1>1 DEF Lines, Fits
<1>3. Session(e2, Status(s), f, m)
  BY <1>1 DEF Talks, Session, Fits
<1>4. Modes(e2, Status(s), f, m, box)
  BY <1>1 DEF Modes, Fits
<1>5. f.pc \in Dialogue => sk # "none"
  BY DEF Talks
<1> QED
  BY <1>2, <1>3, <1>4, <1>5 DEF Talks, Fits

(* Each turn of smtpd on the connection of sendmail.                       *)
LEMMA TalksTurn ==
  ASSUME NEW e \in Env, NEW w \in Wire, NEW f, NEW m, NEW sk, NEW e2, NEW w2, IsSeq(inbox),
         Talks(e, w, f, sk, m, inbox), Turn(e, w, e2, w2)
  PROVE  Talks(e2, w2, f, sk, m, inbox')
<1>0. /\ Silent.t = "none" /\ Closed.open = FALSE /\ Closed.mode = "cmd"
      /\ e.open \in BOOLEAN
  BY RecordFacts DEF Env
<1>1. ASSUME NEW s, Executes(e, w, e2, s), w2 = Status(s), inbox' = inbox
      PROVE  Talks(e2, w2, f, sk, m, inbox')
  <2>1. f.pc \in Dialogue /\ f.asked /\ w.kw = f.pc /\ w.t = "command"
    BY <1>1 DEF Executes, Talks, Lines
  <2>2. /\ f.pc \in {"mail", "body"} => w.arg = m
        /\ f.pc = "rcpt" => w.arg = To[m][f.k]
    BY <2>1 DEF Talks, Lines
  <2>3. f.pc # "body" /\ e.open = TRUE /\ s \in Nat /\ e2.open = TRUE
    BY <1>0, <1>1, <2>1 DEF Executes
  <2>4. /\ f.pc = "mail" /\ s = 250 => e2.from = m
        /\ f.pc \in {"rcpt", "data", "body"} => e2.from = e.from
        /\ f.pc = "rcpt" => s \notin {251, 252} /\ (s = 250 => e2.mailbox = To[m][f.k])
        /\ f.pc \in {"data", "body"} => e2.mailbox = e.mailbox
        /\ e2.mode = "cmd" \/ (e2.mode = "body" /\ f.pc = "data" /\ s = 354)
        /\ f.pc = "data" => s # 250
    BY <1>1, <2>1, <2>2, <2>3 DEF Executes
  <2>5. Fits(e, e2, s, f, m, inbox)
    BY <2>1, <2>3, <2>4 DEF Fits
  <2>6. Talks(e2, Status(s), f, sk, m, inbox)
    BY <2>5, TalksAnswered
  <2> QED
    BY <1>1, <2>6
<1>2. ~ Quits(e, w, e2, w2)
  BY DEF Quits, Talks, Lines, Dialogue
<1>3. ASSUME e.mode # "cmd" PROVE e.open /\ e.open = TRUE
  BY <1>0, <1>3 DEF Talks
<1>4. CASE Reads(e, w, e2, w2)
  <2>1. /\ f.pc = "body" /\ f.asked /\ w.arg = m
    BY <1>4 DEF Reads, Talks, Modes, Lines
  <2>2. /\ e2.open = e.open /\ e2.from = e.from /\ e2.mailbox = e.mailbox
        /\ e2.mode = "store" /\ e2.mail = m /\ w2 = Silent /\ inbox' = inbox
    BY <1>4, <2>1 DEF Reads, Kept
  <2>3. Lines(w2, f, m) /\ Modes(e2, w2, f, m, inbox')
    BY <1>0, <2>1, <2>2 DEF Lines, Modes
  <2>4. Session(e2, w2, f, m)
    BY <1>0, <2>1, <2>2 DEF Talks, Session
  <2> QED
    BY <1>3, <1>4, <2>1, <2>2, <2>3, <2>4 DEF Talks, Reads, Dialogue
<1>5. ASSUME e.mode = "store" PROVE f.pc = "body" /\ f.asked /\ w.t = "none" /\ e.mail = m /\ e.open = TRUE
                                      /\ e.from = m /\ e.mailbox = Last(To[m])
  <2>1. f.pc = "body" /\ f.asked /\ w.t = "none" /\ e.mail = m
    BY <1>5 DEF Talks, Modes
  <2>2. e.open = TRUE
    BY <1>3, <1>5
  <2> QED
    BY <2>1, <2>2 DEF Talks, Session
<1>6. CASE Stores(e, w, e2, w2) \/ Requests(e, w, e2, w2)
  <2>1. /\ e.mode = "store" /\ e2.open = e.open /\ e2.from = e.from /\ e2.mailbox = e.mailbox
        /\ e2.mail = e.mail /\ w2 = w
    BY <1>6 DEF Stores, Requests, Kept
  <2>2. \/ e2.mode = "store" /\ inbox' = inbox
        \/ e2.mode = "answer" /\ ArrivedIn(inbox', m)
    <3>1. CASE Stores(e, w, e2, w2)
      BY <3>1 DEF Stores
    <3>2. CASE Requests(e, w, e2, w2)
      <4>1. inbox' = Append(inbox, Letter(e)) /\ e2.mode = "answer"
        BY <3>2 DEF Requests
      <4>2. Len(inbox) \in Nat /\ Len(inbox') = Len(inbox) + 1 /\ inbox'[Len(inbox) + 1] = Letter(e)
        BY <4>1, AppendGrows
      <4>3. Letter(e).mail = m /\ Letter(e).from = m /\ Letter(e).to = Last(To[m])
        BY <1>5, <2>1 DEF Letter
      <4>4. Len(inbox) + 1 \in 1 .. Len(inbox')
        BY <4>2
      <4> QED
        BY <4>1, <4>2, <4>3, <4>4 DEF ArrivedIn
    <3> QED
      BY <1>6, <3>1, <3>2
  <2>3. Lines(w2, f, m) /\ Session(e2, w2, f, m)
    BY <1>5, <2>1 DEF Talks, Lines, Session
  <2>4. Modes(e2, w2, f, m, inbox')
    BY <1>5, <2>1, <2>2 DEF Modes
  <2>5. e2.open /\ sk # "none"
    BY <1>5, <2>1 DEF Talks, Dialogue
  <2> QED
    BY <2>3, <2>4, <2>5 DEF Talks
<1>7. CASE Accepts(e, w, e2, w2)
  <2>1. /\ f.pc = "body" /\ f.asked /\ ArrivedIn(inbox, m) /\ e.open = TRUE
    BY <1>3, <1>7 DEF Accepts, Talks, Modes
  <2>2. /\ e2.open = TRUE /\ e2.from = e.from /\ e2.mailbox = e.mailbox /\ e2.mode = "cmd"
        /\ w2 = Status(250) /\ inbox' = inbox
    BY <1>7, <2>1 DEF Accepts, Kept
  <2>3. f.pc \in Dialogue /\ f.pc \notin {"mail", "rcpt", "data"} /\ 250 \in Nat
    BY <2>1 DEF Dialogue
  <2>5. Fits(e, e2, 250, f, m, inbox)
    BY <2>1, <2>2, <2>3 DEF Fits
  <2>4. Talks(e2, Status(250), f, sk, m, inbox)
    BY <2>5, TalksAnswered
  <2> QED
    BY <2>2, <2>4
<1>8. CASE GivesUp(e, w, e2, w2)
  <2>1. f.pc = "body" /\ f.asked /\ e2 = Closed /\ w2 = Status(451)
    BY <1>5, <1>8 DEF GivesUp
  <2>2. w2.t = "answer" /\ w2.status = 451
    BY <2>1, StatusFields
  <2>3. Lines(w2, f, m) /\ Session(e2, w2, f, m) /\ Modes(e2, w2, f, m, inbox')
    BY <1>0, <2>1, <2>2 DEF Lines, Session, Modes, Dialogue
  <2>4. sk # "none"
    BY <2>1 DEF Talks, Dialogue
  <2> QED
    BY <2>1, <2>3, <2>4 DEF Talks
<1> QED
  BY <1>1, <1>2, <1>4, <1>6, <1>7, <1>8 DEF Turn

-----------------------------------------------------------------------------
(* sendmail: its lists.                                                    *)

Without(s, i) == SubSeq(s, 1, i - 1) \o SubSeq(s, i + 1, Len(s))

(* One element is taken out of a list, and those behind it move up.        *)
LEMMA WithoutFacts ==
  ASSUME NEW S, NEW s \in Seq(S), NEW i \in 1 .. Len(s)
  PROVE  /\ Without(s, i) \in Seq(S) /\ Len(Without(s, i)) = Len(s) - 1
         /\ \A j \in 1 .. Len(s) - 1 : Without(s, i)[j] = IF j < i THEN s[j] ELSE s[j + 1]
<1> DEFINE a == SubSeq(s, 1, i - 1)
           b == SubSeq(s, i + 1, Len(s))
<1>0. Len(s) \in Nat /\ i \in Nat
  OBVIOUS
<1>1. a \in Seq(S) /\ Len(a) = i - 1 /\ \A j \in 1 .. i - 1 : a[j] = s[j]
  <2>1. \A j \in 1 .. i - 1 : s[j] \in S
    BY <1>0, ElementOfSeq
  <2> QED
    BY <1>0, <2>1, SubSeqProperties
<1>2. b \in Seq(S) /\ Len(b) = Len(s) - i /\ \A j \in 1 .. Len(s) - i : b[j] = s[i + j]
  <2>1. \A j \in i + 1 .. Len(s) : s[j] \in S
    BY <1>0, ElementOfSeq
  <2>2. CASE i = Len(s)
    BY <1>0, <2>1, <2>2, SubSeqProperties
  <2>3. CASE i < Len(s)
    BY <1>0, <2>1, <2>3, SubSeqProperties
  <2> QED
    BY <1>0, <2>2, <2>3
<1> HIDE DEF a, b
<1>3. a \o b \in Seq(S) /\ Len(a \o b) = Len(s) - 1
  <2>1. a \o b \in Seq(S) /\ Len(a \o b) = Len(a) + Len(b)
    BY <1>1, <1>2, ConcatProperties
  <2> QED
    BY <1>0, <1>1, <1>2, <2>1
<1>4. ASSUME NEW j \in 1 .. Len(s) - 1 PROVE (a \o b)[j] = IF j < i THEN s[j] ELSE s[j + 1]
  <2>1. CASE j < i
    BY <1>0, <1>1, <1>2, <2>1
  <2>2. CASE ~ (j < i)
    <3>1. (a \o b)[j] = b[j - (i - 1)] /\ j - (i - 1) \in 1 .. Len(s) - i /\ i + (j - (i - 1)) = j + 1
      BY <1>0, <1>1, <1>2, <2>2
    <3> QED
      BY <1>2, <2>2, <3>1
  <2> QED
    BY <2>1, <2>2
<1> QED
  BY <1>3, <1>4 DEF Without, a, b

(* What is left in the list was in it.                                     *)
LeftOf(s, i, r) == \A j \in 1 .. Len(r) : \E n \in 1 .. Len(s) : n # i /\ r[j] = s[n]

LEMMA WithoutOld ==
  ASSUME NEW S, NEW s \in Seq(S), NEW i \in 1 .. Len(s)
  PROVE  LeftOf(s, i, Without(s, i))
<1> SUFFICES ASSUME NEW j \in 1 .. Len(Without(s, i))
             PROVE  \E n \in 1 .. Len(s) : n # i /\ Without(s, i)[j] = s[n]
  BY DEF LeftOf
<1>1. j \in 1 .. Len(s) - 1 /\ Without(s, i)[j] = (IF j < i THEN s[j] ELSE s[j + 1]) /\ Len(s) \in Nat
  BY WithoutFacts
<1>2. CASE j < i
  BY <1>1, <1>2
<1>3. CASE ~ (j < i)
  <2>1. j + 1 \in 1 .. Len(s) /\ j + 1 # i
    BY <1>1, <1>3
  <2> QED
    BY <1>1, <1>3, <2>1
<1> QED
  BY <1>2, <1>3

(* The elements of a list that grows, and of one that loses its head.      *)
LEMMA AppendOld ==
  ASSUME NEW S, NEW s \in Seq(S), NEW x \in S
  PROVE  /\ Append(s, x) \in Seq(S) /\ Len(Append(s, x)) = Len(s) + 1 /\ Len(s) \in Nat
         /\ \A j \in 1 .. Len(s) : j \in 1 .. Len(Append(s, x)) /\ Append(s, x)[j] = s[j]
         /\ \A j \in 1 .. Len(Append(s, x)) : (j \in 1 .. Len(s) /\ Append(s, x)[j] = s[j]) \/ (j = Len(s) + 1 /\ Append(s, x)[j] = x)
OBVIOUS

LEMMA TailOld ==
  ASSUME NEW S, NEW s \in Seq(S), s # <<>>
  PROVE  /\ Tail(s) \in Seq(S) /\ Len(Tail(s)) = Len(s) - 1 /\ Len(s) \in Nat \ {0}
         /\ \A j \in 1 .. Len(Tail(s)) : j + 1 \in 1 .. Len(s) /\ Tail(s)[j] = s[j + 1]
         /\ Head(s) = s[1] /\ 1 \in 1 .. Len(s) /\ Head(s) \in S
OBVIOUS

-----------------------------------------------------------------------------
(* sendmail: what its steps keep.                                          *)

(* To_Send loses no entry and changes none but for its removal.            *)
TosendKept == \A v \in 1 .. Len(tosend) : v \in 1 .. Len(tosend') /\ tosend'[v].mail = tosend[v].mail

(* The places of the forwarder.                                            *)
LEMMA Places ==
  /\ Idle \in FwdSt /\ Idle.pc = "sleep" /\ Idle.pc \notin Dialogue \cup {"open"}
  /\ \A pc \in Passes, i \in Nat, k \in Nat :
       LET f == [pc |-> pc, i |-> i, k |-> k, asked |-> FALSE]
       IN  f \in FwdSt /\ f.pc = pc /\ f.i = i /\ f.k = k /\ f.asked = FALSE
  /\ \A f \in FwdSt :
       LET g == [f EXCEPT !.asked = TRUE]
       IN  g \in FwdSt /\ g.pc = f.pc /\ g.i = f.i /\ g.k = f.k /\ g.asked = TRUE
<1>1. Idle \in FwdSt /\ Idle.pc = "sleep" /\ Idle.pc \notin Dialogue \cup {"open"}
  BY DEF Idle, FwdSt, Passes, Dialogue
<1>2. ASSUME NEW pc \in Passes, NEW i \in Nat, NEW k \in Nat
      PROVE  LET f == [pc |-> pc, i |-> i, k |-> k, asked |-> FALSE]
             IN  f \in FwdSt /\ f.pc = pc /\ f.i = i /\ f.k = k /\ f.asked = FALSE
  BY DEF FwdSt
<1>3. ASSUME NEW f \in FwdSt
      PROVE  LET g == [f EXCEPT !.asked = TRUE]
             IN  g \in FwdSt /\ g.pc = f.pc /\ g.i = f.i /\ g.k = f.k /\ g.asked = TRUE
  BY DEF FwdSt
<1> QED
  BY <1>1, <1>2, <1>3

(* The mail that the forwarder is busy with stays the same.                *)
LEMMA CurrentKept ==
  ASSUME SendmailTypes, TosendKept, fwd.pc \in Dialogue, fwd' = fwd,
         \A j \in 1 .. Len(waiting) : j \in 1 .. Len(waiting') /\ waiting'[j] = waiting[j]
  PROVE  Current' = Current
<1>1. fwd.i \in 1 .. Len(waiting) /\ waiting[fwd.i] \in 1 .. Len(tosend)
  BY DEF SendmailTypes
<1>2. waiting'[fwd'.i] = waiting[fwd.i] /\ tosend'[waiting[fwd.i]].mail = tosend[waiting[fwd.i]].mail
  BY <1>1 DEF TosendKept
<1> QED
  BY <1>2 DEF Current, MailOf

(* Steps of others than the forwarder.                                     *)
LEMMA TalksOthers ==
  ASSUME SendmailTypes, TosendKept, fwd' = fwd, sock' = sock, env' = env, wire' = wire, inbox' = inbox,
         \A j \in 1 .. Len(waiting) : j \in 1 .. Len(waiting') /\ waiting'[j] = waiting[j],
         IsSeq(inbox), Talks(env[Me], wire[Me], fwd, sock, Current, inbox)
  PROVE  Talks(env[Me], wire[Me], fwd, sock, Current, inbox)'
<1>1. fwd.pc \in Dialogue => Current' = Current
  BY CurrentKept
<1>2. Grows(inbox, inbox')
  BY SameGrows
<1>3. Talks(env[Me], wire[Me], fwd, sock, Current', inbox')
  BY <1>1, <1>2, TalksFrame
<1>4. env'[Me] = env[Me] /\ wire'[Me] = wire[Me]
  OBVIOUS
<1> QED
  BY <1>3, <1>4

(* What is filed as delivered stays so.                                    *)
LEMMA SentKept ==
  ASSUME SendmailTypes, TosendKept, SentOk, Grows(inbox, inbox'),
         \A j \in 1 .. Len(delivered') :
           \/ \E i \in 1 .. Len(delivered) : delivered'[j] = delivered[i]
           \/ delivered'[j].status = 250 => ArrivedIn(inbox', tosend'[delivered'[j].v].mail),
         \A r \in sent' :
           \/ r \in sent
           \/ \E i \in 1 .. Len(delivered) : r.mail = tosend[delivered[i].v].mail /\ r.status = delivered[i].status
  PROVE  SentOk'
<1>1. \A i \in 1 .. Len(delivered) : tosend'[delivered[i].v].mail = tosend[delivered[i].v].mail
  BY DEF SendmailTypes, TosendKept
<1>2. \A i \in 1 .. Len(delivered) : delivered[i].status = 250 => ArrivedIn(inbox', tosend[delivered[i].v].mail)
  BY ArrivedGrows DEF SentOk, MailOf
<1>3. \A j \in 1 .. Len(delivered') : delivered'[j].status = 250 => ArrivedIn(inbox', tosend'[delivered'[j].v].mail)
  BY <1>1, <1>2
<1>4. \A r \in sent' : r.status = 250 => ArrivedIn(inbox', r.mail)
  BY <1>2, ArrivedGrows DEF SentOk
<1> QED
  BY <1>3, <1>4 DEF SentOk, MailOf

(* The steps that leave the dialogue alone.                                *)
LEMMA Aside ==
  ASSUME DeliverInv, UNCHANGED smtpd, faults' \in Nat, SendmailTypes', TosendKept, fwd' = fwd, sock' = sock,
         \A j \in 1 .. Len(waiting) : j \in 1 .. Len(waiting') /\ waiting'[j] = waiting[j],
         \A j \in 1 .. Len(delivered') : \E i \in 1 .. Len(delivered) : delivered'[j] = delivered[i],
         \A r \in sent' :
           \/ r \in sent
           \/ \E i \in 1 .. Len(delivered) : r.mail = tosend[delivered[i].v].mail /\ r.status = delivered[i].status
  PROVE  DeliverInv'
<1>1. /\ SmtpdTypes /\ SendmailTypes /\ IsSeq(inbox) /\ PartsInv /\ SentOk
      /\ Talks(env[Me], wire[Me], fwd, sock, Current, inbox)
  BY DEF DeliverInv
<1>2. env' = env /\ wire' = wire /\ stored' = stored /\ inbox' = inbox
  BY DEF smtpd
<1>3. SmtpdTypes' /\ IsSeq(inbox') /\ PartsInv'
  BY <1>1, <1>2 DEF SmtpdTypes, PartsInv
<1>4. Grows(inbox, inbox')
  BY <1>1, <1>2, SameGrows
<1>5. SentOk'
  BY <1>1, <1>4, SentKept
<1>6. Talks(env[Me], wire[Me], fwd, sock, Current, inbox)'
  BY <1>1, <1>2, TalksOthers
<1> QED
  BY <1>3, <1>5, <1>6 DEF DeliverInv

(* Nothing but what the action says changes in the lists.                  *)
LEMMA ListsSame ==
  ASSUME SendmailTypes
  PROVE  /\ tosend' = tosend => TosendKept
         /\ waiting' = waiting =>
              \A j \in 1 .. Len(waiting) : j \in 1 .. Len(waiting') /\ waiting'[j] = waiting[j]
         /\ delivered' = delivered =>
              \A j \in 1 .. Len(delivered') : \E i \in 1 .. Len(delivered) : delivered'[j] = delivered[i]
BY DEF TosendKept

LEMMA DeliverSubmit == ASSUME DeliverInv, NEW m \in Mails, Submit(m) PROVE DeliverInv'
<1>1. SendmailTypes /\ faults \in Nat
  BY DEF DeliverInv, SmtpdTypes
<1>2. /\ tosend' = Append(tosend, [mail |-> m, gone |-> FALSE]) /\ UNCHANGED smtpd
      /\ UNCHANGED <<faults, delreq, sent, up, alive, cursor, waiting, tx, delivered, fwd, sock, acker>>
  BY DEF Submit
<1> DEFINE x == [mail |-> m, gone |-> FALSE]
<1>3. x \in [mail : Mails, gone : BOOLEAN] /\ tosend \in Seq([mail : Mails, gone : BOOLEAN])
  BY <1>1 DEF SendmailTypes
<1> HIDE DEF x
<1>4. /\ tosend' \in Seq([mail : Mails, gone : BOOLEAN]) /\ Len(tosend') = Len(tosend) + 1 /\ Len(tosend) \in Nat
      /\ \A v \in 1 .. Len(tosend) : v \in 1 .. Len(tosend') /\ tosend'[v] = tosend[v]
  BY <1>2, <1>3, AppendOld DEF x
<1>5. TosendKept
  BY <1>4 DEF TosendKept
<1>6. SendmailTypes'
  BY <1>1, <1>2, <1>4 DEF SendmailTypes
<1> QED
  BY <1>1, <1>2, <1>5, <1>6, ListsSame, Aside

LEMMA DeliverGone ==
  ASSUME DeliverInv, NEW v \in DOMAIN tosend, Sync(v) \/ Withdraw(v) PROVE DeliverInv'
<1>1. SendmailTypes /\ faults \in Nat
  BY DEF DeliverInv, SmtpdTypes
<1>2. /\ tosend' = [tosend EXCEPT ![v].gone = TRUE] /\ UNCHANGED smtpd
      /\ UNCHANGED <<delreq, sent, up, alive, cursor, waiting, tx, delivered, fwd, sock, acker>>
  BY DEF Sync, Withdraw, Gone
<1>3. faults' \in Nat
  BY <1>1 DEF Sync, Withdraw
<1>4. tosend \in Seq([mail : Mails, gone : BOOLEAN]) /\ v \in 1 .. Len(tosend)
  BY <1>1 DEF SendmailTypes
<1>9. [tosend[v] EXCEPT !.gone = TRUE] \in [mail : Mails, gone : BOOLEAN]
      /\ [tosend[v] EXCEPT !.gone = TRUE].mail = tosend[v].mail
  <2>1. tosend[v] \in [mail : Mails, gone : BOOLEAN]
    BY <1>4, ElementOfSeq
  <2> QED
    BY <2>1
<1>5. tosend' \in Seq([mail : Mails, gone : BOOLEAN]) /\ Len(tosend') = Len(tosend)
  BY <1>2, <1>4, <1>9, ExceptSeq
<1>6. \A u \in 1 .. Len(tosend) : tosend'[u].mail = tosend[u].mail
  BY <1>2, <1>4, <1>9
<1>7. TosendKept
  BY <1>5, <1>6 DEF TosendKept
<1>8. SendmailTypes'
  BY <1>1, <1>2, <1>5 DEF SendmailTypes
<1> QED
  BY <1>1, <1>2, <1>3, <1>7, <1>8, ListsSame, Aside

LEMMA DeliverStart == ASSUME DeliverInv, Start \/ CrawlerFails \/ FiledLost PROVE DeliverInv'
<1>1. SendmailTypes /\ faults \in Nat
  BY DEF DeliverInv, SmtpdTypes
<1>2. /\ UNCHANGED smtpd /\ (up' = TRUE \/ up' = up)
      /\ UNCHANGED <<tosend, sent, cursor, waiting, delivered, fwd, sock>>
  BY DEF Start, CrawlerFails, FiledLost
<1>3. faults' \in Nat
  BY <1>1 DEF Start, CrawlerFails, FiledLost
<1>4. SendmailTypes'
  BY <1>1, <1>2 DEF SendmailTypes
<1> QED
  BY <1>1, <1>2, <1>3, <1>4, ListsSame, Aside

LEMMA DeliverPatch == ASSUME DeliverInv, send_patch PROVE DeliverInv'
<1>1. SendmailTypes /\ faults \in Nat
  BY DEF DeliverInv, SmtpdTypes
<1>2. /\ UNCHANGED smtpd /\ up /\ UNCHANGED <<faults, up>>
      /\ UNCHANGED <<tosend, sent, delivered, fwd, sock>>
  BY DEF send_patch
<1>3. PICK v \in DOMAIN tosend : cursor' = v /\ (waiting' = waiting \/ waiting' = Append(waiting, v))
  BY DEF send_patch
<1>4. v \in 1 .. Len(tosend) /\ v \in Nat /\ waiting \in Seq(Nat)
  BY <1>1 DEF SendmailTypes
<1>5. CASE waiting' = waiting
  <2>1. SendmailTypes'
    BY <1>1, <1>2, <1>3, <1>4, <1>5 DEF SendmailTypes
  <2> QED
    BY <1>1, <1>2, <1>5, <2>1, ListsSame, Aside
<1>6. CASE waiting' = Append(waiting, v)
  <2>1. /\ waiting' \in Seq(Nat) /\ Len(waiting') = Len(waiting) + 1 /\ Len(waiting) \in Nat
        /\ \A j \in 1 .. Len(waiting) : j \in 1 .. Len(waiting') /\ waiting'[j] = waiting[j]
        /\ \A j \in 1 .. Len(waiting') : (j \in 1 .. Len(waiting) /\ waiting'[j] = waiting[j]) \/ waiting'[j] = v
    BY <1>4, <1>6, AppendOld
  <2>2. \A j \in 1 .. Len(waiting') : waiting'[j] \in 1 .. Len(tosend)
    BY <1>1, <1>4, <2>1 DEF SendmailTypes
  <2>3. fwd.pc \in Dialogue \cup {"open"} => fwd.i \in 1 .. Len(waiting')
    BY <1>1, <2>1 DEF SendmailTypes
  <2>4. SendmailTypes'
    BY <1>1, <1>2, <1>3, <1>4, <2>1, <2>2, <2>3 DEF SendmailTypes
  <2> QED
    BY <1>1, <1>2, <2>1, <2>4, ListsSame, Aside
<1> QED
  BY <1>3, <1>5, <1>6

LEMMA DeliverTransfer == ASSUME DeliverInv, NEW i \in DOMAIN waiting, TransferEnds(i) PROVE DeliverInv'
<1>1. SendmailTypes /\ faults \in Nat
  BY DEF DeliverInv, SmtpdTypes
<1>2. /\ UNCHANGED smtpd /\ UNCHANGED <<tosend, sent, up, cursor, waiting, delivered, fwd, sock>>
  BY DEF TransferEnds
<1>3. faults' \in Nat
  BY <1>1 DEF TransferEnds
<1>4. SendmailTypes'
  BY <1>1, <1>2 DEF SendmailTypes
<1> QED
  BY <1>1, <1>2, <1>3, <1>4, ListsSame, Aside

(* The process ends, and its connection with it.                           *)
LEMMA DeliverEnds == ASSUME DeliverInv, Ends, faults' \in Nat PROVE DeliverInv'
<1>1. /\ SmtpdTypes /\ SendmailTypes /\ IsSeq(inbox) /\ PartsInv /\ SentOk
  BY DEF DeliverInv
<1>2. /\ up' = FALSE /\ cursor' = 0 /\ waiting' = <<>> /\ delivered' = <<>> /\ fwd' = Idle /\ sock' = "none"
      /\ UNCHANGED <<tosend, delreq, sent>> /\ Cut({Me})
  BY DEF Ends, Stopped
<1>3. /\ env' \in [Cnxs -> Env] /\ wire' \in [Cnxs -> Wire] /\ UNCHANGED <<stored, inbox>>
      /\ env'[Me] = Closed /\ wire'[Me] = Silent
      /\ \A c \in Cnxs : c # Me => env'[c] = env[c]
  BY <1>1, <1>2, CutFacts DEF Me, Cnxs
<1>4. SmtpdTypes' /\ IsSeq(inbox')
  BY <1>1, <1>3 DEF SmtpdTypes
<1>5. PartsInv'
  BY <1>1, <1>3, RecordFacts DEF PartsInv, PartsOf
<1>6. SendmailTypes'
  BY <1>1, <1>2, Places DEF SendmailTypes
<1>7. Talks(Closed, Silent, Idle, "none", Current', inbox')
  BY RecordFacts, TalksLeave, Places
<1>8. SentOk'
  <2>1. TosendKept /\ Grows(inbox, inbox') /\ Len(delivered') = 0
    BY <1>1, <1>2, <1>3, SameGrows DEF TosendKept
  <2> QED
    BY <1>1, <1>2, <2>1, SentKept
<1> QED
  BY <1>2, <1>3, <1>4, <1>5, <1>6, <1>7, <1>8 DEF DeliverInv

LEMMA DeliverFetch == ASSUME DeliverInv, FetchLost PROVE DeliverInv'
<1>1. SendmailTypes /\ faults \in Nat /\ faults' \in Nat
  BY DEF DeliverInv, SmtpdTypes, FetchLost
<1>2. CASE Ends
  BY <1>1, <1>2, DeliverEnds
<1>3. CASE ~ Ends
  <2>1. UNCHANGED smtpd /\ UNCHANGED <<tosend, sent, up, cursor, waiting, delivered, fwd, sock>>
    BY <1>3 DEF FetchLost
  <2>2. SendmailTypes'
    BY <1>1, <2>1 DEF SendmailTypes
  <2> QED
    BY <1>1, <2>1, <2>2, ListsSame, Aside
<1> QED
  BY <1>2, <1>3

LEMMA DeliverAcker == ASSUME DeliverInv, DelRequest \/ CopyRequest \/ AckerFails PROVE DeliverInv'
<1>1. SendmailTypes /\ faults \in Nat
  BY DEF DeliverInv, SmtpdTypes
<1>2. CASE DelRequest
  <2>1. faults' \in Nat
    BY <1>1, <1>2 DEF DelRequest
  <2>2. CASE Ends
    BY <2>1, <2>2, DeliverEnds
  <2>3. CASE ~ Ends
    <3>1. UNCHANGED smtpd /\ UNCHANGED <<tosend, sent, up, cursor, waiting, delivered, fwd, sock>>
      BY <1>2, <2>3 DEF DelRequest
    <3>2. SendmailTypes'
      BY <1>1, <3>1 DEF SendmailTypes
    <3> QED
      BY <1>1, <2>1, <3>1, <3>2, ListsSame, Aside
  <2> QED
    BY <2>2, <2>3
<1>4. CASE AckerFails
  <2>1. UNCHANGED smtpd /\ UNCHANGED <<tosend, sent, up, cursor, waiting, fwd, sock>> /\ delivered' = <<>> /\ faults' \in Nat
    BY <1>1, <1>4 DEF AckerFails
  <2>2. delivered' \in Seq([v : Nat, status : Nat]) /\ Len(delivered') = 0
    BY <2>1
  <2>3. SendmailTypes'
    BY <1>1, <2>1, <2>2 DEF SendmailTypes
  <2> QED
    BY <1>1, <2>1, <2>2, <2>3, ListsSame, Aside
<1>3. CASE CopyRequest
  <2>1. /\ UNCHANGED smtpd /\ UNCHANGED <<tosend, up, cursor, waiting, fwd, sock>> /\ up
        /\ delivered # <<>> /\ delivered' = Tail(delivered)
        /\ \/ sent' = sent
           \/ sent' = sent \cup {[mail |-> MailOf(Head(delivered).v), status |-> Head(delivered).status]}
    BY <1>3 DEF CopyRequest, Acking
  <2>2. faults' \in Nat
    BY <1>1, <1>3 DEF CopyRequest
  <2>3. delivered \in Seq([v : Nat, status : Nat])
    BY <1>1 DEF SendmailTypes
  <2>4. /\ Tail(delivered) \in Seq([v : Nat, status : Nat]) /\ Len(Tail(delivered)) = Len(delivered) - 1
        /\ Len(delivered) \in Nat \ {0}
        /\ \A j \in 1 .. Len(Tail(delivered)) : j + 1 \in 1 .. Len(delivered) /\ Tail(delivered)[j] = delivered[j + 1]
        /\ Head(delivered) = delivered[1] /\ 1 \in 1 .. Len(delivered) /\ Head(delivered) \in [v : Nat, status : Nat]
    BY <2>1, <2>3, TailOld
  <2>5. tosend[delivered[1].v].mail \in Mails /\ delivered[1].status \in Nat
    <3>1. delivered[1].v \in 1 .. Len(tosend) /\ tosend \in Seq([mail : Mails, gone : BOOLEAN])
      BY <1>1, <2>4 DEF SendmailTypes
    <3>2. tosend[delivered[1].v] \in [mail : Mails, gone : BOOLEAN]
      BY <3>1, ElementOfSeq
    <3> QED
      BY <2>4, <3>2
  <2>6. \A r \in sent' :
           \/ r \in sent
           \/ /\ r \in [mail : Mails, status : Nat]
              /\ r.mail = tosend[delivered[1].v].mail /\ r.status = delivered[1].status
    BY <2>1, <2>4, <2>5 DEF MailOf
  <2>7. sent' \subseteq [mail : Mails, status : Nat]
    BY <1>1, <2>6 DEF SendmailTypes
  <2>8. \A j \in 1 .. Len(delivered') : delivered'[j].v \in 1 .. Len(tosend)
    BY <1>1, <2>1, <2>4 DEF SendmailTypes
  <2>9. SendmailTypes'
    BY <1>1, <2>1, <2>4, <2>7, <2>8 DEF SendmailTypes
  <2>10. \A j \in 1 .. Len(delivered') : \E i \in 1 .. Len(delivered) : delivered'[j] = delivered[i]
    BY <2>1, <2>4
  <2>11. \A r \in sent' :
           \/ r \in sent
           \/ \E i \in 1 .. Len(delivered) : r.mail = tosend[delivered[i].v].mail /\ r.status = delivered[i].status
    BY <2>4, <2>6
  <2>12. /\ TosendKept /\ fwd' = fwd /\ sock' = sock
         /\ \A j \in 1 .. Len(waiting) : j \in 1 .. Len(waiting') /\ waiting'[j] = waiting[j]
    BY <1>1, <2>1, ListsSame
  <2> QED
    BY <2>1, <2>2, <2>9, <2>10, <2>11, <2>12, Aside
<1> QED
  BY <1>2, <1>3, <1>4

-----------------------------------------------------------------------------
(* sendmail: the forwarder.                                                *)

(* Steps on the connection, where the lists stay.                          *)
LEMMA Moves ==
  ASSUME DeliverInv, NEW e2 \in Env, NEW w2 \in Wire, Delta(Me, e2, w2), UNCHANGED <<stored, inbox>>,
         faults' \in Nat, e2 = env[Me] \/ e2.mode = "cmd",
         UNCHANGED <<tosend, sent, cursor, waiting, delivered>>, up' = up, up,
         fwd' \in FwdSt, sock' \in {"none", "open", "reset"},
         fwd'.pc \in Dialogue \cup {"open"} => fwd'.i \in 1 .. Len(waiting),
         Talks(e2, w2, fwd', sock', Current', inbox)
  PROVE  DeliverInv'
<1>1. /\ SmtpdTypes /\ SendmailTypes /\ IsSeq(inbox) /\ PartsInv /\ SentOk
  BY DEF DeliverInv
<1>2. /\ env' \in [Cnxs -> Env] /\ wire' \in [Cnxs -> Wire] /\ env'[Me] = e2 /\ wire'[Me] = w2
      /\ \A c \in Cnxs : c # Me => env'[c] = env[c]
  BY <1>1, DeltaFacts DEF Me, Cnxs
<1>3. SmtpdTypes' /\ IsSeq(inbox')
  BY <1>1, <1>2 DEF SmtpdTypes
<1>4. PartsInv'
  <2>1. PartsOf(e2, stored)
    BY <1>1 DEF PartsInv, PartsOf, Me, Cnxs
  <2> QED
    BY <1>1, <1>2, <2>1 DEF PartsInv
<1>5. SendmailTypes'
  BY <1>1 DEF SendmailTypes
<1>6. SentOk'
  BY <1>1 DEF SentOk, MailOf
<1> QED
  BY <1>2, <1>3, <1>4, <1>5, <1>6 DEF DeliverInv

(* The connection stays as it is.                                          *)
LEMMA NoMove ==
  ASSUME SmtpdTypes, UNCHANGED smtpd
  PROVE  Delta(Me, env[Me], wire[Me]) /\ env[Me] \in Env /\ wire[Me] \in Wire /\ UNCHANGED <<stored, inbox>>
BY DEF SmtpdTypes, smtpd, Delta, Me, Cnxs

(* The end of the connection of sendmail alone.                            *)
LEMMA CutIsDelta ==
  ASSUME SmtpdTypes, Cut({Me})
  PROVE  Delta(Me, Closed, Silent) /\ Closed \in Env /\ Silent \in Wire /\ UNCHANGED <<stored, inbox>>
<1>1. /\ env' \in [Cnxs -> Env] /\ wire' \in [Cnxs -> Wire] /\ UNCHANGED <<stored, inbox>>
      /\ \A c \in Cnxs : c = Me => env'[c] = Closed /\ wire'[c] = Silent
      /\ \A c \in Cnxs : c # Me => env'[c] = env[c] /\ wire'[c] = wire[c]
  BY CutFacts
<1>2. env \in [Cnxs -> Env] /\ wire \in [Cnxs -> Wire] /\ Closed \in Env /\ Silent \in Wire
  BY RecordFacts DEF SmtpdTypes
<1>3. env' = [env EXCEPT ![Me] = Closed]
  BY <1>1, <1>2
<1>4. wire' = [wire EXCEPT ![Me] = Silent]
  BY <1>1, <1>2
<1> QED
  BY <1>1, <1>2, <1>3, <1>4 DEF Delta

(* smtpd is ready for the line that the forwarder writes next.             *)
Ready(e, f, sk, m) ==
  /\ ~ e.open => e = Closed
  /\ f.pc \in Dialogue /\ sk # "none"
  /\ e.mode = "cmd" \/ (e.mode = "body" /\ f.pc \in {"mail", "body"})
  /\ f.pc \in {"rcpt", "data", "body"} /\ e.open => e.from = m
  /\ f.pc = "rcpt" => f.k \in 1 .. Len(To[m])
  /\ f.pc \in {"data", "body"} /\ e.open => e.mailbox = Last(To[m])

LEMMA TalksReady ==
  ASSUME NEW e, NEW f, NEW sk, NEW m, NEW box, Ready(e, f, sk, m)
  PROVE  Talks(e, Silent, f, sk, m, box)
<1>1. Silent.t = "none"
  BY RecordFacts
<1>2. Lines(Silent, f, m)
  BY <1>1 DEF Lines
<1>3. Session(e, Silent, f, m)
  BY <1>1 DEF Session, Ready
<1>4. Modes(e, Silent, f, m, box)
  BY <1>1 DEF Modes, Ready
<1> QED
  BY <1>2, <1>3, <1>4 DEF Talks, Ready

(* The mail at hand.                                                       *)
LEMMA CurrentMail ==
  ASSUME SendmailTypes, fwd.i \in 1 .. Len(waiting)
  PROVE  /\ Current \in Mails /\ waiting[fwd.i] \in 1 .. Len(tosend) /\ waiting[fwd.i] \in Nat
         /\ To[Current] \in Seq(Users \cup Strangers) /\ Len(To[Current]) \in Nat \ {0}
         /\ Last(To[Current]) = To[Current][Len(To[Current])]
<1>1. waiting[fwd.i] \in 1 .. Len(tosend) /\ tosend \in Seq([mail : Mails, gone : BOOLEAN])
  BY DEF SendmailTypes
<1>2. tosend[waiting[fwd.i]] \in [mail : Mails, gone : BOOLEAN]
  BY <1>1, ElementOfSeq
<1>3. Current \in Mails
  BY <1>2 DEF Current, MailOf
<1>4. To[Current] \in Seq(Users \cup Strangers) /\ To[Current] # <<>>
  BY <1>3, SendmailAssumption
<1>5. waiting[fwd.i] \in Nat
  BY <1>1
<1> QED
  BY <1>1, <1>3, <1>4, <1>5 DEF Last

(* A turn of the loop of the forwarder begins or ends.                     *)
LEMMA DeliverPass == ASSUME DeliverInv, StartPass \/ NoRelay PROVE DeliverInv'
<1>1. /\ SmtpdTypes /\ SendmailTypes /\ Talks(env[Me], wire[Me], fwd, sock, Current, inbox) /\ faults \in Nat
      /\ sock \in {"none", "open", "reset"}
  BY DEF DeliverInv, SmtpdTypes, SendmailTypes
<1>2. /\ up /\ fwd.pc \in {"sleep", "open"} /\ UNCHANGED smtpd
      /\ UNCHANGED <<tosend, sent, up, cursor, waiting, delivered, sock>>
      /\ fwd' = Idle \/ fwd' = [pc |-> "scan", i |-> 1, k |-> 0, asked |-> FALSE]
  BY DEF StartPass, NoRelay, Forwarding, Goto
<1>3. faults' \in Nat
  BY <1>1 DEF StartPass, NoRelay
<1>4. fwd' \in FwdSt /\ fwd'.pc \notin Dialogue \cup {"open"} /\ fwd.pc \notin Dialogue
  BY <1>2, Places DEF Passes, Dialogue
<1>5. Delta(Me, env[Me], wire[Me]) /\ env[Me] \in Env /\ wire[Me] \in Wire /\ UNCHANGED <<stored, inbox>>
  BY <1>1, <1>2, NoMove
<1>6. wire[Me] = Silent /\ env[Me].mode \in {"cmd", "body"} /\ (~ env[Me].open => env[Me] = Closed) /\ (sock = "none" => env[Me] = Closed)
  BY <1>1, <1>4, <1>5, TalksQuiet
<1>7. Talks(env[Me], wire[Me], fwd', sock', Current', inbox)
  BY <1>2, <1>4, <1>6, TalksLeave
<1> QED
  BY <1>1, <1>2, <1>3, <1>4, <1>5, <1>7, Moves

LEMMA DeliverOpen == ASSUME DeliverInv, may_open_connection PROVE DeliverInv'
<1>1. /\ SmtpdTypes /\ SendmailTypes /\ faults \in Nat /\ fwd \in FwdSt /\ fwd.i \in Nat
  BY DEF DeliverInv, SmtpdTypes, SendmailTypes, FwdSt
<1>2. /\ up /\ fwd.pc = "open" /\ Delta(Me, Opened, Silent) /\ sock' = "open"
      /\ fwd' = [pc |-> "helo", i |-> fwd.i, k |-> 1, asked |-> FALSE]
      /\ UNCHANGED <<stored, inbox, faults, tosend, sent, up, cursor, waiting, delivered>>
  BY DEF may_open_connection, Forwarding, Goto, Delta
<1>3. fwd' \in FwdSt /\ fwd'.pc = "helo" /\ fwd'.i = fwd.i
  BY <1>1, <1>2, Places DEF Passes, Dialogue
<1>4. fwd.i \in 1 .. Len(waiting)
  BY <1>1, <1>2 DEF SendmailTypes
<1>5. Opened \in Env /\ Opened.open = TRUE /\ Opened.mode = "cmd" /\ Silent \in Wire
  BY RecordFacts
<1>6. Ready(Opened, fwd', sock', Current')
  BY <1>2, <1>3, <1>5 DEF Ready, Dialogue
<1>7. Talks(Opened, Silent, fwd', sock', Current', inbox)
  BY <1>6, TalksReady
<1> QED
  BY <1>1, <1>2, <1>3, <1>4, <1>5, <1>7, Moves

LEMMA DeliverClose == ASSUME DeliverInv, may_close_connection PROVE DeliverInv'
<1>1. /\ SmtpdTypes /\ SendmailTypes /\ Talks(env[Me], wire[Me], fwd, sock, Current, inbox) /\ faults \in Nat
      /\ sock \in {"none", "open", "reset"}
  BY DEF DeliverInv, SmtpdTypes, SendmailTypes
<1>2. up /\ fwd.pc \in {"failed", "scan"} /\ faults' \in Nat
  BY <1>1 DEF may_close_connection, Forwarding
<1>3. Idle \in FwdSt /\ Idle.pc \notin Dialogue \cup {"open"} /\ fwd.pc \notin Dialogue
  BY <1>2, Places DEF Dialogue
<1>4. CASE fwd' = Idle /\ UNCHANGED smtpd /\ UNCHANGED <<tosend, sent, up, cursor, waiting, delivered, sock>>
  <2>1. Delta(Me, env[Me], wire[Me]) /\ env[Me] \in Env /\ wire[Me] \in Wire /\ UNCHANGED <<stored, inbox>>
    BY <1>1, <1>4, NoMove
  <2>2. wire[Me] = Silent /\ env[Me].mode \in {"cmd", "body"} /\ (~ env[Me].open => env[Me] = Closed) /\ (sock = "none" => env[Me] = Closed)
    BY <1>1, <1>3, <2>1, TalksQuiet
  <2>3. Talks(env[Me], wire[Me], fwd', sock', Current', inbox)
    BY <1>3, <1>4, <2>2, TalksLeave
  <2> QED
    BY <1>1, <1>2, <1>3, <1>4, <2>1, <2>3, Moves
<1>5. CASE /\ fwd' = Idle /\ sock' = "none" /\ Cut({Me})
           /\ UNCHANGED <<tosend, sent, up, cursor, waiting, delivered>>
  <2>1. Delta(Me, Closed, Silent) /\ Closed \in Env /\ Silent \in Wire /\ UNCHANGED <<stored, inbox>>
    BY <1>1, <1>5, CutIsDelta
  <2>2. Closed.mode = "cmd"
    BY RecordFacts
  <2>3. Talks(Closed, Silent, fwd', sock', Current', inbox)
    BY <1>3, <1>5, <2>2, TalksLeave
  <2> QED
    BY <1>2, <1>3, <1>5, <2>1, <2>2, <2>3, Moves
<1>6. CASE Ends
  BY <1>2, <1>6, DeliverEnds
<1>7. CASE /\ Goto("quit", 0, 0) /\ UNCHANGED smtpd
           /\ UNCHANGED <<tosend, sent, up, cursor, waiting, delivered, sock>>
  <2>1. Delta(Me, env[Me], wire[Me]) /\ env[Me] \in Env /\ wire[Me] \in Wire /\ UNCHANGED <<stored, inbox>>
    BY <1>1, <1>7, NoMove
  <2>2. wire[Me] = Silent /\ env[Me].mode \in {"cmd", "body"} /\ (~ env[Me].open => env[Me] = Closed) /\ (sock = "none" => env[Me] = Closed)
    BY <1>1, <1>3, <2>1, TalksQuiet
  <2>3. fwd' \in FwdSt /\ fwd'.pc \notin Dialogue \cup {"open"}
    BY <1>7, Places DEF Goto, Passes, Dialogue
  <2>4. Talks(env[Me], wire[Me], fwd', sock', Current', inbox)
    BY <1>7, <2>2, <2>3, TalksLeave
  <2> QED
    BY <1>1, <1>2, <1>7, <2>1, <2>3, <2>4, Moves
<1> QED
  BY <1>4, <1>5, <1>6, <1>7 DEF may_close_connection

(* The answer to QUIT that does not come.                                  *)
LEMMA DeliverQuit == ASSUME DeliverInv, QuitFails PROVE DeliverInv'
<1>1. /\ SmtpdTypes /\ SendmailTypes /\ Talks(env[Me], wire[Me], fwd, sock, Current, inbox) /\ faults \in Nat
  BY DEF DeliverInv, SmtpdTypes
<1>2. /\ up /\ fwd.pc = "quit" /\ ~ env[Me].open /\ UNCHANGED smtpd /\ sock' = "none" /\ fwd' = Idle
      /\ UNCHANGED <<tosend, sent, up, cursor, waiting, delivered, faults>>
  BY DEF QuitFails, Forwarding
<1>3. Idle \in FwdSt /\ Idle.pc \notin Dialogue \cup {"open"} /\ fwd.pc \notin Dialogue
  BY <1>2, Places DEF Dialogue
<1>4. Delta(Me, env[Me], wire[Me]) /\ env[Me] \in Env /\ wire[Me] \in Wire /\ UNCHANGED <<stored, inbox>>
  BY <1>1, <1>2, NoMove
<1>5. wire[Me] = Silent /\ env[Me] = Closed /\ Closed.mode = "cmd"
  BY <1>1, <1>2, <1>3, <1>4, TalksQuiet, RecordFacts
<1>6. Talks(env[Me], wire[Me], fwd', sock', Current', inbox)
  BY <1>2, <1>3, <1>5, TalksLeave
<1> QED
  BY <1>1, <1>2, <1>3, <1>4, <1>6, Moves

(* A forward is handed to the acker, with the status s.                    *)
LEMMA Takes ==
  ASSUME DeliverInv, NEW i \in 1 .. Len(waiting), NEW s \in Nat, Delivered(i, s), NEW w2 \in Wire,
         Delta(Me, env[Me], w2), UNCHANGED <<stored, inbox>>, faults' \in Nat,
         UNCHANGED <<tosend, sent, cursor, sock>>, up' = up, up,
         Talks(env[Me], w2, fwd', sock, Current', inbox),
         s = 250 => ArrivedIn(inbox, MailOf(waiting[i]))
  PROVE  DeliverInv'
<1>1. /\ SmtpdTypes /\ SendmailTypes /\ IsSeq(inbox) /\ PartsInv /\ SentOk
  BY DEF DeliverInv
<1> DEFINE x == [v |-> waiting[i], status |-> s]
<1>2. /\ delivered' = Append(delivered, x) /\ waiting' = Without(waiting, i)
      /\ fwd' = [pc |-> "scan", i |-> i, k |-> 0, asked |-> FALSE]
  BY DEF Delivered, Without, Goto
<1>3. /\ env' \in [Cnxs -> Env] /\ wire' \in [Cnxs -> Wire] /\ env'[Me] = env[Me] /\ wire'[Me] = w2
      /\ \A c \in Cnxs : c # Me => env'[c] = env[c]
  BY <1>1, DeltaFacts DEF Me, Cnxs, SmtpdTypes
<1>4. SmtpdTypes' /\ IsSeq(inbox')
  BY <1>1, <1>3 DEF SmtpdTypes
<1>5. PartsInv'
  BY <1>1, <1>3 DEF PartsInv
<1>6. /\ waiting \in Seq(Nat) /\ delivered \in Seq([v : Nat, status : Nat])
      /\ waiting[i] \in 1 .. Len(tosend) /\ waiting[i] \in Nat
  BY <1>1 DEF SendmailTypes
<1>7. x \in [v : Nat, status : Nat] /\ x.v = waiting[i] /\ x.status = s
  BY <1>6
<1> HIDE DEF x
<1>8. /\ delivered' \in Seq([v : Nat, status : Nat])
      /\ \A j \in 1 .. Len(delivered') : (j \in 1 .. Len(delivered) /\ delivered'[j] = delivered[j]) \/ delivered'[j] = x
  <2>1. delivered \in Seq([v : Nat, status : Nat]) /\ x \in [v : Nat, status : Nat]
    BY <1>6, <1>7
  <2>2. Append(delivered, x) \in Seq([v : Nat, status : Nat])
    BY <2>1
  <2>3. \A j \in 1 .. Len(Append(delivered, x)) :
          \/ j \in 1 .. Len(delivered) /\ Append(delivered, x)[j] = delivered[j]
          \/ j = Len(delivered) + 1 /\ Append(delivered, x)[j] = x
    BY <2>1, AppendOld
  <2> QED
    BY <1>2, <2>2, <2>3
<1>9. \A j \in 1 .. Len(delivered') : delivered'[j].v \in 1 .. Len(tosend)
  BY <1>1, <1>6, <1>7, <1>8 DEF SendmailTypes
<1>10. waiting' \in Seq(Nat) /\ \A j \in 1 .. Len(waiting') : waiting'[j] \in 1 .. Len(tosend)
  <2>1. waiting' \in Seq(Nat)
    BY <1>2, <1>6, WithoutFacts
  <2>2. \A j \in 1 .. Len(waiting') : \E n \in 1 .. Len(waiting) : waiting'[j] = waiting[n]
    <3>1. LeftOf(waiting, i, Without(waiting, i))
      BY <1>6, WithoutOld
    <3> QED
      BY <1>2, <3>1 DEF LeftOf
  <2> QED
    BY <1>1, <2>1, <2>2 DEF SendmailTypes
<1>11. fwd' \in FwdSt /\ fwd'.pc \notin Dialogue \cup {"open"}
  BY <1>2, Places DEF Passes, Dialogue
<1>12. SendmailTypes'
  BY <1>1, <1>8, <1>9, <1>10, <1>11 DEF SendmailTypes
<1>13. SentOk'
  <2>1. TosendKept /\ Grows(inbox, inbox')
    BY <1>1, SameGrows DEF TosendKept
  <2>2. \A j \in 1 .. Len(delivered') :
           \/ \E n \in 1 .. Len(delivered) : delivered'[j] = delivered[n]
           \/ delivered'[j].status = 250 => ArrivedIn(inbox', tosend'[delivered'[j].v].mail)
    BY <1>7, <1>8 DEF MailOf
  <2> QED
    BY <1>1, <2>1, <2>2, SentKept
<1> QED
  BY <1>3, <1>4, <1>5, <1>12, <1>13 DEF DeliverInv

LEMMA DeliverScan == ASSUME DeliverInv, transfers_done PROVE DeliverInv'
<1>1. /\ SmtpdTypes /\ SendmailTypes /\ Talks(env[Me], wire[Me], fwd, sock, Current, inbox) /\ faults \in Nat
      /\ sock \in {"none", "open", "reset"} /\ waiting \in Seq(Nat)
  BY DEF DeliverInv, SmtpdTypes, SendmailTypes
<1>2. /\ up /\ fwd.pc = "scan" /\ fwd.i \in 1 .. Len(waiting) /\ UNCHANGED smtpd
      /\ UNCHANGED <<faults, tosend, sent, up, cursor, sock>>
  BY <1>1 DEF transfers_done, Forwarding
<1>3. fwd.pc \notin Dialogue /\ fwd.i \in Nat /\ fwd.i + 1 \in Nat
  BY <1>2 DEF Dialogue
<1>4. Delta(Me, env[Me], wire[Me]) /\ env[Me] \in Env /\ wire[Me] \in Wire /\ UNCHANGED <<stored, inbox>>
  BY <1>1, <1>2, NoMove
<1>5. wire[Me] = Silent /\ env[Me].mode \in {"cmd", "body"} /\ (~ env[Me].open => env[Me] = Closed) /\ (sock = "none" => env[Me] = Closed)
  BY <1>1, <1>3, <1>4, TalksQuiet
<1>6. CASE Goto("scan", fwd.i + 1, 0) /\ UNCHANGED <<waiting, tx, delivered>>
  <2>1. fwd' \in FwdSt /\ fwd'.pc \notin Dialogue \cup {"open"}
    BY <1>3, <1>6, Places DEF Goto, Passes, Dialogue
  <2>2. Talks(env[Me], wire[Me], fwd', sock', Current', inbox)
    BY <1>2, <1>5, <2>1, TalksLeave
  <2> QED
    BY <1>1, <1>2, <1>4, <1>6, <2>1, <2>2, Moves
<1>7. CASE Delivered(fwd.i, 500)
  <2>1. fwd'.pc \notin Dialogue
    BY <1>3, <1>7, Places DEF Delivered, Goto, Passes, Dialogue
  <2>2. Talks(env[Me], wire[Me], fwd', sock, Current', inbox)
    BY <1>5, <2>1, TalksLeave
  <2>3. 500 \in Nat /\ 500 # 250
    OBVIOUS
  <2> QED
    BY <1>1, <1>2, <1>4, <1>7, <2>2, <2>3, Takes
<1>8. CASE sock = "none" /\ Goto("open", fwd.i, 1) /\ UNCHANGED <<waiting, tx, delivered>>
  <2>1. fwd' \in FwdSt /\ fwd'.pc \notin Dialogue /\ fwd'.i = fwd.i
    BY <1>3, <1>8, Places DEF Goto, Passes, Dialogue
  <2>2. Talks(env[Me], wire[Me], fwd', sock', Current', inbox)
    BY <1>2, <1>5, <2>1, TalksLeave
  <2> QED
    BY <1>1, <1>2, <1>4, <1>8, <2>1, <2>2, Moves
<1>9. CASE sock # "none" /\ Goto("mail", fwd.i, 1) /\ UNCHANGED <<waiting, tx, delivered>>
  <2>1. fwd' \in FwdSt /\ fwd'.pc = "mail" /\ fwd'.i = fwd.i
    BY <1>3, <1>9, Places DEF Goto, Passes, Dialogue
  <2>2. Ready(env[Me], fwd', sock', Current')
    BY <1>2, <1>5, <1>9, <2>1 DEF Ready, Dialogue
  <2>3. Talks(env[Me], wire[Me], fwd', sock', Current', inbox)
    BY <1>5, <2>2, TalksReady
  <2> QED
    BY <1>1, <1>2, <1>4, <1>9, <2>1, <2>3, Moves
<1> QED
  BY <1>6, <1>7, <1>8, <1>9 DEF transfers_done

(* An error of smtp_cmd.                                                   *)
LEMMA DeliverFails ==
  ASSUME DeliverInv, NEW s \in {"open", "reset"}, Fails(s), up, fwd.pc \in Dialogue, faults' \in Nat,
         ~ env[Me].open, wire[Me] = Silent
  PROVE  DeliverInv'
<1>1. /\ SmtpdTypes /\ SendmailTypes /\ Talks(env[Me], wire[Me], fwd, sock, Current, inbox)
      /\ sock \in {"none", "open", "reset"}
  BY DEF DeliverInv, SendmailTypes
<1>2. /\ UNCHANGED smtpd /\ UNCHANGED <<tosend, sent, up, cursor, waiting, delivered>>
      /\ \/ sock' = "none" /\ fwd' = Idle
         \/ sock' = s /\ fwd' = [pc |-> "failed", i |-> 0, k |-> 0, asked |-> FALSE]
  BY DEF Fails, Goto
<1>3. fwd' \in FwdSt /\ fwd'.pc \notin Dialogue \cup {"open"} /\ sock' \in {"none", "open", "reset"}
  BY <1>2, Places DEF Passes, Dialogue
<1>4. Delta(Me, env[Me], wire[Me]) /\ env[Me] \in Env /\ wire[Me] \in Wire /\ UNCHANGED <<stored, inbox>>
  BY <1>1, <1>2, NoMove
<1>5. env[Me] = Closed /\ Closed.mode = "cmd"
  BY <1>1, RecordFacts DEF Talks
<1>6. Talks(env[Me], wire[Me], fwd', sock', Current', inbox)
  BY <1>3, <1>5, TalksLeave
<1> QED
  BY <1>2, <1>3, <1>4, <1>6, Moves

(* An error of sendmail itself, with nothing sent.                         *)
LEMMA DeliverLocal == ASSUME DeliverInv, LocalError PROVE DeliverInv'
<1>1. /\ SmtpdTypes /\ SendmailTypes /\ Talks(env[Me], wire[Me], fwd, sock, Current, inbox) /\ faults \in Nat
      /\ sock \in {"none", "open", "reset"}
  BY DEF DeliverInv, SmtpdTypes, SendmailTypes
<1>2. /\ up /\ fwd.pc \in {"mail", "rcpt", "body"} /\ ~ fwd.asked
      /\ UNCHANGED smtpd /\ UNCHANGED <<tosend, sent, up, cursor, waiting, delivered>>
      /\ fwd' = [pc |-> "failed", i |-> 0, k |-> 0, asked |-> FALSE]
      /\ sock' \in {sock, "reset"}
  BY DEF LocalError, Forwarding, Goto
<1>3. faults' \in Nat
  BY <1>1 DEF LocalError
<1>4. fwd' \in FwdSt /\ fwd'.pc \notin Dialogue \cup {"open"} /\ sock' \in {"none", "open", "reset"}
  BY <1>1, <1>2, Places DEF Passes, Dialogue
<1>5. Delta(Me, env[Me], wire[Me]) /\ env[Me] \in Env /\ wire[Me] \in Wire /\ UNCHANGED <<stored, inbox>>
  BY <1>1, <1>2, NoMove
<1>6. wire[Me] = Silent /\ (~ env[Me].open => env[Me] = Closed) /\ sock # "none"
  BY <1>1, <1>2 DEF Talks, Lines, Dialogue
<1>7. env[Me].mode \in {"cmd", "body"}
  <2>1. env[Me].mode \in {"cmd", "body", "store", "answer"}
    BY <1>5 DEF Env
  <2> QED
    BY <1>1, <1>2, <2>1 DEF Talks, Modes
<1>8. Talks(env[Me], wire[Me], fwd', sock', Current', inbox)
  BY <1>2, <1>4, <1>6, <1>7, TalksLeave
<1> QED
  BY <1>1, <1>2, <1>3, <1>4, <1>5, <1>8, Moves

(* The line that smtp_cmd writes.                                          *)
LEMMA LineFields ==
  ASSUME NEW pc \in Dialogue, NEW m \in Mails, pc = "rcpt" => To[m][fwd.k] \in Names
  PROVE  /\ Line(pc, m) \in Wire /\ Line(pc, m).t = "command" /\ Line(pc, m).kw = pc
         /\ pc \in {"mail", "body"} => Line(pc, m).arg = m
         /\ pc = "rcpt" => Line(pc, m).arg = To[m][fwd.k]
<1>1. NoOne \in Names /\ m \in Names
  BY DEF Names
<1>2. pc \in Kws
  BY DEF Dialogue, Kws
<1>3. CASE pc = "helo" \/ pc = "data"
  <2>1. Line(pc, m) = Command(pc, NoOne)
    BY <1>3 DEF Line
  <2> QED
    BY <1>1, <1>2, <1>3, <2>1, CommandFields
<1>4. CASE pc = "mail" \/ pc = "body"
  <2>1. Line(pc, m) = Command(pc, m)
    BY <1>4 DEF Line
  <2> QED
    BY <1>1, <1>2, <1>4, <2>1, CommandFields
<1>5. CASE pc = "rcpt"
  <2>1. Line(pc, m) = Command(pc, To[m][fwd.k])
    BY <1>5 DEF Line
  <2> QED
    BY <1>2, <1>5, <2>1, CommandFields
<1> QED
  BY <1>3, <1>4, <1>5 DEF Dialogue

(* The forwarder asks.                                                     *)
LEMMA TalksAsks ==
  ASSUME NEW e, NEW w, NEW f, NEW g, NEW sk, NEW m, NEW box, NEW w2, Talks(e, w, f, sk, m, box),
         f.pc \in Dialogue, ~ f.asked, g.pc = f.pc, g.k = f.k, g.asked,
         w2.t = "command", w2.kw = f.pc, f.pc \in {"mail", "body"} => w2.arg = m,
         f.pc = "rcpt" => w2.arg = To[m][f.k]
  PROVE  Talks(e, w2, g, sk, m, box)
<1>1. w.t = "none"
  BY DEF Talks, Lines
<1>2. Lines(w2, g, m)
  BY DEF Lines
<1>3. Session(e, w2, g, m)
  BY DEF Session, Talks
<1>4. Modes(e, w2, g, m, box)
  BY <1>1 DEF Modes, Talks
<1>5. sk # "none" /\ (~ e.open => e = Closed)
  BY DEF Talks
<1> QED
  BY <1>2, <1>3, <1>4, <1>5 DEF Talks

LEMMA DeliverCmd == ASSUME DeliverInv, smtp_cmd \/ read_fails PROVE DeliverInv'
<1>1. /\ SmtpdTypes /\ SendmailTypes /\ Talks(env[Me], wire[Me], fwd, sock, Current, inbox) /\ faults \in Nat
      /\ sock \in {"none", "open", "reset"} /\ fwd \in FwdSt
  BY DEF DeliverInv, SmtpdTypes, SendmailTypes
<1>2. up /\ fwd.pc \in Dialogue /\ faults' = faults
  BY DEF smtp_cmd, read_fails, Forwarding
<1>3. env[Me] \in Env /\ wire[Me] \in Wire /\ env \in [Cnxs -> Env] /\ Me \in Cnxs
  BY <1>1 DEF SmtpdTypes, Me, Cnxs
<1>4. CASE smtp_cmd /\ env[Me].open
  <2> DEFINE w2 == Line(fwd.pc, Current)
  <2>1. /\ ~ fwd.asked /\ wire' = [wire EXCEPT ![Me] = w2]
        /\ fwd' = [fwd EXCEPT !.asked = TRUE]
        /\ UNCHANGED <<env, stored, inbox, tosend, sent, up, cursor, waiting, delivered, sock>>
    BY <1>4 DEF smtp_cmd, Current
  <2>2. fwd.i \in 1 .. Len(waiting)
    BY <1>1, <1>2 DEF SendmailTypes
  <2>3. Current \in Mails /\ To[Current] \in Seq(Users \cup Strangers)
    BY <1>1, <2>2, CurrentMail
  <2>4. fwd.pc = "rcpt" => To[Current][fwd.k] \in Names
    <3>1. fwd.pc = "rcpt" => fwd.k \in 1 .. Len(To[Current])
      BY <1>1 DEF Talks, Session
    <3> QED
      BY <2>3, <3>1, ElementOfSeq DEF Names
  <2>5. /\ w2 \in Wire /\ w2.t = "command" /\ w2.kw = fwd.pc
        /\ fwd.pc \in {"mail", "body"} => w2.arg = Current
        /\ fwd.pc = "rcpt" => w2.arg = To[Current][fwd.k]
    BY <1>2, <2>3, <2>4, LineFields
  <2>6. fwd' \in FwdSt /\ fwd'.pc = fwd.pc /\ fwd'.i = fwd.i /\ fwd'.k = fwd.k /\ fwd'.asked
    BY <1>1, <2>1, Places
  <2> HIDE DEF w2
  <2>7. Talks(env[Me], w2, fwd', sock, Current, inbox)
    BY <1>1, <1>2, <2>1, <2>5, <2>6, TalksAsks
  <2>8. Current' = Current
    BY <2>1, <2>6 DEF Current, MailOf
  <2>9. Delta(Me, env[Me], w2)
    BY <1>3, <2>1 DEF Delta
  <2>10. Talks(env[Me], w2, fwd', sock', Current', inbox)
    BY <2>1, <2>7, <2>8
  <2>11. fwd'.i \in 1 .. Len(waiting)
    BY <2>2, <2>6
  <2> QED
    BY <1>1, <1>2, <1>3, <2>1, <2>5, <2>6, <2>9, <2>10, <2>11, Moves
<1>5. CASE smtp_cmd /\ ~ env[Me].open
  <2>1. wire[Me] = Silent
    BY <1>1, <1>5 DEF smtp_cmd, Talks, Lines
  <2>2. Fails("reset") \/ Ends
    BY <1>5 DEF smtp_cmd
  <2> QED
    BY <1>1, <1>2, <1>5, <2>1, <2>2, DeliverFails, DeliverEnds
<1>6. CASE read_fails
  <2>1. wire[Me] = Silent /\ ~ env[Me].open /\ (Fails("open") \/ Ends)
    BY <1>6 DEF read_fails
  <2> QED
    BY <1>1, <1>2, <2>1, DeliverFails, DeliverEnds
<1> QED
  BY <1>4, <1>5, <1>6

(* A command that is done leads to the next one.                           *)
LEMMA GoesOn250 == ASSUME NEW pc \in {"helo", "mail", "rcpt"} PROVE GoesOn(pc, 250)
<1>1. 250 \in 250 .. 252
  OBVIOUS
<1>2. CASE pc \in {"helo", "mail"}
  BY <1>2 DEF GoesOn
<1>3. CASE pc = "rcpt"
  BY <1>1, <1>3 DEF GoesOn
<1> QED
  BY <1>2, <1>3

(* What the forwarder makes of an answer.                                  *)
LEMMA DeliverAnswer == ASSUME DeliverInv, send_forward PROVE DeliverInv'
<1> DEFINE e == env[Me]
           w == wire[Me]
           m == Current
<1>1. /\ SmtpdTypes /\ SendmailTypes /\ Talks(e, w, fwd, sock, m, inbox) /\ faults \in Nat
      /\ sock \in {"none", "open", "reset"} /\ fwd \in FwdSt
  BY DEF DeliverInv, SmtpdTypes, SendmailTypes
<1>2. /\ up /\ fwd.pc \in Dialogue /\ w.t = "answer" /\ wire' = [wire EXCEPT ![Me] = Silent]
      /\ UNCHANGED <<env, stored, inbox, faults, tosend, sent, up, cursor, sock>>
  BY DEF send_forward, Forwarding
<1>3. e \in Env /\ w \in Wire /\ w.status \in Nat /\ env \in [Cnxs -> Env] /\ e.mode \in {"cmd", "body", "store", "answer"}
  BY <1>1 DEF SmtpdTypes, Me, Cnxs, Env, Wire
<1>4. Delta(Me, e, Silent) /\ Silent \in Wire
  BY <1>2, <1>3, RecordFacts DEF Delta
<1>5. fwd.i \in 1 .. Len(waiting) /\ fwd.i \in Nat /\ fwd.k \in Nat
  BY <1>1, <1>2 DEF SendmailTypes, FwdSt
<1>6. m \in Mails /\ Len(To[m]) \in Nat \ {0} /\ Last(To[m]) = To[m][Len(To[m])]
  BY <1>1, <1>5, CurrentMail
<1>7. sock # "none" /\ (~ e.open => e = Closed) /\ (sock = "none" => e = Closed)
  BY <1>1, <1>2 DEF Talks
<1>8. e.mode = "cmd" \/ (e.mode = "body" /\ fwd.pc = "data" /\ w.status = 354)
  BY <1>1, <1>2, <1>3 DEF Talks, Modes
<1>9. /\ fwd.pc = "mail" /\ w.status = 250 => e.from = m
      /\ fwd.pc \in {"rcpt", "data", "body"} /\ e.open => e.from = m
      /\ fwd.pc = "rcpt" => fwd.k \in 1 .. Len(To[m])
      /\ fwd.pc = "rcpt" => w.status \notin {251, 252} /\ (w.status = 250 => e.mailbox = To[m][fwd.k])
      /\ fwd.pc \in {"data", "body"} /\ e.open => e.mailbox = Last(To[m])
  BY <1>1, <1>2 DEF Talks, Session
<1>10. /\ fwd.pc = "data" => w.status # 250
       /\ fwd.pc = "body" /\ w.status = 250 => ArrivedIn(inbox, m)
  BY <1>1, <1>2 DEF Talks, Modes
<1>11. CASE GoesOn(fwd.pc, w.status)
  <2>1. NextStep /\ UNCHANGED <<waiting, tx, delivered>>
    BY <1>11 DEF send_forward
  <2>2. ASSUME NEW pc \in Dialogue, NEW k \in Nat, Goto(pc, fwd.i, k),
               LET f == [pc |-> pc, i |-> fwd.i, k |-> k, asked |-> FALSE] IN Ready(e, f, sock, m)
        PROVE  DeliverInv'
    <3>0. pc \in Passes
      BY DEF Passes
    <3>1. fwd' \in FwdSt /\ fwd'.i = fwd.i
      BY <1>5, <2>2, <3>0, Places DEF Goto
    <3>2. m' = m /\ Ready(e, fwd', sock, m)
      BY <1>2, <2>1, <2>2, <3>1 DEF Current, MailOf, Goto
    <3>3. Talks(e, Silent, fwd', sock', m', inbox)
      BY <1>2, <3>2, TalksReady
    <3> HIDE DEF e, w
    <3> QED
      BY <1>1, <1>2, <1>3, <1>4, <1>5, <2>1, <3>1, <3>3, Moves DEF e
  <2>3. CASE fwd.pc = "helo"
    <3>1. Goto("mail", fwd.i, 1)
      BY <2>1, <2>3 DEF NextStep
    <3>2. Ready(e, [pc |-> "mail", i |-> fwd.i, k |-> 1, asked |-> FALSE], sock, m)
      BY <1>7, <1>8, <2>3 DEF Ready, Dialogue
    <3> QED
      BY <2>2, <3>1, <3>2 DEF Dialogue
  <2>4. CASE fwd.pc = "mail"
    <3>1. Goto("rcpt", fwd.i, 1)
      BY <2>1, <2>4 DEF NextStep
    <3>2. w.status = 250 /\ 1 \in 1 .. Len(To[m])
      BY <1>6, <1>11, <2>4 DEF GoesOn
    <3>3. Ready(e, [pc |-> "rcpt", i |-> fwd.i, k |-> 1, asked |-> FALSE], sock, m)
      BY <1>7, <1>8, <1>9, <2>4, <3>2 DEF Ready, Dialogue
    <3> QED
      BY <2>2, <3>1, <3>3 DEF Dialogue
  <2>5. CASE fwd.pc = "rcpt" /\ fwd.k < Len(To[m])
    <3>1. Goto("rcpt", fwd.i, fwd.k + 1)
      <4>1. fwd.k < Len(To[MailOf(waiting[fwd.i])]) /\ fwd.k # Len(To[MailOf(waiting[fwd.i])])
        BY <1>5, <1>6, <2>5 DEF Current
      <4> QED
        BY <2>1, <2>5, <4>1 DEF NextStep
    <3>2. fwd.k + 1 \in 1 .. Len(To[m]) /\ fwd.k + 1 \in Nat
      BY <1>5, <1>6, <2>5
    <3>3. Ready(e, [pc |-> "rcpt", i |-> fwd.i, k |-> fwd.k + 1, asked |-> FALSE], sock, m)
      BY <1>7, <1>8, <1>9, <2>5, <3>2 DEF Ready, Dialogue
    <3> QED
      BY <2>2, <3>1, <3>2, <3>3 DEF Dialogue
  <2>6. CASE fwd.pc = "rcpt" /\ ~ (fwd.k < Len(To[m]))
    <3>0. fwd.k = Len(To[m])
      BY <1>5, <1>6, <1>9, <2>6
    <3>1. Goto("data", fwd.i, 1)
      BY <1>6, <2>1, <2>6, <3>0 DEF NextStep, Current
    <3>2. w.status = 250 /\ e.mailbox = Last(To[m])
      BY <1>3, <1>6, <1>9, <1>11, <2>6, <3>0 DEF GoesOn
    <3>3. Ready(e, [pc |-> "data", i |-> fwd.i, k |-> 1, asked |-> FALSE], sock, m)
      BY <1>7, <1>8, <1>9, <2>6, <3>2 DEF Ready, Dialogue
    <3> QED
      BY <2>2, <3>1, <3>3 DEF Dialogue
  <2>7. CASE fwd.pc = "data"
    <3>1. Goto("body", fwd.i, 1)
      BY <2>1, <2>7 DEF NextStep
    <3>2. Ready(e, [pc |-> "body", i |-> fwd.i, k |-> 1, asked |-> FALSE], sock, m)
      BY <1>7, <1>8, <1>9, <2>7 DEF Ready, Dialogue
    <3> QED
      BY <2>2, <3>1, <3>2 DEF Dialogue
  <2>8. CASE fwd.pc = "body"
    BY <1>11, <2>8 DEF GoesOn
  <2> QED
    BY <1>2, <2>3, <2>4, <2>5, <2>6, <2>7, <2>8 DEF Dialogue
<1>12. CASE ~ GoesOn(fwd.pc, w.status)
  <2>1. Delivered(fwd.i, w.status)
    BY <1>12 DEF send_forward
  <2>2. fwd'.pc \notin Dialogue
    BY <1>5, <2>1, Places DEF Delivered, Goto, Passes, Dialogue
  <2>3. e.mode = "cmd"
    BY <1>8, <1>12 DEF GoesOn
  <2>4. Talks(e, Silent, fwd', sock, Current', inbox)
    BY <1>7, <2>2, <2>3, TalksLeave
  <2>5. w.status = 250 => ArrivedIn(inbox, MailOf(waiting[fwd.i]))
    <3>1. fwd.pc \in {"helo", "mail", "rcpt"} /\ w.status = 250 => GoesOn(fwd.pc, w.status)
      BY GoesOn250
    <3>2. w.status = 250 => fwd.pc = "body"
      BY <1>2, <1>10, <1>12, <3>1 DEF Dialogue
    <3> QED
      BY <1>10, <3>2 DEF Current
  <2> HIDE DEF e, w, m
  <2> QED
    BY <1>1, <1>2, <1>3, <1>4, <1>5, <2>1, <2>4, <2>5, Takes DEF e
<1> QED
  BY <1>11, <1>12

(* sendmail, whatever it does.                                             *)
LEMMA DeliverSendmail == ASSUME DeliverInv, SendmailNext PROVE DeliverInv'
<1>1. CASE Killed
  <2>1. faults' \in Nat /\ Ends
    BY <1>1 DEF Killed, DeliverInv, SmtpdTypes
  <2> QED
    BY <2>1, DeliverEnds
<1> QED
  BY <1>1, DeliverSubmit, DeliverGone, DeliverStart, DeliverPatch, DeliverTransfer, DeliverPass, DeliverScan,
     DeliverOpen, DeliverCmd, DeliverAnswer, DeliverClose, DeliverAcker, DeliverLocal, DeliverQuit, DeliverFetch
     DEF SendmailNext, Forwarder

-----------------------------------------------------------------------------
(* The other programs, and the theorem.                                    *)

(* The other programs leave the lists of sendmail alone.                   *)
LEMMA DeliverElsewhere ==
  ASSUME DeliverInv, UNCHANGED sendmail, SmtpdTypes', PartsInv', Grows(inbox, inbox'),
         Talks(env'[Me], wire'[Me], fwd, sock, Current, inbox')
  PROVE  DeliverInv'
<1>1. SendmailTypes /\ SentOk
  BY DEF DeliverInv
<1>2. UNCHANGED <<tosend, sent, up, cursor, waiting, delivered, fwd, sock>>
  BY DEF sendmail
<1>3. SendmailTypes' /\ TosendKept
  BY <1>1, <1>2 DEF SendmailTypes, TosendKept
<1>4. SentOk'
  BY <1>1, <1>2, <1>3, SentKept
<1>5. Talks(env'[Me], wire'[Me], fwd', sock', Current', inbox')
  BY <1>2 DEF Current, MailOf
<1>6. IsSeq(inbox')
  BY DEF Grows
<1> QED
  BY <1>3, <1>4, <1>5, <1>6 DEF DeliverInv

(* A turn of smtpd adds to the folders at most.                            *)
LEMMA TurnGrows ==
  ASSUME IsSeq(inbox), NEW e, NEW w, NEW e2, NEW w2, Turn(e, w, e2, w2)
  PROVE  Grows(inbox, inbox')
<1>1. inbox' = inbox \/ inbox' = Append(inbox, Letter(e))
  BY DEF Turn, Quits, Reads, Stores, Requests, Accepts, GivesUp
<1> QED
  BY <1>1, SameGrows, AppendGrows

LEMMA DeliverSmtpd == ASSUME DeliverInv, SmtpdNext, UNCHANGED sendmail PROVE DeliverInv'
<1>1. /\ SmtpdTypes /\ SendmailTypes /\ IsSeq(inbox) /\ PartsInv /\ faults \in Nat
      /\ Talks(env[Me], wire[Me], fwd, sock, Current, inbox)
  BY DEF DeliverInv, SmtpdTypes
<1>2. Me \in Cnxs /\ env[Me] \in Env /\ wire[Me] \in Wire
  BY <1>1 DEF SmtpdTypes, Me, Cnxs
<1>3. ASSUME NEW c \in Cnxs, serve_cnx(c) \/ ProcessFails(c) PROVE DeliverInv'
  <2>1. PICK e2 \in Env, w2 \in Wire : Delta(c, e2, w2) /\ Turn(env[c], wire[c], e2, w2)
    BY <1>1, <1>3, Turns
  <2>2. SmtpdTypes' /\ PartsInv'
    BY <1>1, <2>1, TurnParts
  <2>3. Grows(inbox, inbox')
    BY <1>1, <2>1, TurnGrows
  <2>4. /\ env'[c] = e2 /\ wire'[c] = w2
        /\ Me # c => env'[Me] = env[Me] /\ wire'[Me] = wire[Me]
    BY <1>1, <1>2, <2>1, DeltaFacts
  <2>5. CASE c = Me
    <3>1. Turn(env[Me], wire[Me], e2, w2)
      BY <2>1, <2>5
    <3>2. Talks(e2, w2, fwd, sock, Current, inbox')
      BY <1>1, <1>2, <3>1, TalksTurn
    <3>3. Talks(env'[Me], wire'[Me], fwd, sock, Current, inbox')
      BY <2>4, <2>5, <3>2
    <3> QED
      BY <2>2, <2>3, <3>3, DeliverElsewhere
  <2>6. CASE c # Me
    <3>1. Talks(env[Me], wire[Me], fwd, sock, Current, inbox')
      BY <1>1, <2>3, TalksFrame
    <3>2. Talks(env'[Me], wire'[Me], fwd, sock, Current, inbox')
      BY <2>4, <2>6, <3>1
    <3> QED
      BY <2>2, <2>3, <3>2, DeliverElsewhere
  <2> QED
    BY <2>5, <2>6
<1>4. ASSUME NEW cs, Cut(cs), faults' \in Nat PROVE DeliverInv'
  <2>1. /\ env' \in [Cnxs -> Env] /\ wire' \in [Cnxs -> Wire] /\ UNCHANGED <<stored, inbox>>
        /\ \A c \in Cnxs : c \in cs => env'[c] = Closed /\ wire'[c] = Silent
        /\ \A c \in Cnxs : c \notin cs => env'[c] = env[c] /\ wire'[c] = wire[c]
    BY <1>1, <1>4, CutFacts
  <2>2. SmtpdTypes' /\ Grows(inbox, inbox')
    BY <1>1, <1>4, <2>1, SameGrows DEF SmtpdTypes
  <2>3. PartsInv'
    BY <1>1, <2>1, RecordFacts DEF PartsInv, PartsOf
  <2>4. Talks(Closed, Silent, fwd, sock, Current, inbox)
    BY <1>1, TalksCut
  <2>5. Talks(env'[Me], wire'[Me], fwd, sock, Current, inbox')
    BY <1>1, <1>2, <2>1, <2>4
  <2> QED
    BY <2>2, <2>3, <2>5, DeliverElsewhere
<1>5. ASSUME NEW c \in Cnxs, LinkBreaks(c) PROVE DeliverInv'
  BY <1>1, <1>4, <1>5 DEF LinkBreaks
<1>6. CASE SmtpdDies
  BY <1>1, <1>4, <1>6 DEF SmtpdDies
<1>7. CASE OtherClient
  <2>0. "other" \in Cnxs /\ "other" # Me
    BY DEF Cnxs, Me
  <2>1. UNCHANGED <<stored, inbox, faults>>
    BY <1>1, <1>7, OtherFacts
  <2>2. PICK e2 \in Env, w2 \in Wire :
          /\ Delta("other", e2, w2)
          /\ e2 = Opened \/ e2 = env["other"]
    BY <1>1, <1>7, OtherFacts
  <2>3. /\ env' \in [Cnxs -> Env] /\ wire' \in [Cnxs -> Wire] /\ env'["other"] = e2
        /\ \A d \in Cnxs : d # "other" => env'[d] = env[d] /\ wire'[d] = wire[d]
    BY <1>1, <2>0, <2>2, DeltaFacts
  <2>4. SmtpdTypes' /\ Grows(inbox, inbox')
    BY <1>1, <2>1, <2>3, SameGrows DEF SmtpdTypes
  <2>5. PartsInv'
    BY <1>1, <2>0, <2>1, <2>2, <2>3, RecordFacts DEF PartsInv, PartsOf
  <2>6. Talks(env'[Me], wire'[Me], fwd, sock, Current, inbox')
    BY <1>1, <1>2, <2>0, <2>1, <2>3
  <2> QED
    BY <2>4, <2>5, <2>6, DeliverElsewhere
<1> QED
  BY <1>3, <1>5, <1>6, <1>7 DEF SmtpdNext, SmtpdSteps

(* stribution writes no mails into the folders of smtpd, and leaves the    *)
(* connections alone.                                                      *)
LEMMA StribBox ==
  ASSUME StribNext, faults \in Nat
  PROVE  /\ UNCHANGED <<env, wire, stored>> /\ faults' \in Nat /\ faults' >= faults
         /\ \/ inbox' = inbox
            \/ \E x : inbox' = Append(inbox, x) /\ x.kind # "mail" /\ x.mail = NoOne
<1>1. ASSUME NEW k \in {"conf", "mark", "dir"}, NEW n, Note(k, n)
      PROVE  \E x : inbox' = Append(inbox, x) /\ x.kind # "mail" /\ x.mail = NoOne
  <2> DEFINE x == [kind |-> k, to |-> Owner, from |-> NoOne, mail |-> NoOne, target |-> n]
  <2>1. inbox' = Append(inbox, x) /\ x.kind # "mail" /\ x.mail = NoOne
    BY <1>1 DEF Note
  <2> QED
    BY <2>1
<1>2. ASSUME NEW n \in DOMAIN Confs, Configure(n)
      PROVE  UNCHANGED <<env, wire, stored, faults>> /\ Note("conf", n)
  BY <1>2 DEF Configure
<1>3. ASSUME NEW v \in DOMAIN inbox, mdir_mark(v)
      PROVE  UNCHANGED <<env, wire, stored, faults>> /\ Note("mark", v)
  BY <1>3 DEF mdir_mark
<1>4. ASSUME NEW v \in DOMAIN inbox, Blank(v) PROVE UNCHANGED <<env, wire, stored, faults, inbox>>
  BY <1>4 DEF Blank, smtpd
<1>5. CASE smdir_alloc \/ smdir_free \/ process_put \/ strib_eval \/ CopyObject \/ do_delete \/ ProcessEnd
  <2>1. CASE smdir_alloc \/ smdir_free \/ process_put
    <3>1. UNCHANGED smtpd /\ faults' = faults
      BY <2>1 DEF smdir_alloc, smdir_free, process_put
    <3> QED
      BY <3>1 DEF smtpd
  <2>2. CASE strib_eval \/ CopyObject \/ do_delete \/ ProcessEnd
    <3>1. UNCHANGED smtpd /\ faults' = faults
      BY <2>2 DEF strib_eval, CopyObject, do_delete, ProcessEnd
    <3> QED
      BY <3>1 DEF smtpd
  <2> QED
    BY <1>5, <2>1, <2>2
<1>6. CASE StribKilled \/ CopyFails
  BY <1>6 DEF StribKilled, CopyFails, smtpd
<1>7. CASE strib_new_fails
  <2>1. UNCHANGED <<env, wire, stored, faults>> /\ \E v \in DOMAIN inbox : Note("mark", v)
    BY <1>7 DEF strib_new_fails
  <2> QED
    BY <1>1, <2>1
<1>8. CASE do_copy_string
  <2>1. UNCHANGED <<env, wire, stored, faults>> /\ (inbox' = inbox \/ Note("dir", 0))
    BY <1>8 DEF do_copy_string
  <2> QED
    BY <1>1, <2>1
<1> QED
  BY <1>1, <1>2, <1>3, <1>4, <1>5, <1>6, <1>7, <1>8 DEF StribNext, smdir_thread

LEMMA DeliverStrib == ASSUME DeliverInv, StribNext, UNCHANGED sendmail PROVE DeliverInv'
<1>1. /\ SmtpdTypes /\ IsSeq(inbox) /\ PartsInv /\ faults \in Nat
      /\ Talks(env[Me], wire[Me], fwd, sock, Current, inbox)
  BY DEF DeliverInv, SmtpdTypes
<1>2. /\ UNCHANGED <<env, wire, stored>> /\ faults' \in Nat
      /\ \/ inbox' = inbox
         \/ \E x : inbox' = Append(inbox, x) /\ x.kind # "mail"
  BY <1>1, StribBox
<1>3. SmtpdTypes'
  BY <1>1, <1>2 DEF SmtpdTypes
<1>4. Grows(inbox, inbox')
  BY <1>1, <1>2, SameGrows, AppendGrows
<1>5. Whole(inbox', stored)
  BY <1>1, <1>2, WholeAppend DEF PartsInv
<1>6. PartsInv'
  BY <1>1, <1>2, <1>5 DEF PartsInv
<1>7. Talks(env[Me], wire[Me], fwd, sock, Current, inbox')
  BY <1>1, <1>4, TalksFrame
<1> QED
  BY <1>2, <1>3, <1>4, <1>6, <1>7, DeliverElsewhere

LEMMA DeliverInit == ASSUME MailInit PROVE DeliverInv
<1>1. /\ env = [c \in Cnxs |-> Closed] /\ wire = [c \in Cnxs |-> Silent]
      /\ stored = {} /\ inbox = <<>> /\ faults = 0
      /\ tosend = <<>> /\ sent = {} /\ up = FALSE /\ cursor = 0 /\ waiting = <<>> /\ delivered = <<>>
      /\ fwd = Idle /\ sock = "none"
  BY DEF MailInit, SmtpdInit, SendmailInit
<1>2. Len(<<>>) = 0 /\ <<>> \in Seq({}) /\ \A S : <<>> \in Seq(S)
  OBVIOUS
<1>3. SmtpdTypes /\ env[Me] = Closed /\ wire[Me] = Silent
  BY <1>1, RecordFacts DEF SmtpdTypes, Me, Cnxs
<1>4. SendmailTypes
  BY <1>1, <1>2, Places DEF SendmailTypes
<1>5. IsSeq(inbox)
  BY <1>1, <1>2 DEF IsSeq
<1>6. PartsInv
  BY <1>1, <1>2, RecordFacts DEF PartsInv, PartsOf, Whole
<1>7. Talks(env[Me], wire[Me], fwd, sock, Current, inbox)
  BY <1>1, <1>3, RecordFacts, Places, TalksLeave
<1>8. SentOk
  BY <1>1, <1>2 DEF SentOk
<1> QED
  BY <1>3, <1>4, <1>5, <1>6, <1>7, <1>8 DEF DeliverInv

LEMMA DeliverStep == ASSUME DeliverInv, [MailNext]_mailvars PROVE DeliverInv'
<1>1. CASE UNCHANGED mailvars
  <2>1. UNCHANGED <<env, wire, stored, inbox, faults>> /\ UNCHANGED sendmail
    BY <1>1 DEF mailvars, smtpd
  <2>2. /\ SmtpdTypes' /\ PartsInv' /\ Grows(inbox, inbox')
        /\ Talks(env'[Me], wire'[Me], fwd, sock, Current, inbox')
    BY <2>1, SameGrows DEF DeliverInv, SmtpdTypes, PartsInv
  <2> QED
    BY <2>1, <2>2, DeliverElsewhere
<1> QED
  BY <1>1, DeliverSendmail, DeliverSmtpd, DeliverStrib DEF MailNext

(* What sendmail files under Sent with success is in the folder of its     *)
(* last recipient, from its sender, and what is in a folder has all its    *)
(* files in the cache, for any mails, recipients, parts and other clients, *)
(* whatever answers, faults and ends of either process come in between.    *)
THEOREM SuccessIsDelivery == MailSpec => []SentWasDelivered
<1>1. DeliverInv => SentWasDelivered
  <2> SUFFICES ASSUME DeliverInv PROVE SentWasDelivered
    OBVIOUS
  <2>1. DOMAIN inbox = 1 .. Len(inbox) /\ SentOk /\ Whole(inbox, stored)
    BY SeqLen DEF DeliverInv, PartsInv
  <2>2. \A r \in sent : r.status = 250 =>
          \E i \in DOMAIN inbox :
            inbox[i].mail = r.mail /\ inbox[i].from = r.mail /\ inbox[i].to = Last(To[r.mail])
    BY <2>1 DEF SentOk, ArrivedIn
  <2>3. \A i \in DOMAIN inbox : inbox[i].kind = "mail" => \A k \in 1 .. Parts : <<inbox[i].mail, k>> \in stored
    BY <2>1 DEF Whole
  <2> QED
    BY <2>2, <2>3 DEF SentWasDelivered
<1> QED
  BY <1>1, DeliverInit, DeliverStep, PTL DEF MailSpec

-----------------------------------------------------------------------------
(* One copy: what keeps a mail sent.                                       *)

(* What is not pending stays so while the list is the same.                *)
LEMMA PendingSame ==
  ASSUME waiting' = waiting, Answered => Answered' /\ fwd'.i = fwd.i
  PROVE  \A v : ~ Pending(v) => ~ Pending(v)'
BY DEF Pending

(* The bookkeeping of a step that leaves the lists and folders alone.      *)
LEMMA CopySame ==
  ASSUME DeliverInv, Copies, UNCHANGED <<tosend, delreq, cursor, waiting, delivered, acker, inbox>>,
         sock' # "none" => sock' = "open" /\ env'[Me].open,
         Answered => Answered' /\ fwd'.i = fwd.i
  PROVE  Copies'
<1>1. \A v : ~ Pending(v) => ~ Pending(v)'
  BY PendingSame
<1>2. Tracked'
  BY DEF Copies, Tracked, Unlike, MailOf
<1>3. Single'
  BY <1>1 DEF Copies, Single, MailOf, IsOurs
<1> QED
  BY <1>2, <1>3 DEF Copies

(* The folders when no message comes.                                      *)
LEMMA SingleKept ==
  ASSUME Single, TosendKept, cursor \in Nat, cursor' \in Nat, cursor <= cursor', inbox' = inbox,
         \A v \in 1 .. Len(tosend) : v <= cursor /\ ~ Pending(v) => ~ Pending(v)'
  PROVE  Single'
<1>1. ASSUME NEW i \in 1 .. Len(inbox), IsOurs(inbox[i])
      PROVE  \E v \in 1 .. Len(tosend') : tosend'[v].mail = inbox[i].mail /\ v <= cursor' /\ ~ Pending(v)'
  <2>1. PICK v \in 1 .. Len(tosend) : tosend[v].mail = inbox[i].mail /\ v <= cursor /\ ~ Pending(v)
    BY <1>1 DEF Single, MailOf
  <2>2. v \in 1 .. Len(tosend') /\ tosend'[v].mail = tosend[v].mail
    BY DEF TosendKept
  <2>3. v <= cursor'
    BY <2>1
  <2> QED
    BY <2>1, <2>2, <2>3
<1> QED
  BY <1>1 DEF Single, MailOf, IsOurs

LEMMA CopySubmit == ASSUME DeliverInv, Copies, NEW m \in Mails, Submit(m) PROVE Copies'
<1>1. SendmailTypes
  BY DEF DeliverInv
<1>2. /\ tosend' = Append(tosend, [mail |-> m, gone |-> FALSE]) /\ \A v \in DOMAIN tosend : MailOf(v) # m
      /\ UNCHANGED <<env, wire, inbox, delreq, cursor, waiting, delivered, fwd, sock, acker>>
  BY DEF Submit, smtpd
<1> DEFINE x == [mail |-> m, gone |-> FALSE]
<1>3. /\ x \in [mail : Mails, gone : BOOLEAN] /\ tosend \in Seq([mail : Mails, gone : BOOLEAN])
      /\ x.mail = m /\ ~ x.gone
  BY <1>1 DEF SendmailTypes
<1> HIDE DEF x
<1>4. /\ Len(tosend') = Len(tosend) + 1 /\ Len(tosend) \in Nat /\ DOMAIN tosend = 1 .. Len(tosend)
      /\ \A v \in 1 .. Len(tosend) : v \in 1 .. Len(tosend') /\ tosend'[v] = tosend[v]
      /\ \A v \in 1 .. Len(tosend') :
           (v \in 1 .. Len(tosend) /\ tosend'[v] = tosend[v]) \/ (v = Len(tosend) + 1 /\ tosend'[v] = x)
  BY <1>2, <1>3, AppendOld DEF x
<1>5. TosendKept
  BY <1>4 DEF TosendKept
<1>6. \A v, w \in 1 .. Len(tosend') : tosend'[v].mail = tosend'[w].mail => v = w
  <2>1. \A v \in 1 .. Len(tosend) : tosend[v].mail # m
    BY <1>2, <1>4 DEF MailOf
  <2>2. \A v, w \in 1 .. Len(tosend) : tosend[v].mail = tosend[w].mail => v = w
    BY DEF Copies, Tracked, MailOf
  <2> QED
    BY <1>3, <1>4, <2>1, <2>2
<1>7. \A v \in 1 .. Len(tosend') : tosend'[v].gone => v \in delreq
  BY <1>3, <1>4 DEF Copies, Tracked
<1>8. Tracked'
  BY <1>2, <1>6, <1>7 DEF Copies, Tracked, Unlike, MailOf
<1>9. \A v : ~ Pending(v) => ~ Pending(v)'
  BY <1>2 DEF Pending, Answered
<1>10. Single'
  BY <1>1, <1>2, <1>5, <1>9, SingleKept DEF Copies, SendmailTypes
<1> QED
  BY <1>2, <1>8, <1>10 DEF Copies

LEMMA CopySync == ASSUME DeliverInv, Copies, NEW v \in DOMAIN tosend, Sync(v) PROVE Copies'
<1>1. SendmailTypes
  BY DEF DeliverInv
<1>2. /\ tosend' = [tosend EXCEPT ![v].gone = TRUE] /\ v \in delreq
      /\ UNCHANGED <<env, wire, inbox, delreq, cursor, waiting, delivered, fwd, sock, acker>>
  BY DEF Sync, Gone, smtpd
<1>3. tosend \in Seq([mail : Mails, gone : BOOLEAN]) /\ v \in 1 .. Len(tosend)
  BY <1>1 DEF SendmailTypes
<1>4. tosend[v] \in [mail : Mails, gone : BOOLEAN]
  BY <1>3, ElementOfSeq
<1>5. [tosend[v] EXCEPT !.gone = TRUE] \in [mail : Mails, gone : BOOLEAN]
      /\ [tosend[v] EXCEPT !.gone = TRUE].mail = tosend[v].mail
  BY <1>4
<1>6. Len(tosend') = Len(tosend)
  BY <1>2, <1>3, <1>5, ExceptSeq
<1>7. \A u \in 1 .. Len(tosend) : tosend'[u].mail = tosend[u].mail /\ (u # v => tosend'[u] = tosend[u])
  BY <1>2, <1>3, <1>5
<1>8. TosendKept
  BY <1>6, <1>7 DEF TosendKept
<1>9. Tracked'
  <2>1. \A u, w \in 1 .. Len(tosend') : tosend'[u].mail = tosend'[w].mail => u = w
    BY <1>6, <1>7 DEF Copies, Tracked, MailOf
  <2>2. \A u \in 1 .. Len(tosend') : tosend'[u].gone => u \in delreq
    BY <1>2, <1>6, <1>7 DEF Copies, Tracked
  <2> QED
    BY <1>2, <2>1, <2>2 DEF Copies, Tracked, Unlike, MailOf
<1>10. \A u : ~ Pending(u) => ~ Pending(u)'
  BY <1>2 DEF Pending, Answered
<1>11. Single'
  BY <1>1, <1>2, <1>8, <1>10, SingleKept DEF Copies, SendmailTypes
<1> QED
  BY <1>2, <1>9, <1>11 DEF Copies

LEMMA CopyPatch == ASSUME DeliverInv, Copies, send_patch PROVE Copies'
<1>1. SendmailTypes /\ cursor \in Nat /\ waiting \in Seq(Nat)
  BY DEF DeliverInv, SendmailTypes
<1>2. UNCHANGED <<env, wire, inbox, tosend, delreq, delivered, fwd, sock, acker>>
  BY DEF send_patch, smtpd
<1>3. PICK v \in DOMAIN tosend : v > cursor /\ cursor' = v /\ (waiting' = waiting \/ waiting' = Append(waiting, v))
  BY DEF send_patch
<1>4. v \in 1 .. Len(tosend) /\ v \in Nat
  BY <1>1 DEF SendmailTypes
<1>5. /\ Len(waiting') \in Nat /\ Len(waiting) \in Nat
      /\ \A j \in 1 .. Len(waiting') :
           \/ j \in 1 .. Len(waiting) /\ waiting'[j] = waiting[j]
           \/ j = Len(waiting) + 1 /\ waiting'[j] = v
  BY <1>1, <1>3, <1>4, AppendOld
<1>6. \A j \in 1 .. Len(waiting) : waiting[j] \in Nat /\ waiting[j] <= cursor /\ waiting[j] \notin delreq
  BY <1>1, ElementOfSeq DEF Copies, Tracked
<1>7. \A j \in 1 .. Len(delivered) : delivered[j].v \in Nat /\ delivered[j].v <= cursor
  <2>1. \A j \in 1 .. Len(delivered) : delivered[j].v \in 1 .. Len(tosend)
    BY <1>1 DEF SendmailTypes
  <2> QED
    BY <2>1 DEF Copies, Tracked
<1>8. \A u \in delreq : u \in Nat /\ u <= cursor
  BY DEF Copies, Tracked
<1>9. \A j \in 1 .. Len(waiting') : waiting'[j] <= cursor' /\ waiting'[j] \notin delreq
  BY <1>1, <1>3, <1>4, <1>5, <1>6, <1>8
<1>10. Unlike(waiting')
  <2>1. \A j \in 1 .. Len(waiting) : waiting[j] # v
    BY <1>1, <1>3, <1>4, <1>6
  <2> QED
    BY <1>5, <2>1 DEF Copies, Tracked, Unlike
<1>11. \A i \in 1 .. Len(waiting'), j \in 1 .. Len(delivered) : waiting'[i] # delivered[j].v
  <2>1. \A j \in 1 .. Len(delivered) : delivered[j].v # v
    BY <1>1, <1>3, <1>4, <1>7
  <2> QED
    BY <1>5, <2>1 DEF Copies, Tracked
<1>12. /\ \A j \in 1 .. Len(delivered) : delivered[j].v <= cursor'
       /\ \A u \in delreq : u \in Nat /\ u <= cursor'
  <2>1. delreq \subseteq Nat
    BY DEF Copies, Tracked
  <2> QED
    BY <1>1, <1>3, <1>4, <1>7, <1>8, <2>1
<1>13. Tracked'
  BY <1>2, <1>9, <1>10, <1>11, <1>12 DEF Copies, Tracked, MailOf
<1>14. ASSUME NEW u \in 1 .. Len(tosend), u <= cursor, ~ Pending(u) PROVE ~ Pending(u)'
  <2>1. \A j \in 1 .. Len(waiting') : waiting'[j] = u => j \in 1 .. Len(waiting) /\ waiting[j] = u
    BY <1>1, <1>3, <1>4, <1>5, <1>14
  <2>2. Answered' = Answered /\ fwd'.i = fwd.i
    BY <1>2 DEF Answered
  <2> QED
    BY <1>14, <2>1, <2>2 DEF Pending
<1>15. Single'
  <2>1. TosendKept /\ cursor' \in Nat /\ cursor <= cursor'
    BY <1>1, <1>2, <1>3, <1>4 DEF TosendKept
  <2> QED
    BY <1>1, <1>2, <1>14, <2>1, SingleKept DEF Copies
<1> QED
  BY <1>2, <1>13, <1>15 DEF Copies

(* A forward is handed to the acker.                                       *)
LEMMA CopyTakes ==
  ASSUME DeliverInv, Copies, NEW s \in Nat, NEW i \in 1 .. Len(waiting), i = fwd.i, Delivered(i, s),
         UNCHANGED <<env, inbox, tosend, delreq, cursor, sock, acker>>
  PROVE  Copies'
<1>1. SendmailTypes /\ waiting \in Seq(Nat) /\ delivered \in Seq([v : Nat, status : Nat]) /\ cursor \in Nat
  BY DEF DeliverInv, SendmailTypes
<1> DEFINE x == [v |-> waiting[i], status |-> s]
<1>2. delivered' = Append(delivered, x) /\ waiting' = Without(waiting, i)
  BY DEF Delivered, Without
<1>3. x \in [v : Nat, status : Nat] /\ x.v = waiting[i]
  BY <1>1, ElementOfSeq
<1> HIDE DEF x
<1>4. \A j \in 1 .. Len(delivered') :
        \/ j \in 1 .. Len(delivered) /\ delivered'[j] = delivered[j]
        \/ j = Len(delivered) + 1 /\ delivered'[j] = x
  BY <1>1, <1>2, <1>3, AppendOld
<1>5. /\ Len(waiting') = Len(waiting) - 1 /\ Len(waiting) \in Nat
      /\ \A j \in 1 .. Len(waiting) - 1 : waiting'[j] = IF j < i THEN waiting[j] ELSE waiting[j + 1]
  <2>1. waiting \in Seq(Nat) /\ i \in 1 .. Len(waiting) /\ Len(waiting) \in Nat
    BY <1>1
  <2>2. Len(Without(waiting, i)) = Len(waiting) - 1
    BY <2>1, WithoutFacts
  <2>3. \A j \in 1 .. Len(waiting) - 1 : Without(waiting, i)[j] = IF j < i THEN waiting[j] ELSE waiting[j + 1]
    BY <2>1, WithoutFacts
  <2> QED
    BY <1>2, <2>1, <2>2, <2>3
<1>6. \A j \in 1 .. Len(waiting') : \E n \in 1 .. Len(waiting) : n # i /\ waiting'[j] = waiting[n]
  <2>1. LeftOf(waiting, i, Without(waiting, i))
    BY <1>1, WithoutOld
  <2> QED
    BY <1>2, <2>1 DEF LeftOf
<1>7. Unlike(waiting)
  BY DEF Copies, Tracked
<1>8. Unlike(waiting')
  <2> SUFFICES ASSUME NEW a \in 1 .. Len(waiting'), NEW b \in 1 .. Len(waiting'), waiting'[a] = waiting'[b]
               PROVE  a = b
    BY DEF Unlike
  <2> DEFINE up1(j) == IF j < i THEN j ELSE j + 1
  <2>1. up1(a) \in 1 .. Len(waiting) /\ up1(b) \in 1 .. Len(waiting)
    BY <1>5
  <2>2. waiting'[a] = waiting[up1(a)] /\ waiting'[b] = waiting[up1(b)]
    BY <1>5
  <2>3. up1(a) = up1(b)
    BY <1>7, <2>1, <2>2 DEF Unlike
  <2> QED
    BY <1>5, <2>3
<1>9. \A j \in 1 .. Len(waiting') : waiting'[j] # waiting[i]
  BY <1>6, <1>7 DEF Unlike
<1>10. \A j \in 1 .. Len(waiting') : waiting'[j] <= cursor /\ waiting'[j] \notin delreq
  BY <1>6 DEF Copies, Tracked
<1>11. waiting[i] <= cursor /\ waiting[i] \notin delreq /\ \A j \in 1 .. Len(delivered) : waiting[i] # delivered[j].v
  BY DEF Copies, Tracked
<1>12. \A j \in 1 .. Len(delivered') : delivered'[j].v <= cursor
  BY <1>3, <1>4, <1>11 DEF Copies, Tracked
<1>13. \A a, b \in 1 .. Len(delivered') : delivered'[a].v = delivered'[b].v => a = b
  <2>1. \A a, b \in 1 .. Len(delivered) : delivered[a].v = delivered[b].v => a = b
    BY DEF Copies, Tracked
  <2> QED
    BY <1>3, <1>4, <1>11, <2>1
<1>14. \A a \in 1 .. Len(waiting'), b \in 1 .. Len(delivered') : waiting'[a] # delivered'[b].v
  <2>1. \A a \in 1 .. Len(waiting), b \in 1 .. Len(delivered) : waiting[a] # delivered[b].v
    BY DEF Copies, Tracked
  <2> SUFFICES ASSUME NEW a \in 1 .. Len(waiting'), NEW b \in 1 .. Len(delivered')
               PROVE  waiting'[a] # delivered'[b].v
    OBVIOUS
  <2>2. PICK n \in 1 .. Len(waiting) : waiting'[a] = waiting[n]
    BY <1>6
  <2>3. CASE delivered'[b] = x
    BY <1>3, <1>9, <2>3
  <2>4. CASE b \in 1 .. Len(delivered) /\ delivered'[b] = delivered[b]
    BY <2>1, <2>2, <2>4
  <2> QED
    BY <1>4, <2>3, <2>4
<1>15. \A j \in 1 .. Len(delivered') : delivered'[j].v \in delreq => j = 1 /\ acker = "copy"
  BY <1>3, <1>4, <1>11 DEF Copies, Tracked
<1>16. Tracked'
  BY <1>8, <1>10, <1>12, <1>13, <1>14, <1>15 DEF Copies, Tracked, MailOf
<1>17. \A v : ~ Pending(v) => ~ Pending(v)'
  BY <1>6 DEF Pending
<1>18. Single'
  <2>1. TosendKept /\ cursor' \in Nat /\ cursor <= cursor'
    BY <1>1 DEF TosendKept
  <2> QED
    BY <1>1, <1>17, <2>1, SingleKept DEF Copies
<1> QED
  BY <1>16, <1>18 DEF Copies

LEMMA CopyAcker ==
  ASSUME DeliverInv, Copies, DelRequest \/ CopyRequest
  PROVE  Copies'
<1>1. SendmailTypes /\ waiting \in Seq(Nat) /\ delivered \in Seq([v : Nat, status : Nat]) /\ cursor \in Nat
  BY DEF DeliverInv, SendmailTypes
<1>2. delivered # <<>>
  BY DEF DelRequest, CopyRequest, Acking
<1>3. /\ Len(Tail(delivered)) = Len(delivered) - 1 /\ Len(delivered) \in Nat \ {0}
      /\ \A j \in 1 .. Len(Tail(delivered)) : j + 1 \in 1 .. Len(delivered) /\ Tail(delivered)[j] = delivered[j + 1]
      /\ Head(delivered) = delivered[1] /\ 1 \in 1 .. Len(delivered)
  BY <1>1, <1>2, TailOld
<1> DEFINE v == Head(delivered).v
<1>4. v \in 1 .. Len(tosend) /\ v \in Nat /\ v <= cursor
  <2>1. v \in 1 .. Len(tosend)
    BY <1>1, <1>3 DEF SendmailTypes
  <2> QED
    BY <1>3, <2>1 DEF Copies, Tracked
<1>5. CASE DelRequest
  <2>1. acker = "idle"
    BY <1>5 DEF DelRequest, Acking
  <2>2. ~ tosend[v].gone
    <3>1. v \notin delreq
      BY <1>3, <2>1 DEF Copies, Tracked
    <3> QED
      BY <1>4, <3>1 DEF Copies, Tracked
  <2>3. /\ delreq' = delreq \cup {v} /\ acker' = "copy"
        /\ UNCHANGED <<env, wire, inbox, tosend, cursor, waiting, delivered, fwd, sock>>
    BY <1>5, <2>2 DEF DelRequest, smtpd
  <2>4. \A j \in 1 .. Len(waiting) : waiting[j] \notin delreq'
    BY <1>3, <2>3 DEF Copies, Tracked
  <2>5. \A j \in 1 .. Len(delivered) : delivered[j].v \in delreq' => j = 1
    <3>1. ASSUME NEW j \in 1 .. Len(delivered), delivered[j].v = v PROVE j = 1
      BY <1>3, <3>1 DEF Copies, Tracked
    <3> QED
      BY <2>3, <3>1 DEF Copies, Tracked
  <2>6. \A u \in delreq' : u \in Nat /\ u <= cursor
    BY <1>4, <2>3 DEF Copies, Tracked
  <2>7. \A u \in 1 .. Len(tosend) : tosend[u].gone => u \in delreq'
    BY <2>3 DEF Copies, Tracked
  <2> HIDE DEF v
  <2>8. Tracked'
    BY <2>3, <2>4, <2>5, <2>6, <2>7 DEF Copies, Tracked, Unlike, MailOf
  <2>9. \A u : ~ Pending(u) => ~ Pending(u)'
    BY <2>3 DEF Pending, Answered
  <2>10. Single'
    BY <2>3, <2>9 DEF Copies, Single, MailOf, IsOurs
  <2> QED
    BY <2>3, <2>8, <2>10 DEF Copies
<1>6. CASE CopyRequest
  <2>1. /\ acker' = "idle" /\ delivered' = Tail(delivered)
        /\ UNCHANGED <<env, wire, inbox, tosend, delreq, cursor, waiting, fwd, sock>>
    BY <1>6 DEF CopyRequest, smtpd
  <2>2. \A j \in 1 .. Len(delivered') : j \in Nat /\ j + 1 \in 1 .. Len(delivered) /\ delivered'[j] = delivered[j + 1] /\ j + 1 # 1
    BY <1>3, <2>1
  <2>3. \A j \in 1 .. Len(delivered') : delivered'[j].v <= cursor /\ delivered'[j].v \notin delreq
    BY <2>2 DEF Copies, Tracked
  <2>4. ASSUME NEW a \in 1 .. Len(delivered'), NEW b \in 1 .. Len(delivered'), delivered'[a].v = delivered'[b].v
        PROVE  a = b
    <3>2. a + 1 \in 1 .. Len(delivered) /\ b + 1 \in 1 .. Len(delivered) /\ delivered[a + 1].v = delivered[b + 1].v
      BY <2>2, <2>4
    <3>1. a + 1 = b + 1
      BY <3>2 DEF Copies, Tracked
    <3> QED
      BY <2>2, <3>1
  <2>5. \A a \in 1 .. Len(waiting), b \in 1 .. Len(delivered') : waiting[a] # delivered'[b].v
    BY <2>2 DEF Copies, Tracked
  <2>6. Tracked'
    BY <2>1, <2>3, <2>4, <2>5 DEF Copies, Tracked, Unlike, MailOf
  <2>7. \A u : ~ Pending(u) => ~ Pending(u)'
    BY <2>1 DEF Pending, Answered
  <2>8. Single'
    BY <2>1, <2>7 DEF Copies, Single, MailOf, IsOurs
  <2> QED
    BY <2>1, <2>6, <2>8 DEF Copies
<1> QED
  BY <1>5, <1>6

(* Without faults the connection is open while there is a socket, so that  *)
(* sendmail does not end, and no command fails.                            *)
LEMMA NoFailure ==
  ASSUME DeliverInv, Copies, fwd.pc \in Dialogue
  PROVE  env[Me].open /\ sock = "open"
<1>1. sock # "none"
  BY DEF DeliverInv, Talks
<1> QED
  BY <1>1 DEF Copies

LEMMA CopyForwarder == ASSUME DeliverInv, Copies, Forwarder PROVE Copies'
<1>1. /\ SmtpdTypes /\ SendmailTypes /\ Talks(env[Me], wire[Me], fwd, sock, Current, inbox)
      /\ waiting \in Seq(Nat) /\ env \in [Cnxs -> Env] /\ Me \in Cnxs
  BY DEF DeliverInv, SmtpdTypes, SendmailTypes, Me, Cnxs
<1>2. fwd.pc # "body" => ~ Answered
  BY DEF Answered
<1>3. CASE StartPass
  <2>1. /\ fwd.pc = "sleep"
        /\ UNCHANGED <<env, tosend, delreq, cursor, waiting, delivered, acker, inbox, sock>>
    BY <1>3 DEF StartPass, Forwarding, smtpd
  <2> QED
    BY <1>2, <2>1, CopySame DEF Copies
<1>4. CASE transfers_done
  <2>1. /\ fwd.pc = "scan" /\ fwd.i \in 1 .. Len(waiting)
        /\ UNCHANGED <<env, tosend, delreq, cursor, acker, inbox, sock>>
        /\ UNCHANGED <<waiting, delivered>> \/ Delivered(fwd.i, 500)
    BY <1>1, <1>4 DEF transfers_done, Forwarding, smtpd
  <2>2. CASE UNCHANGED <<waiting, delivered>>
    BY <1>2, <2>1, <2>2, CopySame DEF Copies
  <2>3. CASE Delivered(fwd.i, 500)
    BY <2>1, <2>3, CopyTakes
  <2> QED
    BY <2>1, <2>2, <2>3
<1>5. CASE may_open_connection
  <2>1. /\ fwd.pc = "open" /\ env' = [env EXCEPT ![Me] = Opened] /\ sock' = "open"
        /\ UNCHANGED <<tosend, delreq, cursor, waiting, delivered, acker, inbox>>
    BY <1>5 DEF may_open_connection, Forwarding
  <2>2. env'[Me].open
    BY <1>1, <2>1, RecordFacts
  <2> QED
    BY <1>2, <2>1, <2>2, CopySame
<1>6. CASE smtp_cmd
  <2>1. fwd.pc \in Dialogue /\ ~ fwd.asked
    BY <1>6 DEF smtp_cmd, Forwarding
  <2>2. env[Me].open
    BY <2>1, NoFailure
  <2>3. UNCHANGED <<env, tosend, delreq, cursor, waiting, delivered, acker, inbox, sock>>
    BY <1>6, <2>2 DEF smtp_cmd
  <2>4. ~ Answered
    BY <1>1, <2>1 DEF Answered, Talks, Lines, Modes
  <2> QED
    BY <2>3, <2>4, CopySame DEF Copies
<1>7. CASE read_fails
  BY <1>7, NoFailure DEF read_fails, Forwarding
<1>10. CASE LocalError
  <2>1. fwd.pc \in Dialogue /\ ~ fwd.asked
    BY <1>10 DEF LocalError, Forwarding, Dialogue
  <2>2. env[Me].open
    BY <2>1, NoFailure
  <2>3. UNCHANGED <<env, tosend, delreq, cursor, waiting, delivered, acker, inbox, sock>>
    BY <1>10, <2>2 DEF LocalError, smtpd
  <2>4. ~ Answered
    BY <1>1, <2>1 DEF Answered, Talks, Lines, Modes
  <2> QED
    BY <2>3, <2>4, CopySame DEF Copies
<1>11. CASE QuitFails
  <2>1. /\ fwd.pc # "body" /\ sock' = "none"
        /\ UNCHANGED <<tosend, delreq, cursor, waiting, delivered, acker, inbox>>
    BY <1>11 DEF QuitFails, Forwarding, smtpd
  <2> QED
    BY <1>2, <2>1, CopySame
<1>8. CASE send_forward
  <2>1. /\ fwd.pc \in Dialogue
        /\ UNCHANGED <<env, tosend, delreq, cursor, acker, inbox, sock>>
    BY <1>8 DEF send_forward, Forwarding
  <2>2. wire[Me].status \in Nat /\ fwd.i \in 1 .. Len(waiting)
    BY <1>1, <2>1 DEF SmtpdTypes, SendmailTypes, Wire
  <2>3. CASE GoesOn(fwd.pc, wire[Me].status)
    <3>1. UNCHANGED <<waiting, delivered>>
      BY <1>8, <2>3 DEF send_forward
    <3>2. fwd.pc # "body"
      BY <2>3 DEF GoesOn
    <3> QED
      BY <1>2, <2>1, <3>1, <3>2, CopySame DEF Copies
  <2>4. CASE ~ GoesOn(fwd.pc, wire[Me].status)
    <3>1. Delivered(fwd.i, wire[Me].status)
      BY <1>8, <2>4 DEF send_forward
    <3> QED
      BY <2>1, <2>2, <3>1, CopyTakes
  <2> QED
    BY <2>3, <2>4
<1>9. CASE may_close_connection
  <2>1. fwd.pc # "body" /\ sock # "reset"
    BY <1>9 DEF may_close_connection, Forwarding, Copies
  <2>2. /\ UNCHANGED <<tosend, delreq, cursor, waiting, delivered, acker, inbox>>
        /\ (sock' = "none" \/ (sock' = sock /\ env' = env))
    BY <1>9, <2>1 DEF may_close_connection, Cut, smtpd
  <2> QED
    BY <1>2, <2>1, <2>2, CopySame DEF Copies
<1> QED
  BY <1>3, <1>4, <1>5, <1>6, <1>7, <1>8, <1>9, <1>10, <1>11 DEF Forwarder

(* sendmail without faults.                                                *)
LEMMA CopySendmail ==
  ASSUME DeliverInv, Copies, Linked, faults = 0, SendmailNext, faults' = 0
  PROVE  Copies'
<1>1. faults' # faults + 1
  OBVIOUS
<1>2. ASSUME NEW v \in DOMAIN tosend, Sync(v) \/ Withdraw(v) PROVE Copies'
  BY <1>1, <1>2, CopySync DEF Withdraw
<1>3. CASE Start
  <2>1. UNCHANGED <<env, wire, tosend, delreq, cursor, waiting, delivered, acker, inbox, sock, fwd>>
    BY <1>3 DEF Start, smtpd
  <2> QED
    BY <2>1, CopySame DEF Copies, Answered
<1>4. CASE Killed \/ CrawlerFails \/ FiledLost \/ NoRelay \/ AckerFails
  BY <1>1, <1>4 DEF Killed, CrawlerFails, FiledLost, NoRelay, AckerFails
<1>6. ~ FetchLost
  BY DEF FetchLost, Linked
<1>5. ASSUME NEW i \in DOMAIN waiting, TransferEnds(i) PROVE Copies'
  <2>1. UNCHANGED <<env, wire, tosend, delreq, cursor, waiting, delivered, acker, inbox, sock, fwd>>
    BY <1>5 DEF TransferEnds, smtpd
  <2> QED
    BY <2>1, CopySame DEF Copies, Answered
<1> QED
  BY <1>2, <1>3, <1>4, <1>5, <1>6, CopySubmit, CopyPatch, CopyForwarder, CopyAcker DEF SendmailNext

(* Without faults the connection to filed lasts.                           *)
LEMMA LinkedStep ==
  ASSUME Linked, SendmailNext, faults = 0, faults' = 0
  PROVE  Linked'
<1>1. faults' # faults + 1
  OBVIOUS
<1>2. Ends => Linked'
  BY DEF Ends, Stopped, Linked
<1>3. ASSUME NEW m \in Mails, Submit(m) PROVE Linked'
  BY <1>3 DEF Submit, Linked
<1>4. ASSUME NEW v \in DOMAIN tosend, Sync(v) \/ Withdraw(v) PROVE Linked'
  BY <1>4 DEF Sync, Withdraw, Gone, Linked
<1>5. CASE Start
  BY <1>5 DEF Start, Linked, Threads
<1>6. CASE Killed \/ CrawlerFails \/ FiledLost \/ NoRelay \/ AckerFails
  BY <1>1, <1>6 DEF Killed, CrawlerFails, FiledLost, NoRelay, AckerFails
<1>7. CASE send_patch \/ FetchLost
  BY <1>7 DEF send_patch, FetchLost, Linked
<1>8. ASSUME NEW i \in DOMAIN waiting, TransferEnds(i) PROVE Linked'
  BY <1>8 DEF TransferEnds, Linked
<1>9. \A s : Fails(s) => Linked'
  BY DEF Fails, ThreadEnds, Linked
<1>10. CASE StartPass \/ transfers_done \/ may_open_connection \/ send_forward \/ LocalError \/ QuitFails
  BY <1>10 DEF StartPass, transfers_done, may_open_connection, send_forward, LocalError, QuitFails, Linked
<1>11. CASE smtp_cmd \/ read_fails
  BY <1>2, <1>9, <1>11 DEF smtp_cmd, read_fails, Linked
<1>12. CASE may_close_connection
  BY <1>2, <1>12 DEF may_close_connection, Linked
<1>13. CASE DelRequest \/ CopyRequest
  BY <1>2, <1>13 DEF DelRequest, CopyRequest, Linked
<1> QED
  BY <1>3, <1>4, <1>5, <1>6, <1>7, <1>8, <1>10, <1>11, <1>12, <1>13 DEF SendmailNext, Forwarder

(* sendmail does not touch the other connection.                           *)
Same == env'["other"] = env["other"] /\ wire'["other"] = wire["other"]

LEMMA OtherAlone ==
  ASSUME SmtpdTypes, SendmailNext PROVE Same
<1>0. /\ env \in [Cnxs -> Env] /\ wire \in [Cnxs -> Wire] /\ "other" \in Cnxs /\ "other" # Me
  BY DEF SmtpdTypes, Cnxs, Me
<1>1. Cut({Me}) => Same
  BY <1>0, CutFacts DEF Same
<1>2. UNCHANGED smtpd => Same
  BY DEF smtpd, Same
<1>3. Ends => Same
  BY <1>1 DEF Ends
<1>4. \A s : Fails(s) => Same
  BY <1>2 DEF Fails
<1>5. \A e2, w2 : env' = [env EXCEPT ![Me] = e2] => env'["other"] = env["other"]
  BY <1>0
<1>6. \A w2 : wire' = [wire EXCEPT ![Me] = w2] => wire'["other"] = wire["other"]
  BY <1>0
<1>7. ASSUME NEW m \in Mails, Submit(m) PROVE Same
  BY <1>2, <1>7 DEF Submit
<1>8. ASSUME NEW v \in DOMAIN tosend, Sync(v) \/ Withdraw(v) PROVE Same
  BY <1>2, <1>8 DEF Sync, Withdraw, Gone
<1>9. CASE Start \/ Killed \/ send_patch \/ CrawlerFails \/ FiledLost \/ FetchLost
  BY <1>2, <1>3, <1>9 DEF Start, Killed, send_patch, CrawlerFails, FiledLost, FetchLost
<1>10. ASSUME NEW i \in DOMAIN waiting, TransferEnds(i) PROVE Same
  BY <1>2, <1>10 DEF TransferEnds
<1>11. CASE StartPass \/ transfers_done \/ NoRelay
  BY <1>2, <1>11 DEF StartPass, transfers_done, NoRelay
<1>12. CASE may_open_connection
  BY <1>5, <1>6, <1>12 DEF may_open_connection, Same
<1>13. CASE smtp_cmd
  <2>1. CASE env' = env /\ wire' = [wire EXCEPT ![Me] = Line(fwd.pc, MailOf(waiting[fwd.i]))]
    BY <1>6, <2>1 DEF Same
  <2> QED
    BY <1>3, <1>4, <1>13, <2>1 DEF smtp_cmd
<1>14. CASE read_fails \/ LocalError \/ QuitFails
  BY <1>2, <1>3, <1>4, <1>14 DEF read_fails, LocalError, QuitFails
<1>15. CASE send_forward
  BY <1>6, <1>15 DEF send_forward, Same
<1>16. CASE may_close_connection
  BY <1>1, <1>2, <1>3, <1>16 DEF may_close_connection
<1>17. CASE DelRequest \/ CopyRequest \/ AckerFails
  BY <1>2, <1>3, <1>17 DEF DelRequest, CopyRequest, AckerFails
<1> QED
  BY <1>7, <1>8, <1>9, <1>10, <1>11, <1>12, <1>13, <1>14, <1>15, <1>16, <1>17 DEF SendmailNext, Forwarder

-----------------------------------------------------------------------------
(* One copy: the other programs, and the theorem.                          *)

(* A message that is not one of sendmail's joins those in the folders.     *)
LEMMA SingleForeign ==
  ASSUME Copies, IsSeq(inbox), NEW x, inbox' = Append(inbox, x), x.mail \notin Mails,
         UNCHANGED sendmail, Answered => Answered', env'[Me].open = env[Me].open
  PROVE  Copies'
<1>1. UNCHANGED <<tosend, delreq, cursor, waiting, delivered, acker, fwd, sock>>
  BY DEF sendmail
<1>2. \A v : ~ Pending(v) => ~ Pending(v)'
  BY <1>1, PendingSame
<1>3. Tracked'
  BY <1>1 DEF Copies, Tracked, Unlike, MailOf
<1>4. /\ Len(inbox) \in Nat /\ Len(inbox') = Len(inbox) + 1 /\ inbox'[Len(inbox) + 1] = x
      /\ \A i \in 1 .. Len(inbox) : inbox'[i] = inbox[i]
  BY AppendGrows DEF Grows
<1>5. \A i \in 1 .. Len(inbox') : (i \in 1 .. Len(inbox) /\ inbox'[i] = inbox[i]) \/ inbox'[i] = x
  BY <1>4
<1>6. \A i \in 1 .. Len(inbox') : IsOurs(inbox'[i]) => i \in 1 .. Len(inbox) /\ inbox'[i] = inbox[i] /\ inbox[i].mail \in Mails
  BY <1>5 DEF IsOurs
<1>7. ASSUME NEW i \in 1 .. Len(inbox'), IsOurs(inbox'[i])
      PROVE  \E v \in 1 .. Len(tosend') : tosend'[v].mail = inbox'[i].mail /\ v <= cursor' /\ ~ Pending(v)'
  <2>1. i \in 1 .. Len(inbox) /\ inbox'[i] = inbox[i] /\ IsOurs(inbox[i])
    BY <1>6, <1>7
  <2>2. PICK v \in 1 .. Len(tosend) : tosend[v].mail = inbox[i].mail /\ v <= cursor /\ ~ Pending(v)
    BY <2>1 DEF Copies, Single, MailOf
  <2> QED
    BY <1>1, <1>2, <2>1, <2>2
<1>8. ASSUME NEW i \in 1 .. Len(inbox'), NEW j \in 1 .. Len(inbox'), IsOurs(inbox'[i]), inbox'[i].mail = inbox'[j].mail
      PROVE  i = j
  <2>1. i \in 1 .. Len(inbox) /\ inbox'[i] = inbox[i] /\ IsOurs(inbox[i]) /\ inbox[i].mail \in Mails
    BY <1>6, <1>8
  <2>2. inbox'[j] # x
    BY <1>8, <2>1
  <2>3. j \in 1 .. Len(inbox) /\ inbox'[j] = inbox[j]
    BY <1>5, <2>2
  <2> QED
    BY <1>8, <2>1, <2>3 DEF Copies, Single
<1>9. Single'
  BY <1>7, <1>8 DEF Single, MailOf
<1>10. sock' # "none" => sock' = "open" /\ env'[Me].open
  BY <1>1 DEF Copies
<1> QED
  BY <1>3, <1>9, <1>10 DEF Copies

(* smtpd requests the message of the mail at hand, which no one did before.*)
LEMMA SingleOwn ==
  ASSUME DeliverInv, Copies, env[Me].mode = "store", inbox' = Append(inbox, Letter(env[Me])),
         UNCHANGED sendmail, env'[Me].mode = "answer", env'[Me].open = env[Me].open
  PROVE  Copies'
<1>1. UNCHANGED <<tosend, delreq, cursor, waiting, delivered, acker, fwd, sock>>
  BY DEF sendmail
<1>2. /\ SendmailTypes /\ IsSeq(inbox) /\ cursor \in Nat
      /\ Talks(env[Me], wire[Me], fwd, sock, Current, inbox)
  BY DEF DeliverInv, SendmailTypes
<1> DEFINE x == Letter(env[Me])
<1>0. PICK v : v = waiting[fwd.i]
  OBVIOUS
<1>3. fwd.pc = "body" /\ wire[Me].t = "none" /\ env[Me].mail = Current
  BY <1>2 DEF Talks, Modes
<1>4. fwd.i \in 1 .. Len(waiting) /\ v \in 1 .. Len(tosend) /\ v <= cursor /\ x.mail = tosend[v].mail
  <2>1. fwd.i \in 1 .. Len(waiting)
    BY <1>2, <1>3 DEF SendmailTypes, Dialogue
  <2>2. v \in 1 .. Len(tosend) /\ v <= cursor
    BY <1>0, <1>2, <2>1 DEF SendmailTypes, Copies, Tracked
  <2>3. x.mail = tosend[v].mail
    BY <1>0, <1>3 DEF Letter, Current, MailOf
  <2> QED
    BY <2>1, <2>2, <2>3
<1>5. ~ Answered /\ Answered'
  BY <1>1, <1>3 DEF Answered
<1>6. Pending(v) /\ ~ Pending(v)'
  <2>1. Pending(v)
    BY <1>0, <1>4, <1>5 DEF Pending
  <2>2. ASSUME NEW j \in 1 .. Len(waiting), waiting[j] = v PROVE j = fwd.i
    BY <1>0, <1>4, <2>2 DEF Copies, Tracked, Unlike
  <2>3. ~ Pending(v)'
    BY <1>1, <1>5, <2>2 DEF Pending
  <2> QED
    BY <2>1, <2>3
<1>7. \A u : ~ Pending(u) => ~ Pending(u)'
  BY <1>1, <1>5, PendingSame
<1>8. \A i \in 1 .. Len(inbox) : IsOurs(inbox[i]) => inbox[i].mail # x.mail
  <2> SUFFICES ASSUME NEW i \in 1 .. Len(inbox), IsOurs(inbox[i]), inbox[i].mail = x.mail PROVE FALSE
    OBVIOUS
  <2>1. PICK u \in 1 .. Len(tosend) : tosend[u].mail = inbox[i].mail /\ ~ Pending(u)
    BY DEF Copies, Single, MailOf
  <2>2. u = v
    BY <1>4, <2>1 DEF Copies, Tracked, MailOf
  <2> QED
    BY <1>6, <2>1, <2>2
<1> HIDE DEF x
<1>9. Tracked'
  BY <1>1 DEF Copies, Tracked, Unlike, MailOf
<1>10. /\ Len(inbox) \in Nat /\ Len(inbox') = Len(inbox) + 1 /\ inbox'[Len(inbox) + 1] = x
       /\ \A i \in 1 .. Len(inbox) : inbox'[i] = inbox[i]
  BY <1>2, AppendGrows DEF Grows, x
<1>11. \A i \in 1 .. Len(inbox') : (i \in 1 .. Len(inbox) /\ inbox'[i] = inbox[i]) \/ (i = Len(inbox) + 1 /\ inbox'[i] = x)
  BY <1>10
<1>12. ASSUME NEW i \in 1 .. Len(inbox'), IsOurs(inbox'[i])
       PROVE  \E u \in 1 .. Len(tosend') : tosend'[u].mail = inbox'[i].mail /\ u <= cursor' /\ ~ Pending(u)'
  <2>1. CASE inbox'[i] = x
    BY <1>1, <1>4, <1>6, <2>1
  <2>2. CASE i \in 1 .. Len(inbox) /\ inbox'[i] = inbox[i]
    <3>1. PICK u \in 1 .. Len(tosend) : tosend[u].mail = inbox[i].mail /\ u <= cursor /\ ~ Pending(u)
      BY <1>12, <2>2 DEF Copies, Single, MailOf
    <3> QED
      BY <1>1, <1>7, <2>2, <3>1
  <2> QED
    BY <1>11, <2>1, <2>2
<1>13. \A i, j \in 1 .. Len(inbox) : IsOurs(inbox[i]) /\ inbox[i].mail = inbox[j].mail => i = j
  BY DEF Copies, Single
<1>14. ASSUME NEW i \in 1 .. Len(inbox'), NEW j \in 1 .. Len(inbox'), IsOurs(inbox'[i]), inbox'[i].mail = inbox'[j].mail
       PROVE  i = j
  <2>1. IsOurs(inbox'[j])
    BY <1>14 DEF IsOurs
  <2>2. CASE i \in 1 .. Len(inbox) /\ j \in 1 .. Len(inbox)
    BY <1>10, <1>13, <1>14, <2>2
  <2>3. CASE i \in 1 .. Len(inbox) /\ j \notin 1 .. Len(inbox)
    BY <1>8, <1>10, <1>11, <1>14, <2>3
  <2>4. CASE i \notin 1 .. Len(inbox) /\ j \in 1 .. Len(inbox)
    BY <1>8, <1>10, <1>11, <1>14, <2>1, <2>4
  <2>5. CASE i \notin 1 .. Len(inbox) /\ j \notin 1 .. Len(inbox)
    BY <1>11, <2>5
  <2> QED
    BY <2>2, <2>3, <2>4, <2>5
<1>15. Single'
  BY <1>12, <1>14 DEF Single, MailOf
<1>16. sock' # "none" => sock' = "open" /\ env'[Me].open
  BY <1>1 DEF Copies
<1> QED
  BY <1>9, <1>15, <1>16 DEF Copies

(* The other client goes on with its own mails.                            *)
LEMMA OtherTurn ==
  ASSUME NEW e, NEW w, NEW e2, NEW w2, OtherTalk(e, w), Turn(e, w, e2, w2)
  PROVE  OtherTalk(e2, w2)
<1>1. /\ Silent.t = "none" /\ Closed.mode = "cmd" /\ \A s \in Nat : Status(s).t = "answer"
  BY RecordFacts, StatusFields
<1>2. CASE \E s : Executes(e, w, e2, s) /\ w2 = Status(s)
  BY <1>1, <1>2 DEF Executes, OtherTalk
<1>3. CASE Quits(e, w, e2, w2) \/ GivesUp(e, w, e2, w2) \/ Accepts(e, w, e2, w2)
  <2>1. e2.mode = "cmd" /\ w2.t # "command"
    BY <1>1, <1>3 DEF Quits, GivesUp, Accepts
  <2> QED
    BY <2>1 DEF OtherTalk
<1>4. CASE Reads(e, w, e2, w2)
  BY <1>1, <1>4 DEF Reads, OtherTalk
<1>5. CASE Stores(e, w, e2, w2) \/ Requests(e, w, e2, w2)
  <2>1. e.mode = "store" /\ e2.mode \in {"store", "answer"} /\ e2.mail = e.mail /\ w2 = w
    BY <1>5 DEF Stores, Requests
  <2> QED
    BY <2>1 DEF OtherTalk
<1> QED
  BY <1>2, <1>3, <1>4, <1>5 DEF Turn

(* A turn on the connection of sendmail that is not a request.             *)
LEMMA AnsweredTurn ==
  ASSUME NEW e \in Env, NEW w, NEW e2, NEW w2, NEW f, NEW sk, NEW m, NEW box, Talks(e, w, f, sk, m, box),
         Turn(e, w, e2, w2), f.pc = "body", e.mode = "answer" \/ w.t = "answer"
  PROVE  w2.t = "answer" /\ inbox' = inbox
<1>1. e.mode \in {"store", "answer"} => w.t = "none"
  BY DEF Talks, Modes
<1>2. ~ (e.mode = "store") /\ w.t # "command"
  BY <1>1
<1>3. Accepts(e, w, e2, w2)
  BY <1>2 DEF Turn, Executes, Quits, Reads, Stores, Requests, GivesUp
<1> QED
  BY <1>3, StatusFields DEF Accepts

LEMMA CopySmtpd ==
  ASSUME DeliverInv, CopyInv, SmtpdNext, UNCHANGED sendmail
  PROVE  CopyInv'
<1>1. /\ SmtpdTypes /\ IsSeq(inbox) /\ faults \in Nat
      /\ Talks(env[Me], wire[Me], fwd, sock, Current, inbox)
      /\ OtherTalk(env["other"], wire["other"])
  BY DEF DeliverInv, SmtpdTypes, CopyInv
<1>2. Me \in Cnxs /\ "other" \in Cnxs /\ "other" # Me /\ env[Me] \in Env /\ wire[Me] \in Wire
  BY <1>1 DEF SmtpdTypes, Me, Cnxs
<1>3. UNCHANGED <<tosend, delreq, cursor, waiting, delivered, acker, fwd, sock>> /\ (Linked => Linked')
  BY DEF sendmail, Linked
<1>4. ASSUME NEW c \in Cnxs, serve_cnx(c) \/ ProcessFails(c) PROVE CopyInv'
  <2>1. PICK e2 \in Env, w2 \in Wire : Delta(c, e2, w2) /\ Turn(env[c], wire[c], e2, w2)
    BY <1>1, <1>4, Turns
  <2>2. /\ env'[c] = e2 /\ wire'[c] = w2
        /\ \A d \in Cnxs : d # c => env'[d] = env[d] /\ wire'[d] = wire[d]
    BY <1>1, <2>1, DeltaFacts
  <2>3. OtherTalk(env'["other"], wire'["other"])
    <3>1. CASE c = "other"
      BY <1>1, <2>1, <2>2, <3>1, OtherTurn
    <3>2. CASE c # "other"
      BY <1>1, <1>2, <2>2, <3>2
    <3> QED
      BY <3>1, <3>2
  <2>4. ASSUME faults' = 0 PROVE Copies'
    <3>1. faults = 0 /\ ~ GivesUp(env[c], wire[c], e2, w2)
      BY <1>1, <2>1, <2>4 DEF Turn, Quits, Reads, Stores, Requests, Accepts, GivesUp
    <3>2. Copies
      BY <3>1 DEF CopyInv
    <3>3. CASE c = Me
      <4>0. Turn(env[Me], wire[Me], e2, w2) /\ env'[Me] = e2 /\ wire'[Me] = w2
        BY <2>1, <2>2, <3>3
      <4>1. Answered => w2.t = "answer" /\ inbox' = inbox
        BY <1>1, <1>2, <4>0, AnsweredTurn DEF Answered
      <4>2. Answered => Answered'
        BY <1>3, <4>0, <4>1 DEF Answered
      <4>3. env[Me].open => e2.open
        <5>1. ~ Quits(env[Me], wire[Me], e2, w2)
          BY <1>1 DEF Quits, Talks, Lines, Dialogue
        <5> QED
          BY <3>1, <3>3, <4>0, <5>1 DEF Turn, Executes, Reads, Stores, Requests, Accepts, Kept
      <4>4. CASE Requests(env[Me], wire[Me], e2, w2)
        <5>1. /\ env[Me].mode = "store" /\ inbox' = Append(inbox, Letter(env[Me]))
              /\ env'[Me].mode = "answer" /\ env'[Me].open = env[Me].open
          BY <4>0, <4>4 DEF Requests, Kept
        <5> QED
          BY <3>2, <5>1, SingleOwn
      <4>5. CASE ~ Requests(env[Me], wire[Me], e2, w2)
        <5>1. inbox' = inbox
          BY <4>0, <4>5 DEF Turn, Quits, Reads, Stores, Accepts, GivesUp
        <5>2. sock' # "none" => sock' = "open" /\ env'[Me].open
          BY <1>3, <3>2, <4>0, <4>3 DEF Copies
        <5> QED
          BY <1>3, <3>2, <4>2, <5>1, <5>2, CopySame
      <4> QED
        BY <4>4, <4>5
    <3>4. CASE c # Me
      <4>1. c = "other" /\ env'[Me] = env[Me] /\ wire'[Me] = wire[Me]
        BY <1>2, <2>2, <3>4 DEF Cnxs, Me
      <4>2. Answered => Answered'
        BY <1>3, <4>1 DEF Answered
      <4>3. CASE Requests(env[c], wire[c], e2, w2)
        <5>1. inbox' = Append(inbox, Letter(env[c])) /\ env[c].mode = "store"
          BY <4>3 DEF Requests
        <5>2. Letter(env[c]).mail \notin Mails
          <6>1. env[c].mail \in OtherMails
            BY <1>1, <4>1, <5>1 DEF OtherTalk
          <6> QED
            BY <6>1, SendmailAssumption DEF Letter
        <5> QED
          BY <1>1, <3>2, <4>1, <4>2, <5>1, <5>2, SingleForeign
      <4>4. CASE ~ Requests(env[c], wire[c], e2, w2)
        <5>1. inbox' = inbox
          BY <2>1, <4>4 DEF Turn, Quits, Reads, Stores, Accepts, GivesUp
        <5> QED
          BY <1>3, <3>2, <4>1, <4>2, <5>1, CopySame DEF Copies
      <4> QED
        BY <4>3, <4>4
    <3> QED
      BY <3>3, <3>4
  <2>5. faults' = 0 => faults = 0
    BY <1>1, <2>1 DEF Turn, Quits, Reads, Stores, Requests, Accepts, GivesUp
  <2> QED
    BY <1>3, <2>3, <2>4, <2>5 DEF CopyInv
<1>5. ASSUME NEW cs, Cut(cs), faults' = faults + 1 PROVE CopyInv'
  <2>1. /\ \A c \in Cnxs : c \in cs => env'[c] = Closed /\ wire'[c] = Silent
        /\ \A c \in Cnxs : c \notin cs => env'[c] = env[c] /\ wire'[c] = wire[c]
    BY <1>1, <1>5, CutFacts
  <2>2. OtherTalk(Closed, Silent)
    BY RecordFacts DEF OtherTalk
  <2>3. OtherTalk(env'["other"], wire'["other"])
    BY <1>1, <1>2, <2>1, <2>2
  <2>4. faults' # 0
    BY <1>1, <1>5
  <2> QED
    BY <2>3, <2>4 DEF CopyInv
<1>6. ASSUME NEW c \in Cnxs, LinkBreaks(c) PROVE CopyInv'
  BY <1>5, <1>6 DEF LinkBreaks
<1>7. CASE SmtpdDies
  BY <1>5, <1>7 DEF SmtpdDies
<1>8. CASE OtherClient
  <2>1. UNCHANGED <<stored, inbox, faults>>
    BY <1>1, <1>8, OtherFacts
  <2>2. PICK e2 \in Env, w2 \in Wire :
          /\ Delta("other", e2, w2)
          /\ \/ e2 = Opened /\ w2 = Silent
             \/ /\ e2 = env["other"] /\ w2.t = "command"
                /\ (w2.kw = "body") <=> (e2.mode = "body")
                /\ w2.kw = "body" => w2.arg \in OtherMails
    BY <1>1, <1>8, OtherFacts
  <2>3. /\ env'["other"] = e2 /\ wire'["other"] = w2
        /\ env'[Me] = env[Me] /\ wire'[Me] = wire[Me]
    BY <1>1, <1>2, <2>2, DeltaFacts
  <2>4. OtherTalk(e2, w2)
    <3>1. CASE e2 = Opened /\ w2 = Silent
      BY <3>1, RecordFacts DEF OtherTalk
    <3>2. CASE e2 = env["other"] /\ w2.t = "command"
      BY <1>1, <2>2, <3>2, RecordFacts DEF OtherTalk
    <3> QED
      BY <2>2, <3>1, <3>2
  <2>5. Answered => Answered'
    BY <1>3, <2>3 DEF Answered
  <2>6. faults' = 0 => Copies'
    BY <1>3, <2>1, <2>3, <2>5, CopySame DEF CopyInv, Copies
  <2> QED
    BY <1>3, <2>1, <2>3, <2>4, <2>6 DEF CopyInv
<1> QED
  BY <1>4, <1>6, <1>7, <1>8 DEF SmtpdNext, SmtpdSteps

(* Faults are only added.                                                  *)
LEMMA FaultsRise ==
  ASSUME faults \in Nat, SendmailNext, faults' = 0
  PROVE  faults = 0
<1>1. faults' = faults \/ faults' = faults + 1
  <2>1. ASSUME NEW m \in Mails, Submit(m) PROVE faults' = faults
    BY <2>1 DEF Submit
  <2>2. ASSUME NEW v \in DOMAIN tosend, Sync(v) \/ Withdraw(v) PROVE faults' = faults \/ faults' = faults + 1
    BY <2>2 DEF Sync, Withdraw
  <2>3. CASE Start \/ Killed \/ send_patch \/ CrawlerFails \/ FiledLost \/ FetchLost
    BY <2>3 DEF Start, Killed, send_patch, CrawlerFails, FiledLost, FetchLost
  <2>4. ASSUME NEW i \in DOMAIN waiting, TransferEnds(i) PROVE faults' = faults \/ faults' = faults + 1
    BY <2>4 DEF TransferEnds
  <2>5. CASE Forwarder
    BY <2>5 DEF Forwarder, StartPass, transfers_done, may_open_connection, smtp_cmd, read_fails, send_forward,
                may_close_connection, LocalError, QuitFails
  <2>6. CASE NoRelay \/ DelRequest \/ CopyRequest \/ AckerFails
    BY <2>6 DEF NoRelay, DelRequest, CopyRequest, AckerFails
  <2> QED
    BY <2>1, <2>2, <2>3, <2>4, <2>5, <2>6 DEF SendmailNext
<1> QED
  BY <1>1

LEMMA CopyStrib ==
  ASSUME DeliverInv, CopyInv, StribNext, UNCHANGED sendmail
  PROVE  CopyInv'
<1>1. IsSeq(inbox) /\ faults \in Nat
  BY DEF DeliverInv, SmtpdTypes
<1>2. /\ UNCHANGED <<env, wire, stored>> /\ faults' \in Nat /\ faults' >= faults
      /\ \/ inbox' = inbox
         \/ \E x : inbox' = Append(inbox, x) /\ x.kind # "mail" /\ x.mail = NoOne
  BY <1>1, StribBox
<1>3. UNCHANGED <<tosend, delreq, cursor, waiting, delivered, acker, fwd, sock>> /\ (Linked => Linked')
  BY DEF sendmail, Linked
<1>4. Answered' = Answered /\ fwd'.i = fwd.i
  BY <1>2, <1>3 DEF Answered
<1>5. ASSUME faults' = 0 PROVE Copies'
  <2>1. Copies
    BY <1>1, <1>2, <1>5 DEF CopyInv
  <2>2. CASE inbox' = inbox
    BY <1>2, <1>3, <1>4, <2>1, <2>2, CopySame DEF Copies
  <2>3. CASE \E x : inbox' = Append(inbox, x) /\ x.kind # "mail" /\ x.mail = NoOne
    <3>1. PICK x : inbox' = Append(inbox, x) /\ x.mail = NoOne
      BY <2>3
    <3>2. x.mail \notin Mails
      BY <3>1, SendmailAssumption
    <3> QED
      BY <1>1, <1>2, <1>4, <2>1, <3>1, <3>2, SingleForeign
  <2> QED
    BY <1>2, <2>2, <2>3
<1>6. faults' = 0 => faults = 0
  BY <1>1, <1>2
<1> QED
  BY <1>2, <1>3, <1>5, <1>6 DEF CopyInv

LEMMA CopyInit == ASSUME MailInit PROVE CopyInv
<1>1. /\ env = [c \in Cnxs |-> Closed] /\ wire = [c \in Cnxs |-> Silent] /\ inbox = <<>>
      /\ tosend = <<>> /\ delreq = {} /\ waiting = <<>> /\ delivered = <<>> /\ sock = "none" /\ ~ up
  BY DEF MailInit, SmtpdInit, SendmailInit
<1>2. Len(<<>>) = 0
  OBVIOUS
<1>3. OtherTalk(env["other"], wire["other"])
  BY <1>1, RecordFacts DEF OtherTalk, Cnxs
<1>4. Tracked
  BY <1>1, <1>2 DEF Tracked, Unlike
<1>5. Single
  BY <1>1, <1>2 DEF Single
<1> QED
  BY <1>1, <1>3, <1>4, <1>5 DEF CopyInv, Copies, Linked

LEMMA CopyStep == ASSUME DeliverInv, CopyInv, [MailNext]_mailvars PROVE CopyInv'
<1>1. SmtpdTypes /\ faults \in Nat
  BY DEF DeliverInv, SmtpdTypes
<1>2. CASE UNCHANGED mailvars
  <2>1. UNCHANGED <<env, wire, inbox, faults, tosend, delreq, cursor, waiting, delivered, acker, fwd, sock, up, alive>>
    BY <1>2 DEF mailvars, smtpd, sendmail
  <2>2. Answered' = Answered /\ fwd'.i = fwd.i
    BY <2>1 DEF Answered
  <2>3. faults' = 0 => Copies'
    BY <2>1, <2>2, CopySame DEF CopyInv, Copies
  <2> QED
    BY <2>1, <2>3 DEF CopyInv, Linked
<1>3. CASE SendmailNext
  <2>1. OtherTalk(env'["other"], wire'["other"])
    BY <1>1, <1>3, OtherAlone DEF CopyInv, Same
  <2>2. faults' = 0 => Copies'
    BY <1>1, <1>3, FaultsRise, CopySendmail DEF CopyInv
  <2>3. faults' = 0 => Linked'
    BY <1>1, <1>3, FaultsRise, LinkedStep DEF CopyInv
  <2> QED
    BY <2>1, <2>2, <2>3 DEF CopyInv
<1> QED
  BY <1>2, <1>3, CopySmtpd, CopyStrib DEF MailNext

(* Without faults a mail that was put into To_Send reaches a folder at     *)
(* most once, however many recipients, mails and other clients there are.  *)
THEOREM NoSecondCopy == MailSpec => []OneCopy
<1>1. DeliverInv /\ CopyInv => OneCopy
  <2> SUFFICES ASSUME DeliverInv, CopyInv, faults = 0 PROVE OneCopy
    BY DEF OneCopy
  <2>1. DOMAIN inbox = 1 .. Len(inbox)
    BY SeqLen DEF DeliverInv
  <2> QED
    BY <2>1 DEF OneCopy, CopyInv, Copies, Single, IsOurs
<1> QED
  BY <1>1, DeliverInit, DeliverStep, CopyInit, CopyStep, PTL DEF MailSpec

=============================================================================
