------------------------------ MODULE Sendmail ------------------------------
(***************************************************************************)
(* sendmail: the crawler thread turns the mails of the folder To_Send into *)
(* forwards, the forwarder thread sends them to a relay, here smtpd, and   *)
(* the acker thread removes what was answered from To_Send and files it    *)
(* under Sent.                                                             *)
(*                                                                         *)
(* Removals are requests: To_Send itself changes when mdsyncc has brought  *)
(* them to the server and back (Sync).  Sending a mail is a dialogue, one  *)
(* command and one answer at a time, and all that is kept of it on disk    *)
(* are the two requests of the acker.                                      *)
(***************************************************************************)
EXTENDS Smtpd

CONSTANTS
  Mails,      \* what users put into To_Send
  To,         \* recipients of a mail, in the order of its fields
  Unfinished, \* mails that lack a sender, a subject or a recipient
  TooLong     \* <<mail, step>>: a line of that step is longer than MAX_SMTP_LINE

ASSUME SendmailAssumption ==
  /\ TooLong \subseteq Mails \X {"mail", "rcpt", "body"}
  /\ Unfinished \subseteq Mails /\ Mails \cap OtherMails = {} /\ NoOne \notin Mails
  /\ To \in [Mails -> Seq(Users \cup Strangers)]
  /\ \A m \in Mails : To[m] # <<>>

VARIABLES
  tosend,     \* the journal of To_Send: [mail, gone]
  delreq,     \* versions whose removal sendmail has requested
  sent,       \* messages under Sent: [mail, status]
  up,         \* sendmail runs
  alive,      \* the threads that have not ended
  cursor,     \* to_send_cursor
  waiting,    \* waiting_forwards, versions
  tx,         \* the transfer of the files of a forward: 0, 200 or an error
  delivered,  \* delivered_forwards: [v, status]
  fwd,        \* where the forwarder is
  sock,       \* sock_fd: none, open, or reset by a peer that has gone
  acker       \* where the acker is in move_fwd

sendmail == <<tosend, delreq, sent, up, alive, cursor, waiting, tx, delivered, fwd, sock, acker>>

Me    == "sendmail"
Idle  == [pc |-> "sleep", i |-> 0, k |-> 0, asked |-> FALSE]
Threads == {"crawler", "forwarder", "acker", "filed"}   \* filed: the reader of the file channel

MailOf(v) == tosend[v].mail

Stopped ==
  /\ up' = FALSE /\ alive' = {} /\ cursor' = 0
  /\ waiting' = <<>> /\ tx' = <<>> /\ delivered' = <<>>
  /\ fwd' = Idle /\ sock' = "none" /\ acker' = "idle"

SendmailInit ==
  /\ tosend = <<>> /\ delreq = {} /\ sent = {}
  /\ up = FALSE /\ alive = {} /\ cursor = 0
  /\ waiting = <<>> /\ tx = <<>> /\ delivered = <<>>
  /\ fwd = Idle /\ sock = "none" /\ acker = "idle"

-----------------------------------------------------------------------------
(* The folder To_Send: users add mails and withdraw them, mdsyncc brings   *)
(* removals.                                                               *)

Submit(m) ==
  /\ \A v \in DOMAIN tosend : MailOf(v) # m
  /\ tosend' = Append(tosend, [mail |-> m, gone |-> FALSE])
  /\ UNCHANGED <<smtpd, faults, delreq, sent, up, alive, cursor, waiting, tx, delivered, fwd, sock, acker>>

Gone(v) ==
  /\ v \in DOMAIN tosend /\ ~ tosend[v].gone
  /\ tosend' = [tosend EXCEPT ![v].gone = TRUE]
  /\ UNCHANGED <<smtpd, delreq, sent, up, alive, cursor, waiting, tx, delivered, fwd, sock, acker>>

Sync(v) == v \in delreq /\ Gone(v) /\ UNCHANGED faults

Withdraw(v) == faults < MaxFaults /\ faults' = faults + 1 /\ Gone(v)

-----------------------------------------------------------------------------
(* The process.                                                            *)

Start ==
  /\ ~ up /\ up' = TRUE /\ alive' = Threads
  /\ UNCHANGED <<smtpd, faults, tosend, delreq, sent, cursor, waiting, tx, delivered, fwd, sock, acker>>

(* Its end closes the socket, and lets smtpd read the end of file.         *)
Ends ==
  /\ Stopped /\ Cut({Me})
  /\ UNCHANGED <<tosend, delreq, sent>>

Killed == up /\ faults < MaxFaults /\ faults' = faults + 1 /\ Ends

ThreadEnds(t) == alive' = alive \ {t}

-----------------------------------------------------------------------------
(* The crawler: send_patch on the next version that is not deleted.        *)

(* Mutant: the cursor stops short of the version.                          *)
send_patch_Before ==
  /\ up /\ "crawler" \in alive
  /\ \E v \in DOMAIN tosend :
       /\ v > cursor /\ ~ tosend[v].gone /\ Len(waiting) < 2
       /\ cursor' = v - 1
       /\ IF MailOf(v) \in Unfinished THEN UNCHANGED <<waiting, tx>>
          ELSE waiting' = Append(waiting, v) /\ tx' = Append(tx, 200)
  /\ UNCHANGED <<smtpd, faults, tosend, delreq, sent, up, alive, delivered, fwd, sock, acker>>

send_patch ==
  /\ up /\ "crawler" \in alive
  /\ \E v \in DOMAIN tosend :
       /\ v > cursor /\ ~ tosend[v].gone
       /\ \A w \in cursor + 1 .. v - 1 : tosend[w].gone
       /\ cursor' = v
       /\ IF MailOf(v) \in Unfinished THEN UNCHANGED <<waiting, tx>>
          ELSE /\ waiting' = Append(waiting, v)
               /\ \/ "filed" \in alive /\ tx' = Append(tx, 0)   \* to fetch
                  \/ tx' = Append(tx, 200)                      \* in the cache already
  /\ UNCHANGED <<smtpd, faults, tosend, delreq, sent, up, alive, delivered, fwd, sock, acker>>

(* forward_new fails: the error ends the thread.                           *)
CrawlerFails ==
  /\ up /\ "crawler" \in alive /\ \E v \in DOMAIN tosend : v > cursor
  /\ faults < MaxFaults /\ faults' = faults + 1
  /\ ThreadEnds("crawler")
  /\ UNCHANGED <<smtpd, tosend, delreq, sent, up, cursor, waiting, tx, delivered, fwd, sock, acker>>

(* The connection to filed is lost.  Its reader ends, and nothing tells    *)
(* the transfers that are under way: chn_tx_status stays 0.                *)
FiledLost ==
  /\ up /\ "filed" \in alive
  /\ faults < MaxFaults /\ faults' = faults + 1
  /\ ThreadEnds("filed")
  /\ UNCHANGED <<smtpd, tosend, delreq, sent, up, cursor, waiting, tx, delivered, fwd, sock, acker>>

(* A READ that is sent after that is not answered, and command_wait waits  *)
(* for ever; or its write ends the process.                                *)
FetchLost ==
  /\ up /\ "crawler" \in alive /\ "filed" \notin alive
  /\ \E v \in DOMAIN tosend : v > cursor /\ ~ tosend[v].gone /\ MailOf(v) \notin Unfinished
  /\ \/ /\ ThreadEnds("crawler")
        /\ UNCHANGED <<smtpd, tosend, delreq, sent, up, cursor, waiting, tx, delivered, fwd, sock, acker>>
     \/ Ends
  /\ UNCHANGED faults

(* The file channel ends a transfer (FileChannel), well or not.            *)
TransferEnds(i) ==
  /\ up /\ "filed" \in alive /\ i \in DOMAIN waiting /\ tx[i] = 0
  /\ \/ tx' = [tx EXCEPT ![i] = 200] /\ UNCHANGED faults
     \/ /\ tx' = [tx EXCEPT ![i] = 500]
        /\ faults < MaxFaults /\ faults' = faults + 1
  /\ UNCHANGED <<smtpd, tosend, delreq, sent, up, alive, cursor, waiting, delivered, fwd, sock, acker>>

-----------------------------------------------------------------------------
(* The forwarder.                                                          *)

Forwarding(pc) == up /\ "forwarder" \in alive /\ fwd.pc = pc
Goto(pc, i, k) == fwd' = [pc |-> pc, i |-> i, k |-> k, asked |-> FALSE]

StartPass ==
  /\ Forwarding("sleep") /\ waiting # <<>>
  /\ Goto("scan", 1, 0)
  /\ UNCHANGED <<smtpd, faults, tosend, delreq, sent, up, alive, cursor, waiting, tx, delivered, sock, acker>>

(* list_move_to(&delivered_forwards, fwd).                                 *)
Delivered(i, status) ==
  /\ delivered' = Append(delivered, [v |-> waiting[i], status |-> status])
  /\ waiting' = SubSeq(waiting, 1, i - 1) \o SubSeq(waiting, i + 1, Len(waiting))
  /\ tx' = SubSeq(tx, 1, i - 1) \o SubSeq(tx, i + 1, Len(tx))
  /\ Goto("scan", i, 0)

(* One turn of the loop: transfers_done, then the dialogue.                *)
transfers_done ==
  /\ Forwarding("scan") /\ fwd.i \in DOMAIN waiting
  /\ LET i == fwd.i
     IN  \/ tx[i] = 0 /\ Goto("scan", i + 1, 0) /\ UNCHANGED <<waiting, tx, delivered>>
         \/ tx[i] = 500 /\ Delivered(i, 500)
         \/ /\ tx[i] = 200
            /\ Goto(IF sock = "none" THEN "open" ELSE "mail", i, 1)
            /\ UNCHANGED <<waiting, tx, delivered>>
  /\ UNCHANGED <<smtpd, faults, tosend, delreq, sent, up, alive, cursor, sock, acker>>

(* may_open_connection: a relay that cannot be reached ends the thread.    *)
may_open_connection ==
  /\ Forwarding("open")
  /\ env' = [env EXCEPT ![Me] = Opened]
  /\ wire' = [wire EXCEPT ![Me] = Silent]
  /\ sock' = "open"
  /\ Goto("helo", fwd.i, 1)
  /\ UNCHANGED <<stored, inbox, faults, tosend, delreq, sent, up, alive, cursor, waiting, tx, delivered, acker>>

NoRelay ==
  /\ Forwarding("open")
  /\ faults < MaxFaults /\ faults' = faults + 1
  /\ ThreadEnds("forwarder") /\ fwd' = Idle
  /\ UNCHANGED <<smtpd, tosend, delreq, sent, up, cursor, waiting, tx, delivered, sock, acker>>

Dialogue == {"helo", "mail", "rcpt", "data", "body"}

Line(pc, m) ==
  CASE pc = "helo" -> Command("helo", NoOne)
    [] pc = "mail" -> Command("mail", m)
    [] pc = "rcpt" -> Command("rcpt", To[m][fwd.k])
    [] pc = "data" -> Command("data", NoOne)
    [] pc = "body" -> Command("body", m)

(* An error of smtp_cmd: it will try later, on the same socket.  During    *)
(* HELO it is an error of may_open_connection, which ends the thread.      *)
Fails(s) ==
  /\ IF fwd.pc = "helo" THEN sock' = "none" /\ ThreadEnds("forwarder") /\ fwd' = Idle
     ELSE sock' = s /\ Goto("failed", 0, 0) /\ UNCHANGED alive
  /\ UNCHANGED <<smtpd, tosend, delreq, sent, up, cursor, waiting, tx, delivered, acker>>

Fitting == <<MailOf(waiting[fwd.i]), fwd.pc>> \notin TooLong

(* smtp_cmd writes a line.  The first one on a connection that smtpd has   *)
(* closed is sent, and only the answer fails; nothing handles SIGPIPE, so  *)
(* the next one ends the process, and the body has more than one.          *)
smtp_cmd ==
  /\ \E pc \in Dialogue : Forwarding(pc)
  /\ ~ fwd.asked
  /\ \/ /\ env[Me].open /\ Fitting
        /\ wire' = [wire EXCEPT ![Me] = Line(fwd.pc, MailOf(waiting[fwd.i]))]
        /\ fwd' = [fwd EXCEPT !.asked = TRUE]
        /\ UNCHANGED <<env, stored, inbox, tosend, delreq, sent, up, alive, cursor, waiting, tx, delivered, sock, acker>>
     \/ ~ env[Me].open /\ Fitting /\ sock = "open" /\ Fails("reset")
     \/ ~ env[Me].open /\ (sock = "reset" \/ fwd.pc = "body") /\ Ends
  /\ UNCHANGED faults

(* An error of sendmail itself: "Command too long", each time it comes to  *)
(* that line, or a file of the mail that cannot be read.  The line is not  *)
(* sent and it will try later; smtpd, when it reads a body, reads on.      *)
LocalError ==
  /\ \E pc \in {"mail", "rcpt", "body"} : Forwarding(pc)
  /\ ~ fwd.asked
  /\ \/ ~ Fitting /\ UNCHANGED faults
     \/ fwd.pc = "body" /\ faults < MaxFaults /\ faults' = faults + 1
  /\ Goto("failed", 0, 0)
  /\ sock' = IF fwd.pc = "body" /\ ~ env[Me].open THEN "reset" ELSE sock
  /\ UNCHANGED <<smtpd, tosend, delreq, sent, up, alive, cursor, waiting, tx, delivered, acker>>

(* The connection is lost while the forwarder waits for an answer, or      *)
(* while it still writes the body, which takes several writes.             *)
read_fails ==
  /\ \E pc \in Dialogue : Forwarding(pc)
  /\ fwd.asked /\ ~ env[Me].open /\ wire[Me] = Silent
  /\ \/ Fails("open")
     \/ fwd.pc = "body" /\ Ends
  /\ UNCHANGED faults

(* What send_forward does with the answer: go on, or return the status.    *)
GoesOn(pc, s) ==
  CASE pc \in {"helo", "mail"} -> s = 250
    [] pc = "rcpt" -> s \in 250 .. 252
    [] pc = "data" -> s = 354
    [] pc = "body" -> FALSE

NextStep ==
  CASE fwd.pc = "helo" -> Goto("mail", fwd.i, 1)
    [] fwd.pc = "mail" -> Goto("rcpt", fwd.i, 1)
    [] fwd.pc = "rcpt" /\ fwd.k < Len(To[MailOf(waiting[fwd.i])]) -> Goto("rcpt", fwd.i, fwd.k + 1)
    [] fwd.pc = "rcpt" /\ fwd.k = Len(To[MailOf(waiting[fwd.i])]) -> Goto("data", fwd.i, 1)
    [] fwd.pc = "data" -> Goto("body", fwd.i, 1)

(* Mutant: the mail counts as sent once its body may be.                   *)
send_forward_Eager ==
  /\ \E pc \in Dialogue : Forwarding(pc)
  /\ wire[Me].t = "answer"
  /\ wire' = [wire EXCEPT ![Me] = Silent]
  /\ IF fwd.pc = "data" /\ wire[Me].status = 354 THEN Delivered(fwd.i, 250)
     ELSE IF GoesOn(fwd.pc, wire[Me].status) THEN NextStep /\ UNCHANGED <<waiting, tx, delivered>>
     ELSE Delivered(fwd.i, wire[Me].status)
  /\ UNCHANGED <<env, stored, inbox, faults, tosend, delreq, sent, up, alive, cursor, sock, acker>>

(* Mutant: refused mails stay in the list.                                 *)
send_forward_Again ==
  /\ \E pc \in Dialogue : Forwarding(pc)
  /\ wire[Me].t = "answer"
  /\ wire' = [wire EXCEPT ![Me] = Silent]
  /\ IF GoesOn(fwd.pc, wire[Me].status) THEN NextStep /\ UNCHANGED <<waiting, tx, delivered>>
     ELSE IF wire[Me].status = 550 THEN Goto("failed", 0, 0) /\ UNCHANGED <<waiting, tx, delivered>>
     ELSE Delivered(fwd.i, wire[Me].status)
  /\ UNCHANGED <<env, stored, inbox, faults, tosend, delreq, sent, up, alive, cursor, sock, acker>>

send_forward ==
  /\ \E pc \in Dialogue : Forwarding(pc)
  /\ wire[Me].t = "answer"
  /\ wire' = [wire EXCEPT ![Me] = Silent]
  /\ IF GoesOn(fwd.pc, wire[Me].status) THEN NextStep /\ UNCHANGED <<waiting, tx, delivered>>
     ELSE Delivered(fwd.i, wire[Me].status)
  /\ UNCHANGED <<env, stored, inbox, faults, tosend, delreq, sent, up, alive, cursor, sock, acker>>

(* The end of a pass: may_close_connection after CNX_IDLE_TIMEOUT, with a  *)
(* QUIT that is answered or not; one that smtpd takes for text of a body   *)
(* is waited for until the connection is lost.                             *)
may_close_connection ==
  /\ Forwarding("failed") \/ (Forwarding("scan") /\ fwd.i > Len(waiting))
  /\ \/ /\ fwd' = Idle
        /\ UNCHANGED <<smtpd, tosend, delreq, sent, up, alive, cursor, waiting, tx, delivered, sock, acker>>
     \/ /\ sock = "open" /\ env[Me].mode = "body" /\ Goto("quit", 0, 0)
        /\ UNCHANGED <<smtpd, tosend, delreq, sent, up, alive, cursor, waiting, tx, delivered, sock, acker>>
     \/ /\ sock = "open" /\ env[Me].mode # "body"
        /\ sock' = "none" /\ fwd' = Idle /\ Cut({Me})
        /\ UNCHANGED <<tosend, delreq, sent, up, alive, cursor, waiting, tx, delivered, acker>>
     \/ sock = "reset" /\ Ends
  /\ UNCHANGED faults

QuitFails ==
  /\ Forwarding("quit") /\ ~ env[Me].open
  /\ sock' = "none" /\ fwd' = Idle
  /\ UNCHANGED <<smtpd, faults, tosend, delreq, sent, up, alive, cursor, waiting, tx, delivered, acker>>

-----------------------------------------------------------------------------
(* The acker: move_fwd on the oldest delivered forward.                    *)

Acking(pc) == up /\ "acker" \in alive /\ acker = pc /\ delivered # <<>>

(* mdir_read gives nothing for a mail that was withdrawn, which            *)
(* assert(header) does not accept; otherwise mdir_del_request.             *)
DelRequest ==
  /\ Acking("idle")
  /\ LET v == Head(delivered).v
     IN  IF tosend[v].gone THEN Ends
         ELSE /\ delreq' = delreq \cup {v} /\ acker' = "copy"
              /\ UNCHANGED <<smtpd, tosend, sent, up, alive, cursor, waiting, tx, delivered, fwd, sock>>
  /\ UNCHANGED faults

(* get_or_create_mdir and mdir_patch_request, then forward_del.            *)
CopyRequest ==
  /\ Acking("copy")
  /\ sent' = sent \cup {[mail |-> MailOf(Head(delivered).v), status |-> Head(delivered).status]}
  /\ acker' = "idle" /\ delivered' = Tail(delivered)
  /\ UNCHANGED <<smtpd, faults, tosend, delreq, up, alive, cursor, waiting, tx, fwd, sock>>

(* An error in either request: the inner loop goes on with the error set,  *)
(* so move_fwd returns at once and all forwards are freed; the thread ends.*)
AckerFails ==
  /\ Acking("idle") \/ Acking("copy")
  /\ faults < MaxFaults /\ faults' = faults + 1
  /\ ThreadEnds("acker") /\ acker' = "idle" /\ delivered' = <<>>
  /\ UNCHANGED <<smtpd, tosend, delreq, sent, up, cursor, waiting, tx, fwd, sock>>

-----------------------------------------------------------------------------
Forwarder == StartPass \/ transfers_done \/ may_open_connection \/ smtp_cmd \/ LocalError \/ read_fails
             \/ send_forward \/ may_close_connection \/ QuitFails

SendmailNext ==
  \/ \E m \in Mails : Submit(m)
  \/ \E v \in DOMAIN tosend : Sync(v) \/ Withdraw(v)
  \/ Start \/ Killed
  \/ send_patch \/ CrawlerFails \/ FiledLost \/ FetchLost \/ \E i \in DOMAIN waiting : TransferEnds(i)
  \/ Forwarder \/ NoRelay
  \/ DelRequest \/ CopyRequest \/ AckerFails

mvars == <<smtpd, faults, sendmail>>
=============================================================================
