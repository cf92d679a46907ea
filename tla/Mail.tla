-------------------------------- MODULE Mail --------------------------------
(***************************************************************************)
(* A mail on its way: from To_Send through sendmail to smtpd (Sendmail,    *)
(* Smtpd), into the folder of its recipient, and on along the rules of     *)
(* that folder (Stribution).                                               *)
(***************************************************************************)
EXTENDS Sendmail, Stribution

mailvars == <<smtpd, faults, sendmail, stribution>>

MailInit == SmtpdInit /\ SendmailInit /\ StribInit

MailNext ==
  \/ SendmailNext /\ UNCHANGED stribution
  \/ SmtpdNext /\ UNCHANGED <<sendmail, stribution>>
  \/ StribNext /\ UNCHANGED sendmail

(* Threads run as long as they can, a process that ended is started again, *)
(* transfers end as long as the connection to filed lasts; users and       *)
(* mdsyncc need do nothing.                                                *)
MailFairness ==
  /\ WF_mailvars(Start /\ UNCHANGED stribution)
  /\ WF_mailvars(send_patch /\ UNCHANGED stribution)
  /\ WF_mailvars((\E i \in DOMAIN waiting : TransferEnds(i)) /\ UNCHANGED stribution)
  /\ WF_mailvars(Forwarder /\ UNCHANGED stribution)
  /\ WF_mailvars((DelRequest \/ CopyRequest) /\ UNCHANGED stribution)
  /\ WF_mailvars(serve_cnx(Me) /\ UNCHANGED <<sendmail, stribution>>)

MailSpec == MailInit /\ [][MailNext]_mailvars /\ MailFairness

-----------------------------------------------------------------------------
(* What is filed under Sent with status 250 is in the folder of its last   *)
(* recipient, with the sender that sent it, however many mails shared the  *)
(* connection; and what is in a folder is whole, with all its files in the *)
(* cache: whatever refusals, lost connections, failures half way through a *)
(* mail and ends of either process came in between.                        *)
SentWasDelivered ==
  /\ \A r \in sent : r.status = 250 =>
       \E i \in DOMAIN inbox :
         inbox[i].mail = r.mail /\ inbox[i].from = r.mail /\ inbox[i].to = Last(To[r.mail])
  /\ \A i \in DOMAIN inbox : inbox[i].kind = "mail" =>
       \A k \in 1 .. Parts : <<inbox[i].mail, k>> \in stored

(* Without faults a mail reaches a folder at most once: the crawler, the   *)
(* forwarder and the acker hand it on, and none of them keeps it.          *)
OneCopy ==
  faults = 0 =>
    \A i, j \in DOMAIN inbox :
      inbox[i].kind = "mail" /\ inbox[i].mail \in Mails /\ inbox[i].mail = inbox[j].mail => i = j

(* What nothing ends but the end of the process or of the connection to    *)
(* smtpd: a thread that has ended or waits for ever, a mail with a line    *)
(* that is too long, which is tried again and again before those behind    *)
(* it, or a body that was given up half way, of which smtpd still waits    *)
(* for the end and sendmail for an answer.                                 *)
Stalled ==
  /\ up
  /\ \/ alive # Threads
     \/ \E i \in DOMAIN waiting : \E pc \in Dialogue : <<MailOf(waiting[i]), pc>> \in TooLong
     \/ env[Me].mode = "body" /\ fwd.pc \notin {"data", "body"}

(* A finished mail in To_Send is eventually dealt with: its removal is     *)
(* requested, with success or refusal filed, or it was withdrawn, or       *)
(* sendmail is stalled from then on.                                       *)
Settled ==
  \A m \in Mails \ Unfinished :
    (\E v \in DOMAIN tosend : MailOf(v) = m)
      ~> (\/ \E v \in DOMAIN tosend : MailOf(v) = m /\ (v \in delreq \/ tosend[v].gone)
          \/ []Stalled)
=============================================================================
