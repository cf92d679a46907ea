------------------------------- MODULE MCMail -------------------------------
(***************************************************************************)
(* A small instance of Mail for TLC.  All parts at once are too many       *)
(* interleavings of parts that hardly meet, so a behaviour has one of      *)
(* three scenes: sendmail with smtpd, with mails that can be sent or with  *)
(* one that cannot, or another mail client with smtpd and stribution.      *)
(***************************************************************************)
EXTENDS Mail

CONSTANTS u1, u2, x, m1, m2, m3, m4, m5

MCTo    == (m1 :> <<u2, u1>>) @@ (m2 :> <<x>>) @@ (m4 :> <<u1>>) @@ (m5 :> <<u2>>)
MCTooLong == {<<m5, "body">>}
MCConfs == << <<[when |-> {m3}, act |-> "move"], [when |-> {m3}, act |-> "copy"]>>,
              <<[when |-> {m3}, act |-> "delete"]>> >>

VARIABLE scene

MCInit == MailInit /\ scene \in {"outgoing", "too long", "incoming"}

Outgoing ==
  \/ SendmailNext /\ UNCHANGED stribution
  \/ (SmtpdSteps(Me) \/ SmtpdDies) /\ UNCHANGED <<sendmail, stribution>>

Incoming ==
  \/ (SmtpdSteps("other") \/ SmtpdDies \/ OtherClient) /\ UNCHANGED <<sendmail, stribution>>
  \/ StribNext /\ UNCHANGED sendmail

MCNext ==
  /\ UNCHANGED scene
  /\ \/ scene = "outgoing" /\ Outgoing
        /\ \A v \in DOMAIN tosend' : tosend'[v].mail # m5
     \/ scene = "too long" /\ Outgoing
        /\ \A v \in DOMAIN tosend' : tosend'[v].mail \in {m1, m5}
     \/ scene = "incoming" /\ Incoming

MCSpec == MCInit /\ [][MCNext]_<<mailvars, scene>> /\ MailFairness
=============================================================================
