------------------------------- MODULE Smtpd -------------------------------
(***************************************************************************)
(* smtpd: a thread per connection that executes SMTP commands, takes a     *)
(* mail apart, stores its parts in the file channel and requests a message *)
(* in the mdir of the recipient.                                           *)
(*                                                                         *)
(* A mail is a model value; its sender is known by the mail, so env.from   *)
(* is the mail whose MAIL command was accepted.  The peer of a connection  *)
(* is either sendmail (module Sendmail) or another mail client, which      *)
(* sends what it likes.  wire holds the one line under way: SMTP is        *)
(* half-duplex, and no client here pipelines.                              *)
(***************************************************************************)
EXTENDS Integers, Sequences, FiniteSets

CONSTANTS
  Users,       \* those with a folder under /mailboxes/Incoming
  Strangers,   \* addresses without one
  OtherMails,  \* what the other mail client sends
  NoOne,
  Parts,       \* files of a mail: its header and its body
  MaxFaults    \* bound: crashes, lost connections and failed writes

ASSUME SmtpdAssumption ==
  /\ Parts \in Nat \ {0} /\ MaxFaults \in Nat
  /\ Users \cap Strangers = {} /\ NoOne \notin Users \cup Strangers \cup OtherMails

VARIABLES
  env,     \* struct cnx_env of a connection
  wire,    \* the command or answer under way on it
  stored,  \* files in the cache of the file channel: <<mail, part>>
  inbox,   \* messages of the folders under Incoming, in version order
  faults

smtpd == <<env, wire, stored, inbox>>

Cnxs == {"sendmail", "other"}

Closed == [open |-> FALSE, domain |-> FALSE, from |-> NoOne, to |-> NoOne, mailbox |-> NoOne,
           mode |-> "cmd", mail |-> NoOne, k |-> 0]
Opened == [Closed EXCEPT !.open = TRUE]    \* cnx_env_new

Silent == [t |-> "none", kw |-> "none", arg |-> NoOne, status |-> 0]
Command(kw, arg) == [Silent EXCEPT !.t = "command", !.kw = kw, !.arg = arg]
Status(s)        == [Silent EXCEPT !.t = "answer", !.status = s]

SmtpdInit ==
  /\ env = [c \in Cnxs |-> Closed]
  /\ wire = [c \in Cnxs |-> Silent]
  /\ stored = {} /\ inbox = <<>> /\ faults = 0

-----------------------------------------------------------------------------
(* Commands.                                                               *)

Asked(c, kw) == env[c].open /\ env[c].mode = "cmd" /\ wire[c].t = "command" /\ wire[c].kw = kw

answer(c, s) == wire' = [wire EXCEPT ![c] = Status(s)]

Set(c, e) == env' = [env EXCEPT ![c] = e] /\ UNCHANGED <<stored, inbox, faults>>

reset_state(e) ==
  [e EXCEPT !.domain = FALSE, !.from = NoOne, !.to = NoOne]

exec_helo(c) ==
  /\ Asked(c, "helo")
  /\ Set(c, [reset_state(env[c]) EXCEPT !.domain = TRUE])
  /\ answer(c, 250)

(* The argument is NoOne when it does not start with "FROM:" or "TO:".     *)
exec_mail(c) ==
  /\ Asked(c, "mail")
  /\ LET arg == wire[c].arg
     IN  IF ~ env[c].domain THEN Set(c, env[c]) /\ answer(c, 503)
         ELSE IF arg = NoOne THEN Set(c, env[c]) /\ answer(c, 500)
         ELSE Set(c, [env[c] EXCEPT !.from = arg]) /\ answer(c, 250)

(* A recipient takes the place of the one before it, a bad one too.        *)
set_forward_path(e, to) ==
  [e EXCEPT !.to = IF to \in Users THEN to ELSE NoOne,
            !.mailbox = IF to \in Users THEN to ELSE NoOne]

exec_rcpt(c) ==
  /\ Asked(c, "rcpt")
  /\ LET arg == wire[c].arg
     IN  IF env[c].from = NoOne THEN Set(c, env[c]) /\ answer(c, 503)
         ELSE IF arg = NoOne THEN Set(c, env[c]) /\ answer(c, 500)
         ELSE /\ Set(c, set_forward_path(env[c], arg))
              /\ answer(c, IF arg \in Users THEN 250 ELSE 550)

exec_data(c) ==
  /\ Asked(c, "data")
  /\ IF env[c].to = NoOne THEN Set(c, env[c]) /\ answer(c, 503)
     ELSE Set(c, [env[c] EXCEPT !.mode = "body"]) /\ answer(c, 354)

exec_rset(c) == Asked(c, "rset") /\ Set(c, reset_state(env[c])) /\ answer(c, 250)

(* exec_vrfy, exec_expn and exec_help are not implemented yet.             *)
exec_vrfy(c) == Asked(c, "vrfy") /\ Set(c, env[c]) /\ answer(c, 451)

exec_quit(c) == Asked(c, "quit") /\ Set(c, Closed) /\ answer(c, 221)

(* A keyword that is not registered, NOOP among them, is an error of       *)
(* mdir_cmd_read and ends the thread without an answer.                    *)
Unknown(c) ==
  /\ Asked(c, "noop")
  /\ Set(c, Closed)
  /\ wire' = [wire EXCEPT ![c] = Silent]

-----------------------------------------------------------------------------
(* process_mail.                                                           *)

(* msg_tree_read: all lines up to the single dot, which ends a body and no *)
(* command: it reads a command like any other line of text, and reads on.  *)
msg_tree_read(c) ==
  /\ env[c].open /\ env[c].mode = "body" /\ wire[c].t = "command" /\ wire[c].kw = "body"
  /\ Set(c, [env[c] EXCEPT !.mode = "store", !.mail = wire[c].arg, !.k = 0])
  /\ wire' = [wire EXCEPT ![c] = Silent]

(* store_header and store_file_rec: one file after the other.              *)
store_file(c) ==
  /\ env[c].mode = "store" /\ env[c].k < Parts
  /\ stored' = stored \cup {<<env[c].mail, env[c].k + 1>>}
  /\ env' = [env EXCEPT ![c].k = @ + 1]
  /\ UNCHANGED <<wire, inbox, faults>>

(* Mutant: the message is requested before its files are stored.           *)
PatchRequest_Early(c) ==
  /\ env[c].mode = "store"
  /\ inbox' = Append(inbox, [kind |-> "mail", to |-> env[c].mailbox, from |-> env[c].from,
                             mail |-> env[c].mail, target |-> 0])
  /\ env' = [env EXCEPT ![c].mode = "answer"]
  /\ UNCHANGED <<wire, stored, faults>>

(* mdir_patch_request; mdsyncc makes it a version (MdSync).                *)
PatchRequest(c) ==
  /\ env[c].mode = "store" /\ env[c].k = Parts
  /\ inbox' = Append(inbox, [kind |-> "mail", to |-> env[c].mailbox, from |-> env[c].from,
                             mail |-> env[c].mail, target |-> 0])
  /\ env' = [env EXCEPT ![c].mode = "answer"]
  /\ UNCHANGED <<wire, stored, faults>>

(* The addresses stay for the next mail.                                   *)
AnswerOk(c) ==
  /\ env[c].mode = "answer"
  /\ Set(c, [env[c] EXCEPT !.mode = "cmd", !.mail = NoOne, !.k = 0])
  /\ answer(c, 250)

(* An error of process_mail is answered, and ends the thread.              *)
ProcessFails(c) ==
  /\ faults < MaxFaults /\ faults' = faults + 1
  /\ env[c].mode = "store"
  /\ env' = [env EXCEPT ![c] = Closed]
  /\ answer(c, 451)
  /\ UNCHANGED <<stored, inbox>>

(* The connection breaks, or smtpd dies: what is on its way is lost.       *)
Cut(cs) ==
  /\ env' = [c \in Cnxs |-> IF c \in cs THEN Closed ELSE env[c]]
  /\ wire' = [c \in Cnxs |-> IF c \in cs THEN Silent ELSE wire[c]]
  /\ UNCHANGED <<stored, inbox>>

LinkBreaks(c) ==
  /\ faults < MaxFaults /\ faults' = faults + 1
  /\ env[c].open /\ Cut({c})

SmtpdDies ==
  /\ faults < MaxFaults /\ faults' = faults + 1
  /\ Cut(Cnxs)

serve_cnx(c) ==
  \/ exec_helo(c) \/ exec_mail(c) \/ exec_rcpt(c) \/ exec_data(c) \/ exec_rset(c)
  \/ exec_vrfy(c) \/ exec_quit(c) \/ Unknown(c)
  \/ msg_tree_read(c) \/ store_file(c) \/ PatchRequest(c) \/ AnswerOk(c)

-----------------------------------------------------------------------------
(* Another mail client: any command in any order, one mail.                *)

OtherConnect ==
  /\ ~ env["other"].open /\ ~ \E i \in DOMAIN inbox : inbox[i].mail \in OtherMails
  /\ env' = [env EXCEPT !["other"] = Opened]
  /\ wire' = [wire EXCEPT !["other"] = Silent]
  /\ UNCHANGED <<stored, inbox, faults>>

OtherSends ==
  /\ env["other"].open /\ wire["other"].t # "command"
  /\ ~ \E i \in DOMAIN inbox : inbox[i].mail \in OtherMails
  /\ \E q \in {Command(kw, NoOne) : kw \in {"helo", "mail", "rcpt", "data", "rset", "vrfy", "quit", "noop"}}
            \cup {Command("mail", m) : m \in OtherMails}
            \cup {Command("rcpt", u) : u \in Users \cup Strangers}
            \cup {Command("body", m) : m \in OtherMails} :
       /\ (q.kw = "body") <=> (env["other"].mode = "body")
       /\ wire' = [wire EXCEPT !["other"] = q]
  /\ UNCHANGED <<env, stored, inbox, faults>>

SmtpdSteps(c) == serve_cnx(c) \/ ProcessFails(c) \/ LinkBreaks(c)

OtherClient == OtherConnect \/ OtherSends

SmtpdNext == (\E c \in Cnxs : SmtpdSteps(c)) \/ SmtpdDies \/ OtherClient

=============================================================================
