-------------------------------- MODULE Cnx ---------------------------------
(***************************************************************************)
(* The client's end of a connection: lib/cnx.c and lib/cmd.c.  A connecter *)
(* thread connects and authenticates; then any thread sends queries and    *)
(* one reader thread dispatches what arrives.                              *)
(*                                                                         *)
(* Two lists of queue.h tie a received line to its handler: the command    *)
(* definitions of the syntax, and the queries without an answer yet.  Both *)
(* hold pointers to objects of the caller, so they are modelled with their *)
(* le_next and le_prev pointers; le_prev, the address of a pointer, is the *)
(* element that contains it, or the list head.                             *)
(*                                                                         *)
(* The peer (mdsyncd or filed) is external: it answers the queries of a    *)
(* connection one after the other, repeating the number it was sent.       *)
(***************************************************************************)
EXTENDS Naturals, Sequences, FiniteSets, SequencesExt

CONSTANTS
  Queries,      \* the sent queries of the caller (struct command of mdsyncc)
  SQ_TIMEOUT,
  BufDigits,    \* digits of a number that mdir_cmd_seq2str writes
  AuthCloses,   \* may the peer close the connection before it has answered auth?
  MaxSeq,       \* bound: numbered queries
  MaxTime,      \* bound: seconds
  MaxFailures   \* bound: refused or interrupted authentications

ASSUME CnxAssumption ==
  /\ {"my_sq", "auth_def", "nil", "head"} \cap Queries = {}
  /\ SQ_TIMEOUT \in Nat
  /\ BufDigits \in Nat \ {0}
  /\ AuthCloses \in BOOLEAN
  /\ MaxSeq \in Nat /\ MaxTime \in Nat /\ MaxFailures \in Nat

VARIABLES
  pc,           \* connecter_thread: connect, auth, answer, sleep or up
  connected,    \* cnx->fd # -1
  authed,       \* cnx->authed
  closed,       \* the peer has closed its end
  next_seq,     \* cnx->next_seq
  defs,         \* cnx->syntax->defs
  sent,         \* cnx->sent_queries
  sq,           \* the sent queries: [seq, creation]
  waiting,      \* queries whose sender still waits for the answer
  up, down,     \* the lines on their way
  reader,       \* the reader thread: reading, dead, or looping in a list
  age,          \* the greatest age of an answer that nobody expected, plus one
  now,          \* time(NULL)
  failures      \* failed authentications so far

lists == <<defs, sent, sq>>
wire  == <<up, down, closed>>
vars  == <<pc, connected, authed, next_seq, lists, waiting, wire, reader, age, now, failures>>

-----------------------------------------------------------------------------
(* Lists.                                                                  *)

UserDefs == {"sub", "put"}
Defs == UserDefs \cup {"auth_def"}
SentQueries == Queries \cup {"my_sq"}

LIST_INSERT_HEAD(l, e) ==
  [head |-> e,
   next |-> [l.next EXCEPT ![e] = l.head],
   prev |-> [x \in DOMAIN l.prev |-> CASE x = e -> "head"
                                       [] x = l.head /\ x # e -> e
                                       [] OTHER -> l.prev[x]]]

LIST_REMOVE(l, e) ==
  LET n == l.next[e]
      p == l.prev[e]
  IN  [head |-> IF p = "head" THEN n ELSE l.head,
       next |-> IF p = "head" THEN l.next ELSE [l.next EXCEPT ![p] = n],
       prev |-> IF n = "nil" THEN l.prev ELSE [l.prev EXCEPT ![n] = p]]

LIST_INIT(S) == [head |-> "nil", next |-> [e \in S |-> "nil"], prev |-> [e \in S |-> "head"]]

(* The elements LIST_FOREACH visits.  A list that is longer than there are *)
(* elements never ends.                                                    *)
Visit(l) ==
  LET n == Cardinality(DOMAIN l.next)
      at[i \in 1 .. n + 1] == IF i = 1 THEN l.head
                              ELSE IF at[i - 1] = "nil" THEN "nil" ELSE l.next[at[i - 1]]
  IN  SelectSeq(at, LAMBDA e : e # "nil")

Ends(l) == Len(Visit(l)) <= Cardinality(DOMAIN l.next)

-----------------------------------------------------------------------------
(* Queries and answers.                                                    *)

(* mdir_cmd_seq2str: sizeof(buf) is the size of a pointer, so the buffer   *)
(* takes that many digits and drops the rest.                              *)
mdir_cmd_seq2str(seq) ==
  LET cut[n \in Nat] == IF n < 10 ^ BufDigits THEN n ELSE cut[n \div 10]
  IN  cut[seq]

(* Mutant: the guard forgets authed.                                       *)
mdir_cnx_query_Unguarded(kw, q) ==
  /\ connected
  /\ next_seq <= MaxSeq
  /\ next_seq' = next_seq + 1
  /\ IF closed THEN UNCHANGED <<up, sent, sq>>
     ELSE /\ up' = Append(up, [kw |-> kw, seq |-> mdir_cmd_seq2str(next_seq),
                               q |-> q, at |-> now])
          /\ sent' = LIST_INSERT_HEAD(sent, q)
          /\ sq' = [sq EXCEPT ![q] = [seq |-> next_seq, creation |-> now]]

(* mdir_cnx_query when the guard lets it pass: the line goes out, unless   *)
(* the peer is gone, and the query is linked for later.                    *)
mdir_cnx_query(kw, q) ==
  /\ connected /\ (authed \/ kw = "auth")
  /\ next_seq <= MaxSeq
  /\ next_seq' = next_seq + 1
  /\ IF closed THEN UNCHANGED <<up, sent, sq>>
     ELSE /\ up' = Append(up, [kw |-> kw, seq |-> mdir_cmd_seq2str(next_seq),
                               q |-> q, at |-> now])
          /\ sent' = LIST_INSERT_HEAD(sent, q)
          /\ sq' = [sq EXCEPT ![q] = [seq |-> next_seq, creation |-> now]]

(* mdir_cnx_query_retrieve(cnx, cmd): queries that are too old and precede *)
(* the one that is looked for are dropped on the way.                      *)
Seen(seq) ==
  LET all == Visit(sent)
      hit == {i \in DOMAIN all : sq[all[i]].seq = seq}
  IN  IF hit = {} THEN all ELSE SubSeq(all, 1, (CHOOSE i \in hit : \A k \in hit : i <= k) - 1)

Found(seq) == \E i \in DOMAIN Visit(sent) : sq[Visit(sent)[i]].seq = seq
Match(seq) == Visit(sent)[Len(Seen(seq)) + 1]

(* Mutant: the boundary is tested the other way round.                     *)
Expired_Early(q) == sq[q].creation + SQ_TIMEOUT <= now

Expired(q) == sq[q].creation + SQ_TIMEOUT < now

Dropped(seq) == SelectSeq(Seen(seq), LAMBDA q : Expired(q) /\ sq[q].seq # 0)

mdir_cnx_query_retrieve(seq) ==
  LET gone == Dropped(seq) \o (IF Found(seq) THEN <<Match(seq)>> ELSE <<>>)
  IN  /\ sent' = FoldLeft(LIST_REMOVE, sent, gone)
      /\ sq' = [q \in SentQueries |->
                  IF \E i \in DOMAIN gone : gone[i] = q THEN [sq[q] EXCEPT !.seq = 0] ELSE sq[q]]

(* The definition that parse_line finds for an answer to kw, if any.       *)
DefOf(kw) == IF kw = "auth" THEN "auth_def" ELSE kw
parse_line(kw) == \E i \in DOMAIN Visit(defs) : Visit(defs)[i] = DefOf(kw)

-----------------------------------------------------------------------------
(* connecter_thread.                                                       *)

(* Connect succeeds at last.                                               *)
Connect ==
  /\ pc = "connect"
  /\ connected' = TRUE /\ authed' = FALSE
  /\ closed' = FALSE /\ up' = <<>> /\ down' = <<>>
  /\ pc' = "auth"
  /\ UNCHANGED <<next_seq, lists, waiting, reader, age, now, failures>>

(* Register the definition and send the query; auth_def and my_sq live on  *)
(* the thread's stack, at the same place each time.                        *)
SendAuth ==
  /\ pc = "auth"
  /\ mdir_cnx_query("auth", "my_sq")
  /\ defs' = LIST_INSERT_HEAD(defs, "auth_def")
  /\ IF closed THEN pc' = "sleep" /\ connected' = FALSE /\ failures' = failures + 1
               ELSE pc' = "answer" /\ UNCHANGED <<connected, failures>>
  /\ UNCHANGED <<authed, down, closed, waiting, reader, age, now>>

(* mdir_cmd_read returns with the answer.  After a refusal the connection  *)
(* is closed, and the thread sleeps.  (An answer whose number is not that  *)
(* of my_sq leaves through the same door as a closed connection.)          *)
ReadAuth ==
  /\ pc = "answer"
  /\ down # <<>>
  /\ down' = Tail(down)
  /\ LET a == Head(down)
     IN  /\ mdir_cnx_query_retrieve(a.seq)
         /\ IF Found(a.seq) /\ a.status = 200
            THEN pc' = "up" /\ authed' = TRUE /\ UNCHANGED <<connected, failures>>
            ELSE pc' = "sleep" /\ connected' = FALSE /\ failures' = failures + 1 /\ UNCHANGED authed
         /\ defs' = IF Found(a.seq) THEN LIST_REMOVE(defs, "auth_def") ELSE defs
  /\ UNCHANGED <<next_seq, waiting, up, closed, reader, age, now>>

(* Mutant: cnx->fd is not reset, so the thread takes the connection for    *)
(* established.                                                            *)
ReadAuthFails_KeepsFd ==
  /\ pc = "answer"
  /\ down = <<>> /\ closed
  /\ pc' = "up" /\ failures' = failures + 1
  /\ UNCHANGED <<connected, authed, next_seq, lists, waiting, wire, reader, age, now>>

(* mdir_cmd_read fails: nothing is unregistered.                           *)
ReadAuthFails ==
  /\ pc = "answer"
  /\ down = <<>> /\ closed
  /\ pc' = "sleep" /\ connected' = FALSE /\ failures' = failures + 1
  /\ UNCHANGED <<authed, next_seq, lists, waiting, wire, reader, age, now>>

(* pth_sleep(30) is over.                                                  *)
WakeUp ==
  /\ pc = "sleep"
  /\ pc' = "connect"
  /\ UNCHANGED <<connected, authed, next_seq, lists, waiting, wire, reader, age, now, failures>>

-----------------------------------------------------------------------------
(* The threads that use the connection.                                    *)

(* A caller sends a query; it keeps the sent query until it is answered.   *)
SendQuery(q, kw) ==
  /\ q \notin waiting
  /\ kw # "auth"
  /\ mdir_cnx_query(kw, q)
  /\ waiting' = IF closed THEN waiting ELSE waiting \cup {q}
  /\ UNCHANGED <<pc, connected, authed, defs, down, closed, reader, age, now, failures>>

(* mdir_cnx_read: a line is parsed and its callback retrieves the query.   *)
(* An unknown keyword or an unexpected answer ends the reader thread.      *)
mdir_cnx_read ==
  /\ reader = "reading"
  /\ connected /\ authed
  /\ down # <<>>
  /\ down' = Tail(down)
  /\ LET a == Head(down)
     IN  \/ /\ parse_line(a.kw) /\ Found(a.seq)
            /\ mdir_cnx_query_retrieve(a.seq)
            /\ waiting' = waiting \ {Match(a.seq)}
            /\ UNCHANGED <<reader, age>>
         \/ /\ parse_line(a.kw) /\ ~Found(a.seq)
            /\ mdir_cnx_query_retrieve(a.seq)
            /\ reader' = IF Ends(sent) THEN "dead" ELSE "looping"
            /\ age' = now - a.at + 1
            /\ UNCHANGED waiting
         \/ /\ ~parse_line(a.kw)
            /\ reader' = IF Ends(defs) THEN "dead" ELSE "looping"
            /\ UNCHANGED <<sent, sq, waiting, age>>
  /\ UNCHANGED <<pc, connected, authed, next_seq, defs, up, closed, now, failures>>

ReadFails ==
  /\ reader = "reading"
  /\ connected /\ authed
  /\ down = <<>> /\ closed
  /\ reader' = "dead"
  /\ UNCHANGED <<pc, connected, authed, next_seq, lists, waiting, wire, age, now, failures>>

-----------------------------------------------------------------------------
(* The environment.                                                        *)

PeerAnswers ==
  /\ up # <<>> /\ ~closed
  /\ up' = Tail(up)
  /\ \E status \in {200, 500} :
       /\ Head(up).kw = "auth" /\ status # 200 => failures < MaxFailures
       /\ down' = Append(down, [kw |-> Head(up).kw, seq |-> Head(up).seq, status |-> status,
                                q |-> Head(up).q, at |-> Head(up).at])
  /\ UNCHANGED <<pc, connected, authed, closed, next_seq, lists, waiting, reader, age, now, failures>>

PeerCloses ==
  /\ connected /\ ~closed
  /\ authed \/ (AuthCloses /\ failures < MaxFailures)
  /\ closed' = TRUE
  /\ up' = <<>>
  /\ UNCHANGED <<pc, connected, authed, next_seq, lists, waiting, down, reader, age, now, failures>>

Tick ==
  /\ now < MaxTime
  /\ now' = now + 1
  /\ UNCHANGED <<pc, connected, authed, next_seq, lists, waiting, wire, reader, age, failures>>
-----------------------------------------------------------------------------

Init ==
  /\ pc = "connect" /\ connected = FALSE /\ authed = FALSE /\ closed = FALSE
  /\ next_seq = 1
  /\ defs = FoldLeft(LIST_INSERT_HEAD, LIST_INIT(Defs), <<"sub", "put">>)
  /\ sent = LIST_INIT(SentQueries)
  /\ sq = [q \in SentQueries |-> [seq |-> 0, creation |-> 0]]
  /\ waiting = {} /\ up = <<>> /\ down = <<>>
  /\ reader = "reading" /\ age = 0 /\ now = 0 /\ failures = 0

Connecter == Connect \/ SendAuth \/ ReadAuth \/ ReadAuthFails \/ WakeUp
Users == \/ \E q \in Queries, kw \in UserDefs : SendQuery(q, kw)
         \/ mdir_cnx_read \/ ReadFails
Environment == PeerAnswers \/ PeerCloses \/ Tick

Next == Connecter \/ Users \/ Environment

Spec == Init /\ [][Next]_vars

(* The connecter thread runs, and the peer answers.                        *)
FairSpec == Spec /\ WF_vars(Connecter) /\ WF_vars(PeerAnswers)

-----------------------------------------------------------------------------
(* Properties.                                                             *)

(* Nothing but auth is sent on a connection before the peer has accepted   *)
(* it, whichever thread comes first after a connection is established.     *)
AuthFirst ==
  ~authed => \A i \in DOMAIN (up \o down) : (up \o down)[i].kw = "auth"

(* An answer that comes within SQ_TIMEOUT finds its query, whatever else   *)
(* was answered or dropped in the meantime: no "Unexpected answer", which  *)
(* would end the reader thread.                                            *)
TimelyAnswers == age = 0 \/ age > SQ_TIMEOUT + 1

(* "keep trying once in a while until success" (mdsyncc/connecter.c).      *)
AuthEventually == <>authed
=============================================================================
