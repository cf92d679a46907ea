---------------------------- MODULE FileChannel -----------------------------
(***************************************************************************)
(* Files between hosts: lib/channel.c and lib/stream.c, with the programs  *)
(* around them: filed (the server), filec, sc_sendfile and sc_getfile.     *)
(*                                                                         *)
(* A resource is a file of Size chunks.  A host keeps it under its name in *)
(* a cache directory; a stream ties that file to the transfers (chn_tx)    *)
(* that read it from the disk or write it.  A client asks to write or read *)
(* a resource; then the side that has the content sends COPY commands,     *)
(* Block chunks at a time, the other one writes them and says THX when     *)
(* nothing is missing.  The connection is a TCP stream.                    *)
(*                                                                         *)
(* Both sides run the same code, so a transfer belongs to an end of a      *)
(* connection, <<"client", x>> or <<"server", x>>, and is named by the     *)
(* number of the command that started it.                                  *)
(***************************************************************************)
EXTENDS Naturals, Sequences, FiniteSets, SequencesExt

CONSTANTS
  Clients,      \* client hosts, each running at most one program at a time
  MaxCnxs,      \* bound: connections, each used once
  Resources,
  Server,
  NoOne,
  Size,         \* chunks of a file
  Block,        \* STREAM_READ_BLOCK, in chunks
  MaxCmds,      \* bound: read and write commands of a connection
  MaxMisses,    \* bound: retransmissions asked for
  Overlapping,  \* may a resource be read while it is being written?
  DiskFails,    \* may a write to the disk fail?
  Stored        \* resources that the server may have from earlier sessions

ASSUME ChannelAssumption ==
  /\ Server \notin Clients /\ NoOne \notin Clients \cup Resources \cup {Server} \cup Nat
  /\ \A r \in Resources : r \notin Nat
  /\ MaxCnxs \in Nat
  /\ Size \in Nat /\ Block \in Nat \ {0}
  /\ MaxCmds \in Nat /\ MaxMisses \in Nat
  /\ Overlapping \in BOOLEAN /\ DiskFails \in BOOLEAN /\ Stored \subseteq Resources

Hosts == Clients \cup {Server}
Ids   == 1 .. MaxCmds
Cnxs  == 1 .. MaxCnxs
Ends  == {"client", "server"} \X Cnxs
Keys  == Resources \cup Ids     \* stream_new for a send, stream_lookup otherwise

VARIABLES
  file,     \* what a host has under a resource's name
  stream,   \* the streams of a host
  tx,       \* the transfers of an end of a connection
  ends,     \* none, connecting, open, ended (cnx->status # 0) or closed
  net,      \* what travels to an end
  pend,     \* the COPY whose stream_write the reader thread of an end is in
  user,     \* the host that opened a connection
  proc,     \* the connection of the program that runs on a client
  main,     \* the command its main thread waits for
  next,     \* the next command number of a connection
  owner,    \* the host that made a resource
  put,      \* a client's .put directory
  todo,     \* what filec still has to send in this pass over .put
  acked,    \* resources whose upload was thanked for
  misses,
  aborted   \* an assertion failed

disk   == <<file, put, owner>>
memory == <<stream, tx, pend>>
client == <<proc, main, next, todo>>
vars   == <<disk, memory, client, ends, net, user, acked, misses, aborted>>

Content  == [i \in 1 .. Size |-> i]
NoFile   == <<0>>
NoTx     == [kind |-> "none", key |-> NoOne, status |-> 0, end |-> 0, frags |-> <<>>,
             got |-> <<>>, attached |-> FALSE, whole |-> FALSE]
NoStream == [count |-> 0, res |-> NoOne, writer |-> FALSE, readers |-> {}, wait |-> {},
             linked |-> TRUE]
NoCmd    == [id |-> 0, kw |-> "none", key |-> NoOne]
NoPend   == [id |-> 0, off |-> 0, len |-> 0, eof |-> FALSE, wait |-> {}]

Other(e) == <<IF e[1] = "client" THEN "server" ELSE "client", e[2]>>
Host(e)  == IF e[1] = "server" THEN Server ELSE user[e[2]]

-----------------------------------------------------------------------------
(* Streams.                                                                *)

stream_ref(s) == [s EXCEPT !.count = @ + 1]

(* Mutant: the reference is dropped twice.                                 *)
stream_unref_Twice(s) == IF s.count <= 2 THEN NoStream ELSE [s EXCEPT !.count = @ - 2]

stream_unref(s) == IF s.count <= 1 THEN NoStream ELSE [s EXCEPT !.count = @ - 1]

stream_new(r) == [NoStream EXCEPT !.count = 1, !.res = r]

stream_lookup(h, r) ==
  IF stream[h][r].count > 0 THEN stream_ref(stream[h][r]) ELSE stream_new(r)

(* Mutant: an existing file is truncated.                                  *)
Opened_Truncates(h, r) == IF stream[h][r].count = 0 THEN <<>> ELSE file[h][r]

(* stream_new opens the file and creates it if there is none.              *)
Opened(h, r) ==
  IF stream[h][r].count = 0 /\ file[h][r] = NoFile THEN <<>> ELSE file[h][r]

stream_add_writer(s)       == stream_ref([s EXCEPT !.writer = TRUE])
stream_remove_writer(s)    == stream_unref([s EXCEPT !.writer = FALSE])
stream_add_reader(s, t)    == stream_ref([s EXCEPT !.readers = @ \cup {t}])
stream_remove_reader(s, t) == stream_unref([s EXCEPT !.readers = @ \ {t}])

(* Mutant: the offset is forgotten.                                        *)
Written_AtStart(f, off, data, eof) ==
  [i \in 1 .. (IF Len(data) > Len(f) THEN Len(data) ELSE Len(f)) |->
     IF i <= Len(data) THEN data[i] ELSE f[i]]

(* WriteTo at an offset, then ftruncate if this is the end.                *)
Written(f, off, data, eof) ==
  LET end == off + Len(data)
      len == IF eof \/ end > Len(f) THEN end ELSE Len(f)
  IN  [i \in 1 .. len |-> IF i \in off + 1 .. end THEN data[i - off]
                          ELSE IF i <= Len(f) THEN f[i] ELSE 0]

-----------------------------------------------------------------------------
(* Messages.                                                               *)

Deliver(n, e, msgs) == IF ends[e] = "closed" THEN n ELSE [n EXCEPT ![e] = @ \o msgs]

(* send_all_chunks: the fragment at offset off, one COPY per chunk.        *)
send_all_chunks(id, off, data, eof) ==
  IF data = <<>> THEN << [t |-> "copy", id |-> id, off |-> off, data |-> <<>>, eof |-> eof] >>
  ELSE [i \in 1 .. Len(data) |->
          [t |-> "copy", id |-> id, off |-> off + i - 1, data |-> <<data[i]>>,
           eof |-> eof /\ i = Len(data)]]

(* chn_tx_write(tx, ...) on the transfers ts, ended by eof or not.         *)
Sent(ts, data, eof) ==
  [e \in Ends |->
     IF ends[Other(e)] # "none" /\ ends[e] # "closed" /\ \E t \in ts : t[1] = Other(e)
     THEN net[e] \o FlattenSeq(SetToSeq({ send_all_chunks(t[2], tx[t[1]][t[2]].end, data, eof) :
                                            t \in {u \in ts : u[1] = Other(e)} }))
     ELSE net[e]]

(* Mutant: end_offset stays.                                               *)
Advanced_Stays(ts, n) == tx

(* out_frag_ctor: the offset of the next fragment.                         *)
Advanced(ts, n) ==
  [e \in Ends |-> [i \in Ids |-> IF <<e, i>> \in ts THEN [tx[e][i] EXCEPT !.end = @ + n]
                                                    ELSE tx[e][i]]]

(* The loop of chn_tx_write after eof: until the transfer or its           *)
(* connection is over.                                                     *)
Over(t) == tx[t[1]][t[2]].status # 0 \/ ends[t[1]] # "open"

Head_(e)    == Head(net[e])
Reading(e, kind) ==
  /\ ends[e] = "open" /\ pend[e] = NoPend /\ net[e] # <<>>
  /\ Head_(e).t = kind
Consumed(e) == [net EXCEPT ![e] = Tail(@)]

-----------------------------------------------------------------------------
(* Fragments.                                                              *)

insert_by_offset(q, f) ==
  LET after == {i \in DOMAIN q : f.start < q[i].start}
  IN  IF after = {} THEN Append(q, f)
      ELSE InsertAt(q, CHOOSE i \in after : \A k \in after : i <= k, f)

(* check_in_frags: two fragments become one unless there is a gap between  *)
(* them and the second one came long ago.                                  *)
check_in_frags(q, late) ==
  LET merge(out, f) ==
        LET last == out[Len(out)]
            lastEnd == IF out = <<>> THEN 0 ELSE last.end
        IN  IF (f.start > lastEnd /\ late) \/ out = <<>> THEN Append(out, f)
            ELSE IF f.end >= last.end
                 THEN [out EXCEPT ![Len(out)] = [@ EXCEPT !.end = f.end, !.eof = f.eof]]
                 ELSE out
  IN  FoldLeft(merge, <<>>, q)

(* serve_copy: is the transfer over?                                       *)
Complete(q) == Len(q) = 1 /\ q[1].eof /\ q[1].start = 0

Missing(q) == ~ (Len(q) = 1 /\ q[1].eof)

-----------------------------------------------------------------------------
Init ==
  /\ \E old \in SUBSET Stored :
       /\ file = [h \in Hosts |-> [r \in Resources |-> IF h = Server /\ r \in old THEN Content ELSE NoFile]]
       /\ owner = [r \in Resources |-> IF r \in old THEN Server ELSE NoOne]
  /\ stream = [h \in Hosts |-> [k \in Keys |-> NoStream]]
  /\ tx = [e \in Ends |-> [i \in Ids |-> NoTx]]
  /\ ends = [e \in Ends |-> "none"]
  /\ net = [e \in Ends |-> <<>>]
  /\ pend = [e \in Ends |-> NoPend]
  /\ user = [x \in Cnxs |-> NoOne]
  /\ proc = [c \in Clients |-> NoOne]
  /\ main = [c \in Clients |-> NoCmd]
  /\ next = [x \in Cnxs |-> 1]
  /\ put = [c \in Clients |-> {}]
  /\ todo = [c \in Clients |-> {}]
  /\ acked = {} /\ misses = 0 /\ aborted = FALSE

-----------------------------------------------------------------------------
(* A program starts, connects and logs in (Cnx has the details), and ends: *)
(* because it is done, because filec does not wait for its transfers, or   *)
(* because it was killed.                                                  *)

Connect(c, x) ==
  /\ proc[c] = NoOne
  /\ user[x] = NoOne /\ \A y \in 1 .. x - 1 : user[y] # NoOne
  /\ user' = [user EXCEPT ![x] = c]
  /\ proc' = [proc EXCEPT ![c] = x]
  /\ ends' = [ends EXCEPT ![<<"client", x>>] = "connecting", ![<<"server", x>>] = "open"]
  /\ UNCHANGED <<disk, memory, main, next, todo, net, acked, misses, aborted>>

Login(c) ==
  /\ proc[c] # NoOne
  /\ ends[<<"client", proc[c]>>] = "connecting" /\ ends[<<"server", proc[c]>>] = "open"
  /\ ends' = [ends EXCEPT ![<<"client", proc[c]>>] = "open"]
  /\ UNCHANGED <<disk, memory, client, net, user, acked, misses, aborted>>

Leave(c) ==
  LET e == <<"client", proc[c]>>
  IN  /\ proc[c] # NoOne
      /\ proc' = [proc EXCEPT ![c] = NoOne]
      /\ main' = [main EXCEPT ![c] = NoCmd]
      /\ todo' = [todo EXCEPT ![c] = {}]
      /\ ends' = [ends EXCEPT ![e] = "closed"]
      /\ net' = [net EXCEPT ![e] = <<>>]
      /\ tx' = [tx EXCEPT ![e] = [i \in Ids |-> NoTx]]
      /\ pend' = [pend EXCEPT ![e] = NoPend]
      /\ stream' = [stream EXCEPT ![c] = [k \in Keys |-> NoStream]]
      /\ UNCHANGED <<disk, next, user, acked, misses, aborted>>

(* reader_thread: the peer has closed the connection.                      *)
SeeEnd(e) ==
  /\ ends[e] = "open" /\ net[e] = <<>> /\ pend[e] = NoPend
  /\ ends[Other(e)] = "closed"
  /\ ends' = [ends EXCEPT ![e] = "ended"]
  /\ UNCHANGED <<disk, memory, client, net, user, acked, misses, aborted>>

(* filed ends, and is started again.                                       *)
Restarted ==
  /\ stream' = [stream EXCEPT ![Server] = [k \in Keys |-> NoStream]]
  /\ tx' = [e \in Ends |-> IF e[1] = "server" THEN [i \in Ids |-> NoTx] ELSE tx[e]]
  /\ pend' = [e \in Ends |-> IF e[1] = "server" THEN NoPend ELSE pend[e]]
  /\ ends' = [e \in Ends |-> IF e[1] = "server" /\ ends[e] # "none" THEN "closed" ELSE ends[e]]
  /\ net' = [e \in Ends |-> IF e[1] = "server" THEN <<>> ELSE net[e]]
  /\ UNCHANGED <<disk, client, user, acked, misses, aborted>>

(* Nothing handles SIGPIPE: writing to a connection that the client has    *)
(* closed ends filed.                                                      *)
ServerDies ==
  /\ \E x \in Cnxs :
       /\ ends[<<"client", x>>] = "closed"
       /\ ends[<<"server", x>>] \in {"open", "ended"}
       /\ \/ net[<<"server", x>>] # <<>>
          \/ \E r \in Resources, i \in Ids : << <<"server", x>>, i >> \in stream[Server][r].readers
  /\ Restarted

-----------------------------------------------------------------------------
(* Commands of the main thread of a client.                                *)

Idle(c) == proc[c] # NoOne /\ main[c] = NoCmd

(* command_new: the query goes out and the main thread waits.              *)
command_new(c, kw, r, key) ==
  LET x == proc[c]
  IN  /\ ends[<<"client", x>>] \in {"open", "ended"}
      /\ next[x] \in Ids
      /\ main' = [main EXCEPT ![c] = [id |-> next[x], kw |-> kw, key |-> key]]
      /\ net' = Deliver(net, <<"server", x>>, << [t |-> kw, id |-> next[x], res |-> r] >>)
      /\ next' = [next EXCEPT ![x] = @ + 1]

(* Nobody writes r, and nobody reads it if it is to be written: any number *)
(* of clients may read it together.                                        *)
Quiet(r, kw) ==
  \/ Overlapping
  \/ LET against == IF kw = "write" THEN {"read", "write"} ELSE {"write"}
     IN  /\ ~ stream[Server][r].writer /\ (kw = "write" => stream[Server][r].readers = {})
         /\ \A c \in Clients : main[c].kw \in against => stream[c][main[c].key].res # r
         /\ \A x \in Cnxs : \A i \in DOMAIN net[<<"server", x>>] :
              net[<<"server", x>>][i].t \in against => net[<<"server", x>>][i].res # r

(* chn_send_file, once it is connected or before that.                     *)
chn_send_file(c, r) ==
  LET x == proc[c]
  IN  \/ /\ Quiet(r, "write")
         /\ command_new(c, "write", r, next[x])
         /\ stream' = [stream EXCEPT ![c][next[x]] = stream_new(r)]
      \/ /\ ends[<<"client", x>>] = "connecting"
         /\ next[x] \in Ids
         /\ stream' = [stream EXCEPT ![c][next[x]] = stream_ref(stream_new(r))]
         /\ next' = [next EXCEPT ![x] = @ + 1]
         /\ UNCHANGED <<main, net>>

(* chn_send_file_request: the file is copied to the cache under a new name *)
(* and sent, or left for filec when there is no connection.                *)
chn_send_file_request(c, r) ==
  /\ owner[r] = NoOne
  /\ owner' = [owner EXCEPT ![r] = c]
  /\ file' = [file EXCEPT ![c][r] = Content]
  /\ \/ /\ proc[c] = NoOne
        /\ put' = [put EXCEPT ![c] = @ \cup {r}]
        /\ UNCHANGED <<stream, main, next, net>>
     \/ /\ Idle(c)
        /\ chn_send_file(c, r)
        /\ UNCHANGED put
  /\ UNCHANGED <<tx, pend, proc, todo, ends, user, acked, misses, aborted>>

(* chn_send_all: a pass over the .put directory.  The links stay there.    *)
StartPass(c) ==
  /\ Idle(c) /\ todo[c] = {} /\ put[c] # {}
  /\ todo' = [todo EXCEPT ![c] = put[c]]
  /\ UNCHANGED <<disk, memory, proc, main, next, ends, net, user, acked, misses, aborted>>

SendNext(c, r) ==
  /\ Idle(c) /\ r \in todo[c]
  /\ chn_send_file(c, r)
  /\ todo' = [todo EXCEPT ![c] = IF main'[c] = NoCmd THEN {} ELSE @ \ {r}]
  /\ UNCHANGED <<disk, tx, pend, proc, ends, user, acked, misses, aborted>>

(* chn_get_file.  What has a file under its name is said to be local.  The *)
(* callers wait for the transfer to end before they ask for the same       *)
(* resource again.                                                         *)
Local(c, r) == file[c][r] # NoFile /\ ~ stream[c][r].writer

Fetch(c, r) ==
  /\ Idle(c) /\ owner[r] # NoOne
  /\ ~ Local(c, r) /\ ~ stream[c][r].writer
  /\ \/ /\ Quiet(r, "read")
        /\ command_new(c, "read", r, r)
        /\ stream' = [stream EXCEPT ![c][r] = stream_ref(stream_lookup(c, r))]
        /\ file' = [file EXCEPT ![c][r] = Opened(c, r)]
     \/ /\ ends[<<"client", proc[c]>>] = "connecting"   \* the stream of a failed command stays
        /\ stream[c][r].count = 0
        /\ stream' = [stream EXCEPT ![c][r] = [stream_lookup(c, r) EXCEPT !.linked = FALSE]]
        /\ UNCHANGED <<file, main, next, net>>
  /\ UNCHANGED <<put, owner, tx, pend, proc, todo, ends, user, acked, misses, aborted>>

-----------------------------------------------------------------------------
(* The server serves read and write (serve_read_write).  The reference of  *)
(* stream_lookup is not given back.                                        *)

Reply(e, kind, id, status) ==
  Deliver(Consumed(e), Other(e), << [t |-> kind, id |-> id, status |-> status] >>)

serve_write(e) ==
  /\ Reading(e, "write")
  /\ LET r == Head_(e).res
         id == Head_(e).id
         s == stream_lookup(Server, r)
     IN  /\ file' = [file EXCEPT ![Server][r] = Opened(Server, r)]
         /\ IF s.writer
            THEN /\ stream' = [stream EXCEPT ![Server][r] = s]
                 /\ net' = Reply(e, "start", id, 500)
                 /\ UNCHANGED tx
            ELSE /\ stream' = [stream EXCEPT ![Server][r] = stream_add_writer(s)]
                 /\ tx' = [tx EXCEPT ![e][id] = [NoTx EXCEPT !.kind = "receiver", !.key = r,
                                                             !.attached = TRUE]]
                 /\ net' = Reply(e, "start", id, 200)
  /\ UNCHANGED <<put, owner, pend, client, ends, user, acked, misses, aborted>>

serve_read(e) ==
  /\ Reading(e, "read")
  /\ LET r == Head_(e).res
         id == Head_(e).id
     IN  /\ file' = [file EXCEPT ![Server][r] = Opened(Server, r)]
         /\ stream' = [stream EXCEPT ![Server][r] =
                         stream_add_reader(stream_lookup(Server, r), <<e, id>>)]
         /\ tx' = [tx EXCEPT ![e][id] = [NoTx EXCEPT !.kind = "sender", !.key = r, !.attached = TRUE,
                                                     !.whole = file[Server][r] = Content]]
         /\ net' = Reply(e, "start", id, 200)
  /\ UNCHANGED <<put, owner, pend, client, ends, user, acked, misses, aborted>>

(* finalize_txstart, and what the main thread does once it is woken up:    *)
(* command_del, then stream_unref and unlink in chn_get_file.              *)
finalize_txstart(e) ==
  /\ Reading(e, "start")
  /\ LET c == Host(e)
         id == Head_(e).id
         key == main[c].key
         s == stream[c][key]
         sender == main[c].kw = "write"
     IN  /\ main[c].id = id
         /\ main' = [main EXCEPT ![c] = NoCmd]
         /\ \/ /\ Head_(e).status = 200
               /\ tx' = [tx EXCEPT ![e][id] =
                           [NoTx EXCEPT !.kind = IF sender THEN "sender" ELSE "receiver",
                                        !.key = key, !.attached = TRUE, !.whole = sender]]
               /\ stream' = [stream EXCEPT ![c][key] =
                               IF sender THEN stream_unref(stream_add_reader(s, <<e, id>>))
                               ELSE stream_unref(stream_unref(stream_add_writer(s)))]
               /\ UNCHANGED <<file, todo>>
            \/ /\ Head_(e).status # 200
               /\ stream' = [stream EXCEPT ![c][key] =
                               IF sender THEN stream_unref(s) ELSE stream_unref(stream_unref(s))]
               /\ file' = IF sender THEN file ELSE [file EXCEPT ![c][key] = NoFile]
               /\ todo' = [todo EXCEPT ![c] = {}]
               /\ UNCHANGED tx
  /\ net' = Consumed(e)
  /\ UNCHANGED <<put, owner, pend, proc, next, ends, user, acked, misses, aborted>>

-----------------------------------------------------------------------------
(* The transfer.                                                           *)

(* stream_push: one block of the file for one of the readers.              *)
stream_push(h, k, t) ==
  LET s == stream[h][k]
      f == file[h][s.res]
      from == tx[t[1]][t[2]].end
      eof == from + Block >= Len(f)
      data == SubSeq(f, from + 1, IF eof THEN Len(f) ELSE from + Block)
  IN  /\ t \in s.readers /\ s.wait = {} /\ from <= Len(f)
      /\ net' = Sent({t}, data, eof)
      /\ tx' = Advanced({t}, Len(data))
      /\ stream' = [stream EXCEPT ![h][k].wait = IF eof THEN {t} ELSE {}]
      /\ UNCHANGED <<disk, pend, client, ends, user, acked, misses, aborted>>

PushResumes(h, k) ==
  /\ stream[h][k].wait # {}
  /\ \A t \in stream[h][k].wait : Over(t)
  /\ stream' = [stream EXCEPT ![h][k].wait = {}]
  /\ UNCHANGED <<disk, tx, pend, client, ends, net, user, acked, misses, aborted>>

(* chn_tx_set_status asserts that there is no status yet, and lets go of   *)
(* the stream.                                                             *)
chn_tx_set_status(e, id, status) ==
  LET t == tx[e][id]
      s == stream[Host(e)][t.key]
  IN  IF t.status # 0
      THEN aborted' = TRUE /\ UNCHANGED <<tx, stream>>
      ELSE /\ tx' = [tx EXCEPT ![e][id].status = status, ![e][id].attached = FALSE]
           /\ stream' = [stream EXCEPT ![Host(e)][t.key] =
                           IF t.kind = "sender" THEN stream_remove_reader(s, <<e, id>>)
                                                ELSE stream_remove_writer(s)]
           /\ UNCHANGED aborted

(* serve_copy: stream_write goes to the file and to the readers, and waits *)
(* for them at the end.                                                    *)
serve_copy(e) ==
  /\ Reading(e, "copy") /\ tx[e][Head_(e).id].status # 501
  /\ LET m == Head_(e)
         h == Host(e)
         k == tx[e][m.id].key
         s == stream[h][k]
     IN  IF ~ tx[e][m.id].attached
         THEN /\ aborted' = TRUE
              /\ net' = Consumed(e)
              /\ UNCHANGED <<file, tx, pend>>
         ELSE /\ file' = IF s.linked
                         THEN [file EXCEPT ![h][s.res] = Written(@, m.off, m.data, m.eof)]
                         ELSE file
              /\ net' = [Sent(s.readers, m.data, m.eof) EXCEPT ![e] = Tail(@)]
              /\ tx' = [Advanced(s.readers, Len(m.data)) EXCEPT
                          ![e][m.id].got = Written(@, m.off, m.data, m.eof)]
              /\ pend' = [pend EXCEPT ![e] = [id |-> m.id, off |-> m.off, len |-> Len(m.data),
                                              eof |-> m.eof,
                                              wait |-> IF m.eof THEN s.readers ELSE {}]]
              /\ UNCHANGED aborted
  /\ UNCHANGED <<put, owner, stream, client, ends, user, acked, misses>>

(* WriteTo or ftruncate fails.  The transfer gets a status and lets go of  *)
(* its stream, but stays in the list of its connection; a COPY has no      *)
(* number, so that the sender gets no answer.                              *)
CopyFails(e) ==
  /\ DiskFails
  /\ Reading(e, "copy") /\ tx[e][Head_(e).id].attached
  /\ LET m == Head_(e)
         s == stream[Host(e)][tx[e][m.id].key]
     IN  /\ \/ UNCHANGED file
            \/ s.linked /\ file' = [file EXCEPT ![Host(e)][s.res] = Written(@, m.off, m.data, FALSE)]
         /\ chn_tx_set_status(e, m.id, 501)
  /\ net' = Consumed(e)
  /\ UNCHANGED <<put, owner, pend, client, ends, user, acked, misses>>

(* The next COPY of that transfer is for a NULL stream, which ends the     *)
(* program that receives it.                                               *)
CopyCrashes(e) ==
  /\ Reading(e, "copy") /\ tx[e][Head_(e).id].status = 501
  /\ \/ e[1] = "server" /\ Restarted
     \/ e[1] = "client" /\ Leave(Host(e))

(* Mutant: thanks are sent again.                                          *)
Thanks_Again(id) == << [t |-> "thx", id |-> id], [t |-> "thx", id |-> id] >>

Thanks(id) == << [t |-> "thx", id |-> id] >>

RegisterFragment(e) ==
  LET p == pend[e]
      q == insert_by_offset(tx[e][p.id].frags,
                            [start |-> p.off, end |-> p.off + p.len, eof |-> p.eof])
  IN  /\ p # NoPend /\ \A t \in p.wait : Over(t)
      /\ pend' = [pend EXCEPT ![e] = NoPend]
      /\ tx' = [tx EXCEPT ![e][p.id].frags = check_in_frags(q, FALSE)]
      /\ net' = IF Complete(check_in_frags(q, FALSE))
                THEN Deliver(net, Other(e), Thanks(p.id)) ELSE net
      /\ UNCHANGED <<disk, stream, client, ends, user, acked, misses, aborted>>

serve_thx(e) ==
  /\ Reading(e, "thx")
  /\ chn_tx_set_status(e, Head_(e).id, 200)
  /\ net' = Reply(e, "thxAnswer", Head_(e).id, 200)
  /\ acked' = IF e[1] = "client" THEN acked \cup {stream[Host(e)][tx[e][Head_(e).id].key].res}
              ELSE acked
  /\ UNCHANGED <<disk, pend, client, ends, user, misses>>

finalize_thx(e) ==
  /\ Reading(e, "thxAnswer")
  /\ chn_tx_set_status(e, Head_(e).id, 200)
  /\ net' = Consumed(e)
  /\ UNCHANGED <<disk, pend, client, ends, user, acked, misses>>

(* tx_checker asks for what is missing; serve_miss does nothing.           *)
tx_checker(e, id) ==
  /\ misses < MaxMisses
  /\ ends[e] = "open" /\ tx[e][id].kind = "receiver" /\ Missing(tx[e][id].frags)
  /\ misses' = misses + 1
  /\ tx' = [tx EXCEPT ![e][id].frags = check_in_frags(@, TRUE)]
  /\ net' = Deliver(net, Other(e), << [t |-> "miss", id |-> id] >>)
  /\ UNCHANGED <<disk, stream, pend, client, ends, user, acked, aborted>>

serve_miss(e) ==
  /\ Reading(e, "miss")
  /\ net' = Consumed(e)
  /\ UNCHANGED <<disk, memory, client, ends, user, acked, misses, aborted>>

-----------------------------------------------------------------------------
ReaderThread(e) ==
  \/ serve_write(e) \/ serve_read(e) \/ finalize_txstart(e)
  \/ serve_copy(e) \/ CopyCrashes(e) \/ RegisterFragment(e) \/ serve_thx(e) \/ finalize_thx(e) \/ serve_miss(e)
  \/ SeeEnd(e)

Next ==
  \/ \E c \in Clients :
       \/ \E x \in Cnxs : Connect(c, x)
       \/ Login(c) \/ Leave(c) \/ StartPass(c)
       \/ \E r \in Resources :
            chn_send_file_request(c, r) \/ SendNext(c, r) \/ Fetch(c, r)
  \/ ServerDies
  \/ \E e \in Ends : ReaderThread(e) \/ CopyFails(e) \/ \E i \in Ids : tx_checker(e, i)
  \/ \E h \in Hosts, k \in Keys :
       PushResumes(h, k) \/ \E t \in Ends \X Ids : stream_push(h, k, t)

Spec == Init /\ [][Next]_vars

(* Every thread runs; stream_push serves its readers in turn, and each is  *)
(* a reader of one stream.                                                 *)
Fairness ==
  /\ \A e \in Ends : WF_vars(ReaderThread(e))
  /\ \A h \in Hosts, k \in Keys : WF_vars(PushResumes(h, k))
  /\ \A t \in Ends \X Ids : SF_vars(\E h \in Hosts, k \in Keys : stream_push(h, k, t))

FairSpec == Spec /\ Fairness

-----------------------------------------------------------------------------
(* A transfer that still has its stream finds it open and is one of its    *)
(* readers or its only writer, and its reference is counted: stream_dtor   *)
(* never takes a stream away from under a transfer, whatever order the     *)
(* answers, thanks and failed commands come in.                            *)
StreamHeld ==
  \A h \in Hosts, k \in Keys :
    LET mine == {t \in Ends \X Ids : /\ tx[t[1]][t[2]].attached /\ tx[t[1]][t[2]].key = k
                                     /\ Host(t[1]) = h}
        writers == {t \in mine : tx[t[1]][t[2]].kind = "receiver"}
    IN  /\ stream[h][k].count >= Cardinality(mine)
        /\ stream[h][k].readers = mine \ writers
        /\ Cardinality(writers) = (IF stream[h][k].writer THEN 1 ELSE 0)

(* The receiver thanks for a file that was whole when the transfer started *)
(* only after it has written every chunk, in its place, and a transfer     *)
(* ends once: no thank, status or fragment comes for one that is over,     *)
(* which the assertions of channel.c rule out, but for the COPY commands   *)
(* that follow one whose write failed.                                     *)
ThanksForAll ==
  /\ ~ aborted
  /\ \A e \in Ends, i \in Ids :
       tx[e][i].kind = "receiver" /\ Complete(tx[e][i].frags) /\ tx[Other(e)][i].whole
         => tx[e][i].got = Content

(* Once an upload was thanked for, the server has the whole file for good: *)
(* sending it again (chn_send_all does, at each pass), a failed transfer   *)
(* or a restart of filed does not damage it.                               *)
AckedIsKept == \A r \in acked : file[Server][r] = Content

(* A started transfer ends, or its connection does, also when several      *)
(* clients read one stream and stream_push waits for each of them at the   *)
(* end of the file (the FIXME of channel.h:165).  What stops it is a       *)
(* receiver whose disk fails at the last COPY: its sender waits for ever,  *)
(* and every other reader of that stream with it.                          *)
TransfersEnd ==
  \A e \in Ends, i \in Ids :
    tx[e][i].kind # "none" /\ tx[e][i].status = 0
      ~> \/ tx[e][i].status # 0 \/ ends[e] # "open" \/ ends[Other(e)] # "open"
         \/ \E f \in Ends, j \in Ids : tx[f][j].status = 501
=============================================================================
