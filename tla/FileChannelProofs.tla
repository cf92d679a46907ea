-------------------------- MODULE FileChannelProofs -------------------------
(***************************************************************************)
(* A theorem about module FileChannel: a transfer never loses its stream,  *)
(* for every number of clients, connections, resources and commands, every *)
(* size of files and of blocks, and wherever a connection is lost.         *)
(***************************************************************************)
EXTENDS FileChannel, NaturalsInduction, FiniteSetTheorems, WellFoundedInduction, TLAPS

-----------------------------------------------------------------------------
(* Types.                                                                  *)

Parties == Ends \X Ids
Frags   == [start : Nat, end : Nat, eof : BOOLEAN]
Streams == [count : Nat, res : Resources \cup {NoOne}, writer : BOOLEAN, readers : SUBSET Parties,
            wait : SUBSET Parties, linked : BOOLEAN]
Txs     == [kind : {"none", "sender", "receiver"}, key : Keys \cup {NoOne}, status : {0, 200, 501}, end : Nat,
            frags : Seq(Frags), got : Seq(Nat), attached : BOOLEAN, whole : BOOLEAN]
Cmds    == [id : {0} \cup Ids, kw : {"none", "read", "write"}, key : Keys \cup {NoOne}]
Pends   == {NoPend} \cup [id : Ids, off : Nat, len : Nat, eof : BOOLEAN, wait : SUBSET Parties]

Copies  == [t : {"copy"}, id : Ids, off : Nat, data : Seq(Nat), eof : BOOLEAN]
Queries == [t : {"read", "write"}, id : Ids, res : Resources]
Answers == [t : {"start", "thxAnswer"}, id : Ids, status : {200, 500}]
Notes   == [t : {"thx", "miss"}, id : Ids]
Msgs    == Copies \cup Queries \cup Answers \cup Notes

MemoryTypes ==
  /\ stream \in [Hosts -> [Keys -> Streams]]
  /\ tx \in [Ends -> [Ids -> Txs]]
  /\ pend \in [Ends -> Pends]

ChannelTypes ==
  /\ MemoryTypes
  /\ file \in [Hosts -> [Resources -> Seq(Nat)]]
  /\ ends \in [Ends -> {"none", "connecting", "open", "ended", "closed"}]
  /\ net \in [Ends -> Seq(Msgs)]
  /\ user \in [Cnxs -> Clients \cup {NoOne}]
  /\ proc \in [Clients -> Cnxs \cup {NoOne}]
  /\ main \in [Clients -> Cmds]
  /\ next \in [Cnxs -> Nat]
  /\ put \in [Clients -> SUBSET Resources] /\ todo \in [Clients -> SUBSET Resources]
  /\ owner \in [Resources -> Hosts \cup {NoOne}]

-----------------------------------------------------------------------------
(* The invariant about streams.                                            *)

ClientEnd(x) == <<"client", x>>
ServerEnd(x) == <<"server", x>>

(* A connection is used once; a client runs one program with one           *)
(* connection.                                                             *)
CnxsUsed ==
  /\ \A x \in Cnxs :
       /\ user[x] = NoOne <=> ends[ClientEnd(x)] = "none"
       /\ user[x] = NoOne <=> ends[ServerEnd(x)] = "none"
       /\ ends[ServerEnd(x)] # "connecting"
       /\ ends[ClientEnd(x)] \in {"connecting", "open", "ended"} => proc[user[x]] = x
  /\ \A c \in Clients : proc[c] # NoOne =>
       user[proc[c]] = c /\ ends[ClientEnd(proc[c])] \in {"connecting", "open", "ended"}
  /\ \A e \in Ends : ends[e] \in {"none", "connecting", "closed"} =>
       pend[e] = NoPend /\ \A i \in Ids : tx[e][i] = NoTx
  /\ \A e \in Ends : ends[e] \in {"none", "closed"} => net[e] = <<>>

(* The command that a main thread waits for.                               *)
MainWaits ==
  \A c \in Clients :
    IF main[c].id = 0 THEN main[c] = NoCmd
    ELSE /\ proc[c] # NoOne /\ main[c].id < next[proc[c]]
         /\ tx[ClientEnd(proc[c])][main[c].id].kind = "none"
         /\ \/ main[c].kw = "write" /\ main[c].key = main[c].id
            \/ main[c].kw = "read" /\ main[c].key \in Resources /\ ~ stream[c][main[c].key].writer

(* A transfer has its stream until it has a status.                        *)
TxsNamed ==
  \A e \in Ends : \A i \in Ids :
    /\ tx[e][i].attached <=> tx[e][i].kind # "none" /\ tx[e][i].status = 0
    /\ tx[e][i].kind = "none" => tx[e][i].key = NoOne
    /\ tx[e][i].kind # "none" =>
         /\ i < next[e[2]]
         /\ tx[e][i].key \in IF e[1] = "client" /\ tx[e][i].kind = "sender" THEN {i} ELSE Resources

(* Queries go to the server, each for a transfer that does not exist yet,  *)
(* and answers to the client.                                              *)
QueriesOk(q, e, n, t) ==
  \A p \in 1 .. Len(q) :
    /\ q[p].t = "start" => e[1] = "client"
    /\ q[p].t \in {"read", "write"} =>
         /\ e[1] = "server" /\ q[p].id < n /\ t[q[p].id].kind = "none"
         /\ \A r \in 1 .. Len(q) : q[r].t \in {"read", "write"} /\ q[r].id = q[p].id => r = p

QueriesNew == \A e \in Ends : QueriesOk(net[e], e, next[e[2]], tx[e])

(* The transfers of a stream and the references of a command under way.    *)
Mine(h, k)    == {t \in Parties : tx[t[1]][t[2]].attached /\ tx[t[1]][t[2]].key = k /\ Host(t[1]) = h}
Writers(h, k) == {t \in Mine(h, k) : tx[t[1]][t[2]].kind = "receiver"}
Pending(h, k) ==
  IF h \in Clients /\ main[h].id # 0 /\ main[h].key = k THEN IF main[h].kw = "write" THEN 1 ELSE 2 ELSE 0

Counted(h, k) ==
  /\ stream[h][k].count >= Cardinality(Mine(h, k)) + Pending(h, k)
  /\ stream[h][k].count > 0 => stream[h][k].res \in Resources
  /\ stream[h][k].readers = Mine(h, k) \ Writers(h, k)
  /\ stream[h][k].writer <=> Writers(h, k) # {}
  /\ \A t, u \in Writers(h, k) : t = u

HeldInv ==
  /\ ChannelTypes /\ CnxsUsed /\ MainWaits /\ TxsNamed /\ QueriesNew
  /\ \A h \in Hosts : \A k \in Keys : Counted(h, k)

-----------------------------------------------------------------------------
(* Induction, stated with sets instead of predicates.                      *)

(* A set of numbers that is not empty has a least element.                 *)
LEMMA LeastNumber ==
  ASSUME NEW T, T \subseteq Nat, T # {} PROVE \E x \in T : \A y \in T : x <= y
<1>1. PICK x \in T : \A y \in T : <<y, x>> \notin OpToRel(<, Nat)
  BY NatLessThanWellFounded, WFMin
<1>2. \A y \in T : ~ (y < x)
  BY <1>1 DEF OpToRel
<1> QED
  BY <1>2

(* A set with 0 and the successor of each of its numbers has all numbers.  *)
LEMMA AllNumbers ==
  ASSUME NEW S, 0 \in S, \A n \in Nat : n \in S => n + 1 \in S PROVE \A n \in Nat : n \in S
<1> DEFINE T == {n \in Nat : n \notin S}
<1> SUFFICES ASSUME T # {} PROVE FALSE
  OBVIOUS
<1>1. PICK x \in T : \A y \in T : x <= y
  BY LeastNumber
<1>2. x # 0 /\ x \in Nat /\ x - 1 \in Nat
  OBVIOUS
<1>3. x - 1 \in S
  BY <1>1, <1>2
<1> QED
  BY <1>2, <1>3

-----------------------------------------------------------------------------
(* Flattening a list of lists, and the lists of Sent.                      *)

IsFlat(f, q, m) == f = [i \in 1 .. m |-> IF i = 1 THEN q[i] ELSE f[i - 1] \o q[i]]

(* The table of the lists up to each place exists.                         *)
LEMMA FlatLonger ==
  ASSUME NEW q, NEW m \in Nat, NEW f, IsFlat(f, q, m)
  PROVE  \E g : IsFlat(g, q, m + 1)
<1> DEFINE g == [i \in 1 .. m + 1 |-> IF i = m + 1 THEN (IF m = 0 THEN q[1] ELSE f[m] \o q[m + 1]) ELSE f[i]]
           r(i) == IF i = 1 THEN q[i] ELSE g[i - 1] \o q[i]
<1>1. \A i \in 1 .. m : g[i] = f[i]
  OBVIOUS
<1>2. g[m + 1] = IF m = 0 THEN q[1] ELSE f[m] \o q[m + 1]
  OBVIOUS
<1>3. g = [i \in 1 .. m + 1 |-> g[i]]
  OBVIOUS
<1>4. \A i \in 1 .. m : f[i] = IF i = 1 THEN q[i] ELSE f[i - 1] \o q[i]
  BY DEF IsFlat
<1> HIDE DEF g
<1>5. ASSUME NEW i \in 1 .. m + 1 PROVE g[i] = r(i)
  <2>1. CASE i = m + 1
    <3>1. m # 0 => m \in 1 .. m /\ i - 1 = m /\ i # 1
      BY <2>1
    <3>2. m = 0 => i = 1
      BY <2>1
    <3> QED
      BY <1>1, <1>2, <2>1, <3>1, <3>2
  <2>2. CASE i # m + 1
    <3>1. i \in 1 .. m /\ (i # 1 => i - 1 \in 1 .. m)
      BY <2>2
    <3> QED
      BY <1>1, <1>4, <3>1
  <2> QED
    BY <2>1, <2>2
<1>6. g = [i \in 1 .. m + 1 |-> r(i)]
  BY <1>3, <1>5, Zenon
<1> QED
  BY <1>6 DEF IsFlat

LEMMA FlatExists ==
  ASSUME NEW q, NEW m \in Nat PROVE \E f : IsFlat(f, q, m)
<1> DEFINE S == {k \in Nat : \E f : IsFlat(f, q, k)}
<1>1. 0 \in S
  <2>1. IsFlat([i \in 1 .. 0 |-> i], q, 0)
    BY DEF IsFlat
  <2> QED
    BY <2>1
<1>2. \A k \in Nat : k \in S => k + 1 \in S
  BY FlatLonger
<1> HIDE DEF S
<1>3. m \in S
  BY <1>1, <1>2, AllNumbers
<1> QED
  BY <1>3 DEF S

(* FlattenSeq is a list of elements of the lists.                          *)
LEMMA Flattened ==
  ASSUME NEW M, NEW q \in Seq(Seq(M))
  PROVE  FlattenSeq(q) \in Seq(M) /\ (Len(q) = 1 => FlattenSeq(q) = q[1])
<1> DEFINE f == CHOOSE f : IsFlat(f, q, Len(q))
<1>0. Len(q) \in Nat
  OBVIOUS
<1>1. IsFlat(f, q, Len(q))
  <2>1. \E g : IsFlat(g, q, Len(q))
    BY <1>0, FlatExists
  <2> QED
    BY <2>1
<1>2. FlattenSeq(q) = IF Len(q) = 0 THEN q ELSE f[Len(q)]
  BY DEF FlattenSeq, IsFlat
<1>3. \A i \in 1 .. Len(q) : f[i] = IF i = 1 THEN q[i] ELSE f[i - 1] \o q[i]
  BY <1>1 DEF IsFlat
<1> HIDE DEF f
<1> DEFINE S == {m \in Nat : m \in 1 .. Len(q) => f[m] \in Seq(M)}
<1>4. 0 \in S
  OBVIOUS
<1>5. ASSUME NEW m \in Nat, m \in S PROVE m + 1 \in S
  <2> SUFFICES ASSUME m + 1 \in 1 .. Len(q) PROVE f[m + 1] \in Seq(M)
    OBVIOUS
  <2>1. q[m + 1] \in Seq(M)
    OBVIOUS
  <2>2. CASE m = 0
    BY <1>3, <2>1, <2>2
  <2>3. CASE m # 0
    <3>1. m \in 1 .. Len(q) /\ m + 1 # 1 /\ (m + 1) - 1 = m
      BY <1>0, <2>3
    <3>2. f[m] \in Seq(M) /\ f[m + 1] = f[m] \o q[m + 1]
      BY <1>3, <1>5, <3>1
    <3> QED
      BY <2>1, <3>2
  <2> QED
    BY <2>2, <2>3
<1>6. \A m \in Nat : m \in S => m + 1 \in S
  BY <1>5
<1> HIDE DEF S
<1>7. Len(q) \in S
  BY <1>0, <1>4, <1>6, AllNumbers
<1>8. CASE Len(q) = 0
  <2>1. q = <<>>
    BY <1>8
  <2> QED
    BY <1>2, <1>8, <2>1
<1>9. CASE Len(q) # 0
  <2>1. Len(q) \in 1 .. Len(q)
    BY <1>0, <1>9
  <2> QED
    BY <1>2, <1>3, <1>7, <1>9, <2>1 DEF S
<1> QED
  BY <1>8, <1>9

(* SetToSeq lists the elements of a finite set.                            *)
LEMMA Listed ==
  ASSUME NEW S, IsFiniteSet(S)
  PROVE  SetToSeq(S) \in Seq(S) /\ Len(SetToSeq(S)) = Cardinality(S)
<1>1. Cardinality(S) \in Nat /\ ExistsBijection(1 .. Cardinality(S), S)
  BY FS_CardinalityType
<1>2. \E f \in [1 .. Cardinality(S) -> S] : IsInjective(f)
  BY <1>1 DEF ExistsBijection, Bijection, Injection
<1>3. SetToSeq(S) \in [1 .. Cardinality(S) -> S]
  BY <1>2 DEF SetToSeq
<1> QED
  BY <1>1, <1>3

LEMMA EndsFinite ==
  /\ IsFiniteSet(Parties)
  /\ \A e \in Ends : Other(e) \in Ends /\ Other(Other(e)) = e /\ Other(e)[2] = e[2] /\ Other(e) # e
<1>1. IsFiniteSet(Cnxs) /\ IsFiniteSet(Ids)
  BY FS_Interval, ChannelAssumption DEF Cnxs, Ids
<1>2. IsFiniteSet({"client", "server"})
  <2>1. IsFiniteSet({"client"}) /\ {"client", "server"} = {"client"} \cup {"server"}
    BY FS_Singleton
  <2> QED
    BY <2>1, FS_AddElement
<1>3. IsFiniteSet(Ends)
  BY <1>1, <1>2, FS_Product DEF Ends
<1> QED
  BY <1>1, <1>3, FS_Product DEF Parties, Ends, Other

LEMMA ChunksType ==
  ASSUME NEW id \in Ids, NEW off \in Nat, NEW data \in Seq(Nat), NEW eof \in BOOLEAN
  PROVE  send_all_chunks(id, off, data, eof) \in Seq(Copies)
<1>1. CASE data = <<>>
  <2> DEFINE m == [t |-> "copy", id |-> id, off |-> off, data |-> <<>>, eof |-> eof]
  <2>1. m \in Copies
    BY DEF Copies
  <2>2. send_all_chunks(id, off, data, eof) = <<m>>
    BY <1>1 DEF send_all_chunks
  <2> QED
    BY <2>1, <2>2
<1>2. CASE data # <<>>
  <2> DEFINE m(i) == [t |-> "copy", id |-> id, off |-> off + i - 1, data |-> <<data[i]>>,
                      eof |-> eof /\ i = Len(data)]
  <2>1. send_all_chunks(id, off, data, eof) = [i \in 1 .. Len(data) |-> m(i)]
    BY <1>2 DEF send_all_chunks
  <2>2. ASSUME NEW i \in 1 .. Len(data) PROVE m(i) \in Copies
    <3>1. off + i - 1 \in Nat /\ data[i] \in Nat /\ <<data[i]>> \in Seq(Nat)
      OBVIOUS
    <3>2. (eof /\ i = Len(data)) \in BOOLEAN
      OBVIOUS
    <3> QED
      BY <3>1, <3>2 DEF Copies
  <2> HIDE DEF m
  <2>3. Len(data) \in Nat
    OBVIOUS
  <2> QED
    BY <2>1, <2>2, <2>3
<1> QED
  BY <1>1, <1>2

LEMMA CopiesAreMsgs ==
  ASSUME NEW q \in Seq(Msgs), NEW s \in Seq(Copies)
  PROVE  /\ q \o s \in Seq(Msgs) /\ Len(q \o s) = Len(q) + Len(s)
         /\ \A p \in 1 .. Len(q \o s) :
              IF p <= Len(q) THEN p \in 1 .. Len(q) /\ (q \o s)[p] = q[p]
              ELSE p - Len(q) \in 1 .. Len(s) /\ (q \o s)[p] = s[p - Len(q)] /\ (q \o s)[p] \in Copies
<1>1. Copies \subseteq Msgs
  BY DEF Msgs
<1>2. s \in Seq(Msgs) /\ Len(s) \in Nat /\ Len(q) \in Nat
  BY <1>1
<1>3. q \o s \in Seq(Msgs) /\ Len(q \o s) = Len(q) + Len(s)
  BY <1>2
<1>4. \A p \in 1 .. Len(q) + Len(s) : (q \o s)[p] = IF p <= Len(q) THEN q[p] ELSE s[p - Len(q)]
  BY <1>2
<1>5. \A p \in 1 .. Len(q) + Len(s) : p <= Len(q) => p \in 1 .. Len(q)
  BY <1>2
<1>6. \A p \in 1 .. Len(q) + Len(s) : ~ (p <= Len(q)) => p - Len(q) \in 1 .. Len(s)
  BY <1>2
<1> QED
  BY <1>3, <1>4, <1>5, <1>6

(* chn_tx_write adds COPY commands behind what travels already.            *)
LEMMA SentCopies ==
  ASSUME ChannelTypes, NEW ts \in SUBSET Parties, NEW data \in Seq(Nat), NEW eof \in BOOLEAN
  PROVE  \E s \in [Ends -> Seq(Copies)] : Sent(ts, data, eof) = [e \in Ends |-> net[e] \o s[e]]
<1> DEFINE D(e) == {u \in ts : u[1] = Other(e)}
           f(e) == [t \in D(e) |-> send_all_chunks(t[2], tx[t[1]][t[2]].end, data, eof)]
           I(e) == {send_all_chunks(t[2], tx[t[1]][t[2]].end, data, eof) : t \in D(e)}
           C(e) == ends[Other(e)] # "none" /\ ends[e] # "closed" /\ \E t \in ts : t[1] = Other(e)
           s == [e \in Ends |-> IF C(e) THEN FlattenSeq(SetToSeq(I(e))) ELSE <<>>]
<1>1. ASSUME NEW e \in Ends PROVE FlattenSeq(SetToSeq(I(e))) \in Seq(Copies)
  <2>1. IsFiniteSet(D(e))
    <3>1. D(e) \in SUBSET Parties
      OBVIOUS
    <3> HIDE DEF D
    <3> QED
      BY <3>1, EndsFinite, FS_Subset
  <2>2. f(e) \in Surjection(D(e), I(e))
    BY DEF Surjection
  <2>3. IsFiniteSet(I(e))
    <3> HIDE DEF f, I, D
    <3> QED
      BY <2>1, <2>2, FS_Surjection
  <2>4. I(e) \subseteq Seq(Copies)
    <3>1. ASSUME NEW t \in D(e) PROVE send_all_chunks(t[2], tx[t[1]][t[2]].end, data, eof) \in Seq(Copies)
      <4>1. t[1] \in Ends /\ t[2] \in Ids
        BY DEF Parties
      <4>2. tx[t[1]][t[2]].end \in Nat
        BY <4>1 DEF ChannelTypes, MemoryTypes, Txs
      <4> QED
        BY <4>1, <4>2, ChunksType
    <3> QED
      BY <3>1
  <2> HIDE DEF I
  <2>5. SetToSeq(I(e)) \in Seq(I(e))
    BY <2>3, Listed
  <2>6. SetToSeq(I(e)) \in Seq(Seq(Copies))
    BY <2>4, <2>5
  <2> QED
    BY <2>6, Flattened
<1>2. s \in [Ends -> Seq(Copies)]
  <2>1. <<>> \in Seq(Copies)
    OBVIOUS
  <2> HIDE DEF C, I
  <2> QED
    BY <1>1, <2>1
<1>3. ASSUME NEW e \in Ends
      PROVE  Sent(ts, data, eof)[e] = net[e] \o s[e]
  <2>1. Sent(ts, data, eof)[e] = IF C(e) THEN net[e] \o FlattenSeq(SetToSeq(I(e))) ELSE net[e]
    BY DEF Sent
  <2>2. net[e] \in Seq(Msgs)
    BY DEF ChannelTypes
  <2>3. net[e] \o <<>> = net[e]
    BY <2>2
  <2>4. s[e] = IF C(e) THEN FlattenSeq(SetToSeq(I(e))) ELSE <<>>
    OBVIOUS
  <2> HIDE DEF s, C, I
  <2> QED
    BY <2>1, <2>3, <2>4
<1>4. Sent(ts, data, eof) = [e \in Ends |-> Sent(ts, data, eof)[e]]
  BY DEF Sent
<1> HIDE DEF s
<1>5. Sent(ts, data, eof) = [e \in Ends |-> net[e] \o s[e]]
  BY <1>3, <1>4, Zenon
<1> QED
  BY <1>2, <1>5

LEMMA WrittenType ==
  ASSUME NEW f \in Seq(Nat), NEW off \in Nat, NEW data \in Seq(Nat), NEW eof \in BOOLEAN
  PROVE  Written(f, off, data, eof) \in Seq(Nat)
<1> DEFINE end == off + Len(data)
           len == IF eof \/ end > Len(f) THEN end ELSE Len(f)
           w(i) == IF i \in off + 1 .. end THEN data[i - off] ELSE IF i <= Len(f) THEN f[i] ELSE 0
<1>1. Len(f) \in Nat /\ Len(data) \in Nat /\ end \in Nat /\ len \in Nat
  OBVIOUS
<1>2. Written(f, off, data, eof) = [i \in 1 .. len |-> w(i)]
  BY DEF Written
<1>3. ASSUME NEW i \in 1 .. len PROVE w(i) \in Nat
  <2>1. i \in off + 1 .. end => i - off \in 1 .. Len(data)
    BY <1>1
  <2>2. i <= Len(f) => i \in 1 .. Len(f)
    BY <1>1
  <2>3. i \in off + 1 .. end => data[i - off] \in Nat
    BY <2>1
  <2>4. i <= Len(f) => f[i] \in Nat
    BY <2>2
  <2> QED
    BY <2>3, <2>4
<1> HIDE DEF len, w
<1> QED
  BY <1>1, <1>2, <1>3

-----------------------------------------------------------------------------
(* check_in_frags folds over the fragments in the order of their offsets.  *)

Merged(late, out, f) ==
  LET last == out[Len(out)]
      lastEnd == IF out = <<>> THEN 0 ELSE last.end
  IN  IF (f.start > lastEnd /\ late) \/ out = <<>> THEN Append(out, f)
      ELSE IF f.end >= last.end
           THEN [out EXCEPT ![Len(out)] = [@ EXCEPT !.end = f.end, !.eof = f.eof]]
           ELSE out

(* A table that gives, for a set of places of q, what becomes of the       *)
(* fragments there.                                                        *)
IsMerge(it, q, late, m) ==
  it = [s \in SUBSET (1 .. m) |-> IF s = {} THEN <<>> ELSE Merged(late, it[s \ {Max(s)}], q[Max(s)])]

LEMMA LastOf ==
  ASSUME NEW m \in Nat, NEW s \in SUBSET (1 .. m + 1), m + 1 \in s PROVE Max(s) = m + 1
<1>1. \A x \in s : x \in Nat /\ x <= m + 1
  OBVIOUS
<1>2. \A x \in s : (\A y \in s : x >= y) <=> x = m + 1
  BY <1>1
<1>3. \E x \in s : \A y \in s : x >= y
  BY <1>2
<1>4. Max(s) \in s /\ \A y \in s : Max(s) >= y
  BY <1>3 DEF Max
<1> QED
  BY <1>2, <1>4

LEMMA MergeLonger ==
  ASSUME NEW q, NEW late, NEW m \in Nat, NEW it, IsMerge(it, q, late, m)
  PROVE  \E jt : IsMerge(jt, q, late, m + 1)
<1> DEFINE jt == [s \in SUBSET (1 .. m + 1) |->
                    IF m + 1 \in s THEN Merged(late, it[s \ {m + 1}], q[m + 1]) ELSE it[s]]
           R(s) == IF s = {} THEN <<>> ELSE Merged(late, jt[s \ {Max(s)}], q[Max(s)])
<1>1. \A s \in SUBSET (1 .. m) : s \in SUBSET (1 .. m + 1) /\ m + 1 \notin s
  OBVIOUS
<1>2. \A s \in SUBSET (1 .. m) : jt[s] = it[s]
  BY <1>1
<1>3. \A s \in SUBSET (1 .. m) : it[s] = IF s = {} THEN <<>> ELSE Merged(late, it[s \ {Max(s)}], q[Max(s)])
  BY DEF IsMerge
<1>4. jt = [s \in SUBSET (1 .. m + 1) |-> jt[s]]
  OBVIOUS
<1>5. ASSUME NEW s \in SUBSET (1 .. m + 1), m + 1 \in s PROVE jt[s] = Merged(late, it[s \ {m + 1}], q[m + 1])
  BY <1>5
<1> HIDE DEF jt
<1>6. ASSUME NEW s \in SUBSET (1 .. m + 1) PROVE jt[s] = R(s)
  <2>1. CASE m + 1 \in s
    <3>1. s # {} /\ Max(s) = m + 1 /\ s \ {m + 1} \in SUBSET (1 .. m)
      BY <2>1, LastOf
    <3> QED
      BY <1>2, <1>5, <2>1, <3>1
  <2>2. CASE m + 1 \notin s
    <3>1. \A x \in s : x \in 1 .. m + 1 /\ x # m + 1
      BY <2>2
    <3>2. \A x \in 1 .. m + 1 : x # m + 1 => x \in 1 .. m
      OBVIOUS
    <3>3. s \in SUBSET (1 .. m)
      BY <3>1, <3>2
    <3>4. s \ {Max(s)} \in SUBSET (1 .. m)
      BY <3>3
    <3> QED
      BY <1>2, <1>3, <3>3, <3>4
  <2> QED
    BY <2>1, <2>2
<1>7. jt = [s \in SUBSET (1 .. m + 1) |-> R(s)]
  BY <1>4, <1>6, Zenon
<1> QED
  BY <1>7 DEF IsMerge

LEMMA MergeExists ==
  ASSUME NEW q, NEW late, NEW m \in Nat PROVE \E it : IsMerge(it, q, late, m)
<1> DEFINE S == {k \in Nat : \E it : IsMerge(it, q, late, k)}
<1>1. 0 \in S
  <2>1. IsMerge([s \in SUBSET (1 .. 0) |-> <<>>], q, late, 0)
    <3>1. \A s \in SUBSET (1 .. 0) : s = {}
      OBVIOUS
    <3> QED
      BY <3>1 DEF IsMerge
  <2> QED
    BY <2>1
<1>2. \A k \in Nat : k \in S => k + 1 \in S
  BY MergeLonger
<1> HIDE DEF S
<1>3. m \in S
  BY <1>1, <1>2, AllNumbers
<1> QED
  BY <1>3 DEF S

LEMMA MergeValue ==
  ASSUME NEW q \in Seq(Frags), NEW late
  PROVE  \E it : IsMerge(it, q, late, Len(q)) /\ check_in_frags(q, late) = it[1 .. Len(q)]
<1> DEFINE it == CHOOSE it : it = [s \in SUBSET (1 .. Len(q)) |->
                                     IF s = {} THEN <<>> ELSE Merged(late, it[s \ {Max(s)}], q[Max(s)])]
<1>1. IsMerge(it, q, late, Len(q))
  <2>1. Len(q) \in Nat
    OBVIOUS
  <2>2. \E jt : IsMerge(jt, q, late, Len(q))
    BY <2>1, MergeExists
  <2> QED
    BY <2>2, Zenon DEF IsMerge
<1>2. DOMAIN q = 1 .. Len(q)
  OBVIOUS
<1>3. check_in_frags(q, late) = it[1 .. Len(q)]
  BY <1>2 DEF check_in_frags, FoldLeft, MapThenFoldSet, Merged
<1> QED
  BY <1>1, <1>3

(* The places up to k + 1 are those up to k and k + 1.                     *)
LEMMA UpTo ==
  ASSUME NEW m \in Nat, NEW k \in Nat, k + 1 <= m
  PROVE  /\ 1 .. k + 1 \in SUBSET (1 .. m) /\ 1 .. k + 1 # {} /\ k + 1 \in 1 .. k + 1
         /\ Max(1 .. k + 1) = k + 1 /\ (1 .. k + 1) \ {k + 1} = 1 .. k
<1>1. \A x \in 1 .. k + 1 : x \in 1 .. m
  OBVIOUS
<1>2. k + 1 \in 1 .. k + 1
  OBVIOUS
<1>3. Max(1 .. k + 1) = k + 1
  BY <1>2, LastOf
<1>4. (1 .. k + 1) \ {k + 1} = 1 .. k
  OBVIOUS
<1> QED
  BY <1>1, <1>2, <1>3, <1>4

LEMMA MergedType ==
  ASSUME NEW out \in Seq(Frags), NEW f \in Frags, NEW late PROVE Merged(late, out, f) \in Seq(Frags)
<1>1. CASE out = <<>>
  BY <1>1 DEF Merged
<1>2. CASE out # <<>>
  <2>1. Len(out) \in 1 .. Len(out) /\ out[Len(out)] \in Frags
    BY <1>2
  <2>2. [out[Len(out)] EXCEPT !.end = f.end, !.eof = f.eof] \in Frags
    BY <2>1 DEF Frags
  <2>3. [out EXCEPT ![Len(out)] = [@ EXCEPT !.end = f.end, !.eof = f.eof]] \in Seq(Frags)
    BY <2>1, <2>2
  <2>4. Append(out, f) \in Seq(Frags)
    OBVIOUS
  <2> QED
    BY <2>3, <2>4 DEF Merged
<1> QED
  BY <1>1, <1>2

LEMMA CheckedType ==
  ASSUME NEW q \in Seq(Frags), NEW late PROVE check_in_frags(q, late) \in Seq(Frags)
<1>1. PICK it : IsMerge(it, q, late, Len(q)) /\ check_in_frags(q, late) = it[1 .. Len(q)]
  BY MergeValue
<1> DEFINE S == {k \in Nat : k <= Len(q) => it[1 .. k] \in Seq(Frags)}
<1>2. Len(q) \in Nat
  OBVIOUS
<1>3. \A s \in SUBSET (1 .. Len(q)) : it[s] = IF s = {} THEN <<>> ELSE Merged(late, it[s \ {Max(s)}], q[Max(s)])
  BY <1>1 DEF IsMerge
<1>4. 0 \in S
  <2>1. 1 .. 0 = {} /\ {} \in SUBSET (1 .. Len(q)) /\ <<>> \in Seq(Frags)
    OBVIOUS
  <2> QED
    BY <1>3, <2>1
<1>5. ASSUME NEW k \in Nat, k \in S PROVE k + 1 \in S
  <2> SUFFICES ASSUME k + 1 <= Len(q) PROVE it[1 .. k + 1] \in Seq(Frags)
    OBVIOUS
  <2>1. it[1 .. k] \in Seq(Frags) /\ q[k + 1] \in Frags
    BY <1>2, <1>5
  <2>2. /\ 1 .. k + 1 \in SUBSET (1 .. Len(q)) /\ 1 .. k + 1 # {}
        /\ Max(1 .. k + 1) = k + 1 /\ (1 .. k + 1) \ {k + 1} = 1 .. k
    BY <1>2, UpTo
  <2>3. it[1 .. k + 1] = Merged(late, it[(1 .. k + 1) \ {Max(1 .. k + 1)}], q[Max(1 .. k + 1)])
    BY <1>3, <2>2
  <2>4. it[1 .. k + 1] = Merged(late, it[1 .. k], q[k + 1])
    BY <2>2, <2>3
  <2> QED
    BY <2>1, <2>4, MergedType
<1>6. \A k \in Nat : k \in S => k + 1 \in S
  BY <1>5
<1> HIDE DEF S
<1>7. Len(q) \in S
  BY <1>2, <1>4, <1>6, AllNumbers
<1> QED
  BY <1>1, <1>2, <1>7 DEF S

LEMMA InsertedType ==
  ASSUME NEW q \in Seq(Frags), NEW f \in Frags PROVE insert_by_offset(q, f) \in Seq(Frags)
<1> DEFINE after == {i \in DOMAIN q : f.start < q[i].start}
           at == CHOOSE i \in after : \A k \in after : i <= k
<1>1. CASE after = {}
  BY <1>1 DEF insert_by_offset
<1>2. CASE after # {}
  <2>1. after \subseteq Nat
    OBVIOUS
  <2>2. \E i \in after : \A k \in after : i <= k
    BY <1>2, <2>1, LeastNumber
  <2>3. at \in after
    BY <2>2
  <2>4. at \in 1 .. Len(q)
    BY <2>3
  <2>5. insert_by_offset(q, f) = SubSeq(q, 1, at - 1) \o <<f>> \o SubSeq(q, at, Len(q))
    BY <1>2 DEF insert_by_offset, InsertAt
  <2> HIDE DEF at, after
  <2>6. SubSeq(q, 1, at - 1) \in Seq(Frags) /\ SubSeq(q, at, Len(q)) \in Seq(Frags) /\ <<f>> \in Seq(Frags)
    BY <2>4
  <2> QED
    BY <2>5, <2>6
<1> QED
  BY <1>1, <1>2

-----------------------------------------------------------------------------
(* Queues of messages.                                                     *)

Plain(s) == s \in Seq(Msgs) /\ \A p \in 1 .. Len(s) : s[p].t \notin {"start", "read", "write"}

LEMMA TailQueries ==
  ASSUME NEW q \in Seq(Msgs), q # <<>>, NEW e, NEW n, NEW t, QueriesOk(q, e, n, t)
  PROVE  Tail(q) \in Seq(Msgs) /\ QueriesOk(Tail(q), e, n, t)
<1>1. Tail(q) \in Seq(Msgs) /\ Len(Tail(q)) = Len(q) - 1 /\ Len(q) \in Nat
  OBVIOUS
<1>2. \A p \in 1 .. Len(Tail(q)) : Tail(q)[p] = q[p + 1] /\ p + 1 \in 1 .. Len(q)
  BY <1>1
<1>3. \A p, r \in 1 .. Len(Tail(q)) : p + 1 = r + 1 => p = r
  OBVIOUS
<1> QED
  BY <1>1, <1>2, <1>3 DEF QueriesOk

LEMMA PlainQueries ==
  ASSUME NEW q \in Seq(Msgs), NEW s, Plain(s), NEW e, NEW n, NEW t, QueriesOk(q, e, n, t)
  PROVE  q \o s \in Seq(Msgs) /\ QueriesOk(q \o s, e, n, t)
<1> DEFINE a == q \o s
<1>1. s \in Seq(Msgs) /\ Len(s) \in Nat /\ Len(q) \in Nat
  BY DEF Plain
<1>2. a \in Seq(Msgs) /\ Len(a) = Len(q) + Len(s)
  BY <1>1
<1>3. \A p \in 1 .. Len(a) : a[p] = IF p <= Len(q) THEN q[p] ELSE s[p - Len(q)]
  BY <1>1
<1>4. \A p \in 1 .. Len(a) : IF p <= Len(q) THEN p \in 1 .. Len(q) ELSE p - Len(q) \in 1 .. Len(s)
  BY <1>1, <1>2
<1> HIDE DEF a
<1>5. \A p \in 1 .. Len(a) : a[p].t \in {"start", "read", "write"} => p \in 1 .. Len(q) /\ a[p] = q[p]
  BY <1>3, <1>4 DEF Plain
<1>6. QueriesOk(a, e, n, t)
  BY <1>5 DEF QueriesOk
<1> QED
  BY <1>2, <1>6 DEF a

(* An answer to a query.                                                   *)
LEMMA StartQueries ==
  ASSUME NEW q \in Seq(Msgs), NEW m \in Msgs, m.t \notin {"read", "write"}, NEW e, m.t = "start" => e[1] = "client",
         NEW n, NEW t, QueriesOk(q, e, n, t)
  PROVE  q \o <<m>> \in Seq(Msgs) /\ QueriesOk(q \o <<m>>, e, n, t)
<1> DEFINE a == q \o <<m>>
<1>1. a \in Seq(Msgs) /\ Len(a) = Len(q) + 1 /\ Len(q) \in Nat
  OBVIOUS
<1>2. \A p \in 1 .. Len(a) : IF p = Len(q) + 1 THEN a[p] = m ELSE a[p] = q[p] /\ p \in 1 .. Len(q)
  OBVIOUS
<1> HIDE DEF a
<1>3. QueriesOk(a, e, n, t)
  BY <1>2 DEF QueriesOk
<1> QED
  BY <1>1, <1>3 DEF a

(* A query with the next number.                                           *)
LEMMA QueryQueries ==
  ASSUME NEW q \in Seq(Msgs), NEW m \in Queries, NEW e, e[1] = "server", NEW n \in Nat, NEW t,
         QueriesOk(q, e, n, t), m.id = n, t[n].kind = "none"
  PROVE  q \o <<m>> \in Seq(Msgs) /\ QueriesOk(q \o <<m>>, e, n + 1, t)
<1> DEFINE a == q \o <<m>>
<1>1. m \in Msgs /\ m.t \in {"read", "write"}
  BY DEF Msgs, Queries
<1>2. a \in Seq(Msgs) /\ Len(a) = Len(q) + 1 /\ Len(q) \in Nat
  BY <1>1
<1>3. \A p \in 1 .. Len(a) : IF p = Len(q) + 1 THEN a[p] = m ELSE a[p] = q[p] /\ p \in 1 .. Len(q)
  BY <1>1
<1>4. \A p \in 1 .. Len(q) : q[p] \in Msgs
  OBVIOUS
<1>5. \A p \in 1 .. Len(q) : q[p].id \in Ids
  BY <1>4 DEF Msgs, Copies, Queries, Answers, Notes
<1>6. Ids \subseteq Nat
  BY DEF Ids
<1>7. \A p \in 1 .. Len(q) : q[p].t \in {"read", "write"} => q[p].id # n /\ q[p].id < n + 1
  <2>1. \A p \in 1 .. Len(q) : q[p].t \in {"read", "write"} => q[p].id < n
    BY DEF QueriesOk
  <2>2. \A i \in Nat : i < n => i # n /\ i < n + 1
    OBVIOUS
  <2> QED
    BY <1>5, <1>6, <2>1, <2>2
<1> HIDE DEF a
<1>8. QueriesOk(a, e, n + 1, t)
  BY <1>1, <1>2, <1>3, <1>7 DEF QueriesOk
<1> QED
  BY <1>2, <1>8 DEF a

(* Numbers grow, and the transfers of queries under way stay unborn.       *)
LEMMA LaterQueries ==
  ASSUME NEW q \in Seq(Msgs), NEW e, NEW n \in Nat, NEW m \in Nat, n <= m, NEW t, NEW u, QueriesOk(q, e, n, t),
         \A p \in 1 .. Len(q) : q[p].t \in {"read", "write"} => u[q[p].id].kind = t[q[p].id].kind
  PROVE  QueriesOk(q, e, m, u)
<1>1. \A p \in 1 .. Len(q) : q[p] \in Msgs
  OBVIOUS
<1>2. \A p \in 1 .. Len(q) : q[p].id \in Nat
  BY <1>1 DEF Msgs, Copies, Queries, Answers, Notes, Ids
<1>3. \A p \in 1 .. Len(q) : q[p].id < n => q[p].id < m
  BY <1>2
<1> QED
  BY <1>3 DEF QueriesOk

LEMMA EmptyQueries ==
  ASSUME NEW e, NEW n, NEW t PROVE QueriesOk(<<>>, e, n, t) /\ <<>> \in Seq(Msgs)
BY DEF QueriesOk

LEMMA PlainOf ==
  /\ \A s \in Seq(Copies) : Plain(s)
  /\ \A m \in Notes : Plain(<<m>>)
  /\ Plain(<<>>)
<1>1. ASSUME NEW s \in Seq(Copies) PROVE Plain(s)
  <2>1. s \in Seq(Msgs)
    BY DEF Msgs
  <2>2. \A p \in 1 .. Len(s) : s[p] \in Copies
    OBVIOUS
  <2> QED
    BY <2>1, <2>2 DEF Plain, Copies
<1>2. ASSUME NEW m \in Notes PROVE Plain(<<m>>)
  <2>1. m \in Msgs /\ m.t \in {"thx", "miss"}
    BY DEF Msgs, Notes
  <2> QED
    BY <2>1 DEF Plain
<1>3. Plain(<<>>)
  BY DEF Plain
<1> QED
  BY <1>1, <1>2, <1>3

LEMMA EndFacts ==
  /\ \A e \in Ends : e = <<e[1], e[2]>> /\ e[1] \in {"client", "server"} /\ e[2] \in Cnxs
  /\ \A x \in Cnxs : /\ ClientEnd(x) \in Ends /\ ServerEnd(x) \in Ends /\ ClientEnd(x) # ServerEnd(x)
                     /\ ClientEnd(x)[1] = "client" /\ ServerEnd(x)[1] = "server"
                     /\ ClientEnd(x)[2] = x /\ ServerEnd(x)[2] = x
                     /\ Other(ClientEnd(x)) = ServerEnd(x) /\ Other(ServerEnd(x)) = ClientEnd(x)
  /\ \A e \in Ends : e = IF e[1] = "client" THEN ClientEnd(e[2]) ELSE ServerEnd(e[2])
BY DEF Ends, ClientEnd, ServerEnd, Other

LEMMA MineFinite ==
  ASSUME NEW h, NEW k PROVE IsFiniteSet(Mine(h, k)) /\ Cardinality(Mine(h, k)) \in Nat
<1>1. Mine(h, k) \in SUBSET Parties
  BY DEF Mine
<1> HIDE DEF Mine
<1>2. IsFiniteSet(Mine(h, k))
  BY <1>1, EndsFinite, FS_Subset
<1> QED
  BY <1>2, FS_CardinalityType

-----------------------------------------------------------------------------
(* Every action keeps the invariant about streams.                         *)

(* The transfers and streams keep what matters for the references.         *)
Alike ==
  /\ \A e \in Ends : \A i \in Ids :
       /\ tx'[e][i].attached = tx[e][i].attached /\ tx'[e][i].kind = tx[e][i].kind
       /\ tx'[e][i].key = tx[e][i].key /\ tx'[e][i].status = tx[e][i].status
  /\ \A h \in Hosts : \A k \in Keys :
       /\ stream'[h][k].count = stream[h][k].count /\ stream'[h][k].res = stream[h][k].res
       /\ stream'[h][k].readers = stream[h][k].readers /\ stream'[h][k].writer = stream[h][k].writer

LEMMA QuietKeeps ==
  ASSUME HeldInv, Alike, UNCHANGED <<user, proc, main, next>>, ChannelTypes', CnxsUsed', QueriesNew'
  PROVE  HeldInv'
<1>1. \A t \in Parties : t[1] \in Ends /\ t[2] \in Ids
  BY DEF Parties
<1>2. \A e : Host(e)' = Host(e)
  BY DEF Host
<1>3. \A h, k : Mine(h, k)' = Mine(h, k)
  BY <1>1, <1>2 DEF Mine, Alike
<1>4. \A h, k : Writers(h, k)' = Writers(h, k)
  <2>1. \A h, k : Mine(h, k) \subseteq Parties
    BY DEF Mine
  <2> QED
    BY <1>1, <1>3, <2>1 DEF Writers, Alike
<1>5. \A h, k : Pending(h, k)' = Pending(h, k)
  BY DEF Pending
<1>6. ASSUME NEW h \in Hosts, NEW k \in Keys PROVE Counted(h, k)'
  BY <1>3, <1>4, <1>5 DEF HeldInv, Counted, Alike
<1>7. TxsNamed'
  <2> SUFFICES ASSUME NEW e \in Ends, NEW i \in Ids PROVE TxsNamed!(e)!(i)'
    BY DEF TxsNamed
  <2>1. /\ tx'[e][i].attached = tx[e][i].attached /\ tx'[e][i].kind = tx[e][i].kind
        /\ tx'[e][i].key = tx[e][i].key /\ tx'[e][i].status = tx[e][i].status
    BY DEF Alike
  <2>2. TxsNamed!(e)!(i)
    BY DEF HeldInv, TxsNamed
  <2> QED
    BY <2>1, <2>2
<1>8. MainWaits'
  <2> SUFFICES ASSUME NEW c \in Clients PROVE MainWaits!(c)'
    BY DEF MainWaits
  <2>1. CASE main[c].id = 0
    BY <2>1 DEF HeldInv, MainWaits
  <2>2. CASE main[c].id # 0
    <3>1. main[c] \in Cmds /\ proc[c] \in Cnxs \cup {NoOne} /\ c \in Hosts
      BY DEF HeldInv, ChannelTypes, Hosts
    <3>2. main[c].id \in Ids /\ main[c].key \in Keys \cup {NoOne}
      BY <2>2, <3>1 DEF Cmds
    <3>3. proc[c] # NoOne => ClientEnd(proc[c]) \in Ends
      BY <3>1, EndFacts
    <3>4. \A r \in Resources : r \in Keys
      BY DEF Keys
    <3> QED
      BY <2>2, <3>1, <3>2, <3>3, <3>4 DEF HeldInv, MainWaits, Alike
  <2> QED
    BY <2>1, <2>2
<1> QED
  BY <1>6, <1>7, <1>8 DEF HeldInv

(* The queues lose their first message or gain plain ones.                 *)
LEMMA PlainKeeps ==
  ASSUME ChannelTypes, QueriesNew, next' = next,
         \A e \in Ends : \A i \in Ids : tx'[e][i].kind = tx[e][i].kind,
         \A e \in Ends : \E s : /\ Plain(s)
                                /\ \/ net'[e] = net[e] \o s
                                   \/ net[e] # <<>> /\ net'[e] = Tail(net[e]) \o s
  PROVE  QueriesNew' /\ \A e \in Ends : net'[e] \in Seq(Msgs)
<1> SUFFICES ASSUME NEW e \in Ends PROVE QueriesOk(net'[e], e, next[e[2]], tx'[e]) /\ net'[e] \in Seq(Msgs)
  BY DEF QueriesNew
<1>1. PICK s : Plain(s) /\ (net'[e] = net[e] \o s \/ (net[e] # <<>> /\ net'[e] = Tail(net[e]) \o s))
  OBVIOUS
<1>2. net[e] \in Seq(Msgs) /\ QueriesOk(net[e], e, next[e[2]], tx[e]) /\ next[e[2]] \in Nat
  BY EndFacts DEF QueriesNew, ChannelTypes
<1>3. net'[e] \in Seq(Msgs) /\ QueriesOk(net'[e], e, next[e[2]], tx[e])
  <2>1. CASE net'[e] = net[e] \o s
    BY <1>1, <1>2, <2>1, PlainQueries
  <2>2. CASE net[e] # <<>> /\ net'[e] = Tail(net[e]) \o s
    <3>1. Tail(net[e]) \in Seq(Msgs) /\ QueriesOk(Tail(net[e]), e, next[e[2]], tx[e])
      BY <1>2, <2>2, TailQueries
    <3> QED
      BY <1>1, <2>2, <3>1, PlainQueries
  <2> QED
    BY <1>1, <2>1, <2>2
<1>4. \A p \in 1 .. Len(net'[e]) : net'[e][p].id \in Ids
  <2>1. \A p \in 1 .. Len(net'[e]) : net'[e][p] \in Msgs
    BY <1>3
  <2> QED
    BY <2>1 DEF Msgs, Copies, Queries, Answers, Notes
<1>5. \A p \in 1 .. Len(net'[e]) : tx'[e][net'[e][p].id].kind = tx[e][net'[e][p].id].kind
  BY <1>4
<1> QED
  BY <1>2, <1>3, <1>5, LaterQueries

(* What CnxsUsed asks of the ends, when the connections stay as they are.  *)
LEMMA CnxsKeep ==
  ASSUME CnxsUsed, UNCHANGED <<user, proc, ends>>,
         \A e \in Ends : ends[e] \in {"none", "connecting", "closed"} => pend'[e] = pend[e] /\ tx'[e] = tx[e],
         \A e \in Ends : ends[e] \in {"none", "closed"} => net'[e] = net[e]
  PROVE  CnxsUsed'
BY DEF CnxsUsed

LEMMA LoginKeeps ==
  ASSUME HeldInv, NEW c \in Clients, Login(c) PROVE HeldInv'
<1> DEFINE x == proc[c]
<1>1. /\ x # NoOne /\ ends[ClientEnd(x)] = "connecting" /\ ends[ServerEnd(x)] = "open"
      /\ ends' = [ends EXCEPT ![ClientEnd(x)] = "open"]
      /\ UNCHANGED <<file, put, owner, stream, tx, pend, proc, main, next, todo, net, user>>
  BY DEF Login, disk, memory, client, ClientEnd, ServerEnd
<1>2. x \in Cnxs /\ ClientEnd(x) \in Ends
  BY <1>1, EndFacts DEF HeldInv, ChannelTypes
<1>3. ChannelTypes'
  <2>1. ends' \in [Ends -> {"none", "connecting", "open", "ended", "closed"}]
    BY <1>1 DEF HeldInv, ChannelTypes
  <2> QED
    BY <1>1, <2>1 DEF HeldInv, ChannelTypes, MemoryTypes
<1>4. \A e \in Ends : ends'[e] = IF e = ClientEnd(x) THEN "open" ELSE ends[e]
  BY <1>1 DEF HeldInv, ChannelTypes
<1>5. \A y \in Cnxs : ClientEnd(y) = ClientEnd(x) => y = x
  BY <1>2, EndFacts
<1>6. CnxsUsed'
  BY <1>1, <1>2, <1>4, <1>5, EndFacts DEF HeldInv, ChannelTypes, CnxsUsed
<1>7. Alike /\ QueriesNew'
  BY <1>1 DEF HeldInv, QueriesNew, Alike
<1> QED
  BY <1>1, <1>3, <1>6, <1>7, QuietKeeps

LEMMA SeeEndKeeps ==
  ASSUME HeldInv, NEW e \in Ends, SeeEnd(e) PROVE HeldInv'
<1>1. /\ ends[e] = "open" /\ ends' = [ends EXCEPT ![e] = "ended"]
      /\ UNCHANGED <<file, put, owner, stream, tx, pend, proc, main, next, todo, net, user>>
  BY DEF SeeEnd, disk, memory, client
<1>2. ChannelTypes'
  <2>1. ends' \in [Ends -> {"none", "connecting", "open", "ended", "closed"}]
    BY <1>1 DEF HeldInv, ChannelTypes
  <2> QED
    BY <1>1, <2>1 DEF HeldInv, ChannelTypes, MemoryTypes
<1>3. \A f \in Ends : ends'[f] = IF f = e THEN "ended" ELSE ends[f]
  BY <1>1 DEF HeldInv, ChannelTypes
<1>4. CnxsUsed'
  BY <1>1, <1>3, EndFacts DEF HeldInv, ChannelTypes, CnxsUsed
<1>5. Alike /\ QueriesNew'
  BY <1>1 DEF HeldInv, QueriesNew, Alike
<1> QED
  BY <1>1, <1>2, <1>4, <1>5, QuietKeeps

LEMMA PassKeeps ==
  ASSUME HeldInv, NEW c \in Clients, StartPass(c) PROVE HeldInv'
<1>1. /\ todo' = [todo EXCEPT ![c] = put[c]]
      /\ UNCHANGED <<file, put, owner, stream, tx, pend, proc, main, next, net, user, ends>>
  BY DEF StartPass, disk, memory
<1>2. ChannelTypes'
  <2>1. todo' \in [Clients -> SUBSET Resources]
    BY <1>1 DEF HeldInv, ChannelTypes
  <2> QED
    BY <1>1, <2>1 DEF HeldInv, ChannelTypes, MemoryTypes
<1>3. Alike /\ QueriesNew' /\ CnxsUsed'
  BY <1>1 DEF HeldInv, QueriesNew, Alike, CnxsUsed
<1> QED
  BY <1>1, <1>2, <1>3, QuietKeeps

(* A step that leaves the connections, the commands and the references.    *)
LEMMA QuietStep ==
  ASSUME HeldInv, Alike, UNCHANGED <<user, proc, main, next, ends, put, owner, todo>>,
         MemoryTypes', file' \in [Hosts -> [Resources -> Seq(Nat)]], DOMAIN net' = Ends, net' = [e \in Ends |-> net'[e]],
         \A e \in Ends : \E s : /\ Plain(s)
                                /\ \/ net'[e] = net[e] \o s
                                   \/ net[e] # <<>> /\ net'[e] = Tail(net[e]) \o s,
         \A e \in Ends : ends[e] \in {"none", "connecting", "closed"} => pend'[e] = pend[e] /\ tx'[e] = tx[e],
         \A e \in Ends : ends[e] \in {"none", "closed"} => net'[e] = net[e]
  PROVE  HeldInv'
<1>1. ChannelTypes /\ QueriesNew /\ CnxsUsed
  BY DEF HeldInv
<1>2. \A e \in Ends : \A i \in Ids : tx'[e][i].kind = tx[e][i].kind
  BY DEF Alike
<1>3. next' = next
  OBVIOUS
<1>4. QueriesNew' /\ \A e \in Ends : net'[e] \in Seq(Msgs)
  BY <1>1, <1>2, <1>3, PlainKeeps
<1>5. net' \in [Ends -> Seq(Msgs)]
  BY <1>4
<1>6. ChannelTypes'
  BY <1>1, <1>5 DEF ChannelTypes
<1>7. CnxsUsed'
  BY <1>1, CnxsKeep
<1> QED
  BY <1>4, <1>6, <1>7, QuietKeeps

LEMMA SentQuiet ==
  ASSUME HeldInv
  PROVE  \A ts, data : ts \in SUBSET Parties /\ data \in Seq(Nat) => \A eof \in BOOLEAN :
         /\ Sent(ts, data, eof) \in [Ends -> Seq(Msgs)]
         /\ \A e \in Ends : \E s : Plain(s) /\ Sent(ts, data, eof)[e] = net[e] \o s
         /\ \A e \in Ends : ends[e] \in {"none", "closed"} => Sent(ts, data, eof)[e] = net[e]
<1> SUFFICES ASSUME NEW ts \in SUBSET Parties, NEW data \in Seq(Nat), NEW eof \in BOOLEAN
             PROVE  /\ Sent(ts, data, eof) \in [Ends -> Seq(Msgs)]
                    /\ \A e \in Ends : \E s : Plain(s) /\ Sent(ts, data, eof)[e] = net[e] \o s
                    /\ \A e \in Ends : ends[e] \in {"none", "closed"} => Sent(ts, data, eof)[e] = net[e]
  OBVIOUS
<1>1. ChannelTypes
  BY DEF HeldInv
<1>2. PICK s \in [Ends -> Seq(Copies)] : Sent(ts, data, eof) = [e \in Ends |-> net[e] \o s[e]]
  BY <1>1, SentCopies
<1>3. \A e \in Ends : Plain(s[e]) /\ net[e] \in Seq(Msgs) /\ s[e] \in Seq(Msgs)
  BY <1>1, PlainOf DEF Plain, ChannelTypes
<1>4. \A e \in Ends : net[e] \o s[e] \in Seq(Msgs)
  BY <1>3
<1>5. \A e \in Ends : ends[e] = "none" => ends[Other(e)] = "none"
  <2> SUFFICES ASSUME NEW e \in Ends, ends[e] = "none" PROVE ends[Other(e)] = "none"
    OBVIOUS
  <2>1. e[2] \in Cnxs /\ (e = ClientEnd(e[2]) \/ e = ServerEnd(e[2]))
    BY EndFacts
  <2>2. Other(e) = ClientEnd(e[2]) \/ Other(e) = ServerEnd(e[2])
    BY <2>1, EndFacts
  <2>3. user[e[2]] = NoOne
    BY <2>1 DEF HeldInv, CnxsUsed
  <2> QED
    BY <2>1, <2>2, <2>3 DEF HeldInv, CnxsUsed
<1>6. \A e \in Ends : ends[e] \in {"none", "closed"} => Sent(ts, data, eof)[e] = net[e]
  BY <1>5 DEF Sent
<1> QED
  BY <1>2, <1>3, <1>4, <1>6

LEMMA TxsKeep ==
  ASSUME NEW t \in Txs
  PROVE  /\ \A n \in Nat : [t EXCEPT !.end = n] \in Txs
         /\ \A f \in Seq(Frags) : [t EXCEPT !.frags = f] \in Txs
         /\ \A g \in Seq(Nat) : [t EXCEPT !.got = g] \in Txs
<1> DEFINE K == Keys \cup {NoOne}
           F == Seq(Frags)
           G == Seq(Nat)
           T == [kind : {"none", "sender", "receiver"}, key : K, status : {0, 200, 501}, end : Nat,
                 frags : F, got : G, attached : BOOLEAN, whole : BOOLEAN]
<1>1. Txs = T
  BY DEF Txs
<1> HIDE DEF K, F, G
<1>2. t \in T
  BY <1>1
<1>3. /\ \A n \in Nat : [t EXCEPT !.end = n] \in T
      /\ \A f \in F : [t EXCEPT !.frags = f] \in T
      /\ \A g \in G : [t EXCEPT !.got = g] \in T
  BY <1>2
<1> QED
  BY <1>1, <1>3 DEF F, G

(* How a transfer ends.                                                    *)
Statuses == {200, 501}

LEMMA TxsEnded ==
  ASSUME NEW t \in Txs, NEW st \in Statuses PROVE [t EXCEPT !.status = st, !.attached = FALSE] \in Txs
<1> DEFINE K == Keys \cup {NoOne}
           F == Seq(Frags)
           G == Seq(Nat)
           T == [kind : {"none", "sender", "receiver"}, key : K, status : {0, 200, 501}, end : Nat,
                 frags : F, got : G, attached : BOOLEAN, whole : BOOLEAN]
<1>1. Txs = T
  BY DEF Txs
<1> HIDE DEF K, F, G
<1>2. t \in T /\ st \in {0, 200, 501}
  BY <1>1 DEF Statuses
<1>3. [t EXCEPT !.status = st, !.attached = FALSE] \in T
  BY <1>2
<1> QED
  BY <1>1, <1>3

LEMMA AdvancedAlike ==
  ASSUME ChannelTypes
  PROVE  \A ts, n : ts \in SUBSET Parties /\ n \in Nat =>
         /\ Advanced(ts, n) \in [Ends -> [Ids -> Txs]]
         /\ \A e \in Ends : \A i \in Ids :
              Advanced(ts, n)[e][i] = IF <<e, i>> \in ts THEN [tx[e][i] EXCEPT !.end = @ + n] ELSE tx[e][i]
         /\ \A e \in Ends : (\A t \in ts : t[1] # e) => Advanced(ts, n)[e] = tx[e]
<1> SUFFICES ASSUME NEW ts \in SUBSET Parties, NEW n \in Nat
             PROVE  /\ Advanced(ts, n) \in [Ends -> [Ids -> Txs]]
                    /\ \A e \in Ends : \A i \in Ids :
                         Advanced(ts, n)[e][i] = IF <<e, i>> \in ts THEN [tx[e][i] EXCEPT !.end = @ + n] ELSE tx[e][i]
                    /\ \A e \in Ends : (\A t \in ts : t[1] # e) => Advanced(ts, n)[e] = tx[e]
  OBVIOUS
<1> DEFINE v(e, i) == IF <<e, i>> \in ts THEN [tx[e][i] EXCEPT !.end = @ + n] ELSE tx[e][i]
<1>1. Advanced(ts, n) = [e \in Ends |-> [i \in Ids |-> v(e, i)]]
  BY DEF Advanced
<1>2. tx \in [Ends -> [Ids -> Txs]]
  BY DEF ChannelTypes, MemoryTypes
<1>3. ASSUME NEW e \in Ends, NEW i \in Ids PROVE v(e, i) \in Txs
  <2>1. tx[e][i] \in Txs
    BY <1>2
  <2>2. tx[e][i].end + n \in Nat
    BY <2>1 DEF Txs
  <2>3. [tx[e][i] EXCEPT !.end = @ + n] \in Txs
    BY <2>1, <2>2, TxsKeep
  <2> QED
    BY <2>1, <2>3
<1>4. \A e \in Ends : (\A t \in ts : t[1] # e) => \A i \in Ids : v(e, i) = tx[e][i]
  OBVIOUS
<1> HIDE DEF v
<1>5. \A e \in Ends : tx[e] = [i \in Ids |-> tx[e][i]]
  BY <1>2
<1>6. \A e \in Ends : Advanced(ts, n)[e] = [i \in Ids |-> v(e, i)]
  BY <1>1
<1>7. \A e \in Ends : (\A t \in ts : t[1] # e) => Advanced(ts, n)[e] = tx[e]
  BY <1>4, <1>5, <1>6
<1>8. Advanced(ts, n) \in [Ends -> [Ids -> Txs]]
  BY <1>1, <1>3
<1>9. \A e \in Ends : \A i \in Ids : Advanced(ts, n)[e][i] = v(e, i)
  BY <1>6
<1> QED
  BY <1>7, <1>8, <1>9 DEF v

(* A transfer that has a stream belongs to a connection that is up.        *)
LEMMA AttachedOpen ==
  ASSUME HeldInv, NEW e \in Ends, NEW i \in Ids, tx[e][i].kind # "none"
  PROVE  ends[e] \in {"open", "ended"}
<1>1. tx[e][i] # NoTx
  BY DEF NoTx
<1> QED
  BY <1>1 DEF HeldInv, CnxsUsed, ChannelTypes

(* The readers of a stream are senders that have it.                       *)
LEMMA ReadersAttached ==
  ASSUME HeldInv, NEW h \in Hosts, NEW k \in Keys
  PROVE  /\ stream[h][k] \in Streams /\ stream[h][k].readers \in SUBSET Parties
         /\ \A t \in stream[h][k].readers :
              /\ t[1] \in Ends /\ t[2] \in Ids /\ t = <<t[1], t[2]>>
              /\ tx[t[1]][t[2]].attached /\ tx[t[1]][t[2]].kind = "sender" /\ ends[t[1]] \in {"open", "ended"}
              /\ tx[t[1]][t[2]].key = k /\ Host(t[1]) = h
<1>1. stream[h][k] \in Streams
  BY DEF HeldInv, ChannelTypes, MemoryTypes
<1>2. stream[h][k].readers = Mine(h, k) \ Writers(h, k)
  BY DEF HeldInv, Counted
<1>3. stream[h][k].readers \in SUBSET Parties
  BY <1>1 DEF Streams
<1>4. ASSUME NEW t \in stream[h][k].readers
      PROVE  /\ t[1] \in Ends /\ t[2] \in Ids /\ t = <<t[1], t[2]>>
             /\ tx[t[1]][t[2]].attached /\ tx[t[1]][t[2]].kind = "sender" /\ ends[t[1]] \in {"open", "ended"}
             /\ tx[t[1]][t[2]].key = k /\ Host(t[1]) = h
  <2>1. t[1] \in Ends /\ t[2] \in Ids /\ t = <<t[1], t[2]>>
    BY <1>3 DEF Parties
  <2>2. tx[t[1]][t[2]] \in Txs
    BY <2>1 DEF HeldInv, ChannelTypes, MemoryTypes
  <2>3. tx[t[1]][t[2]].attached /\ tx[t[1]][t[2]].kind # "receiver" /\ tx[t[1]][t[2]].key = k /\ Host(t[1]) = h
    BY <1>2 DEF Mine, Writers
  <2>4. tx[t[1]][t[2]].kind # "none"
    BY <2>1, <2>3 DEF HeldInv, TxsNamed
  <2> QED
    BY <2>1, <2>2, <2>3, <2>4, AttachedOpen DEF Txs
<1> QED
  BY <1>1, <1>3, <1>4

LEMMA StreamsKeep ==
  ASSUME NEW s \in Streams
  PROVE  /\ \A w \in SUBSET Parties : [s EXCEPT !.wait = w] \in Streams
         /\ \A n \in Nat : [s EXCEPT !.count = n] \in Streams
         /\ \A w \in SUBSET Parties : [s EXCEPT !.readers = w] \in Streams
         /\ \A b \in BOOLEAN : [s EXCEPT !.writer = b] \in Streams /\ [s EXCEPT !.linked = b] \in Streams
         /\ \A n \in Nat, r \in Resources : [s EXCEPT !.count = n, !.res = r] \in Streams
         /\ s.count \in Nat /\ s.readers \in SUBSET Parties /\ s.writer \in BOOLEAN
<1> DEFINE R == Resources \cup {NoOne}
           P == SUBSET Parties
           S == [count : Nat, res : R, writer : BOOLEAN, readers : P, wait : P, linked : BOOLEAN]
<1>1. Streams = S /\ \A r \in Resources : r \in R
  BY DEF Streams
<1> HIDE DEF R, P
<1>2. s \in S
  BY <1>1
<1>3. /\ \A w \in P : [s EXCEPT !.wait = w] \in S
      /\ \A n \in Nat : [s EXCEPT !.count = n] \in S
      /\ \A w \in P : [s EXCEPT !.readers = w] \in S
      /\ \A b \in BOOLEAN : [s EXCEPT !.writer = b] \in S /\ [s EXCEPT !.linked = b] \in S
      /\ s.count \in Nat /\ s.readers \in P /\ s.writer \in BOOLEAN
  BY <1>2
<1>4. \A n \in Nat, r \in R : [s EXCEPT !.count = n, !.res = r] \in S
  BY <1>2
<1> QED
  BY <1>1, <1>3, <1>4 DEF P

(* A change of one stream, and of one transfer.                            *)
LEMMA OneStream ==
  ASSUME MemoryTypes, NEW h \in Hosts, NEW k \in Keys, NEW s \in Streams
  PROVE  /\ [stream EXCEPT ![h][k] = s] \in [Hosts -> [Keys -> Streams]]
         /\ \A g \in Hosts : \A j \in Keys :
              [stream EXCEPT ![h][k] = s][g][j] = IF g = h /\ j = k THEN s ELSE stream[g][j]
BY DEF MemoryTypes

LEMMA OneTx ==
  ASSUME MemoryTypes, NEW e \in Ends, NEW i \in Ids, NEW t \in Txs
  PROVE  /\ [tx EXCEPT ![e][i] = t] \in [Ends -> [Ids -> Txs]]
         /\ \A f \in Ends : \A j \in Ids :
              [tx EXCEPT ![e][i] = t][f][j] = IF f = e /\ j = i THEN t ELSE tx[f][j]
         /\ \A f \in Ends : f # e => [tx EXCEPT ![e][i] = t][f] = tx[f]
BY DEF MemoryTypes

LEMMA PushKeeps ==
  ASSUME HeldInv, NEW h \in Hosts, NEW k \in Keys, NEW t \in Parties, stream_push(h, k, t) PROVE HeldInv'
<1> DEFINE s == stream[h][k]
           f == file[h][s.res]
           from == tx[t[1]][t[2]].end
           eof == from + Block >= Len(f)
           data == SubSeq(f, from + 1, IF eof THEN Len(f) ELSE from + Block)
           w == IF eof THEN {t} ELSE {}
           ts == {t}
<1>1. /\ t \in s.readers /\ from <= Len(f)
      /\ net' = Sent(ts, data, eof) /\ tx' = Advanced(ts, Len(data))
      /\ stream' = [stream EXCEPT ![h][k] = [s EXCEPT !.wait = w]]
      /\ UNCHANGED <<file, put, owner, pend, proc, main, next, todo, ends, user>>
  BY DEF stream_push, disk, client
<1>2. ChannelTypes /\ MemoryTypes
  BY DEF HeldInv, ChannelTypes
<1>3. /\ s \in Streams /\ t[1] \in Ends /\ t[2] \in Ids /\ tx[t[1]][t[2]].kind = "sender"
      /\ ends[t[1]] \in {"open", "ended"} /\ tx[t[1]][t[2]].attached
  BY <1>1, ReadersAttached
<1>4. f \in Seq(Nat) /\ Len(f) \in Nat
  <2>1. s.count > 0
    <3>1. Counted(h, k)
      BY DEF HeldInv
    <3>2. t \in Mine(h, k)
      BY <1>1, <3>1 DEF Counted
    <3>3. Cardinality(Mine(h, k)) # 0 /\ Cardinality(Mine(h, k)) \in Nat
      BY <3>2, MineFinite, FS_EmptySet
    <3>4. s.count >= Cardinality(Mine(h, k)) + Pending(h, k) /\ Pending(h, k) \in Nat
      BY <3>1 DEF Counted, Pending
    <3>5. s.count \in Nat
      BY <1>3 DEF Streams
    <3> QED
      BY <3>3, <3>4, <3>5
  <2>2. s.res \in Resources
    BY <2>1 DEF HeldInv, Counted
  <2>3. f \in Seq(Nat)
    BY <1>2, <2>2 DEF ChannelTypes
  <2> HIDE DEF f
  <2> QED
    BY <2>3
<1>5. from \in Nat
  <2>1. tx[t[1]][t[2]] \in Txs
    BY <1>2, <1>3 DEF MemoryTypes
  <2> QED
    BY <2>1 DEF Txs
<1> HIDE DEF f, from
<1>6. data \in Seq(Nat) /\ Len(data) \in Nat /\ eof \in BOOLEAN /\ w \in SUBSET Parties /\ ts \in SUBSET Parties
  <2> DEFINE last == IF eof THEN Len(f) ELSE from + Block
  <2>1. from + Block \in Nat
    BY <1>5, ChannelAssumption
  <2>2. last \in Nat /\ last <= Len(f)
    BY <1>1, <1>4, <1>5, <2>1, ChannelAssumption
  <2> HIDE DEF last
  <2>3. \A i \in from + 1 .. last : f[i] \in Nat
    <3>1. \A i \in from + 1 .. last : i \in 1 .. Len(f)
      BY <1>4, <1>5, <2>2
    <3> QED
      BY <1>4, <3>1
  <2>4. SubSeq(f, from + 1, last) \in Seq(Nat)
    BY <1>4, <1>5, <2>2, <2>3
  <2>5. data = SubSeq(f, from + 1, last)
    BY DEF last
  <2> HIDE DEF data
  <2> QED
    BY <2>4, <2>5
<1> HIDE DEF data, eof, w, ts
<1>s. /\ Sent(ts, data, eof) \in [Ends -> Seq(Msgs)]
      /\ \A e \in Ends : \E a : Plain(a) /\ Sent(ts, data, eof)[e] = net[e] \o a
      /\ \A e \in Ends : ends[e] \in {"none", "closed"} => Sent(ts, data, eof)[e] = net[e]
  <2>0. ts \in SUBSET Parties /\ data \in Seq(Nat)
    BY <1>6
  <2>1. \A b \in BOOLEAN :
          /\ Sent(ts, data, b) \in [Ends -> Seq(Msgs)]
          /\ \A e \in Ends : \E a : Plain(a) /\ Sent(ts, data, b)[e] = net[e] \o a
          /\ \A e \in Ends : ends[e] \in {"none", "closed"} => Sent(ts, data, b)[e] = net[e]
    BY <2>0, SentQuiet, Zenon
  <2>2. eof \in BOOLEAN
    BY <1>6
  <2> QED
    BY <2>1, <2>2, Zenon
<1>t. /\ Advanced(ts, Len(data)) \in [Ends -> [Ids -> Txs]]
      /\ \A e \in Ends : \A i \in Ids : Advanced(ts, Len(data))[e][i] =
           IF <<e, i>> \in ts THEN [tx[e][i] EXCEPT !.end = @ + Len(data)] ELSE tx[e][i]
      /\ \A e \in Ends : (\A u \in ts : u[1] # e) => Advanced(ts, Len(data))[e] = tx[e]
  BY <1>2, <1>6, AdvancedAlike
<1>7. [s EXCEPT !.wait = w] \in Streams
  BY <1>3, <1>6, StreamsKeep
<1>8. MemoryTypes'
  <2>1. tx' \in [Ends -> [Ids -> Txs]] /\ stream' \in [Hosts -> [Keys -> Streams]]
    BY <1>1, <1>2, <1>t, <1>7, OneStream
  <2> QED
    BY <1>1, <1>2, <2>1 DEF MemoryTypes
<1>9. Alike
  <2>1. ASSUME NEW e \in Ends, NEW i \in Ids
        PROVE  /\ tx'[e][i].attached = tx[e][i].attached /\ tx'[e][i].kind = tx[e][i].kind
               /\ tx'[e][i].key = tx[e][i].key /\ tx'[e][i].status = tx[e][i].status
    <3>1. tx[e][i] \in Txs
      BY <1>2 DEF MemoryTypes
    <3>2. tx'[e][i] = IF <<e, i>> \in ts THEN [tx[e][i] EXCEPT !.end = @ + Len(data)] ELSE tx[e][i]
      BY <1>1, <1>t
    <3> QED
      BY <3>1, <3>2 DEF Txs
  <2>2. ASSUME NEW g \in Hosts, NEW j \in Keys
        PROVE  /\ stream'[g][j].count = stream[g][j].count /\ stream'[g][j].res = stream[g][j].res
               /\ stream'[g][j].readers = stream[g][j].readers /\ stream'[g][j].writer = stream[g][j].writer
    <3>1. stream'[g][j] = IF g = h /\ j = k THEN [s EXCEPT !.wait = w] ELSE stream[g][j]
      BY <1>1, <1>2, <1>7, OneStream
    <3> QED
      BY <1>3, <3>1 DEF Streams
  <2> QED
    BY <2>1, <2>2 DEF Alike
<1>10. /\ net' \in [Ends -> Seq(Msgs)]
       /\ \A e \in Ends : \E a : Plain(a) /\ net'[e] = net[e] \o a
       /\ \A e \in Ends : ends[e] \in {"none", "closed"} => net'[e] = net[e]
  BY <1>1, <1>s
<1>11. \A e \in Ends : ends[e] \in {"none", "connecting", "closed"} => pend'[e] = pend[e] /\ tx'[e] = tx[e]
  <2>0. \A u \in ts : u[1] = t[1]
    BY DEF ts
  <2>1. \A e \in Ends : e # t[1] => tx'[e] = tx[e]
    BY <2>0, <1>1, <1>t
  <2> QED
    BY <1>1, <1>3, <2>1
<1>12. file' \in [Hosts -> [Resources -> Seq(Nat)]]
  BY <1>1, <1>2 DEF ChannelTypes
<1> QED
  BY <1>1, <1>8, <1>9, <1>10, <1>11, <1>12, QuietStep

LEMMA ResumeKeeps ==
  ASSUME HeldInv, NEW h \in Hosts, NEW k \in Keys, PushResumes(h, k) PROVE HeldInv'
<1> DEFINE s == stream[h][k]
<1>1. /\ stream' = [stream EXCEPT ![h][k] = [s EXCEPT !.wait = {}]]
      /\ UNCHANGED <<file, put, owner, tx, pend, proc, main, next, todo, ends, user, net>>
  BY DEF PushResumes, disk, client
<1>2. ChannelTypes /\ MemoryTypes
  BY DEF HeldInv, ChannelTypes
<1>3. s \in Streams
  BY <1>2 DEF MemoryTypes
<1>4. [s EXCEPT !.wait = {}] \in Streams
  BY <1>3, StreamsKeep
<1>5. ASSUME NEW g \in Hosts, NEW j \in Keys
      PROVE  /\ stream'[g][j].count = stream[g][j].count /\ stream'[g][j].res = stream[g][j].res
             /\ stream'[g][j].readers = stream[g][j].readers /\ stream'[g][j].writer = stream[g][j].writer
  <2>1. stream'[g][j] = IF g = h /\ j = k THEN [s EXCEPT !.wait = {}] ELSE stream[g][j]
    BY <1>1, <1>2, <1>4, OneStream
  <2> QED
    BY <1>3, <2>1 DEF Streams
<1>6. Alike
  BY <1>1, <1>5 DEF Alike
<1>7. MemoryTypes'
  BY <1>1, <1>2, <1>4, OneStream DEF MemoryTypes
<1>8. ChannelTypes' /\ CnxsUsed' /\ QueriesNew'
  BY <1>1, <1>2, <1>7 DEF HeldInv, ChannelTypes, CnxsUsed, QueriesNew
<1> QED
  BY <1>1, <1>6, <1>8, QuietKeeps

LEMMA TailOfBoth ==
  ASSUME NEW M, NEW q \in Seq(M), q # <<>>, NEW a \in Seq(M) PROVE Tail(q \o a) = Tail(q) \o a
<1> DEFINE x == Tail(q \o a)
           y == Tail(q) \o a
<1>1. Len(q) \in Nat /\ Len(q) > 0 /\ Len(a) \in Nat /\ q \o a \in Seq(M) /\ Len(q \o a) = Len(q) + Len(a)
  OBVIOUS
<1>2. Tail(q) \in Seq(M) /\ Len(Tail(q)) = Len(q) - 1
  BY <1>1
<1>3. x \in Seq(M) /\ Len(x) = Len(q) + Len(a) - 1 /\ q \o a # <<>>
  BY <1>1
<1>4. y \in Seq(M) /\ Len(y) = Len(q) - 1 + Len(a)
  BY <1>1, <1>2
<1>5. ASSUME NEW i \in 1 .. Len(x) PROVE x[i] = y[i]
  <2>1. x[i] = (q \o a)[i + 1]
    BY <1>1, <1>3
  <2>2. i + 1 \in 1 .. Len(q) + Len(a) /\ i \in 1 .. Len(q) - 1 + Len(a)
    BY <1>1, <1>3
  <2>3. (q \o a)[i + 1] = IF i + 1 <= Len(q) THEN q[i + 1] ELSE a[i + 1 - Len(q)]
    BY <1>1, <2>2
  <2>4. y[i] = IF i <= Len(q) - 1 THEN Tail(q)[i] ELSE a[i - (Len(q) - 1)]
    BY <1>1, <1>2, <2>2
  <2>5. i <= Len(q) - 1 => Tail(q)[i] = q[i + 1]
    BY <1>1, <1>2
  <2>6. i + 1 - Len(q) = i - (Len(q) - 1) /\ (i + 1 <= Len(q) <=> i <= Len(q) - 1)
    BY <1>1
  <2> QED
    BY <2>1, <2>3, <2>4, <2>5, <2>6
<1> HIDE DEF x, y
<1>6. x = y
  BY <1>1, <1>3, <1>4, <1>5
<1> QED
  BY <1>6 DEF x, y

LEMMA CopyKeeps ==
  ASSUME HeldInv, NEW e \in Ends, serve_copy(e) PROVE HeldInv'
<1> DEFINE m == Head_(e)
           h == Host(e)
           k == tx[e][m.id].key
           s == stream[h][k]
<1>1. /\ ends[e] = "open" /\ pend[e] = NoPend /\ net[e] # <<>> /\ m.t = "copy"
      /\ UNCHANGED <<put, owner, stream, proc, main, next, todo, ends, user>>
  BY DEF serve_copy, Reading, client
<1>2. ChannelTypes /\ MemoryTypes
  BY DEF HeldInv, ChannelTypes
<1>3. net[e] \in Seq(Msgs) /\ m = net[e][1] /\ m \in Msgs
  <2>1. net[e] \in Seq(Msgs)
    BY <1>2 DEF ChannelTypes
  <2> QED
    BY <1>1, <2>1 DEF Head_
<1>4. m \in Copies
  BY <1>1, <1>3 DEF Msgs, Copies, Queries, Answers, Notes
<1>5. m.id \in Ids /\ m.off \in Nat /\ m.data \in Seq(Nat) /\ m.eof \in BOOLEAN /\ Len(m.data) \in Nat
  BY <1>4 DEF Copies
<1>6. tx[e][m.id] \in Txs
  BY <1>2, <1>5 DEF MemoryTypes
<1> HIDE DEF m
<1>7. CASE ~ tx[e][m.id].attached
  <2>1. net' = [net EXCEPT ![e] = Tail(@)] /\ UNCHANGED <<file, tx, pend>>
    BY <1>7 DEF serve_copy, Consumed, m
  <2>2. \A f \in Ends : net'[f] = IF f = e THEN Tail(net[f]) ELSE net[f]
    BY <1>2, <2>1 DEF ChannelTypes
  <2>3. \A f \in Ends : \E a : Plain(a) /\ (net'[f] = net[f] \o a \/ (net[f] # <<>> /\ net'[f] = Tail(net[f]) \o a))
    <3> SUFFICES ASSUME NEW f \in Ends
                 PROVE  net'[f] = net[f] \o <<>> \/ (net[f] # <<>> /\ net'[f] = Tail(net[f]) \o <<>>)
      BY PlainOf
    <3>1. net[f] \in Seq(Msgs)
      BY <1>2 DEF ChannelTypes
    <3> QED
      BY <1>1, <2>2, <3>1
  <2>4. net' = [f \in Ends |-> net'[f]] /\ DOMAIN net' = Ends
    BY <1>2, <2>1 DEF ChannelTypes
  <2>5. Alike
    BY <1>1, <2>1 DEF Alike
  <2>6. MemoryTypes' /\ file' \in [Hosts -> [Resources -> Seq(Nat)]]
    BY <1>1, <1>2, <2>1 DEF MemoryTypes, ChannelTypes
  <2>7. \A f \in Ends : ends[f] \in {"none", "closed"} => net'[f] = net[f]
    BY <1>1, <2>2
  <2> QED
    BY <1>1, <2>1, <2>3, <2>4, <2>5, <2>6, <2>7, QuietStep
<1>8. CASE tx[e][m.id].attached
  <2> DEFINE ts == s.readers
             w == IF m.eof THEN ts ELSE {}
             p == [id |-> m.id, off |-> m.off, len |-> Len(m.data), eof |-> m.eof, wait |-> w]
             T == Advanced(ts, Len(m.data))
             N == Sent(ts, m.data, m.eof)
             g == Written(T[e][m.id].got, m.off, m.data, m.eof)
  <2>1. /\ file' = IF s.linked THEN [file EXCEPT ![h][s.res] = Written(@, m.off, m.data, m.eof)] ELSE file
        /\ net' = [N EXCEPT ![e] = Tail(@)]
        /\ tx' = [T EXCEPT ![e][m.id].got = Written(@, m.off, m.data, m.eof)]
        /\ pend' = [pend EXCEPT ![e] = p]
    BY <1>8 DEF serve_copy, m
  <2>2. tx[e][m.id].kind # "none" /\ tx[e][m.id].key \in Resources \cup Ids /\ k \in Keys
    <3>1. tx[e][m.id].kind # "none"
      BY <1>5, <1>8 DEF HeldInv, TxsNamed
    <3>2. tx[e][m.id].key \in Resources \cup {m.id}
      BY <1>5, <3>1 DEF HeldInv, TxsNamed
    <3> QED
      BY <1>5, <3>1, <3>2 DEF Keys
  <2>3. h \in Hosts
    <3>1. ends[e] # "none" /\ e[2] \in Cnxs /\ (e = ClientEnd(e[2]) \/ e = ServerEnd(e[2]))
      BY <1>1, EndFacts
    <3>2. user[e[2]] # NoOne
      BY <3>1 DEF HeldInv, CnxsUsed
    <3>3. user[e[2]] \in Clients
      BY <1>2, <3>1, <3>2 DEF ChannelTypes
    <3> QED
      BY <3>3 DEF Host, Hosts
  <2>4. s \in Streams /\ ts \in SUBSET Parties /\ \A t \in ts : ends[t[1]] \in {"open", "ended"}
    BY <2>2, <2>3, ReadersAttached
  <2>5. s.count > 0 /\ s.res \in Resources
    <3>1. <<e, m.id>> \in Mine(h, k)
      BY <1>5, <1>8 DEF Mine, Parties
    <3>2. Counted(h, k)
      BY <2>2, <2>3 DEF HeldInv
    <3> HIDE DEF k, h
    <3>3. Cardinality(Mine(h, k)) # 0 /\ Cardinality(Mine(h, k)) \in Nat
      BY <3>1, MineFinite, FS_EmptySet
    <3>4. s.count >= Cardinality(Mine(h, k)) + Pending(h, k) /\ Pending(h, k) \in Nat
      BY <3>2 DEF Counted, Pending
    <3>5. s.count \in Nat
      BY <2>4 DEF Streams
    <3>6. s.count > 0
      BY <3>3, <3>4, <3>5
    <3> QED
      BY <3>2, <3>6 DEF Counted
  <2> HIDE DEF s, h, k
  <2>6. file' \in [Hosts -> [Resources -> Seq(Nat)]]
    <3>1. file \in [Hosts -> [Resources -> Seq(Nat)]] /\ file[h][s.res] \in Seq(Nat)
      BY <1>2, <2>3, <2>5 DEF ChannelTypes
    <3>2. Written(file[h][s.res], m.off, m.data, m.eof) \in Seq(Nat)
      BY <1>5, <3>1, WrittenType
    <3> QED
      BY <2>1, <2>3, <2>5, <3>1, <3>2
  <2>7. /\ N \in [Ends -> Seq(Msgs)]
        /\ \A f \in Ends : \E a : Plain(a) /\ N[f] = net[f] \o a
        /\ \A f \in Ends : ends[f] \in {"none", "closed"} => N[f] = net[f]
    <3>1. ts \in SUBSET Parties /\ m.data \in Seq(Nat)
      BY <1>5, <2>4
    <3> HIDE DEF ts
    <3>2. \A b \in BOOLEAN :
            /\ Sent(ts, m.data, b) \in [Ends -> Seq(Msgs)]
            /\ \A f \in Ends : \E a : Plain(a) /\ Sent(ts, m.data, b)[f] = net[f] \o a
            /\ \A f \in Ends : ends[f] \in {"none", "closed"} => Sent(ts, m.data, b)[f] = net[f]
      BY <3>1, SentQuiet, Zenon
    <3> QED
      BY <1>5, <3>2, Zenon
  <2>8. /\ T \in [Ends -> [Ids -> Txs]]
        /\ \A f \in Ends : \A i \in Ids :
             T[f][i] = IF <<f, i>> \in ts THEN [tx[f][i] EXCEPT !.end = @ + Len(m.data)] ELSE tx[f][i]
        /\ \A f \in Ends : (\A t \in ts : t[1] # f) => T[f] = tx[f]
    <3>1. ts \in SUBSET Parties /\ Len(m.data) \in Nat
      BY <1>5, <2>4
    <3> HIDE DEF ts
    <3> QED
      BY <1>2, <3>1, AdvancedAlike
  <2> HIDE DEF N, T
  <2>9. g \in Seq(Nat) /\ T[e][m.id] \in Txs /\ [T[e][m.id] EXCEPT !.got = g] \in Txs
    <3>1. T[e][m.id] \in Txs
      BY <1>5, <2>8
    <3>2. T[e][m.id].got \in Seq(Nat)
      BY <3>1 DEF Txs
    <3>3. g \in Seq(Nat)
      BY <1>5, <3>2, WrittenType
    <3> HIDE DEF g
    <3> QED
      BY <3>1, <3>3, TxsKeep
  <2>10. /\ tx' \in [Ends -> [Ids -> Txs]]
         /\ \A f \in Ends : \A i \in Ids : tx'[f][i] = IF f = e /\ i = m.id THEN [T[e][m.id] EXCEPT !.got = g] ELSE T[f][i]
         /\ \A f \in Ends : f # e => tx'[f] = T[f]
    <3>1. tx' = [T EXCEPT ![e][m.id].got = g]
      BY <2>1
    <3> DEFINE v == [T[e][m.id] EXCEPT !.got = g]
    <3>2. tx' = [T EXCEPT ![e][m.id] = v]
      <4> HIDE DEF g
      <4> QED
        BY <3>1
    <3>3. v \in Txs
      BY <2>9
    <3> HIDE DEF v
    <3>4. /\ tx' \in [Ends -> [Ids -> Txs]]
          /\ \A f \in Ends : \A i \in Ids : tx'[f][i] = IF f = e /\ i = m.id THEN v ELSE T[f][i]
          /\ \A f \in Ends : f # e => tx'[f] = T[f]
      BY <1>5, <2>8, <3>2, <3>3
    <3> QED
      BY <3>4 DEF v
  <2>11. pend' \in [Ends -> Pends] /\ \A f \in Ends : f # e => pend'[f] = pend[f]
    <3>1. w \in SUBSET Parties
      BY <2>4
    <3> HIDE DEF w
    <3>2. p \in Pends
      BY <1>5, <3>1 DEF Pends
    <3> HIDE DEF p
    <3> QED
      BY <1>2, <2>1, <3>2 DEF MemoryTypes
  <2>12. MemoryTypes'
    BY <1>1, <1>2, <2>10, <2>11 DEF MemoryTypes
  <2>13. Alike
    <3>1. ASSUME NEW f \in Ends, NEW i \in Ids
          PROVE  /\ tx'[f][i].attached = tx[f][i].attached /\ tx'[f][i].kind = tx[f][i].kind
                 /\ tx'[f][i].key = tx[f][i].key /\ tx'[f][i].status = tx[f][i].status
      <4>1. tx[f][i] \in Txs /\ T[f][i] \in Txs
        BY <1>2, <2>8 DEF MemoryTypes
      <4>2. /\ T[f][i].attached = tx[f][i].attached /\ T[f][i].kind = tx[f][i].kind
            /\ T[f][i].key = tx[f][i].key /\ T[f][i].status = tx[f][i].status
        <5>1. CASE <<f, i>> \in ts
          <6>1. T[f][i] = [tx[f][i] EXCEPT !.end = @ + Len(m.data)]
            BY <2>8, <5>1
          <6> QED
            BY <4>1, <6>1 DEF Txs
        <5>2. CASE <<f, i>> \notin ts
          BY <2>8, <5>2
        <5> QED
          BY <5>1, <5>2
      <4>3. tx'[f][i] = T[f][i] \/ tx'[f][i] = [T[f][i] EXCEPT !.got = g]
        BY <2>10
      <4> HIDE DEF g
      <4> QED
        BY <4>1, <4>2, <4>3 DEF Txs
    <3> QED
      BY <1>1, <3>1 DEF Alike
  <2>14. \A f \in Ends : ends[f] \in {"none", "connecting", "closed"} => pend'[f] = pend[f] /\ tx'[f] = tx[f]
    <3> SUFFICES ASSUME NEW f \in Ends, ends[f] \in {"none", "connecting", "closed"}
                 PROVE  pend'[f] = pend[f] /\ tx'[f] = tx[f]
      OBVIOUS
    <3>1. f # e /\ \A t \in ts : t[1] # f
      BY <1>1, <2>4
    <3> QED
      BY <2>8, <2>10, <2>11, <3>1
  <2>15. net' \in [Ends -> Seq(Msgs)] /\ \A f \in Ends : net'[f] = IF f = e THEN Tail(N[f]) ELSE N[f]
    <3>1. N[e] # <<>> /\ N[e] \in Seq(Msgs)
      <4>1. PICK a : Plain(a) /\ N[e] = net[e] \o a
        BY <2>7
      <4>2. a \in Seq(Msgs)
        BY <4>1 DEF Plain
      <4> QED
        BY <1>1, <1>3, <4>1, <4>2
    <3>2. Tail(N[e]) \in Seq(Msgs)
      BY <3>1
    <3> QED
      BY <2>1, <2>7, <3>2
  <2>16. \A f \in Ends : \E a : Plain(a) /\ (net'[f] = net[f] \o a \/ (net[f] # <<>> /\ net'[f] = Tail(net[f]) \o a))
    <3> SUFFICES ASSUME NEW f \in Ends
                 PROVE  \E a : Plain(a) /\ (net'[f] = net[f] \o a \/ (net[f] # <<>> /\ net'[f] = Tail(net[f]) \o a))
      OBVIOUS
    <3>1. PICK a : Plain(a) /\ N[f] = net[f] \o a
      BY <2>7
    <3>2. net[f] \in Seq(Msgs) /\ a \in Seq(Msgs)
      BY <1>2, <3>1 DEF ChannelTypes, Plain
    <3>3. f = e => Tail(N[f]) = Tail(net[f]) \o a /\ net[f] # <<>>
      BY <1>1, <3>1, <3>2, TailOfBoth
    <3> QED
      BY <2>15, <3>1, <3>3
  <2>17. \A f \in Ends : ends[f] \in {"none", "closed"} => net'[f] = net[f]
    BY <1>1, <2>7, <2>15
  <2> QED
    BY <1>1, <2>6, <2>12, <2>13, <2>14, <2>15, <2>16, <2>17, QuietStep
<1> QED
  BY <1>7, <1>8

(* What a queue is after a message was taken from one end and another one  *)
(* was sent to the other end.                                              *)
LEMMA Delivered ==
  ASSUME ChannelTypes, NEW e \in Ends
  PROVE  \A msgs \in Seq(Msgs) :
         /\ Deliver(net, e, msgs) \in [Ends -> Seq(Msgs)]
         /\ \A f \in Ends : Deliver(net, e, msgs)[f] = IF f = e /\ ends[e] # "closed" THEN net[f] \o msgs ELSE net[f]
<1> SUFFICES ASSUME NEW msgs \in Seq(Msgs)
             PROVE  /\ Deliver(net, e, msgs) \in [Ends -> Seq(Msgs)]
                    /\ \A f \in Ends : Deliver(net, e, msgs)[f]
                         = IF f = e /\ ends[e] # "closed" THEN net[f] \o msgs ELSE net[f]
  OBVIOUS
<1>1. net \in [Ends -> Seq(Msgs)] /\ net[e] \o msgs \in Seq(Msgs)
  BY DEF ChannelTypes
<1> QED
  BY <1>1 DEF Deliver

LEMMA OtherNone ==
  ASSUME HeldInv, NEW e \in Ends PROVE ends[e] = "none" <=> ends[Other(e)] = "none"
<1>1. e[2] \in Cnxs /\ (e = ClientEnd(e[2]) \/ e = ServerEnd(e[2]))
  BY EndFacts
<1>2. Other(e) = ClientEnd(e[2]) \/ Other(e) = ServerEnd(e[2])
  BY <1>1, EndFacts
<1> QED
  BY <1>1, <1>2 DEF HeldInv, CnxsUsed

LEMMA RegisterKeeps ==
  ASSUME HeldInv, NEW e \in Ends, RegisterFragment(e) PROVE HeldInv'
<1> DEFINE p == pend[e]
           q == insert_by_offset(tx[e][p.id].frags, [start |-> p.off, end |-> p.off + p.len, eof |-> p.eof])
           c == check_in_frags(q, FALSE)
<1>1. /\ p # NoPend /\ pend' = [pend EXCEPT ![e] = NoPend]
      /\ tx' = [tx EXCEPT ![e][p.id].frags = c]
      /\ net' = IF Complete(c) THEN Deliver(net, Other(e), Thanks(p.id)) ELSE net
      /\ UNCHANGED <<file, put, owner, stream, proc, main, next, todo, ends, user>>
  BY DEF RegisterFragment, disk, client
<1>2. ChannelTypes /\ MemoryTypes
  BY DEF HeldInv, ChannelTypes
<1>3. p.id \in Ids /\ p.off \in Nat /\ p.len \in Nat /\ p.eof \in BOOLEAN
  <2>1. p \in Pends
    BY <1>2 DEF MemoryTypes
  <2> QED
    BY <1>1, <2>1 DEF Pends
<1>4. tx[e][p.id] \in Txs /\ tx[e][p.id].frags \in Seq(Frags)
  <2>1. tx[e][p.id] \in Txs
    BY <1>2, <1>3 DEF MemoryTypes
  <2> QED
    BY <2>1 DEF Txs
<1>5. c \in Seq(Frags)
  <2> DEFINE f == [start |-> p.off, end |-> p.off + p.len, eof |-> p.eof]
  <2>1. f \in Frags
    BY <1>3 DEF Frags
  <2> HIDE DEF f
  <2>2. insert_by_offset(tx[e][p.id].frags, f) \in Seq(Frags)
    BY <1>4, <2>1, InsertedType
  <2>3. q \in Seq(Frags)
    BY <2>2 DEF f
  <2> HIDE DEF q
  <2> QED
    BY <2>3, CheckedType
<1> HIDE DEF c
<1> DEFINE v == [tx[e][p.id] EXCEPT !.frags = c]
<1>6. v \in Txs
  BY <1>4, <1>5, TxsKeep
<1>7. tx' = [tx EXCEPT ![e][p.id] = v]
  BY <1>1
<1>8. /\ v.attached = tx[e][p.id].attached /\ v.kind = tx[e][p.id].kind
      /\ v.key = tx[e][p.id].key /\ v.status = tx[e][p.id].status
  BY <1>4 DEF Txs
<1> HIDE DEF v
<1>9. /\ tx' \in [Ends -> [Ids -> Txs]]
      /\ \A f \in Ends : \A i \in Ids : tx'[f][i] = IF f = e /\ i = p.id THEN v ELSE tx[f][i]
      /\ \A f \in Ends : f # e => tx'[f] = tx[f]
  BY <1>2, <1>3, <1>6, <1>7, OneTx
<1>10. Alike
  BY <1>1, <1>8, <1>9 DEF Alike
<1>11. MemoryTypes'
  <2>1. NoPend \in Pends
    BY DEF Pends
  <2> QED
    BY <1>1, <1>2, <1>9, <2>1 DEF MemoryTypes
<1>12. ends[e] \in {"open", "ended"} /\ ends[Other(e)] # "none"
  <2>1. ends[e] \in {"open", "ended"}
    BY <1>1 DEF HeldInv, ChannelTypes, CnxsUsed
  <2> QED
    BY <2>1, OtherNone
<1>13. Plain(Thanks(p.id)) /\ Plain(<<>>) /\ Thanks(p.id) \in Seq(Msgs)
  <2> DEFINE n == [t |-> "thx", id |-> p.id]
  <2>1. n \in Notes
    BY <1>3 DEF Notes
  <2>2. Thanks(p.id) = <<n>>
    BY DEF Thanks
  <2> HIDE DEF n
  <2>3. Plain(Thanks(p.id))
    BY <2>1, <2>2, PlainOf
  <2> QED
    BY <2>3, PlainOf DEF Plain
<1>14. /\ net' \in [Ends -> Seq(Msgs)]
       /\ \A f \in Ends : \/ net'[f] = net[f]
                          \/ f = Other(e) /\ ends[f] # "closed" /\ net'[f] = net[f] \o Thanks(p.id)
  <2> DEFINE D == Deliver(net, Other(e), Thanks(p.id))
  <2>1. Other(e) \in Ends
    BY EndsFinite
  <2>2. /\ D \in [Ends -> Seq(Msgs)]
        /\ \A f \in Ends : D[f] = IF f = Other(e) /\ ends[Other(e)] # "closed" THEN net[f] \o Thanks(p.id) ELSE net[f]
    BY <1>2, <1>13, <2>1, Delivered, Zenon
  <2> HIDE DEF D
  <2>3. net' = D \/ net' = net
    BY <1>1 DEF D
  <2> QED
    BY <1>2, <2>2, <2>3 DEF ChannelTypes
<1>15. \A f \in Ends : \E a : Plain(a) /\ (net'[f] = net[f] \o a \/ (net[f] # <<>> /\ net'[f] = Tail(net[f]) \o a))
  <2>1. \A f \in Ends : net[f] \o <<>> = net[f]
    <3>1. \A f \in Ends : net[f] \in Seq(Msgs)
      BY <1>2 DEF ChannelTypes
    <3> QED
      BY <3>1
  <2> QED
    BY <1>13, <1>14, <2>1
<1>16. \A f \in Ends : ends[f] \in {"none", "closed"} => net'[f] = net[f]
  BY <1>12, <1>14
<1>17. \A f \in Ends : ends[f] \in {"none", "connecting", "closed"} => pend'[f] = pend[f] /\ tx'[f] = tx[f]
  BY <1>1, <1>2, <1>9, <1>12 DEF MemoryTypes
<1>18. file' \in [Hosts -> [Resources -> Seq(Nat)]]
  BY <1>1, <1>2 DEF ChannelTypes
<1> QED
  BY <1>1, <1>10, <1>11, <1>14, <1>15, <1>16, <1>17, <1>18, QuietStep

LEMMA CheckerKeeps ==
  ASSUME HeldInv, NEW e \in Ends, NEW i \in Ids, tx_checker(e, i) PROVE HeldInv'
<1> DEFINE c == check_in_frags(tx[e][i].frags, TRUE)
           n == [t |-> "miss", id |-> i]
<1>1. /\ ends[e] = "open"
      /\ tx' = [tx EXCEPT ![e][i].frags = c]
      /\ net' = Deliver(net, Other(e), <<n>>)
      /\ UNCHANGED <<file, put, owner, stream, pend, proc, main, next, todo, ends, user>>
  BY DEF tx_checker, disk, client
<1>2. ChannelTypes /\ MemoryTypes
  BY DEF HeldInv, ChannelTypes
<1>4. tx[e][i] \in Txs /\ tx[e][i].frags \in Seq(Frags)
  <2>1. tx[e][i] \in Txs
    BY <1>2 DEF MemoryTypes
  <2> QED
    BY <2>1 DEF Txs
<1>5. c \in Seq(Frags)
  BY <1>4, CheckedType
<1> HIDE DEF c
<1> DEFINE v == [tx[e][i] EXCEPT !.frags = c]
<1>6. v \in Txs
  BY <1>4, <1>5, TxsKeep
<1>7. tx' = [tx EXCEPT ![e][i] = v]
  BY <1>1
<1>8. /\ v.attached = tx[e][i].attached /\ v.kind = tx[e][i].kind
      /\ v.key = tx[e][i].key /\ v.status = tx[e][i].status
  BY <1>4 DEF Txs
<1> HIDE DEF v
<1>9. /\ tx' \in [Ends -> [Ids -> Txs]]
      /\ \A f \in Ends : \A j \in Ids : tx'[f][j] = IF f = e /\ j = i THEN v ELSE tx[f][j]
      /\ \A f \in Ends : f # e => tx'[f] = tx[f]
  BY <1>2, <1>6, <1>7, OneTx
<1>10. Alike
  BY <1>1, <1>8, <1>9 DEF Alike
<1>11. MemoryTypes'
  BY <1>1, <1>2, <1>9 DEF MemoryTypes
<1>12. ends[Other(e)] # "none"
  BY <1>1, OtherNone
<1>13. Plain(<<n>>) /\ Plain(<<>>) /\ <<n>> \in Seq(Msgs)
  <2>1. n \in Notes
    BY DEF Notes
  <2> HIDE DEF n
  <2> QED
    BY <2>1, PlainOf DEF Plain
<1> HIDE DEF n
<1>14. /\ net' \in [Ends -> Seq(Msgs)]
       /\ \A f \in Ends : net'[f] = IF f = Other(e) /\ ends[Other(e)] # "closed" THEN net[f] \o <<n>> ELSE net[f]
  <2>1. Other(e) \in Ends
    BY EndsFinite
  <2> QED
    BY <1>1, <1>2, <1>13, <2>1, Delivered
<1>15. \A f \in Ends : \E a : Plain(a) /\ (net'[f] = net[f] \o a \/ (net[f] # <<>> /\ net'[f] = Tail(net[f]) \o a))
  <2>1. \A f \in Ends : net[f] \o <<>> = net[f]
    <3>1. \A f \in Ends : net[f] \in Seq(Msgs)
      BY <1>2 DEF ChannelTypes
    <3> QED
      BY <3>1
  <2> QED
    BY <1>13, <1>14, <2>1
<1>16. \A f \in Ends : ends[f] \in {"none", "closed"} => net'[f] = net[f]
  BY <1>12, <1>14
<1>17. \A f \in Ends : ends[f] \in {"none", "connecting", "closed"} => pend'[f] = pend[f] /\ tx'[f] = tx[f]
  BY <1>1, <1>9
<1>18. file' \in [Hosts -> [Resources -> Seq(Nat)]]
  BY <1>1, <1>2 DEF ChannelTypes
<1> QED
  BY <1>1, <1>10, <1>11, <1>14, <1>15, <1>16, <1>17, <1>18, QuietStep

LEMMA MissKeeps ==
  ASSUME HeldInv, NEW e \in Ends, serve_miss(e) PROVE HeldInv'
<1>1. /\ ends[e] = "open" /\ net[e] # <<>> /\ net' = [net EXCEPT ![e] = Tail(@)]
      /\ UNCHANGED <<file, put, owner, stream, tx, pend, proc, main, next, todo, ends, user>>
  BY DEF serve_miss, Reading, Consumed, disk, memory, client
<1>2. ChannelTypes /\ MemoryTypes
  BY DEF HeldInv, ChannelTypes
<1>3. net \in [Ends -> Seq(Msgs)] /\ Tail(net[e]) \in Seq(Msgs)
  <2>1. net \in [Ends -> Seq(Msgs)]
    BY <1>2 DEF ChannelTypes
  <2>2. net[e] \in Seq(Msgs)
    BY <2>1
  <2> QED
    BY <1>1, <2>1, <2>2
<1>4. net' \in [Ends -> Seq(Msgs)] /\ \A f \in Ends : net'[f] = IF f = e THEN Tail(net[f]) ELSE net[f]
  BY <1>1, <1>3
<1>5. \A f \in Ends : \E a : Plain(a) /\ (net'[f] = net[f] \o a \/ (net[f] # <<>> /\ net'[f] = Tail(net[f]) \o a))
  <2>1. \A f \in Ends : net'[f] \o <<>> = net'[f]
    <3>1. \A f \in Ends : net'[f] \in Seq(Msgs)
      BY <1>4
    <3> QED
      BY <3>1
  <2>2. \A f \in Ends : net'[f] = net[f] \/ (net[f] # <<>> /\ net'[f] = Tail(net[f]))
    BY <1>1, <1>4
  <2>3. \A f \in Ends : net'[f] = net[f] \o <<>> \/ (net[f] # <<>> /\ net'[f] = Tail(net[f]) \o <<>>)
    BY <2>1, <2>2
  <2> QED
    BY <2>3, PlainOf
<1>6. Alike /\ MemoryTypes' /\ file' \in [Hosts -> [Resources -> Seq(Nat)]]
  BY <1>1, <1>2 DEF Alike, MemoryTypes, ChannelTypes
<1>7. \A f \in Ends : ends[f] \in {"none", "closed"} => net'[f] = net[f]
  BY <1>1, <1>4
<1> QED
  BY <1>1, <1>4, <1>5, <1>6, <1>7, QuietStep

-----------------------------------------------------------------------------
(* Steps that change references.                                           *)

(* One stream changes, the transfers do not.                               *)
LEMMA StreamStep ==
  ASSUME HeldInv, NEW h \in Hosts, NEW k \in Keys, NEW s \in Streams, UNCHANGED <<tx, user>>,
         stream' = [stream EXCEPT ![h][k] = s],
         s.count >= Cardinality(Mine(h, k)) + Pending(h, k)', s.count > 0 => s.res \in Resources,
         s.readers = Mine(h, k) \ Writers(h, k), s.writer <=> Writers(h, k) # {},
         \A g \in Hosts : \A j \in Keys : g # h \/ j # k => Pending(g, j)' = Pending(g, j)
  PROVE  \A g \in Hosts : \A j \in Keys : Counted(g, j)'
<1>1. MemoryTypes
  BY DEF HeldInv, ChannelTypes
<1>2. \A g, j : Mine(g, j)' = Mine(g, j)
  BY DEF Mine, Host
<1>3. \A g, j : Writers(g, j)' = Writers(g, j)
  BY <1>2 DEF Writers
<1> SUFFICES ASSUME NEW g \in Hosts, NEW j \in Keys PROVE Counted(g, j)'
  OBVIOUS
<1>4. stream'[g][j] = IF g = h /\ j = k THEN s ELSE stream[g][j]
  BY <1>1, OneStream
<1>5. Counted(g, j)
  BY DEF HeldInv
<1> QED
  BY <1>2, <1>3, <1>4, <1>5 DEF Counted

(* One transfer of one stream changes.                                     *)
Attaching(e, i, v, h, k, s) ==
  /\ h = Host(e) /\ user' = user /\ tx' = [tx EXCEPT ![e][i] = v] /\ stream' = [stream EXCEPT ![h][k] = s]
  /\ tx[e][i].attached => tx[e][i].key = k
  /\ v.attached => v.key = k

Attached(e, i, v, h, k, s) ==
  /\ \A g \in Hosts : \A j \in Keys : g # h \/ j # k =>
       Mine(g, j)' = Mine(g, j) /\ Writers(g, j)' = Writers(g, j) /\ stream'[g][j] = stream[g][j]
  /\ Mine(h, k)' = (Mine(h, k) \ {<<e, i>>}) \cup (IF v.attached THEN {<<e, i>>} ELSE {})
  /\ Writers(h, k)' = (Writers(h, k) \ {<<e, i>>})
                        \cup (IF v.attached /\ v.kind = "receiver" THEN {<<e, i>>} ELSE {})
  /\ stream'[h][k] = s

LEMMA TxStep ==
  ASSUME HeldInv, NEW e \in Ends, NEW i \in Ids, NEW v \in Txs, NEW h \in Hosts, NEW k \in Keys, NEW s \in Streams,
         Attaching(e, i, v, h, k, s)
  PROVE  Attached(e, i, v, h, k, s)
<1>0. /\ h = Host(e) /\ user' = user /\ tx' = [tx EXCEPT ![e][i] = v] /\ stream' = [stream EXCEPT ![h][k] = s]
      /\ tx[e][i].attached => tx[e][i].key = k
      /\ v.attached => v.key = k
  BY DEF Attaching
<1>1. MemoryTypes
  BY DEF HeldInv, ChannelTypes
<1>2. \A f \in Ends : \A j \in Ids : tx'[f][j] = IF f = e /\ j = i THEN v ELSE tx[f][j]
  BY <1>0, <1>1, OneTx
<1>3. \A g \in Hosts : \A j \in Keys : stream'[g][j] = IF g = h /\ j = k THEN s ELSE stream[g][j]
  BY <1>0, <1>1, OneStream
<1>4. \A t \in Parties : t[1] \in Ends /\ t[2] \in Ids /\ t = <<t[1], t[2]>>
  BY DEF Parties
<1>5. \A f : Host(f)' = Host(f)
  BY <1>0 DEF Host
<1>6. ASSUME NEW g \in Hosts, NEW j \in Keys, g # h \/ j # k
      PROVE  Mine(g, j)' = Mine(g, j) /\ Writers(g, j)' = Writers(g, j)
  <2>1. ASSUME NEW t \in Parties
        PROVE  /\ tx'[t[1]][t[2]].attached /\ tx'[t[1]][t[2]].key = j /\ Host(t[1])' = g
                  <=> tx[t[1]][t[2]].attached /\ tx[t[1]][t[2]].key = j /\ Host(t[1]) = g
    BY <1>0, <1>2, <1>4, <1>5, <1>6
  <2>2. Mine(g, j)' = Mine(g, j)
    BY <2>1 DEF Mine
  <2>3. \A t \in Mine(g, j) : t # <<e, i>> /\ t \in Parties
    BY <1>0, <1>6 DEF Mine
  <2>4. \A t \in Mine(g, j) : tx'[t[1]][t[2]] = tx[t[1]][t[2]]
    BY <1>2, <1>4, <2>3
  <2> QED
    BY <2>2, <2>4 DEF Writers
<1>7. <<e, i>> \in Parties
  BY DEF Parties
<1>8. ASSUME NEW t \in Parties
      PROVE  t \in Mine(h, k)' <=> t \in (Mine(h, k) \ {<<e, i>>}) \cup (IF v.attached THEN {<<e, i>>} ELSE {})
  <2>1. CASE t = <<e, i>>
    <3>1. tx'[t[1]][t[2]] = v /\ Host(t[1])' = h
      BY <1>0, <1>2, <1>5, <2>1
    <3> QED
      BY <1>0, <2>1, <3>1 DEF Mine
  <2>2. CASE t # <<e, i>>
    <3>1. tx'[t[1]][t[2]] = tx[t[1]][t[2]] /\ Host(t[1])' = Host(t[1])
      BY <1>2, <1>4, <1>5, <2>2
    <3> QED
      BY <2>2, <3>1 DEF Mine
  <2> QED
    BY <2>1, <2>2
<1>9. Mine(h, k) \subseteq Parties /\ Mine(h, k)' \subseteq Parties
  BY DEF Mine
<1>10. Mine(h, k)' = (Mine(h, k) \ {<<e, i>>}) \cup (IF v.attached THEN {<<e, i>>} ELSE {})
  BY <1>7, <1>8, <1>9
<1>11. ASSUME NEW t \in Parties
       PROVE  t \in Writers(h, k)' <=> t \in (Writers(h, k) \ {<<e, i>>})
                               \cup (IF v.attached /\ v.kind = "receiver" THEN {<<e, i>>} ELSE {})
  <2>1. CASE t = <<e, i>>
    <3>1. tx'[t[1]][t[2]] = v
      BY <1>2, <2>1
    <3> QED
      BY <1>10, <2>1, <3>1 DEF Writers
  <2>2. CASE t # <<e, i>>
    <3>1. tx'[t[1]][t[2]] = tx[t[1]][t[2]]
      BY <1>2, <1>4, <2>2
    <3> QED
      BY <1>10, <2>2, <3>1 DEF Writers
  <2> QED
    BY <2>1, <2>2
<1>12. Writers(h, k) \subseteq Parties /\ Writers(h, k)' \subseteq Parties
  BY <1>9 DEF Writers
<1>13. Writers(h, k)' = (Writers(h, k) \ {<<e, i>>})
                               \cup (IF v.attached /\ v.kind = "receiver" THEN {<<e, i>>} ELSE {})
  BY <1>7, <1>11, <1>12
<1> QED
  BY <1>3, <1>6, <1>10, <1>13 DEF Attached

(* How the number of transfers of a stream changes.                        *)
LEMMA MineCounts ==
  ASSUME NEW A, IsFiniteSet(A), NEW t
  PROVE  /\ Cardinality(A) \in Nat
         /\ t \notin A => Cardinality(A \cup {t}) = Cardinality(A) + 1
         /\ t \in A => Cardinality(A \ {t}) = Cardinality(A) - 1 /\ Cardinality(A) > 0
         /\ t \notin A => A \ {t} = A
<1>1. Cardinality(A) \in Nat
  BY FS_CardinalityType
<1>2. t \notin A => Cardinality(A \cup {t}) = Cardinality(A) + 1
  BY FS_AddElement
<1>3. t \in A => Cardinality(A \ {t}) = Cardinality(A) - 1
  BY FS_RemoveElement
<1>4. t \in A => Cardinality(A) > 0
  <2>1. t \in A => Cardinality(A) # 0
    BY FS_EmptySet
  <2> QED
    BY <1>1, <2>1
<1> QED
  BY <1>1, <1>2, <1>3, <1>4

LEMMA NoStreamType == NoStream \in Streams /\ NoTx \in Txs /\ NoPend \in Pends /\ NoCmd \in Cmds
<1>1. <<>> \in Seq(Frags) /\ <<>> \in Seq(Nat)
  OBVIOUS
<1> QED
  BY <1>1 DEF NoStream, Streams, NoTx, Txs, NoPend, Pends, NoCmd, Cmds

(* An empty stream has no transfers.                                       *)
LEMMA Unused ==
  ASSUME HeldInv, NEW h \in Hosts, NEW k \in Keys, stream[h][k].count = 0
  PROVE  Mine(h, k) = {} /\ Writers(h, k) = {} /\ Pending(h, k) = 0
<1>1. stream[h][k].count >= Cardinality(Mine(h, k)) + Pending(h, k) /\ Pending(h, k) \in {0, 1, 2}
  BY DEF HeldInv, Counted, Pending
<1>2. IsFiniteSet(Mine(h, k)) /\ Cardinality(Mine(h, k)) \in Nat
  BY MineFinite
<1>3. Cardinality(Mine(h, k)) = 0 /\ Pending(h, k) = 0
  BY <1>1, <1>2
<1>4. Mine(h, k) = {}
  BY <1>2, <1>3, FS_EmptySet
<1> QED
  BY <1>3, <1>4 DEF Writers

(* The transfers of a client are those of the program that runs.           *)
LEMMA ClientMine ==
  ASSUME HeldInv, NEW c \in Clients, NEW k, NEW t \in Mine(c, k)
  PROVE  t[1] = ClientEnd(proc[c]) /\ proc[c] # NoOne /\ t[2] \in Ids /\ tx[t[1]][t[2]].kind # "none"
<1>1. t \in Parties /\ tx[t[1]][t[2]].attached /\ Host(t[1]) = c
  BY DEF Mine
<1>2. t[1] \in Ends /\ t[2] \in Ids
  BY <1>1 DEF Parties
<1>3. tx[t[1]][t[2]].kind # "none"
  BY <1>1, <1>2 DEF HeldInv, TxsNamed
<1>4. ends[t[1]] \in {"open", "ended"}
  BY <1>2, <1>3, AttachedOpen
<1>5. t[1][1] # "server"
  BY <1>1, ChannelAssumption DEF Host
<1>6. t[1] = ClientEnd(t[1][2]) /\ t[1][2] \in Cnxs
  BY <1>2, <1>5, EndFacts
<1>7. user[t[1][2]] = c
  BY <1>1, <1>5 DEF Host
<1>8. proc[c] = t[1][2]
  BY <1>4, <1>6, <1>7 DEF HeldInv, CnxsUsed
<1>9. NoOne \notin Cnxs
  BY ChannelAssumption DEF Cnxs
<1> QED
  BY <1>2, <1>3, <1>6, <1>8, <1>9

LEMMA ConnectKeeps ==
  ASSUME HeldInv, NEW c \in Clients, NEW x \in Cnxs, Connect(c, x) PROVE HeldInv'
<1>1. /\ proc[c] = NoOne /\ user[x] = NoOne
      /\ user' = [user EXCEPT ![x] = c] /\ proc' = [proc EXCEPT ![c] = x]
      /\ ends' = [ends EXCEPT ![ClientEnd(x)] = "connecting", ![ServerEnd(x)] = "open"]
      /\ UNCHANGED <<file, put, owner, stream, tx, pend, main, next, todo, net>>
  BY DEF Connect, disk, memory, ClientEnd, ServerEnd
<1>2. ChannelTypes
  BY DEF HeldInv
<1>3. ChannelTypes'
  <2>1. user' \in [Cnxs -> Clients \cup {NoOne}] /\ proc' \in [Clients -> Cnxs \cup {NoOne}]
    BY <1>1, <1>2 DEF ChannelTypes
  <2>2. ends' \in [Ends -> {"none", "connecting", "open", "ended", "closed"}]
    BY <1>1, <1>2 DEF ChannelTypes
  <2> QED
    BY <1>1, <1>2, <2>1, <2>2 DEF ChannelTypes, MemoryTypes
<1>4. /\ \A y \in Cnxs : user'[y] = IF y = x THEN c ELSE user[y]
      /\ \A d \in Clients : proc'[d] = IF d = c THEN x ELSE proc[d]
      /\ \A e \in Ends : ends'[e] = IF e = ClientEnd(x) THEN "connecting" ELSE IF e = ServerEnd(x) THEN "open" ELSE ends[e]
  BY <1>1, <1>2, EndFacts DEF ChannelTypes
<1>5. NoOne \notin Cnxs /\ NoOne \notin Clients
  BY ChannelAssumption DEF Cnxs
<1>6. /\ ends[ClientEnd(x)] = "none" /\ ends[ServerEnd(x)] = "none" /\ ClientEnd(x) \in Ends /\ ServerEnd(x) \in Ends
      /\ ClientEnd(x) # ServerEnd(x)
  BY <1>1, EndFacts DEF HeldInv, CnxsUsed
<1>7. \A y \in Cnxs : (ClientEnd(y) = ClientEnd(x) <=> y = x) /\ (ServerEnd(y) = ServerEnd(x) <=> y = x)
                      /\ ClientEnd(y) # ServerEnd(x) /\ ServerEnd(y) # ClientEnd(x)
  BY DEF ClientEnd, ServerEnd
<1>8. \A d \in Clients : proc[d] # NoOne => proc[d] \in Cnxs /\ user[proc[d]] = d /\ proc[d] # x
  BY <1>1, <1>2, <1>5 DEF HeldInv, ChannelTypes, CnxsUsed
<1>9. CnxsUsed'
  <2>1. ASSUME NEW y \in Cnxs
        PROVE  /\ user'[y] = NoOne <=> ends'[ClientEnd(y)] = "none"
               /\ user'[y] = NoOne <=> ends'[ServerEnd(y)] = "none"
               /\ ends'[ServerEnd(y)] # "connecting"
               /\ ends'[ClientEnd(y)] \in {"connecting", "open", "ended"} => proc'[user'[y]] = y
    <3>1. CASE y = x
      BY <1>4, <1>5, <1>6, <3>1
    <3>2. CASE y # x
      <4>1. user'[y] = user[y] /\ ends'[ClientEnd(y)] = ends[ClientEnd(y)] /\ ends'[ServerEnd(y)] = ends[ServerEnd(y)]
        BY <1>4, <1>7, <3>2, EndFacts
      <4>2. /\ user[y] = NoOne <=> ends[ClientEnd(y)] = "none"
            /\ user[y] = NoOne <=> ends[ServerEnd(y)] = "none"
            /\ ends[ServerEnd(y)] # "connecting"
            /\ ends[ClientEnd(y)] \in {"connecting", "open", "ended"} => proc[user[y]] = y
        BY DEF HeldInv, CnxsUsed
      <4>3. ends[ClientEnd(y)] \in {"connecting", "open", "ended"} => user[y] \in Clients /\ user[y] # c
        BY <1>1, <1>2, <1>5, <4>2 DEF ChannelTypes
      <4>4. ends[ClientEnd(y)] \in {"connecting", "open", "ended"} => proc'[user[y]] = y
        BY <1>4, <4>2, <4>3
      <4> QED
        BY <4>1, <4>2, <4>4
    <3> QED
      BY <3>1, <3>2
  <2>2. ASSUME NEW d \in Clients, proc'[d] # NoOne
        PROVE  user'[proc'[d]] = d /\ ends'[ClientEnd(proc'[d])] \in {"connecting", "open", "ended"}
    <3>1. CASE d = c
      BY <1>4, <1>6, <3>1
    <3>2. CASE d # c
      <4>1. proc'[d] = proc[d] /\ proc[d] \in Cnxs /\ proc[d] # x /\ user[proc[d]] = d
        BY <1>4, <1>8, <2>2, <3>2
      <4>2. ends[ClientEnd(proc[d])] \in {"connecting", "open", "ended"}
        BY <1>5, <4>1 DEF HeldInv, CnxsUsed
      <4> QED
        BY <1>4, <1>7, <4>1, <4>2, EndFacts
    <3> QED
      BY <3>1, <3>2
  <2>3. ASSUME NEW e \in Ends, ends'[e] \in {"none", "connecting", "closed"}
        PROVE  pend'[e] = NoPend /\ \A i \in Ids : tx'[e][i] = NoTx
    <3>1. ends[e] \in {"none", "connecting", "closed"}
      BY <1>4, <1>6, <2>3
    <3> QED
      BY <1>1, <3>1 DEF HeldInv, CnxsUsed
  <2>4. ASSUME NEW e \in Ends, ends'[e] \in {"none", "closed"} PROVE net'[e] = <<>>
    <3>1. ends[e] \in {"none", "closed"}
      BY <1>4, <1>6, <2>4
    <3> QED
      BY <1>1, <3>1 DEF HeldInv, CnxsUsed
  <2> QED
    BY <2>1, <2>2, <2>3, <2>4 DEF CnxsUsed
<1>10. MainWaits'
  <2> SUFFICES ASSUME NEW d \in Clients PROVE MainWaits!(d)'
    BY DEF MainWaits
  <2>1. MainWaits!(d)
    BY DEF HeldInv, MainWaits
  <2>2. main[d].id # 0 => d # c
    BY <1>1, <2>1
  <2> QED
    BY <1>1, <1>4, <2>1, <2>2
<1>11. TxsNamed' /\ QueriesNew'
  BY <1>1 DEF HeldInv, TxsNamed, QueriesNew
<1>12. \A e \in Ends : \A i \in Ids : tx[e][i].attached => e # ClientEnd(x) /\ Host(e)' = Host(e)
  <2> SUFFICES ASSUME NEW e \in Ends, NEW i \in Ids, tx[e][i].attached PROVE e # ClientEnd(x) /\ Host(e)' = Host(e)
    OBVIOUS
  <2>1. tx[e][i].kind # "none"
    BY DEF HeldInv, TxsNamed
  <2>2. ends[e] \in {"open", "ended"}
    BY <2>1, AttachedOpen
  <2>3. e # ClientEnd(x)
    BY <1>6, <2>2
  <2>4. e[2] \in Cnxs /\ (e[1] # "server" => e[2] # x)
    BY <2>3, EndFacts
  <2> QED
    BY <1>4, <2>3, <2>4 DEF Host
<1>13. ASSUME NEW t \in Parties, NEW h \in Hosts, tx[t[1]][t[2]].attached PROVE Host(t[1])' = h <=> Host(t[1]) = h
  BY <1>12, <1>13 DEF Parties
<1>14. \A h \in Hosts : \A k \in Keys : Mine(h, k)' = Mine(h, k)
  BY <1>1, <1>13 DEF Mine
<1>15. \A h \in Hosts : \A k \in Keys : Writers(h, k)' = Writers(h, k)
  BY <1>1, <1>14 DEF Writers
<1>16. \A h, k : Pending(h, k)' = Pending(h, k)
  BY <1>1 DEF Pending
<1>17. ASSUME NEW h \in Hosts, NEW k \in Keys PROVE Counted(h, k)'
  BY <1>1, <1>14, <1>15, <1>16 DEF HeldInv, Counted
<1> QED
  BY <1>3, <1>9, <1>10, <1>11, <1>17 DEF HeldInv

LEMMA LeaveKeeps ==
  ASSUME HeldInv, NEW c \in Clients, Leave(c) PROVE HeldInv'
<1> DEFINE x == proc[c]
           e == ClientEnd(x)
<1>1. /\ x # NoOne /\ proc' = [proc EXCEPT ![c] = NoOne]
      /\ main' = [main EXCEPT ![c] = NoCmd] /\ todo' = [todo EXCEPT ![c] = {}]
      /\ ends' = [ends EXCEPT ![e] = "closed"] /\ net' = [net EXCEPT ![e] = <<>>]
      /\ tx' = [tx EXCEPT ![e] = [i \in Ids |-> NoTx]]
      /\ pend' = [pend EXCEPT ![e] = NoPend]
      /\ stream' = [stream EXCEPT ![c] = [k \in Keys |-> NoStream]]
      /\ UNCHANGED <<file, put, owner, next, user>>
  BY DEF Leave, disk, ClientEnd
<1>2. ChannelTypes /\ MemoryTypes
  BY DEF HeldInv, ChannelTypes
<1>3. x \in Cnxs /\ e \in Ends /\ user[x] = c /\ e[1] = "client" /\ e[2] = x /\ ends[e] \in {"connecting", "open", "ended"}
  BY <1>1, <1>2, EndFacts DEF HeldInv, ChannelTypes, CnxsUsed
<1> HIDE DEF e
<1>4. /\ \A d \in Clients : proc'[d] = IF d = c THEN NoOne ELSE proc[d]
      /\ \A d \in Clients : main'[d] = IF d = c THEN NoCmd ELSE main[d]
      /\ \A f \in Ends : /\ ends'[f] = IF f = e THEN "closed" ELSE ends[f]
                         /\ net'[f] = IF f = e THEN <<>> ELSE net[f]
                         /\ pend'[f] = IF f = e THEN NoPend ELSE pend[f]
  BY <1>1, <1>2 DEF ChannelTypes, MemoryTypes
<1>5. /\ \A f \in Ends : \A i \in Ids : tx'[f][i] = IF f = e THEN NoTx ELSE tx[f][i]
      /\ \A h \in Hosts : \A k \in Keys : stream'[h][k] = IF h = c THEN NoStream ELSE stream[h][k]
  BY <1>1, <1>2 DEF MemoryTypes, Hosts
<1>6. ChannelTypes'
  <2>1. proc' \in [Clients -> Cnxs \cup {NoOne}] /\ main' \in [Clients -> Cmds] /\ todo' \in [Clients -> SUBSET Resources]
    BY <1>1, <1>2, NoStreamType DEF ChannelTypes
  <2>2. ends' \in [Ends -> {"none", "connecting", "open", "ended", "closed"}] /\ net' \in [Ends -> Seq(Msgs)]
    BY <1>1, <1>2, EmptyQueries DEF ChannelTypes
  <2>3. pend' \in [Ends -> Pends]
    BY <1>1, <1>2, NoStreamType DEF MemoryTypes
  <2>4. tx' \in [Ends -> [Ids -> Txs]]
    BY <1>1, <1>2, NoStreamType DEF MemoryTypes
  <2>5. stream' \in [Hosts -> [Keys -> Streams]]
    BY <1>1, <1>2, NoStreamType DEF MemoryTypes
  <2> QED
    BY <1>1, <1>2, <2>1, <2>2, <2>3, <2>4, <2>5 DEF ChannelTypes, MemoryTypes
<1>7. \A d \in Clients : d # c /\ proc[d] # NoOne => proc[d] \in Cnxs /\ proc[d] # x
  BY <1>2, <1>3 DEF HeldInv, ChannelTypes, CnxsUsed
<1>8. \A y \in Cnxs : (ClientEnd(y) = e <=> y = x) /\ ServerEnd(y) # e
  BY DEF ClientEnd, ServerEnd, e
<1>9. CnxsUsed'
  <2>1. ASSUME NEW y \in Cnxs
        PROVE  /\ user'[y] = NoOne <=> ends'[ClientEnd(y)] = "none"
               /\ user'[y] = NoOne <=> ends'[ServerEnd(y)] = "none"
               /\ ends'[ServerEnd(y)] # "connecting"
               /\ ends'[ClientEnd(y)] \in {"connecting", "open", "ended"} => proc'[user'[y]] = y
    <3>0. /\ user[y] = NoOne <=> ends[ClientEnd(y)] = "none"
          /\ user[y] = NoOne <=> ends[ServerEnd(y)] = "none"
          /\ ends[ServerEnd(y)] # "connecting"
          /\ ends[ClientEnd(y)] \in {"connecting", "open", "ended"} => proc[user[y]] = y
      BY DEF HeldInv, CnxsUsed
    <3>1. user' = user /\ ends'[ServerEnd(y)] = ends[ServerEnd(y)]
      BY <1>1, <1>4, <1>8, EndFacts
    <3>2. CASE y = x
      <4>1. ends'[ClientEnd(y)] = "closed" /\ user[y] # NoOne
        BY <1>3, <1>4, <1>8, <3>2, ChannelAssumption, EndFacts
      <4> QED
        BY <3>0, <3>1, <4>1
    <3>3. CASE y # x
      <4>1. ends'[ClientEnd(y)] = ends[ClientEnd(y)]
        BY <1>4, <1>8, <3>3, EndFacts
      <4>2. ends[ClientEnd(y)] \in {"connecting", "open", "ended"} => user[y] \in Clients /\ user[y] # c
        BY <1>2, <3>0, <3>3 DEF ChannelTypes
      <4> QED
        BY <1>4, <3>0, <3>1, <4>1, <4>2
    <3> QED
      BY <3>2, <3>3
  <2>2. ASSUME NEW d \in Clients, proc'[d] # NoOne
        PROVE  user'[proc'[d]] = d /\ ends'[ClientEnd(proc'[d])] \in {"connecting", "open", "ended"}
    <3>1. d # c /\ proc'[d] = proc[d] /\ proc[d] \in Cnxs /\ proc[d] # x
      BY <1>4, <1>7, <2>2
    <3>2. user[proc[d]] = d /\ ends[ClientEnd(proc[d])] \in {"connecting", "open", "ended"}
      BY <2>2, <3>1 DEF HeldInv, CnxsUsed
    <3> QED
      BY <1>1, <1>4, <1>8, <3>1, <3>2, EndFacts
  <2>3. ASSUME NEW f \in Ends, ends'[f] \in {"none", "connecting", "closed"}
        PROVE  pend'[f] = NoPend /\ \A i \in Ids : tx'[f][i] = NoTx
    BY <1>4, <1>5, <2>3 DEF HeldInv, CnxsUsed
  <2>4. ASSUME NEW f \in Ends, ends'[f] \in {"none", "closed"} PROVE net'[f] = <<>>
    BY <1>4, <2>4 DEF HeldInv, CnxsUsed
  <2> QED
    BY <2>1, <2>2, <2>3, <2>4 DEF CnxsUsed
<1>10. MainWaits'
  <2> SUFFICES ASSUME NEW d \in Clients PROVE MainWaits!(d)'
    BY DEF MainWaits
  <2>1. MainWaits!(d)
    BY DEF HeldInv, MainWaits
  <2>2. CASE d = c
    BY <1>4, <2>2 DEF NoCmd
  <2>3. CASE d # c /\ main[d].id = 0
    BY <1>4, <2>1, <2>3
  <2>4. CASE d # c /\ main[d].id # 0
    <3>1. proc[d] # NoOne /\ proc[d] \in Cnxs /\ proc[d] # x /\ main'[d] = main[d] /\ proc'[d] = proc[d] /\ d \in Hosts
      BY <1>4, <1>7, <2>1, <2>4 DEF Hosts
    <3>2. main[d].id \in Ids
      BY <1>2, <2>4 DEF ChannelTypes, Cmds
    <3>3. tx'[ClientEnd(proc[d])][main[d].id] = tx[ClientEnd(proc[d])][main[d].id]
      BY <1>5, <1>8, <3>1, <3>2, EndFacts
    <3>4. \A r \in Resources : stream'[d][r] = stream[d][r]
      BY <1>5, <2>4, <3>1 DEF Keys
    <3> QED
      BY <1>1, <2>1, <2>4, <3>1, <3>3, <3>4
  <2> QED
    BY <2>2, <2>3, <2>4
<1>11. TxsNamed'
  <2> SUFFICES ASSUME NEW f \in Ends, NEW i \in Ids PROVE TxsNamed!(f)!(i)'
    BY DEF TxsNamed
  <2>1. TxsNamed!(f)!(i)
    BY DEF HeldInv, TxsNamed
  <2>2. CASE f = e
    BY <1>5, <2>2 DEF NoTx
  <2>3. CASE f # e
    BY <1>1, <1>5, <2>1, <2>3
  <2> QED
    BY <2>2, <2>3
<1>12. QueriesNew'
  <2> SUFFICES ASSUME NEW f \in Ends PROVE QueriesOk(net'[f], f, next'[f[2]], tx'[f])
    BY DEF QueriesNew
  <2>1. CASE f = e
    BY <1>4, <2>1, EmptyQueries
  <2>2. CASE f # e
    <3>1. tx'[f] = tx[f] /\ net'[f] = net[f] /\ next' = next
      BY <1>1, <1>2, <1>4, <2>2 DEF MemoryTypes
    <3> QED
      BY <3>1 DEF HeldInv, QueriesNew
  <2> QED
    BY <2>1, <2>2
<1>13. \A f : Host(f)' = Host(f)
  BY <1>1 DEF Host
<1>14. \A t \in Parties : t[1] \in Ends /\ t[2] \in Ids
  BY DEF Parties
<1>15. ASSUME NEW h \in Hosts, NEW k \in Keys PROVE Counted(h, k)'
  <2>1. CASE h = c
    <3>1. Mine(h, k)' = {}
      <4>1. SUFFICES ASSUME NEW t \in Mine(h, k)' PROVE FALSE
        OBVIOUS
      <4>2. t \in Parties /\ tx'[t[1]][t[2]].attached /\ tx'[t[1]][t[2]].key = k /\ Host(t[1]) = h
        BY <1>13 DEF Mine
      <4>3. t[1] # e
        BY <1>5, <1>14, <4>2 DEF NoTx
      <4>4. t \in Mine(c, k)
        BY <1>5, <1>14, <2>1, <4>2, <4>3 DEF Mine
      <4> QED
        BY <4>3, <4>4, ClientMine DEF e
    <3>2. Writers(h, k)' = {}
      BY <3>1 DEF Writers
    <3>3. Pending(h, k)' = 0
      BY <1>4, <2>1 DEF Pending, NoCmd
    <3>4. Cardinality(Mine(h, k)') = 0
      BY <3>1, FS_EmptySet
    <3>5. stream'[h][k] = NoStream
      BY <1>5, <2>1
    <3> QED
      BY <3>1, <3>2, <3>3, <3>4, <3>5 DEF Counted, NoStream
  <2>2. CASE h # c
    <3>1. \A t \in Parties : Host(t[1]) = h => tx'[t[1]][t[2]] = tx[t[1]][t[2]]
      <4> SUFFICES ASSUME NEW t \in Parties, Host(t[1]) = h PROVE tx'[t[1]][t[2]] = tx[t[1]][t[2]]
        OBVIOUS
      <4>1. t[1] # e
        BY <1>3, <2>2 DEF Host
      <4> QED
        BY <1>5, <1>14, <4>1
    <3>2. Mine(h, k)' = Mine(h, k)
      BY <1>13, <3>1 DEF Mine
    <3>3. Writers(h, k)' = Writers(h, k)
      BY <3>1, <3>2 DEF Writers, Mine
    <3>4. Pending(h, k)' = Pending(h, k)
      BY <1>4, <2>2 DEF Pending
    <3>5. stream'[h][k] = stream[h][k]
      BY <1>5, <2>2
    <3> QED
      BY <3>2, <3>3, <3>4, <3>5 DEF HeldInv, Counted
  <2> QED
    BY <2>1, <2>2
<1> QED
  BY <1>6, <1>9, <1>10, <1>11, <1>12, <1>15 DEF HeldInv

LEMMA DeathKeeps ==
  ASSUME HeldInv, Restarted PROVE HeldInv'
<1>1. /\ stream' = [stream EXCEPT ![Server] = [k \in Keys |-> NoStream]]
      /\ tx' = [e \in Ends |-> IF e[1] = "server" THEN [i \in Ids |-> NoTx] ELSE tx[e]]
      /\ pend' = [e \in Ends |-> IF e[1] = "server" THEN NoPend ELSE pend[e]]
      /\ ends' = [e \in Ends |-> IF e[1] = "server" /\ ends[e] # "none" THEN "closed" ELSE ends[e]]
      /\ net' = [e \in Ends |-> IF e[1] = "server" THEN <<>> ELSE net[e]]
      /\ UNCHANGED <<file, put, owner, proc, main, next, todo, user>>
  BY DEF Restarted, disk, client
<1>2. ChannelTypes /\ MemoryTypes
  BY DEF HeldInv, ChannelTypes
<1>3. \A e \in Ends : /\ ends'[e] = IF e[1] = "server" /\ ends[e] # "none" THEN "closed" ELSE ends[e]
                      /\ net'[e] = IF e[1] = "server" THEN <<>> ELSE net[e]
                      /\ pend'[e] = IF e[1] = "server" THEN NoPend ELSE pend[e]
  BY <1>1
<1>4. \A e \in Ends : /\ tx'[e] = IF e[1] = "server" THEN [i \in Ids |-> NoTx] ELSE tx[e]
                      /\ \A i \in Ids : tx'[e][i] = IF e[1] = "server" THEN NoTx ELSE tx[e][i]
  BY <1>1
<1>5. \A h \in Hosts : \A k \in Keys : stream'[h][k] = IF h = Server THEN NoStream ELSE stream[h][k]
  BY <1>1, <1>2 DEF MemoryTypes, Hosts
<1>6. ChannelTypes'
  <2>1. ends' \in [Ends -> {"none", "connecting", "open", "ended", "closed"}] /\ net' \in [Ends -> Seq(Msgs)]
    BY <1>1, <1>2, EmptyQueries DEF ChannelTypes
  <2>2. pend' \in [Ends -> Pends]
    BY <1>1, <1>2, NoStreamType DEF MemoryTypes
  <2>3. tx' \in [Ends -> [Ids -> Txs]]
    BY <1>1, <1>2, NoStreamType DEF MemoryTypes
  <2>4. stream' \in [Hosts -> [Keys -> Streams]]
    BY <1>1, <1>2, NoStreamType DEF MemoryTypes
  <2> QED
    BY <1>1, <1>2, <2>1, <2>2, <2>3, <2>4 DEF ChannelTypes, MemoryTypes
<1>7. CnxsUsed'
  <2>1. ASSUME NEW y \in Cnxs
        PROVE  /\ user'[y] = NoOne <=> ends'[ClientEnd(y)] = "none"
               /\ user'[y] = NoOne <=> ends'[ServerEnd(y)] = "none"
               /\ ends'[ServerEnd(y)] # "connecting"
               /\ ends'[ClientEnd(y)] \in {"connecting", "open", "ended"} => proc'[user'[y]] = y
    <3>1. /\ ends'[ClientEnd(y)] = ends[ClientEnd(y)]
          /\ ends'[ServerEnd(y)] = IF ends[ServerEnd(y)] # "none" THEN "closed" ELSE ends[ServerEnd(y)]
      BY <1>3, EndFacts
    <3>2. /\ user[y] = NoOne <=> ends[ClientEnd(y)] = "none"
          /\ user[y] = NoOne <=> ends[ServerEnd(y)] = "none"
          /\ ends[ServerEnd(y)] # "connecting"
          /\ ends[ClientEnd(y)] \in {"connecting", "open", "ended"} => proc[user[y]] = y
      BY DEF HeldInv, CnxsUsed
    <3> QED
      BY <1>1, <3>1, <3>2
  <2>2. ASSUME NEW d \in Clients, proc'[d] # NoOne
        PROVE  user'[proc'[d]] = d /\ ends'[ClientEnd(proc'[d])] \in {"connecting", "open", "ended"}
    <3>1. proc'[d] = proc[d] /\ proc[d] \in Cnxs
      BY <1>1, <1>2, <2>2 DEF ChannelTypes
    <3>2. user[proc[d]] = d /\ ends[ClientEnd(proc[d])] \in {"connecting", "open", "ended"}
      BY <2>2, <3>1 DEF HeldInv, CnxsUsed
    <3> QED
      BY <1>1, <1>3, <3>1, <3>2, EndFacts
  <2>3. ASSUME NEW f \in Ends, ends'[f] \in {"none", "connecting", "closed"}
        PROVE  pend'[f] = NoPend /\ \A i \in Ids : tx'[f][i] = NoTx
    BY <1>3, <1>4, <2>3 DEF HeldInv, CnxsUsed
  <2>4. ASSUME NEW f \in Ends, ends'[f] \in {"none", "closed"} PROVE net'[f] = <<>>
    BY <1>3, <2>4 DEF HeldInv, CnxsUsed
  <2> QED
    BY <2>1, <2>2, <2>3, <2>4 DEF CnxsUsed
<1>8. MainWaits'
  <2> SUFFICES ASSUME NEW d \in Clients PROVE MainWaits!(d)'
    BY DEF MainWaits
  <2>1. MainWaits!(d)
    BY DEF HeldInv, MainWaits
  <2>2. CASE main[d].id = 0
    BY <1>1, <2>1, <2>2
  <2>3. CASE main[d].id # 0
    <3>1. proc[d] # NoOne /\ proc[d] \in Cnxs /\ d \in Hosts /\ d # Server
      BY <1>2, <2>1, <2>3, ChannelAssumption DEF ChannelTypes, Hosts
    <3>2. main[d].id \in Ids
      BY <1>2, <2>3 DEF ChannelTypes, Cmds
    <3>3. tx'[ClientEnd(proc[d])][main[d].id] = tx[ClientEnd(proc[d])][main[d].id]
      BY <1>4, <3>1, <3>2, EndFacts
    <3>4. \A r \in Resources : stream'[d][r] = stream[d][r]
      BY <1>5, <3>1 DEF Keys
    <3> QED
      BY <1>1, <2>1, <2>3, <3>1, <3>3, <3>4
  <2> QED
    BY <2>2, <2>3
<1>9. TxsNamed'
  <2> SUFFICES ASSUME NEW f \in Ends, NEW i \in Ids PROVE TxsNamed!(f)!(i)'
    BY DEF TxsNamed
  <2>1. TxsNamed!(f)!(i)
    BY DEF HeldInv, TxsNamed
  <2>2. CASE f[1] = "server"
    BY <1>4, <2>2 DEF NoTx
  <2>3. CASE f[1] # "server"
    BY <1>1, <1>4, <2>1, <2>3
  <2> QED
    BY <2>2, <2>3
<1>10. QueriesNew'
  <2> SUFFICES ASSUME NEW f \in Ends PROVE QueriesOk(net'[f], f, next'[f[2]], tx'[f])
    BY DEF QueriesNew
  <2>1. CASE f[1] = "server"
    BY <1>3, <2>1, EmptyQueries
  <2>2. CASE f[1] # "server"
    <3>1. tx'[f] = tx[f] /\ net'[f] = net[f] /\ next' = next
      BY <1>1, <1>3, <1>4, <2>2
    <3> QED
      BY <3>1 DEF HeldInv, QueriesNew
  <2> QED
    BY <2>1, <2>2
<1>11. \A f : Host(f)' = Host(f)
  BY <1>1 DEF Host
<1>12. \A t \in Parties : t[1] \in Ends /\ t[2] \in Ids
  BY DEF Parties
<1>13. \A h, k : Pending(h, k)' = Pending(h, k)
  BY <1>1 DEF Pending
<1>14. ASSUME NEW h \in Hosts, NEW k \in Keys PROVE Counted(h, k)'
  <2>1. CASE h = Server
    <3>1. Mine(h, k)' = {}
      <4>1. SUFFICES ASSUME NEW t \in Mine(h, k)' PROVE FALSE
        OBVIOUS
      <4>2. t \in Parties /\ tx'[t[1]][t[2]].attached /\ Host(t[1]) = h
        BY <1>11 DEF Mine
      <4>3. t[1][1] # "server"
        BY <1>4, <1>12, <4>2 DEF NoTx
      <4>4. user[t[1][2]] = Server /\ t[1][2] \in Cnxs
        BY <1>12, <2>1, <4>2, <4>3, EndFacts DEF Host
      <4> QED
        BY <1>2, <4>4, ChannelAssumption DEF ChannelTypes
    <3>2. Writers(h, k)' = {}
      BY <3>1 DEF Writers
    <3>3. Pending(h, k)' = 0
      BY <1>13, <2>1, ChannelAssumption DEF Pending
    <3>4. Cardinality(Mine(h, k)') = 0
      BY <3>1, FS_EmptySet
    <3>5. stream'[h][k] = NoStream
      BY <1>5, <2>1
    <3> QED
      BY <3>1, <3>2, <3>3, <3>4, <3>5 DEF Counted, NoStream
  <2>2. CASE h # Server
    <3>1. \A t \in Parties : Host(t[1]) = h => tx'[t[1]][t[2]] = tx[t[1]][t[2]]
      <4> SUFFICES ASSUME NEW t \in Parties, Host(t[1]) = h PROVE tx'[t[1]][t[2]] = tx[t[1]][t[2]]
        OBVIOUS
      <4>1. t[1][1] # "server"
        BY <2>2 DEF Host
      <4> QED
        BY <1>4, <1>12, <4>1
    <3>2. Mine(h, k)' = Mine(h, k)
      BY <1>11, <3>1 DEF Mine
    <3>3. Writers(h, k)' = Writers(h, k)
      BY <3>1, <3>2 DEF Writers, Mine
    <3>5. stream'[h][k] = stream[h][k]
      BY <1>5, <2>2
    <3> QED
      BY <1>13, <3>2, <3>3, <3>5 DEF HeldInv, Counted
  <2> QED
    BY <2>1, <2>2
<1> QED
  BY <1>6, <1>7, <1>8, <1>9, <1>10, <1>14 DEF HeldInv

(* The numbers of the next commands grow.                                  *)
LEMMA NextGrows ==
  ASSUME HeldInv, NEW x \in Cnxs, UNCHANGED tx, next' = [next EXCEPT ![x] = @ + 1]
  PROVE  /\ next' \in [Cnxs -> Nat] /\ TxsNamed' /\ \A y \in Cnxs : next'[y] >= next[y] /\ next[y] \in Nat
         /\ next'[x] = next[x] + 1 /\ \A y \in Cnxs : y # x => next'[y] = next[y]
<1>1. next \in [Cnxs -> Nat]
  BY DEF HeldInv, ChannelTypes
<1>2. next' \in [Cnxs -> Nat] /\ \A y \in Cnxs : next'[y] >= next[y] /\ next[y] \in Nat
  BY <1>1
<1>3. TxsNamed'
  <2> SUFFICES ASSUME NEW f \in Ends, NEW i \in Ids PROVE TxsNamed!(f)!(i)'
    BY DEF TxsNamed
  <2>1. TxsNamed!(f)!(i)
    BY DEF HeldInv, TxsNamed
  <2>2. f[2] \in Cnxs /\ i \in Nat
    BY EndFacts DEF Ids
  <2>3. next'[f[2]] \in Nat /\ next[f[2]] \in Nat /\ next'[f[2]] >= next[f[2]]
    BY <1>2, <2>2
  <2>4. i < next[f[2]] => i < next'[f[2]]
    BY <2>2, <2>3
  <2> QED
    BY <2>1, <2>4
<1> QED
  BY <1>1, <1>2, <1>3

(* The query of a command goes out.                                        *)
LEMMA CommandSent ==
  ASSUME HeldInv, NEW c \in Clients, Idle(c), NEW kw \in {"read", "write"}, NEW r \in Resources, NEW key \in Keys,
         command_new(c, kw, r, key), UNCHANGED <<tx, pend, ends, user, proc>>
  PROVE  /\ proc[c] \in Cnxs /\ next[proc[c]] \in Ids /\ tx[ClientEnd(proc[c])][next[proc[c]]].kind = "none"
         /\ next' \in [Cnxs -> Nat] /\ next'[proc[c]] = next[proc[c]] + 1
         /\ \A y \in Cnxs : next'[y] >= next[y] /\ next[y] \in Nat
         /\ main' \in [Clients -> Cmds]
         /\ \A d \in Clients : main'[d] = IF d = c THEN [id |-> next[proc[c]], kw |-> kw, key |-> key] ELSE main[d]
         /\ net' \in [Ends -> Seq(Msgs)] /\ TxsNamed' /\ QueriesNew' /\ CnxsUsed'
<1> DEFINE x == proc[c]
           n == next[x]
           m == [t |-> kw, id |-> n, res |-> r]
           e == ServerEnd(x)
           v == [id |-> n, kw |-> kw, key |-> key]
<1>1. /\ x # NoOne /\ n \in Ids /\ main' = [main EXCEPT ![c] = v]
      /\ net' = Deliver(net, e, <<m>>) /\ next' = [next EXCEPT ![x] = @ + 1]
  BY DEF Idle, command_new, ServerEnd
<1>2. ChannelTypes
  BY DEF HeldInv
<1>3. x \in Cnxs /\ user[x] = c /\ e \in Ends /\ e[1] = "server" /\ e[2] = x /\ ClientEnd(x) \in Ends
  BY <1>1, <1>2, EndFacts DEF HeldInv, ChannelTypes, CnxsUsed
<1>4. ends[e] # "none"
  <2>1. user[x] # NoOne
    BY <1>3, ChannelAssumption
  <2> QED
    BY <1>3, <2>1 DEF HeldInv, CnxsUsed
<1>5. m \in Queries /\ m.id = n /\ <<m>> \in Seq(Msgs)
  <2>1. m \in Queries /\ m.id = n
    BY <1>1 DEF Queries
  <2> HIDE DEF m
  <2> QED
    BY <2>1 DEF Msgs
<1>6. /\ next' \in [Cnxs -> Nat] /\ TxsNamed' /\ \A y \in Cnxs : next'[y] >= next[y] /\ next[y] \in Nat
      /\ next'[x] = n + 1 /\ \A y \in Cnxs : y # x => next'[y] = next[y]
  BY <1>1, <1>3, NextGrows
<1>7. tx[e][n].kind = "none" /\ tx[ClientEnd(x)][n].kind = "none"
  <2>1. n \in Nat /\ ~ (n < n)
    BY <1>3, <1>6
  <2>2. \A f \in Ends : f[2] = x => tx[f][n].kind = "none"
    BY <1>1, <2>1 DEF HeldInv, TxsNamed
  <2> QED
    BY <1>3, <2>2, EndFacts
<1>8. v \in Cmds
  BY <1>1 DEF Cmds
<1> HIDE DEF m, e, v
<1>9. /\ net' \in [Ends -> Seq(Msgs)]
      /\ \A f \in Ends : net'[f] = IF f = e /\ ends[e] # "closed" THEN net[f] \o <<m>> ELSE net[f]
  BY <1>1, <1>2, <1>3, <1>5, Delivered
<1>10. QueriesNew'
  <2> SUFFICES ASSUME NEW f \in Ends PROVE QueriesOk(net'[f], f, next'[f[2]], tx[f])
    BY DEF QueriesNew
  <2>1. net[f] \in Seq(Msgs) /\ QueriesOk(net[f], f, next[f[2]], tx[f]) /\ f[2] \in Cnxs
    BY <1>2, EndFacts DEF HeldInv, QueriesNew, ChannelTypes
  <2>2. CASE f = e /\ ends[e] # "closed"
    <3>1. net'[f] = net[f] \o <<m>> /\ next'[f[2]] = n + 1 /\ next[f[2]] = n /\ n \in Nat
      BY <1>3, <1>6, <1>9, <2>2
    <3> HIDE DEF n
    <3> QED
      BY <1>3, <1>5, <1>7, <2>1, <2>2, <3>1, QueryQueries
  <2>3. CASE ~ (f = e /\ ends[e] # "closed")
    <3>1. net'[f] = net[f] /\ next'[f[2]] \in Nat /\ next[f[2]] \in Nat /\ next[f[2]] <= next'[f[2]]
      BY <1>6, <1>9, <2>1, <2>3
    <3> QED
      BY <2>1, <3>1, LaterQueries
  <2> QED
    BY <2>2, <2>3
<1>11. \A f \in Ends : ends[f] \in {"none", "closed"} => net'[f] = net[f]
  BY <1>4, <1>9
<1>12. CnxsUsed'
  BY <1>11, CnxsKeep DEF HeldInv
<1>13. main' \in [Clients -> Cmds] /\ \A d \in Clients : main'[d] = IF d = c THEN v ELSE main[d]
  BY <1>1, <1>2, <1>8 DEF ChannelTypes
<1> QED
  BY <1>1, <1>3, <1>6, <1>7, <1>9, <1>10, <1>12, <1>13 DEF v

(* A stream under a new number has no transfers.                           *)
LEMMA NewNumber ==
  ASSUME HeldInv, NEW c \in Clients, proc[c] \in Cnxs, NEW n \in Ids, n = next[proc[c]]
  PROVE  Mine(c, n) = {} /\ Writers(c, n) = {} /\ n \in Keys /\ n \notin Resources
<1>1. n \in Keys /\ n \in Nat /\ n \notin Resources
  BY ChannelAssumption DEF Keys, Ids
<1>2. ASSUME NEW t \in Mine(c, n) PROVE FALSE
  <2>1. t[1] = ClientEnd(proc[c]) /\ t[2] \in Ids /\ tx[t[1]][t[2]].kind # "none"
    BY ClientMine
  <2>2. tx[t[1]][t[2]].key = n
    BY DEF Mine
  <2>3. t[1] \in Ends /\ t[1][1] = "client" /\ t[1][2] = proc[c]
    BY <2>1, EndFacts
  <2>4. t[2] < next[proc[c]] /\ tx[t[1]][t[2]].key \in Resources \cup {t[2]}
    BY <2>1, <2>3 DEF HeldInv, TxsNamed
  <2>5. t[2] = n
    BY <1>1, <2>2, <2>4
  <2> QED
    BY <1>1, <2>4, <2>5
<1> QED
  BY <1>1, <1>2 DEF Writers

LEMMA NewStream ==
  ASSUME NEW r \in Resources
  PROVE  /\ stream_new(r) \in Streams /\ stream_new(r).count = 1 /\ stream_new(r).res = r
         /\ stream_new(r).readers = {} /\ stream_new(r).writer = FALSE
<1>1. NoStream \in Streams
  BY NoStreamType
<1>2. stream_new(r) = [NoStream EXCEPT !.count = 1, !.res = r]
  BY DEF stream_new
<1>3. stream_new(r) \in Streams
  BY DEF stream_new, NoStream, Streams
<1> QED
  BY <1>2, <1>3 DEF NoStream

LEMMA Referred ==
  ASSUME NEW s \in Streams
  PROVE  /\ stream_ref(s) \in Streams /\ stream_ref(s).count = s.count + 1 /\ stream_ref(s).res = s.res
         /\ stream_ref(s).readers = s.readers /\ stream_ref(s).writer = s.writer
<1>1. s.count + 1 \in Nat
  BY DEF Streams
<1>2. stream_ref(s) = [s EXCEPT !.count = @ + 1]
  BY DEF stream_ref
<1>3. stream_ref(s) \in Streams
  BY <1>1, <1>2, StreamsKeep
<1> QED
  BY <1>2, <1>3 DEF Streams

(* The last reference takes the stream away.                               *)
LEMMA Unreferred ==
  ASSUME NEW s \in Streams
  PROVE  /\ stream_unref(s) \in Streams
         /\ s.count <= 1 => stream_unref(s) = NoStream
         /\ s.count > 1 => /\ stream_unref(s).count = s.count - 1 /\ stream_unref(s).res = s.res
                           /\ stream_unref(s).readers = s.readers /\ stream_unref(s).writer = s.writer
<1>1. s.count \in Nat
  BY DEF Streams
<1>2. CASE s.count <= 1
  BY <1>1, <1>2, NoStreamType DEF stream_unref
<1>3. CASE s.count > 1
  <2>1. s.count - 1 \in Nat /\ ~ (s.count <= 1)
    BY <1>1, <1>3
  <2>2. stream_unref(s) = [s EXCEPT !.count = @ - 1]
    BY <2>1 DEF stream_unref
  <2>3. stream_unref(s) \in Streams
    BY <2>1, <2>2, StreamsKeep
  <2> QED
    BY <1>3, <2>1, <2>2, <2>3 DEF Streams
<1> QED
  BY <1>1, <1>2, <1>3

(* stream_lookup refers to the stream that there is or opens one.          *)
LEMMA LookedUp ==
  ASSUME HeldInv, NEW h \in Hosts, NEW r \in Resources
  PROVE  /\ r \in Keys /\ stream_lookup(h, r) \in Streams /\ stream_lookup(h, r).count = stream[h][r].count + 1
         /\ stream_lookup(h, r).res \in Resources /\ stream[h][r].count \in Nat
         /\ stream_lookup(h, r).readers = stream[h][r].readers /\ stream_lookup(h, r).writer = stream[h][r].writer
<1>1. r \in Keys
  BY DEF Keys
<1>2. stream[h][r] \in Streams
  BY <1>1 DEF HeldInv, ChannelTypes, MemoryTypes
<1>3. stream[h][r].count \in Nat /\ stream[h][r].writer \in BOOLEAN
  BY <1>2 DEF Streams
<1>4. Counted(h, r)
  BY <1>1 DEF HeldInv
<1>5. CASE stream[h][r].count > 0
  BY <1>1, <1>2, <1>3, <1>4, <1>5, Referred DEF stream_lookup, Counted
<1>6. CASE stream[h][r].count = 0
  <2>1. stream_lookup(h, r) = stream_new(r)
    BY <1>6 DEF stream_lookup
  <2>2. Mine(h, r) = {} /\ Writers(h, r) = {}
    BY <1>1, <1>6, Unused
  <2>3. stream[h][r].readers = {} /\ stream[h][r].writer = FALSE
    BY <1>3, <1>4, <2>2 DEF Counted
  <2> DEFINE s == stream_new(r)
  <2>4. s \in Streams /\ s.count = 1 /\ s.res = r /\ s.readers = {} /\ s.writer = FALSE
    BY NewStream
  <2>5. stream_lookup(h, r) = s
    BY <2>1
  <2> HIDE DEF s
  <2>6. stream_lookup(h, r).writer = stream[h][r].writer
    BY <2>3, <2>4, <2>5, Zenon
  <2>7. stream_lookup(h, r).count = stream[h][r].count + 1
    BY <1>6, <2>4, <2>5
  <2> QED
    BY <1>1, <1>3, <2>3, <2>4, <2>5, <2>6, <2>7
<1> QED
  BY <1>3, <1>5, <1>6

(* A main thread that does not move still waits for the same command.      *)
LEMMA WaitsKeep ==
  ASSUME HeldInv, NEW d \in Clients, main'[d] = main[d], proc'[d] = proc[d],
         main[d].id # 0 => /\ next'[proc[d]] >= next[proc[d]] /\ next[proc[d]] \in Nat /\ next'[proc[d]] \in Nat
                           /\ tx'[ClientEnd(proc[d])][main[d].id].kind = tx[ClientEnd(proc[d])][main[d].id].kind,
         \A k \in Resources : stream'[d][k].writer = stream[d][k].writer
  PROVE  MainWaits!(d)'
<1>1. MainWaits!(d)
  BY DEF HeldInv, MainWaits
<1>2. CASE main[d].id = 0
  BY <1>1, <1>2
<1>3. CASE main[d].id # 0
  <2>1. main[d].id \in Nat
    BY <1>3 DEF HeldInv, ChannelTypes, Cmds, Ids
  <2>2. main[d].id < next'[proc[d]]
    BY <1>1, <1>3, <2>1
  <2> QED
    BY <1>1, <1>3, <2>2
<1> QED
  BY <1>2, <1>3

LEMMA SendKeeps ==
  ASSUME HeldInv, NEW c \in Clients, NEW r \in Resources, Idle(c), chn_send_file(c, r),
         UNCHANGED <<tx, pend, proc, ends, user>>, file' \in [Hosts -> [Resources -> Seq(Nat)]],
         put' \in [Clients -> SUBSET Resources], todo' \in [Clients -> SUBSET Resources],
         owner' \in [Resources -> Hosts \cup {NoOne}]
  PROVE  HeldInv'
<1> DEFINE x == proc[c]
           s == stream_new(r)
<1>1. ChannelTypes /\ MemoryTypes /\ c \in Hosts
  BY DEF HeldInv, ChannelTypes, Hosts
<1>0. next[x] \in Ids
  BY DEF chn_send_file, command_new
<1> PICK n \in Ids : n = next[x]
  BY <1>0
<1>2. main[c].id = 0 /\ x \in Cnxs /\ n \in Ids
  BY <1>1 DEF Idle, NoCmd, chn_send_file, command_new, ChannelTypes
<1>3. Mine(c, n) = {} /\ Writers(c, n) = {} /\ n \in Keys /\ n \notin Resources
  BY <1>2, NewNumber
<1>4. s \in Streams /\ s.count = 1 /\ s.res = r /\ s.readers = {} /\ s.writer = FALSE
  BY NewStream
<1>5. Cardinality(Mine(c, n)) = 0
  BY <1>3, FS_EmptySet
<1> HIDE DEF s
<1>6. \A j \in Keys : Pending(c, j) = 0
  BY <1>2 DEF Pending
<1>7. CASE command_new(c, "write", r, n) /\ stream' = [stream EXCEPT ![c][n] = s]
  <2>1. /\ tx[ClientEnd(x)][n].kind = "none"
        /\ next' \in [Cnxs -> Nat] /\ next'[x] = n + 1
        /\ \A y \in Cnxs : next'[y] >= next[y] /\ next[y] \in Nat
        /\ main' \in [Clients -> Cmds]
        /\ \A d \in Clients : main'[d] = IF d = c THEN [id |-> n, kw |-> "write", key |-> n] ELSE main[d]
        /\ net' \in [Ends -> Seq(Msgs)] /\ TxsNamed' /\ QueriesNew' /\ CnxsUsed'
    BY <1>2, <1>3, <1>7, CommandSent
  <2>2. Pending(c, n)' = 1 /\ \A g \in Hosts : \A j \in Keys : g # c \/ j # n => Pending(g, j)' = Pending(g, j)
    <3>1. main'[c].id = n /\ main'[c].key = n /\ main'[c].kw = "write" /\ n # 0
      BY <1>2, <2>1 DEF Ids
    <3>2. Pending(c, n)' = 1
      BY <3>1 DEF Pending
    <3>3. \A j \in Keys : j # n => Pending(c, j)' = 0
      BY <3>1 DEF Pending
    <3>4. \A g \in Hosts : \A j \in Keys : g # c => Pending(g, j)' = Pending(g, j)
      BY <2>1 DEF Pending
    <3> QED
      BY <1>2, <1>6, <3>2, <3>3, <3>4
  <2>3. \A g \in Hosts : \A j \in Keys : Counted(g, j)'
    <3>1. s.count >= Cardinality(Mine(c, n)) + Pending(c, n)' /\ (s.count > 0 => s.res \in Resources)
      BY <1>4, <1>5, <2>2
    <3>2. s.readers = Mine(c, n) \ Writers(c, n) /\ (s.writer <=> Writers(c, n) # {})
      BY <1>3, <1>4
    <3>3. UNCHANGED <<tx, user>> /\ stream' = [stream EXCEPT ![c][n] = s]
      BY <1>7
    <3> QED
      BY <1>1, <1>3, <1>4, <2>2, <3>1, <3>2, <3>3, StreamStep
  <2>4. MemoryTypes' /\ \A g \in Hosts : \A j \in Keys : stream'[g][j] = IF g = c /\ j = n THEN s ELSE stream[g][j]
    BY <1>1, <1>3, <1>4, <1>7, OneStream DEF MemoryTypes
  <2>5. ASSUME NEW d \in Clients PROVE MainWaits!(d)'
    <3>1. CASE d = c
      <4>1. main'[c].id = n /\ main'[c].key = n /\ main'[c].kw = "write" /\ n # 0 /\ n \in Nat
        BY <1>2, <2>1 DEF Ids
      <4>2. x # NoOne /\ n < n + 1
        BY <1>2, <4>1 DEF Idle
      <4> QED
        BY <2>1, <3>1, <4>1, <4>2
    <3>2. CASE d # c
      <4>1. \A k \in Resources : stream'[d][k].writer = stream[d][k].writer
        BY <2>4, <3>2 DEF Hosts, Keys
      <4>2. main'[d] = main[d] /\ proc'[d] = proc[d]
        BY <2>1, <3>2
      <4>3. main[d].id # 0 => proc[d] \in Cnxs
        BY <1>1 DEF HeldInv, MainWaits, ChannelTypes
      <4> QED
        BY <2>1, <4>1, <4>2, <4>3, WaitsKeep
    <3> QED
      BY <3>1, <3>2
  <2>6. ChannelTypes'
    BY <1>1, <2>1, <2>4 DEF ChannelTypes
  <2> QED
    BY <2>1, <2>3, <2>5, <2>6 DEF HeldInv, MainWaits
<1>8. CASE /\ next' = [next EXCEPT ![x] = @ + 1] /\ UNCHANGED <<main, net>>
           /\ stream' = [stream EXCEPT ![c][n] = stream_ref(s)]
  <2> DEFINE u == stream_ref(s)
  <2>1. u \in Streams /\ u.count = 2 /\ u.res = r /\ u.readers = {} /\ u.writer = FALSE
    <3>1. u \in Streams /\ u.count = s.count + 1 /\ u.res = s.res /\ u.readers = s.readers /\ u.writer = s.writer
      BY <1>4, Referred
    <3>2. u.writer = FALSE
      BY <1>4, <3>1, Zenon
    <3> HIDE DEF u
    <3> QED
      BY <1>4, <3>1, <3>2
  <2> HIDE DEF u
  <2>2. stream' = [stream EXCEPT ![c][n] = u]
    BY <1>8 DEF u
  <2>3. /\ next' \in [Cnxs -> Nat] /\ TxsNamed' /\ \A y \in Cnxs : next'[y] >= next[y] /\ next[y] \in Nat
    BY <1>2, <1>8, NextGrows
  <2>4. \A g \in Hosts : \A j \in Keys : Pending(g, j)' = Pending(g, j)
    BY <1>8 DEF Pending
  <2>5. Pending(c, n)' = 0
    BY <1>1, <1>2, <1>3, <1>6, <2>4
  <2>6. \A g \in Hosts : \A j \in Keys : Counted(g, j)'
    <3>1. u.count >= Cardinality(Mine(c, n)) + Pending(c, n)' /\ (u.count > 0 => u.res \in Resources)
      BY <1>5, <2>1, <2>5
    <3>2. u.readers = Mine(c, n) \ Writers(c, n) /\ (u.writer <=> Writers(c, n) # {})
      BY <1>3, <2>1
    <3>3. UNCHANGED <<tx, user>>
      OBVIOUS
    <3> QED
      BY <1>1, <1>3, <2>1, <2>2, <2>4, <3>1, <3>2, <3>3, StreamStep
  <2>7. MemoryTypes' /\ \A g \in Hosts : \A j \in Keys : stream'[g][j] = IF g = c /\ j = n THEN u ELSE stream[g][j]
    BY <1>1, <1>3, <2>1, <2>2, OneStream DEF MemoryTypes
  <2>8. ASSUME NEW d \in Clients PROVE MainWaits!(d)'
    <3>1. \A k \in Resources : stream'[d][k].writer = stream[d][k].writer
      BY <1>3, <2>7 DEF Hosts, Keys
    <3>2. main'[d] = main[d] /\ proc'[d] = proc[d]
      BY <1>8
    <3>3. main[d].id # 0 => proc[d] \in Cnxs
      BY <1>1 DEF HeldInv, MainWaits, ChannelTypes
    <3> QED
      BY <2>3, <3>1, <3>2, <3>3, WaitsKeep
  <2>9. QueriesNew'
    <3> SUFFICES ASSUME NEW f \in Ends PROVE QueriesOk(net[f], f, next'[f[2]], tx[f])
      BY <1>8 DEF QueriesNew
    <3>1. net[f] \in Seq(Msgs) /\ QueriesOk(net[f], f, next[f[2]], tx[f]) /\ f[2] \in Cnxs
      BY <1>1, EndFacts DEF HeldInv, QueriesNew, ChannelTypes
    <3>2. next'[f[2]] \in Nat /\ next[f[2]] \in Nat /\ next[f[2]] <= next'[f[2]]
      BY <2>3, <3>1
    <3> QED
      BY <3>1, <3>2, LaterQueries
  <2>10. CnxsUsed'
    BY <1>8, CnxsKeep DEF HeldInv
  <2>11. ChannelTypes'
    BY <1>1, <1>8, <2>3, <2>7 DEF ChannelTypes
  <2> QED
    BY <2>3, <2>6, <2>8, <2>9, <2>10, <2>11 DEF HeldInv, MainWaits
<1> QED
  BY <1>7, <1>8 DEF chn_send_file, s

LEMMA RequestKeeps ==
  ASSUME HeldInv, NEW c \in Clients, NEW r \in Resources, chn_send_file_request(c, r) PROVE HeldInv'
<1>1. /\ owner' = [owner EXCEPT ![r] = c] /\ file' = [file EXCEPT ![c][r] = Content]
      /\ UNCHANGED <<tx, pend, proc, todo, ends, user>>
  BY DEF chn_send_file_request
<1>2. ChannelTypes
  BY DEF HeldInv
<1>3. Content \in Seq(Nat)
  BY ChannelAssumption DEF Content
<1>4. file' \in [Hosts -> [Resources -> Seq(Nat)]] /\ owner' \in [Resources -> Hosts \cup {NoOne}]
  BY <1>1, <1>2, <1>3 DEF ChannelTypes, Hosts
<1>5. CASE put' = [put EXCEPT ![c] = @ \cup {r}] /\ UNCHANGED <<stream, main, next, net>>
  <2>1. put' \in [Clients -> SUBSET Resources]
    BY <1>2, <1>5 DEF ChannelTypes
  <2>2. ChannelTypes'
    BY <1>1, <1>2, <1>4, <1>5, <2>1 DEF ChannelTypes, MemoryTypes
  <2>3. Alike /\ QueriesNew' /\ CnxsUsed'
    BY <1>1, <1>5 DEF HeldInv, QueriesNew, Alike, CnxsUsed
  <2> QED
    BY <1>1, <1>5, <2>2, <2>3, QuietKeeps
<1>6. CASE Idle(c) /\ chn_send_file(c, r) /\ UNCHANGED put
  <2>1. put' \in [Clients -> SUBSET Resources] /\ todo' \in [Clients -> SUBSET Resources]
    BY <1>1, <1>2, <1>6 DEF ChannelTypes
  <2> QED
    BY <1>1, <1>4, <1>6, <2>1, SendKeeps
<1> QED
  BY <1>5, <1>6 DEF chn_send_file_request

LEMMA NextKeeps ==
  ASSUME HeldInv, NEW c \in Clients, NEW r \in Resources, SendNext(c, r) PROVE HeldInv'
<1>1. /\ Idle(c) /\ chn_send_file(c, r) /\ UNCHANGED <<file, put, owner, tx, pend, proc, ends, user>>
      /\ todo' = [todo EXCEPT ![c] = IF main'[c] = NoCmd THEN {} ELSE @ \ {r}]
  BY DEF SendNext, disk
<1>2. ChannelTypes
  BY DEF HeldInv
<1>3. todo' \in [Clients -> SUBSET Resources]
  BY <1>1, <1>2 DEF ChannelTypes
<1>4. file' \in [Hosts -> [Resources -> Seq(Nat)]] /\ owner' \in [Resources -> Hosts \cup {NoOne}]
      /\ put' \in [Clients -> SUBSET Resources]
  BY <1>1, <1>2 DEF ChannelTypes
<1> QED
  BY <1>1, <1>3, <1>4, SendKeeps

LEMMA OpenedType ==
  ASSUME ChannelTypes, NEW h \in Hosts, NEW r \in Resources
  PROVE  [file EXCEPT ![h][r] = Opened(h, r)] \in [Hosts -> [Resources -> Seq(Nat)]]
<1>1. file \in [Hosts -> [Resources -> Seq(Nat)]] /\ <<>> \in Seq(Nat)
  BY DEF ChannelTypes
<1>2. Opened(h, r) \in Seq(Nat)
  BY <1>1 DEF Opened
<1> QED
  BY <1>1, <1>2

LEMMA FetchKeeps ==
  ASSUME HeldInv, NEW c \in Clients, NEW r \in Resources, Fetch(c, r) PROVE HeldInv'
<1> DEFINE l == stream_lookup(c, r)
<1>1. ChannelTypes /\ MemoryTypes /\ c \in Hosts
  BY DEF HeldInv, ChannelTypes, Hosts
<1>2. /\ Idle(c) /\ ~ stream[c][r].writer /\ main[c].id = 0
      /\ UNCHANGED <<put, owner, tx, pend, proc, todo, ends, user>>
  BY DEF Fetch, Idle, NoCmd
<1>3. /\ r \in Keys /\ l \in Streams /\ l.count = stream[c][r].count + 1 /\ stream[c][r].count \in Nat
      /\ l.res \in Resources /\ l.readers = stream[c][r].readers /\ l.writer = stream[c][r].writer
  BY <1>1, LookedUp
<1>4. /\ stream[c][r].count >= Cardinality(Mine(c, r)) /\ Cardinality(Mine(c, r)) \in Nat
      /\ l.readers = Mine(c, r) \ Writers(c, r) /\ Writers(c, r) = {}
  <2>1. Counted(c, r) /\ Pending(c, r) = 0
    BY <1>1, <1>2, <1>3 DEF HeldInv, Pending
  <2>2. Cardinality(Mine(c, r)) \in Nat
    BY MineFinite
  <2> QED
    BY <1>2, <1>3, <2>1, <2>2 DEF Counted
<1>5. \A j \in Keys : Pending(c, j) = 0
  BY <1>2 DEF Pending
<1> HIDE DEF l
<1>6. ~ l.writer
  BY <1>2, <1>3
<1>7. CASE /\ command_new(c, "read", r, r)
           /\ stream' = [stream EXCEPT ![c][r] = stream_ref(l)]
           /\ file' = [file EXCEPT ![c][r] = Opened(c, r)]
  <2> DEFINE s == stream_ref(l)
  <2>1. /\ s \in Streams /\ s.count = l.count + 1 /\ s.res = l.res
        /\ s.readers = l.readers /\ s.writer = l.writer
    BY <1>3, Referred
  <2> HIDE DEF s
  <2>2. stream' = [stream EXCEPT ![c][r] = s]
    BY <1>7 DEF s
  <2>3. /\ proc[c] \in Cnxs /\ next[proc[c]] \in Ids /\ tx[ClientEnd(proc[c])][next[proc[c]]].kind = "none"
        /\ next' \in [Cnxs -> Nat] /\ next'[proc[c]] = next[proc[c]] + 1
        /\ \A y \in Cnxs : next'[y] >= next[y] /\ next[y] \in Nat
        /\ main' \in [Clients -> Cmds]
        /\ \A d \in Clients : main'[d] = IF d = c THEN [id |-> next[proc[c]], kw |-> "read", key |-> r] ELSE main[d]
        /\ net' \in [Ends -> Seq(Msgs)] /\ TxsNamed' /\ QueriesNew' /\ CnxsUsed'
    BY <1>2, <1>3, <1>7, CommandSent
  <2>4. main'[c].id = next[proc[c]] /\ main'[c].key = r /\ main'[c].kw = "read" /\ next[proc[c]] # 0
    BY <2>3 DEF Ids
  <2>5. Pending(c, r)' = 2 /\ \A g \in Hosts : \A j \in Keys : g # c \/ j # r => Pending(g, j)' = Pending(g, j)
    <3>1. Pending(c, r)' = 2
      BY <2>4 DEF Pending
    <3>2. \A j \in Keys : j # r => Pending(c, j)' = 0
      BY <2>4 DEF Pending
    <3>3. \A g \in Hosts : \A j \in Keys : g # c => Pending(g, j)' = Pending(g, j)
      BY <2>3 DEF Pending
    <3> QED
      BY <1>5, <3>1, <3>2, <3>3
  <2>6. \A g \in Hosts : \A j \in Keys : Counted(g, j)'
    <3>1. s.count >= Cardinality(Mine(c, r)) + Pending(c, r)' /\ (s.count > 0 => s.res \in Resources)
      BY <1>3, <1>4, <2>1, <2>5
    <3>2. s.readers = Mine(c, r) \ Writers(c, r)
      BY <1>4, <2>1
    <3>3. s.writer <=> Writers(c, r) # {}
      BY <1>4, <1>6, <2>1
    <3>4. UNCHANGED <<tx, user>>
      BY <1>2
    <3> QED
      BY <1>1, <1>3, <2>1, <2>2, <2>5, <3>1, <3>2, <3>3, <3>4, StreamStep
  <2>7. MemoryTypes' /\ \A g \in Hosts : \A j \in Keys : stream'[g][j] = IF g = c /\ j = r THEN s ELSE stream[g][j]
    BY <1>1, <1>2, <1>3, <2>1, <2>2, OneStream DEF MemoryTypes
  <2>8. ASSUME NEW d \in Clients PROVE MainWaits!(d)'
    <3>1. CASE d = c
      <4>1. ~ stream'[c][r].writer
        BY <1>1, <1>3, <1>6, <2>1, <2>7
      <4>2. next[proc[c]] \in Nat /\ next[proc[c]] < next[proc[c]] + 1 /\ proc[c] # NoOne /\ proc' = proc
        BY <1>2, <2>3 DEF Idle
      <4>3. main'[c].id < next'[proc'[c]] /\ tx'[ClientEnd(proc'[c])][main'[c].id].kind = "none"
        BY <1>2, <2>3, <2>4, <4>2
      <4> QED
        BY <2>4, <3>1, <4>1, <4>2, <4>3
    <3>2. CASE d # c
      <4>1. \A k \in Resources : stream'[d][k].writer = stream[d][k].writer
        BY <2>7, <3>2 DEF Hosts, Keys
      <4>2. main'[d] = main[d] /\ proc'[d] = proc[d] /\ tx' = tx
        BY <1>2, <2>3, <3>2
      <4>3. main[d].id # 0 => proc[d] \in Cnxs
        BY <1>1 DEF HeldInv, MainWaits, ChannelTypes
      <4> QED
        BY <2>3, <4>1, <4>2, <4>3, WaitsKeep
    <3> QED
      BY <3>1, <3>2
  <2>9. file' \in [Hosts -> [Resources -> Seq(Nat)]]
    BY <1>1, <1>7, OpenedType
  <2>10. ChannelTypes'
    BY <1>1, <1>2, <2>3, <2>7, <2>9 DEF ChannelTypes
  <2> QED
    BY <2>3, <2>6, <2>8, <2>10 DEF HeldInv, MainWaits
<1>8. CASE /\ stream[c][r].count = 0 /\ UNCHANGED <<file, main, next, net>>
           /\ stream' = [stream EXCEPT ![c][r] = [l EXCEPT !.linked = FALSE]]
  <2> DEFINE s == [l EXCEPT !.linked = FALSE]
  <2>1. s \in Streams /\ s.count = 1 /\ s.res = l.res /\ s.readers = l.readers /\ s.writer = l.writer
    <3>1. s \in Streams
      BY <1>3, StreamsKeep
    <3>2. s.count = l.count /\ s.res = l.res /\ s.readers = l.readers /\ s.writer = l.writer
      BY <1>3 DEF Streams
    <3> HIDE DEF s
    <3> QED
      BY <1>3, <1>8, <3>1, <3>2
  <2> HIDE DEF s
  <2>2. stream' = [stream EXCEPT ![c][r] = s]
    BY <1>8 DEF s
  <2>3. \A g \in Hosts : \A j \in Keys : Pending(g, j)' = Pending(g, j)
    BY <1>8 DEF Pending
  <2>4. \A g \in Hosts : \A j \in Keys : Counted(g, j)'
    <3>1. s.count >= Cardinality(Mine(c, r)) + Pending(c, r)' /\ (s.count > 0 => s.res \in Resources)
      BY <1>1, <1>3, <1>4, <1>5, <1>8, <2>1, <2>3
    <3>2. s.readers = Mine(c, r) \ Writers(c, r)
      BY <1>4, <2>1
    <3>3. s.writer <=> Writers(c, r) # {}
      BY <1>4, <1>6, <2>1
    <3>4. UNCHANGED <<tx, user>>
      BY <1>2
    <3> QED
      BY <1>1, <1>3, <2>1, <2>2, <2>3, <3>1, <3>2, <3>3, <3>4, StreamStep
  <2>5. MemoryTypes' /\ \A g \in Hosts : \A j \in Keys : stream'[g][j] = IF g = c /\ j = r THEN s ELSE stream[g][j]
    BY <1>1, <1>2, <1>3, <2>1, <2>2, OneStream DEF MemoryTypes
  <2>6. ASSUME NEW d \in Clients PROVE MainWaits!(d)'
    <3>1. \A k \in Resources : stream'[d][k].writer = stream[d][k].writer
      BY <1>3, <2>1, <2>5 DEF Hosts, Keys
    <3>2. main'[d] = main[d] /\ proc'[d] = proc[d] /\ tx' = tx /\ next' = next
      BY <1>2, <1>8
    <3>3. main[d].id # 0 => proc[d] \in Cnxs
      BY <1>1 DEF HeldInv, MainWaits, ChannelTypes
    <3>4. \A y \in Cnxs : next[y] \in Nat /\ next[y] >= next[y]
      BY <1>1 DEF ChannelTypes
    <3> QED
      BY <3>1, <3>2, <3>3, <3>4, WaitsKeep
  <2>7. TxsNamed' /\ QueriesNew'
    BY <1>2, <1>8 DEF HeldInv, TxsNamed, QueriesNew
  <2>8. CnxsUsed'
    BY <1>2, <1>8, CnxsKeep DEF HeldInv
  <2>9. ChannelTypes'
    BY <1>1, <1>2, <1>8, <2>5 DEF ChannelTypes
  <2> QED
    BY <2>4, <2>6, <2>7, <2>8, <2>9 DEF HeldInv, MainWaits
<1> QED
  BY <1>7, <1>8 DEF Fetch, l

(* The reader thread of an end takes a message, and may answer it.         *)
LEMMA TakenQueries ==
  ASSUME HeldInv, NEW e \in Ends, ends[e] = "open", net[e] # <<>>, UNCHANGED next,
         net' \in [Ends -> Seq(Msgs)], net'[e] = Tail(net[e]),
         \A f \in Ends : f # e => \/ net'[f] = net[f]
                                  \/ \E m \in Msgs : /\ m.t \notin {"read", "write"} /\ (m.t = "start" => f[1] = "client")
                                                     /\ net'[f] = net[f] \o <<m>>,
         \A f \in Ends : f # e => tx'[f] = tx[f],
         \A i \in Ids : \/ tx'[e][i].kind = tx[e][i].kind
                        \/ e[1] = "client"
                        \/ i = Head_(e).id /\ Head_(e).t \in {"read", "write"}
  PROVE  QueriesNew'
<1> SUFFICES ASSUME NEW f \in Ends PROVE QueriesOk(net'[f], f, next[f[2]], tx'[f])
  BY DEF QueriesNew
<1>1. net[f] \in Seq(Msgs) /\ QueriesOk(net[f], f, next[f[2]], tx[f]) /\ f[2] \in Cnxs /\ next[f[2]] \in Nat
  BY EndFacts DEF HeldInv, QueriesNew, ChannelTypes
<1>2. CASE f # e
  <2>1. CASE net'[f] = net[f]
    BY <1>1, <1>2, <2>1
  <2>2. CASE \E m \in Msgs : /\ m.t \notin {"read", "write"} /\ (m.t = "start" => f[1] = "client")
                             /\ net'[f] = net[f] \o <<m>>
    BY <1>1, <1>2, <2>2, StartQueries
  <2> QED
    BY <1>2, <2>1, <2>2
<1>3. CASE f = e
  <2> DEFINE q == net[e]
  <2>1. Tail(q) \in Seq(Msgs) /\ QueriesOk(Tail(q), e, next[e[2]], tx[e])
    BY <1>1, <1>3, TailQueries
  <2>2. Len(q) \in Nat /\ Len(q) > 0 /\ Len(Tail(q)) = Len(q) - 1 /\ Head_(e) = q[1]
    BY <1>1, <1>3 DEF Head_
  <2>3. \A p \in 1 .. Len(Tail(q)) : Tail(q)[p] = q[p + 1] /\ p + 1 \in 1 .. Len(q) /\ p + 1 # 1 /\ 1 \in 1 .. Len(q)
    BY <1>1, <1>3, <2>2
  <2>4. \A p \in 1 .. Len(Tail(q)) : Tail(q)[p].id \in Ids
    <3>1. \A p \in 1 .. Len(Tail(q)) : Tail(q)[p] \in Msgs
      BY <2>1
    <3> QED
      BY <3>1 DEF Msgs, Copies, Queries, Answers, Notes
  <2>5. ASSUME NEW p \in 1 .. Len(Tail(q)), Tail(q)[p].t \in {"read", "write"}
        PROVE  tx'[e][Tail(q)[p].id].kind = tx[e][Tail(q)[p].id].kind
    <3>1. e[1] # "client"
      BY <2>1, <2>5 DEF QueriesOk
    <3>2. Tail(q)[p].id = q[1].id /\ q[1].t \in {"read", "write"} => p + 1 = 1
      BY <1>1, <1>3, <2>3, <2>5 DEF QueriesOk
    <3> QED
      BY <2>2, <2>3, <2>4, <3>1, <3>2
  <2>6. next[e[2]] \in Nat /\ next[e[2]] <= next[e[2]]
    BY <1>1, <1>3
  <2>7. QueriesOk(Tail(q), e, next[e[2]], tx'[e])
    <3>1. PICK u : u = tx'[e]
      OBVIOUS
    <3>2. PICK z \in Seq(Msgs) : z = Tail(q)
      BY <2>1
    <3>3. \A p \in 1 .. Len(z) : z[p].t \in {"read", "write"} => u[z[p].id].kind = tx[e][z[p].id].kind
      BY <2>5, <3>1, <3>2
    <3>4. QueriesOk(z, e, next[e[2]], tx[e])
      BY <2>1, <3>2
    <3>5. QueriesOk(z, e, next[e[2]], u)
      BY <3>3, <3>4 DEF QueriesOk
    <3> QED
      BY <3>1, <3>2, <3>5
  <2> QED
    BY <1>3, <2>7
<1> QED
  BY <1>2, <1>3

(* What is read is a message; the host of an end that is up is known.      *)
LEMMA ReadingFacts ==
  ASSUME HeldInv, NEW e \in Ends, NEW kind, Reading(e, kind)
  PROVE  /\ ends[e] = "open" /\ pend[e] = NoPend /\ net[e] # <<>> /\ net[e] \in Seq(Msgs)
         /\ Head_(e) \in Msgs /\ Head_(e).t = kind /\ Head_(e).id \in Ids /\ Tail(net[e]) \in Seq(Msgs)
         /\ Host(e) \in Hosts /\ e[2] \in Cnxs /\ user[e[2]] \in Clients
         /\ e[1] = "client" => Host(e) \in Clients /\ proc[Host(e)] = e[2] /\ e = ClientEnd(e[2]) /\ Host(e) = user[e[2]]
         /\ Head_(e) = net[e][1] /\ 1 \in 1 .. Len(net[e]) /\ Other(e) \in Ends /\ Other(e) # e
<1>1. ends[e] = "open" /\ pend[e] = NoPend /\ net[e] # <<>> /\ Head_(e).t = kind
  BY DEF Reading
<1>2. net[e] \in Seq(Msgs)
  BY DEF HeldInv, ChannelTypes
<1>3. Head_(e) = net[e][1] /\ 1 \in 1 .. Len(net[e]) /\ Head_(e) \in Msgs /\ Tail(net[e]) \in Seq(Msgs)
  BY <1>1, <1>2 DEF Head_
<1>4. Head_(e).id \in Ids
  BY <1>3 DEF Msgs, Copies, Queries, Answers, Notes
<1>5. e[2] \in Cnxs /\ (e = ClientEnd(e[2]) \/ e = ServerEnd(e[2])) /\ (e[1] = "client" => e = ClientEnd(e[2]))
  BY EndFacts
<1>6. user[e[2]] # NoOne
  BY <1>1, <1>5 DEF HeldInv, CnxsUsed
<1>7. user[e[2]] \in Clients
  BY <1>5, <1>6 DEF HeldInv, ChannelTypes
<1>8. Host(e) \in Hosts /\ (e[1] = "client" => Host(e) = user[e[2]])
  BY <1>7 DEF Host, Hosts
<1>9. e[1] = "client" => proc[user[e[2]]] = e[2]
  BY <1>1, <1>5 DEF HeldInv, CnxsUsed
<1> QED
  BY <1>1, <1>2, <1>3, <1>4, <1>5, <1>7, <1>8, <1>9, EndsFinite

(* A message was read at e and m, if there is one, sent back.              *)
Exchanged(e, m) ==
  /\ net' \in [Ends -> Seq(Msgs)] /\ net'[e] = Tail(net[e])
  /\ \A f \in Ends : f # e => net'[f] = net[f] \/ (f = Other(e) /\ ends[f] # "closed" /\ net'[f] = net[f] \o <<m>>)
  /\ \A f \in Ends : ends[f] \in {"none", "closed"} /\ f # e /\ ends[e] = "open" => net'[f] = net[f]

Exchange(e, m) == m \in Answers /\ net[e] # <<>> /\ net' = Deliver(Consumed(e), Other(e), <<m>>)

LEMMA RepliedNet ==
  ASSUME HeldInv, NEW e \in Ends, NEW m, Exchange(e, m)
  PROVE  Exchanged(e, m)
<1>1. net \in [Ends -> Seq(Msgs)]
  BY DEF HeldInv, ChannelTypes
<1>0. net[e] # <<>>
  BY DEF Exchange
<1>2. net[e] \in Seq(Msgs) /\ Tail(net[e]) \in Seq(Msgs)
  <2>1. net[e] \in Seq(Msgs)
    BY <1>1
  <2> QED
    BY <1>0, <2>1
<1>3. m \in Answers
  BY DEF Exchange
<1>4. Other(e) \in Ends /\ Other(e) # e /\ net[Other(e)] \in Seq(Msgs)
  BY <1>1, EndsFinite
<1>5. m \in Msgs
  BY <1>3 DEF Msgs
<1>6. net' = Deliver([net EXCEPT ![e] = Tail(@)], Other(e), <<m>>)
  BY DEF Exchange, Consumed
<1>7. net[Other(e)] \o <<m>> \in Seq(Msgs)
  BY <1>4, <1>5
<1>8. /\ net' \in [Ends -> Seq(Msgs)] /\ net'[e] = Tail(net[e])
      /\ \A f \in Ends : f # e => net'[f] = IF f = Other(e) /\ ends[f] # "closed" THEN net[f] \o <<m>> ELSE net[f]
  <2> DEFINE n == [net EXCEPT ![e] = Tail(@)]
  <2>1. n \in [Ends -> Seq(Msgs)] /\ n[e] = Tail(net[e]) /\ \A f \in Ends : f # e => n[f] = net[f]
    BY <1>1, <1>2
  <2>2. net' = IF ends[Other(e)] = "closed" THEN n ELSE [n EXCEPT ![Other(e)] = @ \o <<m>>]
    BY <1>6 DEF Deliver
  <2> HIDE DEF n
  <2>3. CASE ends[Other(e)] = "closed"
    BY <2>1, <2>2, <2>3
  <2>4. CASE ends[Other(e)] # "closed"
    <3>1. net' = [n EXCEPT ![Other(e)] = net[Other(e)] \o <<m>>]
      BY <1>4, <2>1, <2>2, <2>4
    <3>2. PICK o \in Ends : o = Other(e)
      BY <1>4
    <3> DEFINE y == net[o] \o <<m>>
    <3>3. y \in Seq(Msgs)
      <4>1. net[o] \in Seq(Msgs)
        BY <1>1
      <4>2. net[o] \o <<m>> \in Seq(Msgs)
        BY <1>5, <4>1
      <4> QED
        BY <4>2
    <3> HIDE DEF y
    <3>4. net' = [n EXCEPT ![o] = y] /\ o # e
      BY <1>4, <3>1, <3>2 DEF y
    <3>5. net' \in [Ends -> Seq(Msgs)] /\ \A f \in Ends : net'[f] = IF f = o THEN y ELSE n[f]
      BY <2>1, <3>3, <3>4
    <3> QED
      <4>1. net'[e] = Tail(net[e])
        BY <2>1, <3>4, <3>5
      <4>2. ASSUME NEW f \in Ends, f # e
            PROVE  net'[f] = IF f = Other(e) /\ ends[f] # "closed" THEN net[f] \o <<m>> ELSE net[f]
        <5>1. CASE f = o
          <6>1. net'[f] = net[f] \o <<m>> /\ f = Other(e) /\ ends[f] # "closed"
            BY <2>4, <3>2, <3>5, <5>1 DEF y
          <6> QED
            BY <6>1
        <5>2. CASE f # o
          BY <2>1, <3>2, <3>5, <4>2, <5>2
        <5> QED
          BY <5>1, <5>2
      <4> QED
        BY <3>5, <4>1, <4>2
  <2> QED
    BY <2>3, <2>4
<1>9. \A f \in Ends : ends[f] \in {"none", "closed"} /\ f # e /\ ends[e] = "open" => net'[f] = net[f]
  BY <1>8, OtherNone
<1> QED
  BY <1>8, <1>9 DEF Exchanged

(* A query is for a transfer of the server that does not exist yet.        *)
LEMMA QueryFacts ==
  ASSUME HeldInv, NEW e \in Ends, NEW kind \in {"read", "write"}, Reading(e, kind)
  PROVE  /\ e[1] = "server" /\ Host(e) = Server /\ Server \in Hosts /\ Head_(e).res \in Resources
         /\ Head_(e).id < next[e[2]] /\ tx[e][Head_(e).id].kind = "none" /\ ~ tx[e][Head_(e).id].attached
<1>1. /\ net[e] \in Seq(Msgs) /\ Head_(e) = net[e][1] /\ 1 \in 1 .. Len(net[e]) /\ Head_(e) \in Msgs
      /\ Head_(e).t = kind /\ Head_(e).id \in Ids
  BY ReadingFacts
<1>2. QueriesOk(net[e], e, next[e[2]], tx[e])
  BY DEF HeldInv, QueriesNew
<1>3. e[1] = "server" /\ Head_(e).id < next[e[2]] /\ tx[e][Head_(e).id].kind = "none"
  BY <1>1, <1>2 DEF QueriesOk
<1>4. Head_(e).res \in Resources
  BY <1>1 DEF Msgs, Copies, Queries, Answers, Notes
<1>5. ~ tx[e][Head_(e).id].attached
  BY <1>1, <1>3 DEF HeldInv, TxsNamed
<1> QED
  BY <1>3, <1>4, <1>5 DEF Host, Hosts

(* A transfer v of the server starts on the stream s of resource r.        *)
Served(e, id, r, v, s) ==
  /\ id = Head_(e).id /\ r = Head_(e).res
  /\ v.attached /\ v.status = 0 /\ v.kind \in {"sender", "receiver"} /\ v.key = r
  /\ s.count = stream[Server][r].count + 2 /\ s.res \in Resources
  /\ s.readers = stream[Server][r].readers \cup (IF v.kind = "sender" THEN {<<e, id>>} ELSE {})
  /\ s.writer <=> stream[Server][r].writer \/ v.kind = "receiver"
  /\ v.kind = "receiver" => ~ stream[Server][r].writer
  /\ tx' = [tx EXCEPT ![e][id] = v] /\ stream' = [stream EXCEPT ![Server][r] = s]
  /\ net' = Reply(e, "start", id, 200) /\ file' = [file EXCEPT ![Server][r] = Opened(Server, r)]
  /\ UNCHANGED <<put, owner, pend, proc, main, next, todo, ends, user>>

LEMMA ServeKeeps ==
  ASSUME HeldInv, NEW e \in Ends, NEW kind \in {"read", "write"}, Reading(e, kind),
         NEW id \in Ids, NEW r \in Resources, NEW v \in Txs, NEW s \in Streams, Served(e, id, r, v, s)
  PROVE  HeldInv'
<1>a. id = Head_(e).id /\ r = Head_(e).res
  BY DEF Served
<1>b. v.attached /\ v.status = 0 /\ v.kind \in {"sender", "receiver"} /\ v.key = r
  BY DEF Served
<1>c. /\ s.count = stream[Server][r].count + 2 /\ s.res \in Resources
      /\ s.readers = stream[Server][r].readers \cup (IF v.kind = "sender" THEN {<<e, id>>} ELSE {})
      /\ s.writer <=> stream[Server][r].writer \/ v.kind = "receiver"
      /\ v.kind = "receiver" => ~ stream[Server][r].writer
  BY DEF Served
<1>d. tx' = [tx EXCEPT ![e][id] = v] /\ stream' = [stream EXCEPT ![Server][r] = s]
  BY DEF Served
<1>e. net' = Reply(e, "start", id, 200) /\ file' = [file EXCEPT ![Server][r] = Opened(Server, r)]
  BY DEF Served
<1>f. UNCHANGED <<put, owner, pend, proc, main, next, todo, ends, user>>
  BY DEF Served
<1>1. ChannelTypes /\ MemoryTypes
  BY DEF HeldInv, ChannelTypes
<1>2. /\ ends[e] = "open" /\ net[e] # <<>> /\ net[e] \in Seq(Msgs) /\ Head_(e).t = kind /\ id \in Ids
      /\ Other(e) \in Ends /\ Other(e) # e /\ e[2] \in Cnxs
  BY <1>a, ReadingFacts
<1>3. /\ e[1] = "server" /\ Host(e) = Server /\ Server \in Hosts /\ r \in Resources /\ r \in Keys
      /\ id < next[e[2]] /\ tx[e][id].kind = "none" /\ ~ tx[e][id].attached
  BY <1>a, QueryFacts DEF Keys
<1>4. /\ tx' \in [Ends -> [Ids -> Txs]]
      /\ \A f \in Ends : \A j \in Ids : tx'[f][j] = IF f = e /\ j = id THEN v ELSE tx[f][j]
      /\ \A f \in Ends : f # e => tx'[f] = tx[f]
  BY <1>1, <1>2, <1>d, OneTx
<1>5. /\ stream' \in [Hosts -> [Keys -> Streams]]
      /\ \A g \in Hosts : \A j \in Keys : stream'[g][j] = IF g = Server /\ j = r THEN s ELSE stream[g][j]
  BY <1>1, <1>3, <1>d, OneStream
<1>6. /\ net' \in [Ends -> Seq(Msgs)] /\ net'[e] = Tail(net[e])
      /\ \A f \in Ends : f # e =>
           \/ net'[f] = net[f]
           \/ f = Other(e) /\ net'[f] = net[f] \o << [t |-> "start", id |-> id, status |-> 200] >>
      /\ [t |-> "start", id |-> id, status |-> 200] \in Answers
      /\ \A f \in Ends : ends[f] \in {"none", "closed"} /\ f # e /\ ends[e] = "open" => net'[f] = net[f]
  <2>1. PICK m \in Answers : m = [t |-> "start", id |-> id, status |-> 200]
    BY DEF Answers
  <2>2. Exchange(e, m)
    BY <1>2, <1>e, <2>1 DEF Reply, Exchange
  <2>3. Exchanged(e, m)
    BY <2>2, RepliedNet
  <2> QED
    BY <2>1, <2>3 DEF Exchanged
<1>7. QueriesNew'
  <2> DEFINE m == [t |-> "start", id |-> id, status |-> 200]
  <2>1. m \in Msgs /\ m.t = "start"
    BY <1>6 DEF Msgs
  <2>2. Other(e)[1] = "client"
    BY <1>3 DEF Other
  <2>3. \A f \in Ends : f # e => net'[f] = net[f] \/ (f[1] = "client" /\ net'[f] = net[f] \o <<m>>)
    BY <1>6, <2>2
  <2> HIDE DEF m
  <2>4. \A f \in Ends : f # e => \/ net'[f] = net[f]
                                 \/ \E a \in Msgs : /\ a.t \notin {"read", "write"} /\ (a.t = "start" => f[1] = "client")
                                                    /\ net'[f] = net[f] \o <<a>>
    BY <2>1, <2>3
  <2>5. \A i \in Ids : \/ tx'[e][i].kind = tx[e][i].kind
                       \/ e[1] = "client"
                       \/ i = Head_(e).id /\ Head_(e).t \in {"read", "write"}
    BY <1>2, <1>4, <1>a
  <2>6. next' = next
    BY <1>f
  <2> QED
    BY <1>2, <1>4, <1>6, <2>4, <2>5, <2>6, TakenQueries
<1>8. CnxsUsed'
  <2>1. \A f \in Ends : ends[f] \in {"none", "connecting", "closed"} => pend'[f] = pend[f] /\ tx'[f] = tx[f]
    BY <1>2, <1>4, <1>f
  <2>2. \A f \in Ends : ends[f] \in {"none", "closed"} => net'[f] = net[f]
    BY <1>2, <1>6
  <2> QED
    BY <1>f, <2>1, <2>2, CnxsKeep DEF HeldInv
<1>9. TxsNamed'
  <2> SUFFICES ASSUME NEW f \in Ends, NEW i \in Ids PROVE TxsNamed!(f)!(i)'
    BY DEF TxsNamed
  <2>1. TxsNamed!(f)!(i)
    BY DEF HeldInv, TxsNamed
  <2>2. CASE f = e /\ i = id
    BY <1>3, <1>4, <1>b, <1>f, <2>2
  <2>3. CASE ~ (f = e /\ i = id)
    BY <1>4, <1>f, <2>1, <2>3
  <2> QED
    BY <2>2, <2>3
<1>10. ASSUME NEW d \in Clients PROVE MainWaits!(d)'
  <2>1. d \in Hosts /\ d # Server
    BY ChannelAssumption DEF Hosts
  <2>2. \A k \in Resources : stream'[d][k].writer = stream[d][k].writer
    BY <1>5, <2>1 DEF Keys
  <2>3. main[d].id # 0 => proc[d] \in Cnxs
    BY <1>1 DEF HeldInv, MainWaits, ChannelTypes
  <2>4. main[d].id # 0 => next[proc[d]] \in Nat /\ next[proc[d]] >= next[proc[d]]
    BY <1>1, <2>3 DEF ChannelTypes
  <2>5. main[d].id # 0 => ClientEnd(proc[d]) \in Ends /\ ClientEnd(proc[d]) # e
    BY <1>3, <2>3, EndFacts
  <2>6. main[d].id # 0 => tx'[ClientEnd(proc[d])][main[d].id].kind = tx[ClientEnd(proc[d])][main[d].id].kind
    BY <1>4, <2>5
  <2> QED
    BY <1>f, <2>2, <2>4, <2>6, WaitsKeep
<1>11. /\ \A g \in Hosts : \A j \in Keys : g # Server \/ j # r =>
            Mine(g, j)' = Mine(g, j) /\ Writers(g, j)' = Writers(g, j) /\ stream'[g][j] = stream[g][j]
       /\ Mine(Server, r)' = (Mine(Server, r) \ {<<e, id>>}) \cup {<<e, id>>}
       /\ Writers(Server, r)' = (Writers(Server, r) \ {<<e, id>>}) \cup (IF v.kind = "receiver" THEN {<<e, id>>} ELSE {})
       /\ stream'[Server][r] = s
  <2>1. PICK h \in Hosts : h = Server
    BY <1>3
  <2>2. h = Host(e) /\ user' = user /\ stream' = [stream EXCEPT ![h][r] = s] /\ (tx[e][id].attached => tx[e][id].key = r)
    BY <1>3, <1>d, <1>f, <2>1
  <2>3. Attaching(e, id, v, h, r, s)
    BY <1>b, <1>d, <2>2 DEF Attaching
  <2>4. Attached(e, id, v, h, r, s)
    BY <1>3, <2>3, TxStep
  <2> QED
    BY <1>b, <2>1, <2>4 DEF Attached
<1>12. \A g, k : Pending(g, k)' = Pending(g, k)
  BY <1>f DEF Pending
<1>13. Counted(Server, r)'
  <2>1. <<e, id>> \notin Mine(Server, r) /\ <<e, id>> \notin Writers(Server, r)
    BY <1>3 DEF Mine, Writers
  <2>2. Mine(Server, r)' = Mine(Server, r) \cup {<<e, id>>}
    BY <1>11, <2>1
  <2>3. Writers(Server, r)' = IF v.kind = "receiver" THEN Writers(Server, r) \cup {<<e, id>>} ELSE Writers(Server, r)
    BY <1>11, <2>1
  <2>4. Cardinality(Mine(Server, r)) \in Nat /\ Cardinality(Mine(Server, r)') = Cardinality(Mine(Server, r)) + 1
    BY <2>1, <2>2, MineFinite, MineCounts
  <2>5. Counted(Server, r) /\ Pending(Server, r)' = 0 /\ Pending(Server, r) = 0 /\ stream[Server][r].count \in Nat
    <3>1. Pending(Server, r) = 0
      BY ChannelAssumption DEF Pending
    <3>2. stream[Server][r] \in Streams
      BY <1>1, <1>3 DEF MemoryTypes
    <3> QED
      BY <1>3, <1>12, <3>1, <3>2 DEF HeldInv, Streams
  <2>6. s.count >= Cardinality(Mine(Server, r)') + 0
    BY <1>c, <2>4, <2>5 DEF Counted
  <2>7. v.kind = "receiver" => Writers(Server, r) = {}
    BY <1>c, <2>5 DEF Counted
  <2>8. s.readers = Mine(Server, r)' \ Writers(Server, r)'
    <3>1. Writers(Server, r) \subseteq Mine(Server, r)
      BY DEF Writers
    <3>2. stream[Server][r].readers = Mine(Server, r) \ Writers(Server, r)
      BY <2>5 DEF Counted
    <3>3. CASE v.kind = "receiver"
      BY <1>c, <2>1, <2>2, <2>3, <2>7, <3>2, <3>3
    <3>4. CASE v.kind = "sender"
      BY <1>c, <2>1, <2>2, <2>3, <3>1, <3>2, <3>4
    <3> QED
      BY <1>b, <3>3, <3>4
  <2>9. s.writer <=> Writers(Server, r)' # {}
    BY <1>c, <2>3, <2>5 DEF Counted
  <2>10. \A t, u \in Writers(Server, r)' : t = u
    BY <2>3, <2>5, <2>7 DEF Counted
  <2> QED
    BY <1>c, <1>11, <2>5, <2>6, <2>8, <2>9, <2>10 DEF Counted
<1>14. ASSUME NEW g \in Hosts, NEW j \in Keys PROVE Counted(g, j)'
  <2>1. CASE g = Server /\ j = r
    BY <1>13, <2>1
  <2>2. CASE g # Server \/ j # r
    <3>1. Counted(g, j)
      BY DEF HeldInv
    <3> QED
      BY <1>11, <1>12, <2>2, <3>1 DEF Counted
  <2> QED
    BY <2>1, <2>2
<1>15. ChannelTypes'
  <2>1. file' \in [Hosts -> [Resources -> Seq(Nat)]]
    BY <1>1, <1>3, <1>e, OpenedType
  <2> QED
    BY <1>1, <1>4, <1>5, <1>6, <1>f, <2>1 DEF ChannelTypes, MemoryTypes
<1> QED
  BY <1>7, <1>8, <1>9, <1>10, <1>14, <1>15 DEF HeldInv, MainWaits

(* A transfer as serve_read_write and finalize_txstart make it.            *)
LEMMA NewTx ==
  ASSUME NEW kind \in {"sender", "receiver"}, NEW key \in Keys
  PROVE  /\ \A w \in BOOLEAN : \E v \in Txs :
              /\ v = [NoTx EXCEPT !.kind = kind, !.key = key, !.attached = TRUE, !.whole = w]
              /\ v.attached /\ v.status = 0 /\ v.kind = kind /\ v.key = key
         /\ \E v \in Txs : /\ v = [NoTx EXCEPT !.kind = kind, !.key = key, !.attached = TRUE]
                           /\ v.attached /\ v.status = 0 /\ v.kind = kind /\ v.key = key
<1>0. /\ <<>> \in Seq(Frags) /\ <<>> \in Seq(Nat)
      /\ key \in Keys \cup {NoOne} /\ 0 \in {0, 200, 501} /\ kind \in {"none", "sender", "receiver"}
  OBVIOUS
<1>1. ASSUME NEW w \in BOOLEAN
      PROVE  LET v == [NoTx EXCEPT !.kind = kind, !.key = key, !.attached = TRUE, !.whole = w]
             IN  v \in Txs /\ v.attached /\ v.status = 0 /\ v.kind = kind /\ v.key = key
  BY <1>0 DEF NoTx, Txs
<1>2. LET v == [NoTx EXCEPT !.kind = kind, !.key = key, !.attached = TRUE]
      IN  v \in Txs /\ v.attached /\ v.status = 0 /\ v.kind = kind /\ v.key = key
  BY <1>0 DEF NoTx, Txs
<1>6. \E v \in Txs : /\ v = [NoTx EXCEPT !.kind = kind, !.key = key, !.attached = TRUE]
                     /\ v.attached /\ v.status = 0 /\ v.kind = kind /\ v.key = key
  BY <1>2, Zenon
<1>7. ASSUME NEW w \in BOOLEAN
      PROVE  \E v \in Txs : /\ v = [NoTx EXCEPT !.kind = kind, !.key = key, !.attached = TRUE, !.whole = w]
                            /\ v.attached /\ v.status = 0 /\ v.kind = kind /\ v.key = key
  BY <1>1, <1>7, Zenon
<1> QED
  BY <1>6, <1>7, Zenon

(* A stream with one more or one less reader or writer.                    *)
LEMMA ReaderAdded ==
  ASSUME NEW s \in Streams, NEW t \in Parties
  PROVE  /\ stream_add_reader(s, t) \in Streams /\ stream_add_reader(s, t).count = s.count + 1
         /\ stream_add_reader(s, t).res = s.res /\ stream_add_reader(s, t).readers = s.readers \cup {t}
         /\ stream_add_reader(s, t).writer = s.writer
<1> DEFINE u == [s EXCEPT !.readers = @ \cup {t}]
<1>1. u \in Streams /\ u.count = s.count /\ u.res = s.res /\ u.readers = s.readers \cup {t} /\ u.writer = s.writer
  BY DEF Streams
<1>2. stream_add_reader(s, t) = stream_ref(u)
  BY DEF stream_add_reader
<1> HIDE DEF u
<1>3. /\ stream_ref(u) \in Streams /\ stream_ref(u).count = u.count + 1 /\ stream_ref(u).res = u.res
      /\ stream_ref(u).readers = u.readers /\ stream_ref(u).writer = u.writer
  BY <1>1, Referred
<1>4. stream_add_reader(s, t).writer = s.writer
  BY <1>1, <1>2, <1>3, Zenon
<1> QED
  BY <1>1, <1>2, <1>3, <1>4

LEMMA WriterAdded ==
  ASSUME NEW s \in Streams
  PROVE  /\ stream_add_writer(s) \in Streams /\ stream_add_writer(s).count = s.count + 1
         /\ stream_add_writer(s).res = s.res /\ stream_add_writer(s).readers = s.readers
         /\ stream_add_writer(s).writer
<1> DEFINE u == [s EXCEPT !.writer = TRUE]
<1>1. u \in Streams /\ u.count = s.count /\ u.res = s.res /\ u.readers = s.readers /\ u.writer
  BY DEF Streams
<1>2. stream_add_writer(s) = stream_ref(u)
  BY DEF stream_add_writer
<1> HIDE DEF u
<1>3. /\ stream_ref(u) \in Streams /\ stream_ref(u).count = u.count + 1 /\ stream_ref(u).res = u.res
      /\ stream_ref(u).readers = u.readers /\ stream_ref(u).writer = u.writer
  BY <1>1, Referred
<1>4. stream_add_writer(s).writer
  BY <1>1, <1>2, <1>3, Zenon
<1> QED
  BY <1>1, <1>2, <1>3, <1>4

LEMMA ReaderRemoved ==
  ASSUME NEW s \in Streams, NEW t
  PROVE  /\ stream_remove_reader(s, t) \in Streams
         /\ s.count <= 1 => stream_remove_reader(s, t) = NoStream
         /\ s.count > 1 => /\ stream_remove_reader(s, t).count = s.count - 1 /\ stream_remove_reader(s, t).res = s.res
                           /\ stream_remove_reader(s, t).readers = s.readers \ {t}
                           /\ stream_remove_reader(s, t).writer = s.writer
<1> DEFINE u == [s EXCEPT !.readers = @ \ {t}]
<1>1. u \in Streams /\ u.count = s.count /\ u.res = s.res /\ u.readers = s.readers \ {t} /\ u.writer = s.writer
  BY DEF Streams
<1>2. stream_remove_reader(s, t) = stream_unref(u)
  BY DEF stream_remove_reader
<1> HIDE DEF u
<1>3. /\ stream_unref(u) \in Streams
      /\ u.count <= 1 => stream_unref(u) = NoStream
      /\ u.count > 1 => /\ stream_unref(u).count = u.count - 1 /\ stream_unref(u).res = u.res
                        /\ stream_unref(u).readers = u.readers /\ stream_unref(u).writer = u.writer
  BY <1>1, Unreferred
<1>4. s.count > 1 => stream_remove_reader(s, t).writer = s.writer
  BY <1>1, <1>2, <1>3, Zenon
<1> QED
  BY <1>1, <1>2, <1>3, <1>4

LEMMA WriterRemoved ==
  ASSUME NEW s \in Streams
  PROVE  /\ stream_remove_writer(s) \in Streams
         /\ s.count <= 1 => stream_remove_writer(s) = NoStream
         /\ s.count > 1 => /\ stream_remove_writer(s).count = s.count - 1 /\ stream_remove_writer(s).res = s.res
                           /\ stream_remove_writer(s).readers = s.readers /\ ~ stream_remove_writer(s).writer
<1> DEFINE u == [s EXCEPT !.writer = FALSE]
<1>1. u \in Streams /\ u.count = s.count /\ u.res = s.res /\ u.readers = s.readers /\ ~ u.writer
  BY DEF Streams
<1>2. stream_remove_writer(s) = stream_unref(u)
  BY DEF stream_remove_writer
<1> HIDE DEF u
<1>3. /\ stream_unref(u) \in Streams
      /\ u.count <= 1 => stream_unref(u) = NoStream
      /\ u.count > 1 => /\ stream_unref(u).count = u.count - 1 /\ stream_unref(u).res = u.res
                        /\ stream_unref(u).readers = u.readers /\ stream_unref(u).writer = u.writer
  BY <1>1, Unreferred
<1>4. s.count > 1 => ~ stream_remove_writer(s).writer
  BY <1>1, <1>2, <1>3, Zenon
<1> QED
  BY <1>1, <1>2, <1>3, <1>4

LEMMA ReadKeeps ==
  ASSUME HeldInv, NEW e \in Ends, serve_read(e) PROVE HeldInv'
<1>1. Reading(e, "read")
  BY DEF serve_read
<1>2. Head_(e).id \in Ids /\ Head_(e).res \in Resources /\ Server \in Hosts
  BY <1>1, ReadingFacts, QueryFacts
<1>3. PICK id \in Ids, r \in Resources : id = Head_(e).id /\ r = Head_(e).res
  BY <1>2
<1>4. /\ r \in Keys /\ stream_lookup(Server, r) \in Streams /\ stream_lookup(Server, r).count = stream[Server][r].count + 1
      /\ stream_lookup(Server, r).res \in Resources /\ stream[Server][r].count \in Nat
      /\ stream_lookup(Server, r).readers = stream[Server][r].readers
      /\ stream_lookup(Server, r).writer = stream[Server][r].writer
  BY <1>2, LookedUp
<1>5. PICK l \in Streams : l = stream_lookup(Server, r)
  BY <1>4
<1>6. <<e, id>> \in Parties
  BY DEF Parties
<1>7. PICK s \in Streams : s = stream_add_reader(l, <<e, id>>)
  BY <1>5, <1>6, ReaderAdded
<1>8. s.count = l.count + 1 /\ s.res = l.res /\ s.readers = l.readers \cup {<<e, id>>} /\ s.writer = l.writer
  BY <1>5, <1>6, <1>7, ReaderAdded
<1>9. (file[Server][r] = Content) \in BOOLEAN
  OBVIOUS
<1>10. PICK v \in Txs : /\ v = [NoTx EXCEPT !.kind = "sender", !.key = r, !.attached = TRUE,
                                              !.whole = file[Server][r] = Content]
                        /\ v.attached /\ v.status = 0 /\ v.kind = "sender" /\ v.key = r
  <2>1. "sender" \in {"sender", "receiver"}
    OBVIOUS
  <2>2. PICK w \in BOOLEAN : w = (file[Server][r] = Content)
    BY <1>9
  <2>3. \E v \in Txs : /\ v = [NoTx EXCEPT !.kind = "sender", !.key = r, !.attached = TRUE, !.whole = w]
                       /\ v.attached /\ v.status = 0 /\ v.kind = "sender" /\ v.key = r
    <3>1. \A u \in BOOLEAN : \E v \in Txs :
            /\ v = [NoTx EXCEPT !.kind = "sender", !.key = r, !.attached = TRUE, !.whole = u]
            /\ v.attached /\ v.status = 0 /\ v.kind = "sender" /\ v.key = r
      BY <1>4, <2>1, NewTx
    <3> QED
      BY <3>1, Zenon
  <2> QED
    BY <2>2, <2>3, Zenon
<1>11. /\ stream' = [stream EXCEPT ![Server][r] = s] /\ tx' = [tx EXCEPT ![e][id] = v]
       /\ net' = Reply(e, "start", id, 200) /\ file' = [file EXCEPT ![Server][r] = Opened(Server, r)]
       /\ UNCHANGED <<put, owner, pend, proc, main, next, todo, ends, user>>
  BY <1>3, <1>5, <1>7, <1>10 DEF serve_read, client
<1>12. s.writer <=> stream[Server][r].writer \/ v.kind = "receiver"
  BY <1>4, <1>5, <1>8, <1>10
<1>13. /\ s.count = stream[Server][r].count + 2 /\ s.res \in Resources
       /\ s.readers = stream[Server][r].readers \cup (IF v.kind = "sender" THEN {<<e, id>>} ELSE {})
       /\ v.kind # "receiver"
  BY <1>4, <1>5, <1>8, <1>10
<1>14. Served(e, id, r, v, s)
  BY <1>3, <1>10, <1>11, <1>12, <1>13 DEF Served
<1> QED
  BY <1>1, <1>14, ServeKeeps

(* A file that is being written already cannot be written: the reference   *)
(* stays and the client is told.                                           *)
LEMMA RefusedKeeps ==
  ASSUME HeldInv, NEW e \in Ends, Reading(e, "write"), NEW id \in Ids, NEW r \in Resources,
         id = Head_(e).id, r = Head_(e).res, NEW s \in Streams, s = stream_lookup(Server, r),
         stream' = [stream EXCEPT ![Server][r] = s], net' = Reply(e, "start", id, 500),
         file' = [file EXCEPT ![Server][r] = Opened(Server, r)],
         UNCHANGED <<tx, put, owner, pend, proc, main, next, todo, ends, user>>
  PROVE  HeldInv'
<1>1. ChannelTypes /\ MemoryTypes
  BY DEF HeldInv, ChannelTypes
<1>2. /\ ends[e] = "open" /\ net[e] # <<>> /\ e[1] = "server" /\ Server \in Hosts
      /\ Other(e) \in Ends /\ Other(e)[1] = "client"
  BY ReadingFacts, QueryFacts DEF Other
<1>3. /\ r \in Keys /\ s.count = stream[Server][r].count + 1
      /\ s.res \in Resources /\ stream[Server][r].count \in Nat
      /\ s.readers = stream[Server][r].readers /\ s.writer = stream[Server][r].writer
  BY <1>2, LookedUp
<1>4. MemoryTypes' /\ \A g \in Hosts : \A j \in Keys : stream'[g][j] = IF g = Server /\ j = r THEN s ELSE stream[g][j]
  BY <1>1, <1>2, <1>3, OneStream DEF MemoryTypes
<1>5. PICK m \in Answers : m = [t |-> "start", id |-> id, status |-> 500]
  BY DEF Answers
<1>6. Exchange(e, m)
  BY <1>2, <1>5 DEF Reply, Exchange
<1>7. Exchanged(e, m)
  BY <1>6, RepliedNet
<1>8. /\ net' \in [Ends -> Seq(Msgs)] /\ net'[e] = Tail(net[e])
      /\ \A f \in Ends : f # e => net'[f] = net[f] \/ (f[1] = "client" /\ net'[f] = net[f] \o <<m>>)
      /\ \A f \in Ends : ends[f] \in {"none", "closed"} /\ f # e => net'[f] = net[f]
  BY <1>2, <1>7 DEF Exchanged
<1>9. QueriesNew'
  <2>1. m \in Msgs /\ m.t = "start"
    BY <1>5 DEF Msgs
  <2>2. \A f \in Ends : f # e => \/ net'[f] = net[f]
                                 \/ \E a \in Msgs : /\ a.t \notin {"read", "write"} /\ (a.t = "start" => f[1] = "client")
                                                    /\ net'[f] = net[f] \o <<a>>
    BY <1>8, <2>1
  <2> QED
    BY <1>2, <1>8, <2>2, TakenQueries
<1>10. CnxsUsed'
  <2>1. \A f \in Ends : ends[f] \in {"none", "closed"} => net'[f] = net[f]
    BY <1>2, <1>8
  <2> QED
    BY <2>1, CnxsKeep DEF HeldInv
<1>11. TxsNamed'
  BY DEF HeldInv, TxsNamed
<1>12. ASSUME NEW d \in Clients PROVE MainWaits!(d)'
  <2>1. d \in Hosts /\ d # Server
    BY ChannelAssumption DEF Hosts
  <2>2. \A k \in Resources : stream'[d][k].writer = stream[d][k].writer
    BY <1>4, <2>1 DEF Keys
  <2>3. main[d].id # 0 => next[proc[d]] \in Nat /\ next[proc[d]] >= next[proc[d]]
    BY <1>1 DEF HeldInv, MainWaits, ChannelTypes
  <2> QED
    BY <2>2, <2>3, WaitsKeep
<1>13. \A g, k : Pending(g, k)' = Pending(g, k)
  BY DEF Pending
<1>14. Counted(Server, r) /\ Cardinality(Mine(Server, r)) \in Nat
  BY <1>2, <1>3, MineFinite DEF HeldInv
<1>15. \A g \in Hosts : \A j \in Keys : Counted(g, j)'
  <2>1. Pending(Server, r)' = 0 /\ Pending(Server, r) = 0
    BY <1>13, ChannelAssumption DEF Pending
  <2>2. s.count >= Cardinality(Mine(Server, r)) + Pending(Server, r)'
    BY <1>3, <1>14, <2>1 DEF Counted
  <2>3. s.readers = Mine(Server, r) \ Writers(Server, r) /\ (s.writer <=> Writers(Server, r) # {})
    BY <1>3, <1>14 DEF Counted
  <2>4. UNCHANGED <<tx, user>>
    OBVIOUS
  <2>5. \A g \in Hosts : \A j \in Keys : g # Server \/ j # r => Pending(g, j)' = Pending(g, j)
    BY <1>13
  <2> QED
    BY <1>2, <1>3, <2>2, <2>3, <2>4, <2>5, StreamStep
<1>16. ChannelTypes'
  <2>1. file' \in [Hosts -> [Resources -> Seq(Nat)]]
    BY <1>1, <1>2, OpenedType
  <2> QED
    BY <1>1, <1>4, <1>8, <2>1 DEF ChannelTypes
<1> QED
  BY <1>9, <1>10, <1>11, <1>12, <1>15, <1>16 DEF HeldInv, MainWaits

LEMMA WriteKeeps ==
  ASSUME HeldInv, NEW e \in Ends, serve_write(e) PROVE HeldInv'
<1>1. Reading(e, "write")
  BY DEF serve_write
<1>2. Head_(e).id \in Ids /\ Head_(e).res \in Resources /\ Server \in Hosts
  BY <1>1, ReadingFacts, QueryFacts
<1>3. PICK id \in Ids, r \in Resources : id = Head_(e).id /\ r = Head_(e).res
  BY <1>2
<1>4. /\ r \in Keys /\ stream_lookup(Server, r) \in Streams /\ stream_lookup(Server, r).count = stream[Server][r].count + 1
      /\ stream_lookup(Server, r).res \in Resources /\ stream[Server][r].count \in Nat
      /\ stream_lookup(Server, r).readers = stream[Server][r].readers
      /\ stream_lookup(Server, r).writer = stream[Server][r].writer
  BY <1>2, LookedUp
<1>5. PICK l \in Streams : l = stream_lookup(Server, r)
  BY <1>4
<1>6. CASE l.writer
  <2>1. /\ stream' = [stream EXCEPT ![Server][r] = l] /\ net' = Reply(e, "start", id, 500)
        /\ file' = [file EXCEPT ![Server][r] = Opened(Server, r)]
        /\ UNCHANGED <<tx, put, owner, pend, proc, main, next, todo, ends, user>>
    BY <1>3, <1>5, <1>6 DEF serve_write, client
  <2> QED
    BY <1>1, <1>3, <1>5, <2>1, RefusedKeeps
<1>7. CASE ~ l.writer
  <2>1. PICK s \in Streams : s = stream_add_writer(l)
    BY <1>5, WriterAdded
  <2>2. s.count = l.count + 1 /\ s.res = l.res /\ s.readers = l.readers /\ s.writer
    BY <1>5, <2>1, WriterAdded
  <2>3. PICK v \in Txs : /\ v = [NoTx EXCEPT !.kind = "receiver", !.key = r, !.attached = TRUE]
                         /\ v.attached /\ v.status = 0 /\ v.kind = "receiver" /\ v.key = r
    <3>1. "receiver" \in {"sender", "receiver"}
      OBVIOUS
    <3> QED
      BY <1>4, <3>1, NewTx, Zenon
  <2>4. /\ stream' = [stream EXCEPT ![Server][r] = s] /\ tx' = [tx EXCEPT ![e][id] = v]
        /\ net' = Reply(e, "start", id, 200) /\ file' = [file EXCEPT ![Server][r] = Opened(Server, r)]
        /\ UNCHANGED <<put, owner, pend, proc, main, next, todo, ends, user>>
    BY <1>3, <1>5, <1>7, <2>1, <2>3 DEF serve_write, client
  <2>5. (s.writer <=> stream[Server][r].writer \/ v.kind = "receiver") /\ ~ stream[Server][r].writer
    BY <1>4, <1>5, <1>7, <2>2, <2>3
  <2>6. /\ s.count = stream[Server][r].count + 2 /\ s.res \in Resources
        /\ s.readers = stream[Server][r].readers \cup (IF v.kind = "sender" THEN {<<e, id>>} ELSE {})
    BY <1>4, <1>5, <2>2, <2>3
  <2>7. Served(e, id, r, v, s)
    BY <1>3, <2>3, <2>4, <2>5, <2>6 DEF Served
  <2> QED
    BY <1>1, <2>7, ServeKeeps
<1> QED
  BY <1>6, <1>7

-----------------------------------------------------------------------------
(* A stream s that the transfers A have, W of them for writing, and n      *)
(* other references.                                                       *)
Fits(s, A, W, n) ==
  /\ s.count >= Cardinality(A) + n
  /\ s.count > 0 => s.res \in Resources
  /\ s.readers = A \ W
  /\ s.writer <=> W # {}

(* stream_unref takes the stream away only when nothing has it.            *)
LEMMA FitsUnref ==
  ASSUME NEW s \in Streams, NEW A, IsFiniteSet(A), NEW W \in SUBSET A, NEW n \in Nat, Fits(s, A, W, n + 1)
  PROVE  stream_unref(s) \in Streams /\ Fits(stream_unref(s), A, W, n)
<1>1. Cardinality(A) \in Nat /\ s.count \in Nat
  BY FS_CardinalityType DEF Streams
<1>2. s.count >= Cardinality(A) + (n + 1) /\ (s.count > 0 => s.res \in Resources) /\ s.readers = A \ W
  BY DEF Fits
<1>3. s.writer <=> W # {}
  BY DEF Fits
<1>4. CASE s.count > 1
  <2>1. stream_unref(s).writer <=> W # {}
    BY <1>3, <1>4, Unreferred
  <2> QED
    BY <1>1, <1>2, <1>4, <2>1, Unreferred DEF Fits
<1>5. CASE s.count <= 1
  <2>1. Cardinality(A) = 0 /\ n = 0
    BY <1>1, <1>2, <1>5
  <2>2. A = {} /\ W = {}
    BY <2>1, FS_EmptySet
  <2>3. stream_unref(s) = NoStream
    BY <1>5, Unreferred
  <2>4. NoStream.count = 0 /\ NoStream.readers = {} /\ NoStream.writer = FALSE
    BY DEF NoStream
  <2>5. ~ NoStream.writer
    BY <2>4
  <2> QED
    BY <2>1, <2>2, <2>3, <2>4, <2>5, NoStreamType DEF Fits
<1> QED
  BY <1>1, <1>4, <1>5

LEMMA FitsReader ==
  ASSUME NEW s \in Streams, NEW A, IsFiniteSet(A), NEW W \in SUBSET A, NEW n \in Nat, Fits(s, A, W, n), s.count > 0,
         NEW t \in Parties, t \notin A
  PROVE  stream_add_reader(s, t) \in Streams /\ Fits(stream_add_reader(s, t), A \cup {t}, W, n)
<1>1. /\ Cardinality(A) \in Nat /\ s.count \in Nat /\ IsFiniteSet(A \cup {t})
      /\ Cardinality(A \cup {t}) = Cardinality(A) + 1
  BY FS_CardinalityType, FS_AddElement DEF Streams
<1>2. s.count >= Cardinality(A) + n /\ (s.count > 0 => s.res \in Resources) /\ s.readers = A \ W
  BY DEF Fits
<1>3. s.writer <=> W # {}
  BY DEF Fits
<1>4. stream_add_reader(s, t).writer <=> W # {}
  BY <1>3, ReaderAdded
<1>5. stream_add_reader(s, t).readers = (A \cup {t}) \ W
  BY <1>2, ReaderAdded
<1>6. stream_add_reader(s, t).count >= Cardinality(A \cup {t}) + n /\ stream_add_reader(s, t).res \in Resources
  BY <1>1, <1>2, ReaderAdded
<1> QED
  BY <1>4, <1>5, <1>6, ReaderAdded DEF Fits

LEMMA FitsWriter ==
  ASSUME NEW s \in Streams, NEW A, IsFiniteSet(A), NEW n \in Nat, Fits(s, A, {}, n), s.count > 0,
         NEW t \in Parties, t \notin A
  PROVE  stream_add_writer(s) \in Streams /\ Fits(stream_add_writer(s), A \cup {t}, {t}, n)
<1>1. /\ Cardinality(A) \in Nat /\ s.count \in Nat /\ IsFiniteSet(A \cup {t})
      /\ Cardinality(A \cup {t}) = Cardinality(A) + 1
  BY FS_CardinalityType, FS_AddElement DEF Streams
<1>2. s.count >= Cardinality(A) + n /\ (s.count > 0 => s.res \in Resources) /\ s.readers = A
  BY DEF Fits
<1>3. stream_add_writer(s).writer <=> {t} # {}
  BY WriterAdded
<1>4. stream_add_writer(s).readers = (A \cup {t}) \ {t}
  BY <1>2, WriterAdded
<1>5. stream_add_writer(s).count >= Cardinality(A \cup {t}) + n /\ stream_add_writer(s).res \in Resources
  BY <1>1, <1>2, WriterAdded
<1> QED
  BY <1>3, <1>4, <1>5, WriterAdded DEF Fits

LEMMA FitsReaderGone ==
  ASSUME NEW s \in Streams, NEW A, IsFiniteSet(A), NEW W \in SUBSET A, NEW n \in Nat, Fits(s, A, W, n),
         NEW t \in A \ W
  PROVE  stream_remove_reader(s, t) \in Streams /\ Fits(stream_remove_reader(s, t), A \ {t}, W, n)
<1> DEFINE u == [s EXCEPT !.readers = @ \ {t}]
           B == A \ {t}
<1>1. u \in Streams /\ u.count = s.count /\ u.res = s.res /\ u.readers = s.readers \ {t} /\ u.writer = s.writer
  BY DEF Streams
<1>2. stream_remove_reader(s, t) = stream_unref(u)
  BY DEF stream_remove_reader
<1>3. /\ Cardinality(A) \in Nat /\ s.count \in Nat /\ IsFiniteSet(B)
      /\ Cardinality(B) = Cardinality(A) - 1
  BY FS_CardinalityType, FS_RemoveElement DEF Streams
<1>4. s.count >= Cardinality(A) + n /\ (s.count > 0 => s.res \in Resources) /\ s.readers = A \ W
  BY DEF Fits
<1>5. s.writer <=> W # {}
  BY DEF Fits
<1>6. W \in SUBSET B /\ s.readers \ {t} = B \ W
  BY <1>4
<1> HIDE DEF u, B
<1>7. u.writer <=> W # {}
  BY <1>1, <1>5
<1>8. u.count >= Cardinality(B) + (n + 1) /\ (u.count > 0 => u.res \in Resources) /\ u.readers = B \ W
  BY <1>1, <1>3, <1>4, <1>6
<1>9. Fits(u, B, W, n + 1)
  BY <1>7, <1>8 DEF Fits
<1>10. stream_unref(u) \in Streams /\ Fits(stream_unref(u), B, W, n)
  BY <1>1, <1>3, <1>6, <1>9, FitsUnref
<1> QED
  BY <1>2, <1>10 DEF B

LEMMA FitsWriterGone ==
  ASSUME NEW s \in Streams, NEW A, IsFiniteSet(A), NEW t \in A, NEW n \in Nat, Fits(s, A, {t}, n)
  PROVE  stream_remove_writer(s) \in Streams /\ Fits(stream_remove_writer(s), A \ {t}, {}, n)
<1> DEFINE u == [s EXCEPT !.writer = FALSE]
           B == A \ {t}
<1>1. u \in Streams /\ u.count = s.count /\ u.res = s.res /\ u.readers = s.readers /\ ~ u.writer
  BY DEF Streams
<1>2. stream_remove_writer(s) = stream_unref(u)
  BY DEF stream_remove_writer
<1>3. /\ Cardinality(A) \in Nat /\ s.count \in Nat /\ IsFiniteSet(B)
      /\ Cardinality(B) = Cardinality(A) - 1
  BY FS_CardinalityType, FS_RemoveElement DEF Streams
<1>4. s.count >= Cardinality(A) + n /\ (s.count > 0 => s.res \in Resources) /\ s.readers = B
  BY DEF Fits
<1> HIDE DEF u, B
<1>5. u.writer <=> {} # {}
  BY <1>1
<1>6. u.count >= Cardinality(B) + (n + 1) /\ (u.count > 0 => u.res \in Resources) /\ u.readers = B \ {}
  BY <1>1, <1>3, <1>4
<1>7. Fits(u, B, {}, n + 1)
  BY <1>5, <1>6 DEF Fits
<1>8. stream_unref(u) \in Streams /\ Fits(stream_unref(u), B, {}, n)
  BY <1>1, <1>3, <1>7, FitsUnref
<1> QED
  BY <1>2, <1>8 DEF B

(* The transfers of a stream fit it.                                       *)
LEMMA FitsNow ==
  ASSUME HeldInv, NEW h \in Hosts, NEW k \in Keys
  PROVE  /\ stream[h][k] \in Streams /\ IsFiniteSet(Mine(h, k)) /\ Writers(h, k) \in SUBSET Mine(h, k)
         /\ Fits(stream[h][k], Mine(h, k), Writers(h, k), Pending(h, k)) /\ Pending(h, k) \in Nat
<1>1. Counted(h, k)
  BY DEF HeldInv
<1>2. stream[h][k] \in Streams
  BY DEF HeldInv, ChannelTypes, MemoryTypes
<1>3. IsFiniteSet(Mine(h, k)) /\ Writers(h, k) \in SUBSET Mine(h, k) /\ Pending(h, k) \in Nat
  BY MineFinite DEF Writers, Pending
<1> QED
  BY <1>1, <1>2, <1>3 DEF Counted, Fits

(* A step that changes one transfer and its stream, counted.               *)
Recounted(e, i, v, h, k, s, n, A, W) ==
  /\ Attaching(e, i, v, h, k, s)
  /\ A = (Mine(h, k) \ {<<e, i>>}) \cup (IF v.attached THEN {<<e, i>>} ELSE {})
  /\ W = (Writers(h, k) \ {<<e, i>>}) \cup (IF v.attached /\ v.kind = "receiver" THEN {<<e, i>>} ELSE {})
  /\ Fits(s, A, W, n) /\ Pending(h, k)' = n
  /\ \A t, u \in W : t = u
  /\ \A g \in Hosts : \A j \in Keys : g # h \/ j # k => Pending(g, j)' = Pending(g, j)

LEMMA CountedStep ==
  ASSUME HeldInv, NEW e \in Ends, NEW i \in Ids, NEW v \in Txs, NEW h \in Hosts, NEW k \in Keys, NEW s \in Streams,
         NEW n, NEW A, NEW W, Recounted(e, i, v, h, k, s, n, A, W)
  PROVE  \A g \in Hosts : \A j \in Keys : Counted(g, j)'
<1>1. Attached(e, i, v, h, k, s)
  BY TxStep DEF Recounted
<1>2. Mine(h, k)' = A /\ Writers(h, k)' = W /\ stream'[h][k] = s
  BY <1>1 DEF Attached, Recounted
<1>3. Counted(h, k)'
  BY <1>2 DEF Counted, Recounted, Fits
<1>4. ASSUME NEW g \in Hosts, NEW j \in Keys, g # h \/ j # k PROVE Counted(g, j)'
  <2>1. Mine(g, j)' = Mine(g, j) /\ Writers(g, j)' = Writers(g, j) /\ stream'[g][j] = stream[g][j]
    BY <1>1, <1>4 DEF Attached
  <2>2. Pending(g, j)' = Pending(g, j)
    BY <1>4 DEF Recounted
  <2>3. Counted(g, j)
    BY DEF HeldInv
  <2> QED
    BY <2>1, <2>2, <2>3 DEF Counted
<1> QED
  BY <1>3, <1>4

-----------------------------------------------------------------------------
(* What finalize_txstart does around the transfer and its stream.          *)
Started(e, c) ==
  /\ Reading(e, "start") /\ c = Host(e) /\ main[c].id = Head_(e).id
  /\ main' = [main EXCEPT ![c] = NoCmd] /\ net' = Consumed(e)
  /\ UNCHANGED <<put, owner, pend, proc, next, ends, user>>

(* The answer to a command is read by the client that waits for it.        *)
LEMMA StartFacts ==
  ASSUME HeldInv, NEW e \in Ends, NEW c, Started(e, c)
  PROVE  /\ e[1] = "client" /\ c \in Clients /\ c \in Hosts /\ proc[c] = e[2] /\ e = ClientEnd(proc[c]) /\ Head_(e).id \in Ids
         /\ Head_(e).id # 0 /\ ends[e] = "open" /\ net[e] # <<>> /\ proc[c] \in Cnxs
         /\ Head_(e).id < next[e[2]] /\ tx[e][Head_(e).id].kind = "none" /\ ~ tx[e][Head_(e).id].attached
         /\ main[c].key \in Keys
         /\ \/ main[c].kw = "write" /\ main[c].key = Head_(e).id
            \/ main[c].kw = "read" /\ main[c].key \in Resources /\ ~ stream[c][main[c].key].writer
<1>1. Reading(e, "start") /\ c = Host(e) /\ main[c].id = Head_(e).id
  BY DEF Started
<1>2. /\ ends[e] = "open" /\ net[e] # <<>> /\ Head_(e).t = "start" /\ Head_(e).id \in Ids /\ e[2] \in Cnxs
      /\ e[1] = "client" => Host(e) \in Clients /\ proc[Host(e)] = e[2] /\ e = ClientEnd(e[2])
      /\ Head_(e) = net[e][1] /\ 1 \in 1 .. Len(net[e])
  BY <1>1, ReadingFacts
<1>3. e[1] = "client"
  <2>1. QueriesOk(net[e], e, next[e[2]], tx[e])
    BY DEF HeldInv, QueriesNew
  <2> QED
    BY <1>2, <2>1 DEF QueriesOk
<1>4. Head_(e).id # 0
  BY <1>2 DEF Ids
<1>5. MainWaits!(c)
  BY <1>1, <1>2, <1>3 DEF HeldInv, MainWaits
<1>6. main[c].id # 0
  BY <1>1, <1>4
<1>7. /\ main[c].id < next[proc[c]]
      /\ tx[ClientEnd(proc[c])][main[c].id].kind = "none"
      /\ \/ main[c].kw = "write" /\ main[c].key = main[c].id
         \/ main[c].kw = "read" /\ main[c].key \in Resources /\ ~ stream[c][main[c].key].writer
  BY <1>5, <1>6
<1>8. tx[e][Head_(e).id].kind = "none"
  BY <1>1, <1>2, <1>3, <1>7
<1>9. ~ tx[e][Head_(e).id].attached
  BY <1>2, <1>8 DEF HeldInv, TxsNamed
<1>10. main[c].key \in Keys
  BY <1>1, <1>2, <1>7 DEF Keys
<1> QED
  BY <1>1, <1>2, <1>3, <1>4, <1>7, <1>8, <1>9, <1>10 DEF Hosts

(* The command is no longer under way.                                     *)
LEMMA StartPending ==
  ASSUME HeldInv, NEW e \in Ends, NEW c, Started(e, c)
  PROVE  /\ Pending(c, main[c].key) = IF main[c].kw = "write" THEN 1 ELSE 2
         /\ \A k : Pending(c, k)' = 0
         /\ \A g \in Hosts : \A j \in Keys : g # c \/ j # main[c].key => Pending(g, j)' = Pending(g, j)
<1>1. c \in Clients /\ main[c].id # 0
  BY StartFacts DEF Started
<1>2. main \in [Clients -> Cmds] /\ main' = [main EXCEPT ![c] = NoCmd]
  BY DEF HeldInv, ChannelTypes, Started
<1>3. main'[c] = NoCmd /\ \A d \in Clients : d # c => main'[d] = main[d]
  BY <1>1, <1>2
<1>4. main'[c].id = 0
  BY <1>3 DEF NoCmd
<1>5. Pending(c, main[c].key) = IF main[c].kw = "write" THEN 1 ELSE 2
  BY <1>1 DEF Pending
<1>6. \A k : Pending(c, k)' = 0
  BY <1>4 DEF Pending
<1>7. \A j : j # main[c].key => Pending(c, j) = 0
  BY DEF Pending
<1>8. \A g \in Hosts : \A j \in Keys : g # c => Pending(g, j)' = Pending(g, j)
  BY <1>3 DEF Pending
<1> QED
  BY <1>5, <1>6, <1>7, <1>8

LEMMA StartedKeeps ==
  ASSUME HeldInv, NEW e \in Ends, NEW c, Started(e, c),
         MemoryTypes', \A f \in Ends : f # e => tx'[f] = tx[f],
         \A g \in Hosts : \A j \in Keys : g # c => stream'[g][j] = stream[g][j],
         file' \in [Hosts -> [Resources -> Seq(Nat)]], todo' \in [Clients -> SUBSET Resources],
         TxsNamed', \A g \in Hosts : \A j \in Keys : Counted(g, j)'
  PROVE  HeldInv'
<1>1. ChannelTypes /\ MemoryTypes
  BY DEF HeldInv, ChannelTypes
<1>2. /\ e[1] = "client" /\ c \in Clients /\ proc[c] = e[2] /\ e = ClientEnd(proc[c]) /\ ends[e] = "open" /\ net[e] # <<>>
      /\ proc[c] \in Cnxs
  BY StartFacts
<1>3. /\ main' = [main EXCEPT ![c] = NoCmd] /\ net' = Consumed(e)
      /\ UNCHANGED <<put, owner, pend, proc, next, ends, user>>
  BY DEF Started
<1>4. main' \in [Clients -> Cmds] /\ main'[c] = NoCmd /\ \A d \in Clients : d # c => main'[d] = main[d]
  <2>1. main \in [Clients -> Cmds] /\ NoCmd \in Cmds
    BY <1>1, NoStreamType DEF ChannelTypes
  <2> QED
    BY <1>2, <1>3, <2>1
<1>5. net' \in [Ends -> Seq(Msgs)] /\ net'[e] = Tail(net[e]) /\ \A f \in Ends : f # e => net'[f] = net[f]
  <2>1. net \in [Ends -> Seq(Msgs)]
    BY <1>1 DEF ChannelTypes
  <2>2. net[e] \in Seq(Msgs)
    BY <2>1
  <2>3. Tail(net[e]) \in Seq(Msgs)
    BY <1>2, <2>2
  <2>4. net' = [net EXCEPT ![e] = Tail(net[e])]
    BY <1>3 DEF Consumed
  <2> QED
    BY <2>1, <2>3, <2>4
<1>6. QueriesNew'
  <2>1. \A f \in Ends : f # e => \/ net'[f] = net[f]
                                 \/ \E m \in Msgs : /\ m.t \notin {"read", "write"} /\ (m.t = "start" => f[1] = "client")
                                                    /\ net'[f] = net[f] \o <<m>>
    BY <1>5
  <2>2. UNCHANGED next
    BY <1>3
  <2> QED
    BY <1>2, <1>5, <2>1, <2>2, TakenQueries
<1>7. CnxsUsed'
  <2>1. \A f \in Ends : ends[f] \in {"none", "connecting", "closed"} => pend'[f] = pend[f] /\ tx'[f] = tx[f]
    BY <1>2, <1>3
  <2>2. \A f \in Ends : ends[f] \in {"none", "closed"} => net'[f] = net[f]
    BY <1>2, <1>5
  <2> QED
    BY <1>3, <2>1, <2>2, CnxsKeep DEF HeldInv
<1>8. ASSUME NEW d \in Clients PROVE MainWaits!(d)'
  <2>1. CASE d = c
    BY <1>4, <2>1 DEF NoCmd
  <2>2. CASE d # c
    <3>1. d \in Hosts
      BY DEF Hosts
    <3>2. \A k \in Resources : stream'[d][k].writer = stream[d][k].writer
      BY <2>2, <3>1 DEF Keys
    <3>3. main[d].id # 0 => proc[d] \in Cnxs /\ proc[d] # NoOne
      BY <1>1 DEF HeldInv, MainWaits, ChannelTypes
    <3>4. main[d].id # 0 => ClientEnd(proc[d]) \in Ends /\ ClientEnd(proc[d])[2] = proc[d]
      BY <3>3, EndFacts
    <3>5. main[d].id # 0 => user[proc[d]] = d
      BY <3>3 DEF HeldInv, CnxsUsed
    <3>6. user[proc[c]] = c
      BY <1>1, <1>2, ChannelAssumption DEF HeldInv, CnxsUsed, Cnxs
    <3>7. main[d].id # 0 => ClientEnd(proc[d]) # e
      BY <1>2, <2>2, <3>4, <3>5, <3>6
    <3>8. main[d].id # 0 => next[proc[d]] \in Nat /\ next[proc[d]] >= next[proc[d]]
      BY <1>1, <3>3 DEF ChannelTypes
    <3>9. main[d].id # 0 => tx'[ClientEnd(proc[d])][main[d].id].kind = tx[ClientEnd(proc[d])][main[d].id].kind
      BY <3>4, <3>7
    <3> QED
      BY <1>3, <1>4, <2>2, <3>2, <3>8, <3>9, WaitsKeep
  <2> QED
    BY <2>1, <2>2
<1>9. ChannelTypes'
  BY <1>1, <1>3, <1>4, <1>5 DEF ChannelTypes
<1> QED
  BY <1>6, <1>7, <1>8, <1>9 DEF HeldInv, MainWaits

(* The transfer starts: the references of the command become its own.      *)
LEMMA AcceptedKeeps ==
  ASSUME HeldInv, NEW e \in Ends, NEW c, Started(e, c), NEW id \in Ids, id = Head_(e).id,
         NEW k \in Keys, k = main[c].key, NEW kind \in {"sender", "receiver"},
         kind = IF main[c].kw = "write" THEN "sender" ELSE "receiver",
         NEW v \in Txs, v.attached, v.status = 0, v.kind = kind, v.key = k, NEW s \in Streams,
         s = IF kind = "sender" THEN stream_unref(stream_add_reader(stream[c][k], <<e, id>>))
             ELSE stream_unref(stream_unref(stream_add_writer(stream[c][k]))),
         tx' = [tx EXCEPT ![e][id] = v], stream' = [stream EXCEPT ![c][k] = s], UNCHANGED <<file, todo>>
  PROVE  HeldInv'
<1>1. ChannelTypes /\ MemoryTypes
  BY DEF HeldInv, ChannelTypes
<1>2. /\ e[1] = "client" /\ c \in Clients /\ c \in Hosts /\ id < next[e[2]] /\ tx[e][id].kind = "none" /\ ~ tx[e][id].attached
      /\ \/ main[c].kw = "write" /\ k = id
         \/ main[c].kw = "read" /\ k \in Resources /\ ~ stream[c][k].writer
  BY StartFacts
<1>3. c = Host(e) /\ UNCHANGED <<put, owner, pend, proc, next, ends, user>>
  BY DEF Started
<1> DEFINE t == <<e, id>>
<1>4. t \in Parties /\ t \notin Mine(c, k) /\ t \notin Writers(c, k)
  BY <1>2 DEF Parties, Mine, Writers
<1> HIDE DEF t
<1>a5. /\ stream[c][k] \in Streams /\ IsFiniteSet(Mine(c, k)) /\ Writers(c, k) \in SUBSET Mine(c, k)
      /\ Fits(stream[c][k], Mine(c, k), Writers(c, k), Pending(c, k)) /\ Pending(c, k) \in Nat
  BY <1>2, FitsNow
<1> PICK S \in Streams : S = stream[c][k]
  BY <1>a5
<1> PICK A : A = Mine(c, k)
  OBVIOUS
<1> PICK W : W = Writers(c, k)
  OBVIOUS
<1> PICK n \in Nat : n = Pending(c, k)
  BY <1>a5
<1>5. /\ S = stream[c][k] /\ A = Mine(c, k) /\ W = Writers(c, k) /\ n = Pending(c, k)
      /\ IsFiniteSet(A) /\ W \in SUBSET A /\ Fits(S, A, W, n)
  BY <1>a5
<1>6. /\ n = IF kind = "sender" THEN 1 ELSE 2
      /\ Pending(c, k)' = 0
      /\ \A g \in Hosts : \A j \in Keys : g # c \/ j # k => Pending(g, j)' = Pending(g, j)
  BY <1>5, StartPending
<1>7. Cardinality(A) \in Nat /\ S.count \in Nat /\ S.count > 0
  <2>1. Cardinality(A) \in Nat /\ S.count \in Nat
    BY <1>5, FS_CardinalityType DEF Streams
  <2>2. S.count >= Cardinality(A) + n
    BY <1>5 DEF Fits
  <2> QED
    BY <1>6, <2>1, <2>2
<1>8. IsFiniteSet(A \cup {t}) /\ t \notin A
  BY <1>4, <1>5, FS_AddElement
<1>9. ASSUME kind = "sender" PROVE \A g \in Hosts : \A j \in Keys : Counted(g, j)'
  <2>0. n = 1 /\ Fits(S, A, W, 1)
    BY <1>5, <1>6, <1>9
  <2>1. PICK u \in Streams : u = stream_add_reader(S, t) /\ Fits(u, A \cup {t}, W, 1)
    <3>1. 1 \in Nat
      OBVIOUS
    <3>2. stream_add_reader(S, t) \in Streams /\ Fits(stream_add_reader(S, t), A \cup {t}, W, 1)
      BY <1>4, <1>5, <1>7, <1>8, <2>0, <3>1, FitsReader
    <3> QED
      BY <3>2
  <2>2. Fits(u, A \cup {t}, W, 0 + 1) /\ W \in SUBSET (A \cup {t})
    BY <1>5, <2>1
  <2>3. Fits(stream_unref(u), A \cup {t}, W, 0)
    BY <1>8, <2>2, FitsUnref
  <2>4. s = stream_unref(u)
    BY <1>5, <1>9, <2>1 DEF t
  <2>5. \A a, b \in W : a = b
    BY <1>2, <1>5 DEF HeldInv, Counted
  <2>6. A \cup {t} = (Mine(c, k) \ {<<e, id>>}) \cup (IF v.attached THEN {<<e, id>>} ELSE {})
    BY <1>4, <1>5 DEF t
  <2>7. W = (Writers(c, k) \ {<<e, id>>}) \cup (IF v.attached /\ v.kind = "receiver" THEN {<<e, id>>} ELSE {})
    BY <1>4, <1>5, <1>9 DEF t
  <2>8. Attaching(e, id, v, c, k, s)
    BY <1>2, <1>3 DEF Attaching
  <2>9. Recounted(e, id, v, c, k, s, 0, A \cup {t}, W)
    BY <1>6, <2>3, <2>4, <2>5, <2>6, <2>7, <2>8 DEF Recounted
  <2>10. \A g \in Hosts : \A j \in Keys : Counted(g, j)'
    BY <1>2, <2>9, CountedStep
  <2> QED
    BY <2>10
<1>10. ASSUME kind = "receiver" PROVE \A g \in Hosts : \A j \in Keys : Counted(g, j)'
  <2>1. main[c].kw # "write" /\ ~ S.writer
    BY <1>2, <1>5, <1>10
  <2>2. W = {}
    BY <1>5, <2>1 DEF Fits
  <2>3. PICK u \in Streams : u = stream_add_writer(S) /\ Fits(u, A \cup {t}, {t}, 2)
    <3>1. n = 2 /\ Fits(S, A, {}, 2) /\ 2 \in Nat
      BY <1>5, <1>6, <1>10, <2>2
    <3>2. stream_add_writer(S) \in Streams /\ Fits(stream_add_writer(S), A \cup {t}, {t}, 2)
      BY <1>4, <1>5, <1>7, <1>8, <3>1, FitsWriter
    <3> QED
      BY <3>2
  <2>4. Fits(u, A \cup {t}, {t}, 1 + 1) /\ {t} \in SUBSET (A \cup {t})
    BY <2>3
  <2>5. PICK w \in Streams : w = stream_unref(u) /\ Fits(w, A \cup {t}, {t}, 1)
    BY <1>8, <2>4, FitsUnref
  <2>6. Fits(w, A \cup {t}, {t}, 0 + 1)
    BY <2>5
  <2>7. Fits(stream_unref(w), A \cup {t}, {t}, 0)
    BY <1>8, <2>4, <2>6, FitsUnref
  <2>8. s = stream_unref(w)
    BY <1>5, <1>10, <2>3, <2>5
  <2>9. A \cup {t} = (Mine(c, k) \ {<<e, id>>}) \cup (IF v.attached THEN {<<e, id>>} ELSE {})
    BY <1>4, <1>5 DEF t
  <2>10. {t} = (Writers(c, k) \ {<<e, id>>}) \cup (IF v.attached /\ v.kind = "receiver" THEN {<<e, id>>} ELSE {})
    BY <1>5, <1>10, <2>2 DEF t
  <2>11. Attaching(e, id, v, c, k, s)
    BY <1>2, <1>3 DEF Attaching
  <2>12. Recounted(e, id, v, c, k, s, 0, A \cup {t}, {t})
    BY <1>6, <2>7, <2>8, <2>9, <2>10, <2>11 DEF Recounted
  <2>13. \A g \in Hosts : \A j \in Keys : Counted(g, j)'
    BY <1>2, <2>12, CountedStep
  <2> QED
    BY <2>13
<1>11. \A g \in Hosts : \A j \in Keys : Counted(g, j)'
  BY <1>9, <1>10
<1>12. /\ tx' \in [Ends -> [Ids -> Txs]]
       /\ \A f \in Ends : \A j \in Ids : tx'[f][j] = IF f = e /\ j = id THEN v ELSE tx[f][j]
       /\ \A f \in Ends : f # e => tx'[f] = tx[f]
  BY <1>1, OneTx
<1>13. /\ stream' \in [Hosts -> [Keys -> Streams]]
       /\ \A g \in Hosts : \A j \in Keys : g # c => stream'[g][j] = stream[g][j]
  BY <1>1, <1>2, OneStream
<1>14. TxsNamed'
  <2> SUFFICES ASSUME NEW f \in Ends, NEW i \in Ids PROVE TxsNamed!(f)!(i)'
    BY DEF TxsNamed
  <2>1. TxsNamed!(f)!(i)
    BY DEF HeldInv, TxsNamed
  <2>2. CASE f = e /\ i = id
    <3>1. v.kind # "none" /\ v.key = k /\ (v.kind = "sender" => k = id) /\ (v.kind # "sender" => k \in Resources)
      BY <1>2
    <3>2. tx'[f][i] = v
      BY <1>12, <2>2
    <3>3. tx'[f][i].key \in IF f[1] = "client" /\ tx'[f][i].kind = "sender" THEN {i} ELSE Resources
      BY <1>2, <2>2, <3>1, <3>2
    <3>4. i < next'[f[2]]
      BY <1>2, <1>3, <2>2
    <3> QED
      BY <3>1, <3>2, <3>3, <3>4
  <2>3. CASE ~ (f = e /\ i = id)
    BY <1>3, <1>12, <2>1, <2>3
  <2> QED
    BY <2>2, <2>3
<1>15. MemoryTypes' /\ file' \in [Hosts -> [Resources -> Seq(Nat)]] /\ todo' \in [Clients -> SUBSET Resources]
  BY <1>1, <1>3, <1>12, <1>13 DEF MemoryTypes, ChannelTypes
<1> QED
  BY <1>11, <1>12, <1>13, <1>14, <1>15, StartedKeeps

(* The command failed: its references are given back.                      *)
LEMMA RejectedKeeps ==
  ASSUME HeldInv, NEW e \in Ends, NEW c, Started(e, c), NEW k \in Keys, k = main[c].key, NEW s \in Streams,
         s = IF main[c].kw = "write" THEN stream_unref(stream[c][k]) ELSE stream_unref(stream_unref(stream[c][k])),
         stream' = [stream EXCEPT ![c][k] = s],
         file' = IF main[c].kw = "write" THEN file ELSE [file EXCEPT ![c][k] = NoFile],
         todo' = [todo EXCEPT ![c] = {}], UNCHANGED tx
  PROVE  HeldInv'
<1>1. ChannelTypes /\ MemoryTypes
  BY DEF HeldInv, ChannelTypes
<1>2. /\ c \in Clients /\ c \in Hosts
      /\ \/ main[c].kw = "write"
         \/ main[c].kw = "read" /\ k \in Resources
  BY StartFacts
<1>3. UNCHANGED <<put, owner, pend, proc, next, ends, user>>
  BY DEF Started
<1>a4. /\ stream[c][k] \in Streams /\ IsFiniteSet(Mine(c, k)) /\ Writers(c, k) \in SUBSET Mine(c, k)
      /\ Fits(stream[c][k], Mine(c, k), Writers(c, k), Pending(c, k)) /\ Pending(c, k) \in Nat
  BY <1>2, FitsNow
<1> PICK S \in Streams : S = stream[c][k]
  BY <1>a4
<1> PICK A : A = Mine(c, k)
  OBVIOUS
<1> PICK W : W = Writers(c, k)
  OBVIOUS
<1> PICK n \in Nat : n = Pending(c, k)
  BY <1>a4
<1>4. /\ S = stream[c][k] /\ A = Mine(c, k) /\ W = Writers(c, k) /\ n = Pending(c, k)
      /\ IsFiniteSet(A) /\ W \in SUBSET A /\ Fits(S, A, W, n)
  BY <1>a4
<1>5. /\ n = IF main[c].kw = "write" THEN 1 ELSE 2
      /\ Pending(c, k)' = 0
      /\ \A g \in Hosts : \A j \in Keys : g # c \/ j # k => Pending(g, j)' = Pending(g, j)
  BY <1>4, StartPending
<1>6. Fits(s, A, W, 0)
  <2>1. CASE main[c].kw = "write"
    <3>1. Fits(S, A, W, 0 + 1)
      BY <1>4, <1>5, <2>1
    <3> QED
      BY <1>4, <2>1, <3>1, FitsUnref
  <2>2. CASE main[c].kw # "write"
    <3>1. Fits(S, A, W, 1 + 1)
      BY <1>4, <1>5, <2>2
    <3>2. PICK w \in Streams : w = stream_unref(S) /\ Fits(w, A, W, 1)
      BY <1>4, <3>1, FitsUnref
    <3>3. Fits(w, A, W, 0 + 1)
      BY <3>2
    <3> QED
      BY <1>4, <2>2, <3>2, <3>3, FitsUnref
  <2> QED
    BY <2>1, <2>2
<1>7. \A g \in Hosts : \A j \in Keys : Counted(g, j)'
  <2>1. s.count >= Cardinality(Mine(c, k)) + Pending(c, k)'
    BY <1>4, <1>5, <1>6 DEF Fits
  <2>2. s.count > 0 => s.res \in Resources
    BY <1>6 DEF Fits
  <2>3. s.readers = Mine(c, k) \ Writers(c, k) /\ (s.writer <=> Writers(c, k) # {})
    BY <1>4, <1>6 DEF Fits
  <2>4. UNCHANGED <<tx, user>>
    BY <1>3
  <2> QED
    BY <1>2, <1>5, <2>1, <2>2, <2>3, <2>4, StreamStep
<1>8. /\ stream' \in [Hosts -> [Keys -> Streams]]
      /\ \A g \in Hosts : \A j \in Keys : g # c => stream'[g][j] = stream[g][j]
  BY <1>1, <1>2, OneStream
<1>9. TxsNamed'
  BY <1>3 DEF HeldInv, TxsNamed
<1>10. file' \in [Hosts -> [Resources -> Seq(Nat)]]
  <2>1. file \in [Hosts -> [Resources -> Seq(Nat)]] /\ NoFile \in Seq(Nat)
    BY <1>1 DEF ChannelTypes, NoFile
  <2>2. CASE main[c].kw = "write"
    BY <2>1, <2>2
  <2>3. CASE main[c].kw # "write"
    <3>1. file' = [file EXCEPT ![c][k] = NoFile] /\ k \in Resources
      BY <1>2, <2>3
    <3> QED
      BY <1>2, <2>1, <3>1
  <2> QED
    BY <2>2, <2>3
<1>11. MemoryTypes' /\ todo' \in [Clients -> SUBSET Resources]
  BY <1>1, <1>2, <1>3, <1>8 DEF MemoryTypes, ChannelTypes
<1> QED
  BY <1>7, <1>8, <1>9, <1>10, <1>11, StartedKeeps

LEMMA StartKeeps ==
  ASSUME HeldInv, NEW e \in Ends, finalize_txstart(e) PROVE HeldInv'
<1>1. PICK c : c = Host(e)
  OBVIOUS
<1>2. Started(e, c)
  BY <1>1 DEF finalize_txstart, Started
<1>3. /\ c \in Clients /\ c \in Hosts /\ Head_(e).id \in Ids /\ main[c].key \in Keys
      /\ main[c].kw \in {"write", "read"}
  BY <1>2, StartFacts
<1>4. PICK id \in Ids, k \in Keys : id = Head_(e).id /\ k = main[c].key
  BY <1>3
<1>5. stream[c][k] \in Streams
  BY <1>3, FitsNow
<1>6. CASE Head_(e).status = 200
  <2>1. PICK kind \in {"sender", "receiver"} : kind = IF main[c].kw = "write" THEN "sender" ELSE "receiver"
    OBVIOUS
  <2>2. PICK w \in BOOLEAN : w = (main[c].kw = "write")
    OBVIOUS
  <2>3. PICK v \in Txs : /\ v = [NoTx EXCEPT !.kind = kind, !.key = k, !.attached = TRUE, !.whole = w]
                         /\ v.attached /\ v.status = 0 /\ v.kind = kind /\ v.key = k
    <3>1. ASSUME kind = "sender" PROVE \E v \in Txs :
            /\ v = [NoTx EXCEPT !.kind = kind, !.key = k, !.attached = TRUE, !.whole = w]
            /\ v.attached /\ v.status = 0 /\ v.kind = kind /\ v.key = k
      <4>1. "sender" \in {"sender", "receiver"}
        OBVIOUS
      <4>2. \A u \in BOOLEAN : \E v \in Txs :
              /\ v = [NoTx EXCEPT !.kind = "sender", !.key = k, !.attached = TRUE, !.whole = u]
              /\ v.attached /\ v.status = 0 /\ v.kind = "sender" /\ v.key = k
        BY <4>1, NewTx
      <4> QED
        BY <4>2, <3>1, Zenon
    <3>2. ASSUME kind = "receiver" PROVE \E v \in Txs :
            /\ v = [NoTx EXCEPT !.kind = kind, !.key = k, !.attached = TRUE, !.whole = w]
            /\ v.attached /\ v.status = 0 /\ v.kind = kind /\ v.key = k
      <4>1. "receiver" \in {"sender", "receiver"}
        OBVIOUS
      <4>2. \A u \in BOOLEAN : \E v \in Txs :
              /\ v = [NoTx EXCEPT !.kind = "receiver", !.key = k, !.attached = TRUE, !.whole = u]
              /\ v.attached /\ v.status = 0 /\ v.kind = "receiver" /\ v.key = k
        BY <4>1, NewTx
      <4> QED
        BY <4>2, <3>2, Zenon
    <3> QED
      BY <3>1, <3>2, Zenon
  <2>4. <<e, id>> \in Parties
    BY DEF Parties
  <2>5. /\ stream_unref(stream_add_reader(stream[c][k], <<e, id>>)) \in Streams
        /\ stream_unref(stream_unref(stream_add_writer(stream[c][k]))) \in Streams
    BY <1>5, <2>4, ReaderAdded, WriterAdded, Unreferred
  <2>6. PICK s \in Streams :
          s = IF kind = "sender" THEN stream_unref(stream_add_reader(stream[c][k], <<e, id>>))
              ELSE stream_unref(stream_unref(stream_add_writer(stream[c][k])))
    BY <2>5
  <2>7. tx' = [tx EXCEPT ![e][id] = v] /\ UNCHANGED <<file, todo>>
    <3>1. /\ tx' = [tx EXCEPT ![e][id] = [NoTx EXCEPT !.kind = IF main[c].kw = "write" THEN "sender" ELSE "receiver",
                                       !.key = k, !.attached = TRUE, !.whole = (main[c].kw = "write")]]
          /\ UNCHANGED <<file, todo>>
      BY <1>1, <1>4, <1>6 DEF finalize_txstart
    <3> QED
      BY <2>1, <2>2, <2>3, <3>1, Zenon
  <2>8. stream' = [stream EXCEPT ![c][k] = s]
    <3>1. stream' = [stream EXCEPT ![c][k] = IF main[c].kw = "write"
                                               THEN stream_unref(stream_add_reader(stream[c][k], <<e, id>>))
                                               ELSE stream_unref(stream_unref(stream_add_writer(stream[c][k])))]
      BY <1>1, <1>4, <1>6 DEF finalize_txstart
    <3>2. kind = "sender" <=> main[c].kw = "write"
      BY <2>1
    <3> QED
      BY <2>6, <3>1, <3>2
  <2> QED
    BY <1>2, <1>4, <2>1, <2>3, <2>6, <2>7, <2>8, AcceptedKeeps
<1>7. CASE Head_(e).status # 200
  <2>1. stream_unref(stream[c][k]) \in Streams /\ stream_unref(stream_unref(stream[c][k])) \in Streams
    BY <1>5, Unreferred
  <2>2. PICK s \in Streams :
          s = IF main[c].kw = "write" THEN stream_unref(stream[c][k]) ELSE stream_unref(stream_unref(stream[c][k]))
    BY <2>1
  <2>3. /\ stream' = [stream EXCEPT ![c][k] = s]
        /\ file' = IF main[c].kw = "write" THEN file ELSE [file EXCEPT ![c][k] = NoFile]
        /\ todo' = [todo EXCEPT ![c] = {}] /\ UNCHANGED tx
    BY <1>1, <1>4, <1>7, <2>2 DEF finalize_txstart
  <2> QED
    BY <1>2, <1>4, <2>2, <2>3, RejectedKeeps
<1> QED
  BY <1>6, <1>7

(* The same as WaitsKeep, for a file that is no longer written.            *)
LEMMA WaitsStill ==
  ASSUME HeldInv, NEW d \in Clients, UNCHANGED <<main, proc, next>>,
         \A i \in Ids : tx'[ClientEnd(proc[d])][i].kind = tx[ClientEnd(proc[d])][i].kind,
         \A k \in Resources : ~ stream[d][k].writer => ~ stream'[d][k].writer
  PROVE  MainWaits!(d)'
<1>1. MainWaits!(d)
  BY DEF HeldInv, MainWaits
<1>2. main[d].id # 0 => main[d].id \in Ids
  BY DEF HeldInv, ChannelTypes, Cmds
<1>3. CASE main[d].id = 0
  BY <1>1, <1>3
<1>4. CASE main[d].id # 0
  BY <1>1, <1>2, <1>4
<1> QED
  BY <1>3, <1>4

(* A transfer that gets its status lets go of its stream, once.            *)
Finished(e, i) ==
  /\ tx' \in [Ends -> [Ids -> Txs]] /\ stream' \in [Hosts -> [Keys -> Streams]]
  /\ \A f \in Ends : f # e => tx'[f] = tx[f]
  /\ \A f \in Ends : \A j \in Ids :
       /\ tx'[f][j].kind = tx[f][j].kind /\ tx'[f][j].key = tx[f][j].key
       /\ f # e \/ j # i => tx'[f][j] = tx[f][j]
       /\ tx'[f][j].attached <=> tx'[f][j].kind # "none" /\ tx'[f][j].status = 0
  /\ \A g \in Hosts : \A j \in Keys : ~ stream[g][j].writer => ~ stream'[g][j].writer
  /\ \A g \in Hosts : \A j \in Keys : Counted(g, j)'

LEMMA AloneFinished ==
  ASSUME HeldInv, NEW e \in Ends, NEW i \in Ids, NEW st \in Statuses,
         UNCHANGED <<main, user, stream>>,
         tx' = tx \/ (~ tx[e][i].attached /\ tx[e][i].kind = "none"
                      /\ tx' = [tx EXCEPT ![e][i] = [tx[e][i] EXCEPT !.status = st, !.attached = FALSE]])
  PROVE  Finished(e, i)
<1>1. MemoryTypes
  BY DEF HeldInv, ChannelTypes
<1>2. tx[e][i] \in Txs
  BY <1>1 DEF MemoryTypes
<1>3. PICK v \in Txs : v = [tx[e][i] EXCEPT !.status = st, !.attached = FALSE]
  BY <1>2, TxsEnded
<1>4. v.kind = tx[e][i].kind /\ v.key = tx[e][i].key /\ ~ v.attached
  BY <1>2, <1>3 DEF Txs
<1>5. /\ tx' \in [Ends -> [Ids -> Txs]]
      /\ \A f \in Ends : f # e => tx'[f] = tx[f]
      /\ \A f \in Ends : \A j \in Ids :
           /\ tx'[f][j].kind = tx[f][j].kind /\ tx'[f][j].key = tx[f][j].key
           /\ f # e \/ j # i => tx'[f][j] = tx[f][j]
           /\ tx'[f][j].attached <=> tx[f][j].attached
           /\ tx'[f][j] = tx[f][j] \/ tx'[f][j].kind = "none"
  <2>1. CASE tx' = tx
    BY <1>1, <2>1 DEF MemoryTypes
  <2>2. CASE ~ tx[e][i].attached /\ tx[e][i].kind = "none" /\ tx' = [tx EXCEPT ![e][i] = v]
    <3>1. /\ tx' \in [Ends -> [Ids -> Txs]]
          /\ \A f \in Ends : \A j \in Ids : tx'[f][j] = IF f = e /\ j = i THEN v ELSE tx[f][j]
          /\ \A f \in Ends : f # e => tx'[f] = tx[f]
      BY <1>1, <2>2, OneTx
    <3> QED
      BY <1>4, <2>2, <3>1
  <2> QED
    BY <1>3, <2>1, <2>2
<1>6. \A f \in Ends : \A j \in Ids : tx'[f][j].attached <=> tx'[f][j].kind # "none" /\ tx'[f][j].status = 0
  <2> SUFFICES ASSUME NEW f \in Ends, NEW j \in Ids
               PROVE  tx'[f][j].attached <=> tx'[f][j].kind # "none" /\ tx'[f][j].status = 0
    OBVIOUS
  <2>1. tx[f][j].attached <=> tx[f][j].kind # "none" /\ tx[f][j].status = 0
    BY DEF HeldInv, TxsNamed
  <2>2. CASE tx'[f][j] = tx[f][j]
    BY <2>1, <2>2
  <2>3. CASE tx'[f][j].kind = "none"
    <3>1. ~ tx'[f][j].attached
      BY <1>5, <2>1, <2>3
    <3> QED
      BY <2>3, <3>1
  <2> QED
    BY <1>5, <2>2, <2>3
<1>7. \A t \in Parties : t[1] \in Ends /\ t[2] \in Ids
  BY DEF Parties
<1>8. \A g, k : Mine(g, k)' = Mine(g, k)
  BY <1>5, <1>7 DEF Mine, Host
<1>9. ASSUME NEW g, NEW k PROVE Writers(g, k)' = Writers(g, k)
  <2>1. \A t \in Mine(g, k) : t[1] \in Ends /\ t[2] \in Ids
    BY <1>7 DEF Mine
  <2>2. \A t \in Mine(g, k) : tx'[t[1]][t[2]].kind = tx[t[1]][t[2]].kind
    BY <1>5, <2>1
  <2>3. Mine(g, k)' = Mine(g, k)
    BY <1>8
  <2> QED
    BY <2>2, <2>3 DEF Writers
<1>10. \A g, k : Pending(g, k)' = Pending(g, k)
  BY DEF Pending
<1>11. \A g \in Hosts : \A k \in Keys : Counted(g, k)'
  BY <1>8, <1>9, <1>10 DEF HeldInv, Counted
<1> QED
  BY <1>1, <1>5, <1>6, <1>11 DEF Finished, MemoryTypes

(* Two fields of a transfer are assigned one after the other.              *)
Ended(T, e, i, st) == [T EXCEPT ![e][i].status = st, ![e][i].attached = FALSE]
EndedOnce(T, e, i, st) == [T EXCEPT ![e][i] = [T[e][i] EXCEPT !.status = st, !.attached = FALSE]]

LEMMA TwoFields ==
  ASSUME NEW T \in [Ends -> [Ids -> Txs]], NEW e \in Ends, NEW i \in Ids, NEW st \in Statuses
  PROVE  Ended(T, e, i, st) = EndedOnce(T, e, i, st)
<1> DEFINE a == [T EXCEPT ![e][i].status = st]
           v == [T[e][i] EXCEPT !.status = st]
           b == [T EXCEPT ![e][i] = v]
<1>1. a = b
  OBVIOUS
<1>2. b[e] = [T[e] EXCEPT ![i] = v] /\ b[e][i] = v
  OBVIOUS
<1>3. [b EXCEPT ![e][i].attached = FALSE] = [b EXCEPT ![e] = [b[e] EXCEPT ![i] = [v EXCEPT !.attached = FALSE]]]
  BY <1>2
<1> HIDE DEF v
<1>4. [b EXCEPT ![e] = [b[e] EXCEPT ![i] = [v EXCEPT !.attached = FALSE]]]
        = [T EXCEPT ![e] = [T[e] EXCEPT ![i] = [v EXCEPT !.attached = FALSE]]]
  OBVIOUS
<1> QED
  BY <1>1, <1>3, <1>4 DEF v, Ended, EndedOnce

LEMMA HeldFinished ==
  ASSUME HeldInv, NEW e \in Ends, NEW i \in Ids, NEW st \in Statuses, NEW h \in Hosts, h = Host(e), NEW k \in Keys, k = tx[e][i].key,
         tx[e][i].attached, NEW kind \in {"sender", "receiver"}, kind = tx[e][i].kind, UNCHANGED <<main, user>>,
         tx' = [tx EXCEPT ![e][i] = [tx[e][i] EXCEPT !.status = st, !.attached = FALSE]],
         stream' = [stream EXCEPT ![h][k] = IF kind = "sender" THEN stream_remove_reader(stream[h][k], <<e, i>>)
                                            ELSE stream_remove_writer(stream[h][k])]
  PROVE  Finished(e, i)
<1>1. MemoryTypes
  BY DEF HeldInv, ChannelTypes
<1>2. tx[e][i] \in Txs
  BY <1>1 DEF MemoryTypes
<1>3. PICK v \in Txs : v = [tx[e][i] EXCEPT !.status = st, !.attached = FALSE]
  BY <1>2, TxsEnded
<1>4. v.kind = tx[e][i].kind /\ v.key = tx[e][i].key /\ ~ v.attached /\ v.status = st
  BY <1>2, <1>3 DEF Txs
<1>b. st # 0
  BY DEF Statuses
<1>5. /\ tx' \in [Ends -> [Ids -> Txs]]
      /\ \A f \in Ends : \A j \in Ids : tx'[f][j] = IF f = e /\ j = i THEN v ELSE tx[f][j]
      /\ \A f \in Ends : f # e => tx'[f] = tx[f]
  BY <1>1, <1>3, OneTx
<1>a. /\ stream[h][k] \in Streams /\ IsFiniteSet(Mine(h, k)) /\ Writers(h, k) \in SUBSET Mine(h, k)
      /\ Fits(stream[h][k], Mine(h, k), Writers(h, k), Pending(h, k)) /\ Pending(h, k) \in Nat
  BY FitsNow
<1> PICK S \in Streams : S = stream[h][k]
  BY <1>a
<1> PICK A : A = Mine(h, k)
  OBVIOUS
<1> PICK W : W = Writers(h, k)
  OBVIOUS
<1> PICK n \in Nat : n = Pending(h, k)
  BY <1>a
<1>6. /\ S = stream[h][k] /\ A = Mine(h, k) /\ W = Writers(h, k) /\ n = Pending(h, k)
      /\ IsFiniteSet(A) /\ W \in SUBSET A /\ Fits(S, A, W, n)
  BY <1>a
<1> DEFINE t == <<e, i>>
<1>7. t \in A /\ (t \in W <=> kind = "receiver")
  BY <1>6 DEF Parties, Mine, Writers
<1>8. \A a, b \in W : a = b
  BY <1>6 DEF HeldInv, Counted
<1> HIDE DEF t
<1>9. \E s \in Streams : stream' = [stream EXCEPT ![h][k] = s] /\ Fits(s, A \ {t}, W \ {t}, n)
  <2>1. CASE kind = "sender"
    <3>1. t \in A \ W /\ W \ {t} = W
      BY <1>7, <2>1
    <3>2. stream_remove_reader(S, t) \in Streams /\ Fits(stream_remove_reader(S, t), A \ {t}, W, n)
      BY <1>6, <3>1, FitsReaderGone
    <3>3. stream' = [stream EXCEPT ![h][k] = stream_remove_reader(S, t)]
      BY <1>6, <2>1 DEF t
    <3>4. stream_remove_reader(S, t) \in Streams /\ Fits(stream_remove_reader(S, t), A \ {t}, W \ {t}, n)
      BY <3>1, <3>2
    <3> QED
      BY <3>3, <3>4, Zenon
  <2>2. CASE kind = "receiver"
    <3>1. W = {t} /\ W \ {t} = {}
      BY <1>7, <1>8, <2>2
    <3>2. Fits(S, A, {t}, n)
      BY <1>6, <3>1
    <3>3. stream_remove_writer(S) \in Streams /\ Fits(stream_remove_writer(S), A \ {t}, {}, n)
      BY <1>6, <1>7, <3>2, FitsWriterGone
    <3>4. stream' = [stream EXCEPT ![h][k] = stream_remove_writer(S)]
      BY <1>6, <2>2
    <3> QED
      BY <3>1, <3>3, <3>4
  <2> QED
    BY <2>1, <2>2
<1>10. PICK s \in Streams : stream' = [stream EXCEPT ![h][k] = s] /\ Fits(s, A \ {t}, W \ {t}, n)
  BY <1>9
<1>11. A \ {t} = (Mine(h, k) \ {<<e, i>>}) \cup (IF v.attached THEN {<<e, i>>} ELSE {})
  BY <1>4, <1>6 DEF t
<1>12. W \ {t} = (Writers(h, k) \ {<<e, i>>}) \cup (IF v.attached /\ v.kind = "receiver" THEN {<<e, i>>} ELSE {})
  BY <1>4, <1>6 DEF t
<1>13. Attaching(e, i, v, h, k, s)
  BY <1>3, <1>4, <1>10 DEF Attaching
<1>14. \A g, j : Pending(g, j)' = Pending(g, j)
  BY DEF Pending
<1>15. Recounted(e, i, v, h, k, s, n, A \ {t}, W \ {t})
  BY <1>6, <1>8, <1>10, <1>11, <1>12, <1>13, <1>14 DEF Recounted
<1>16. \A g \in Hosts : \A j \in Keys : Counted(g, j)'
  BY <1>15, CountedStep
<1>17. /\ stream' \in [Hosts -> [Keys -> Streams]]
       /\ \A g \in Hosts : \A j \in Keys : stream'[g][j] = IF g = h /\ j = k THEN s ELSE stream[g][j]
  <2>1. /\ [stream EXCEPT ![h][k] = s] \in [Hosts -> [Keys -> Streams]]
        /\ \A g \in Hosts : \A j \in Keys :
             [stream EXCEPT ![h][k] = s][g][j] = IF g = h /\ j = k THEN s ELSE stream[g][j]
    BY <1>1, OneStream
  <2>2. stream' = [stream EXCEPT ![h][k] = s]
    BY <1>10
  <2>3. stream' \in [Hosts -> [Keys -> Streams]]
    BY <2>1, <2>2, Zenon
  <2>4. ASSUME NEW g \in Hosts, NEW j \in Keys PROVE stream'[g][j] = IF g = h /\ j = k THEN s ELSE stream[g][j]
    <3>1. stream'[g][j] = [stream EXCEPT ![h][k] = s][g][j]
      BY <2>2, Zenon
    <3>2. [stream EXCEPT ![h][k] = s][g][j] = IF g = h /\ j = k THEN s ELSE stream[g][j]
      BY <2>1
    <3> QED
      BY <3>1, <3>2, Zenon
  <2> QED
    BY <2>3, <2>4
<1>18. ~ S.writer => ~ s.writer
  BY <1>6, <1>10 DEF Fits
<1>19. \A g \in Hosts : \A j \in Keys : ~ stream[g][j].writer => ~ stream'[g][j].writer
  BY <1>6, <1>17, <1>18
<1>20. ASSUME NEW f \in Ends, NEW j \in Ids
       PROVE  /\ tx'[f][j].kind = tx[f][j].kind /\ tx'[f][j].key = tx[f][j].key
              /\ f # e \/ j # i => tx'[f][j] = tx[f][j]
              /\ tx'[f][j].attached <=> tx'[f][j].kind # "none" /\ tx'[f][j].status = 0
  <2>1. CASE f = e /\ j = i
    BY <1>b, <1>4, <1>5, <2>1
  <2>2. CASE ~ (f = e /\ j = i)
    <3>1. tx'[f][j] = tx[f][j]
      BY <1>5, <2>2
    <3>2. tx[f][j].attached <=> tx[f][j].kind # "none" /\ tx[f][j].status = 0
      BY DEF HeldInv, TxsNamed
    <3> QED
      BY <3>1, <3>2
  <2> QED
    BY <2>1, <2>2
<1> QED
  BY <1>5, <1>16, <1>17, <1>19, <1>20 DEF Finished

(* chn_tx_set_status does that, whatever the transfer is in.               *)
LEMMA StatusFinished ==
  ASSUME HeldInv, NEW e \in Ends, NEW i \in Ids, Host(e) \in Hosts, NEW st \in Statuses,
         chn_tx_set_status(e, i, st), UNCHANGED <<main, user>>
  PROVE  Finished(e, i)
<1>1. ChannelTypes /\ MemoryTypes
  BY DEF HeldInv, ChannelTypes
<1>2. PICK h \in Hosts : h = Host(e)
  OBVIOUS
<1>3. tx[e][i] \in Txs /\ tx[e][i].kind \in {"none", "sender", "receiver"}
  BY <1>1 DEF MemoryTypes, Txs
<1>4. CASE tx[e][i].status # 0
  <2>1. UNCHANGED <<tx, stream>>
    BY <1>4 DEF chn_tx_set_status
  <2> QED
    BY <2>1, AloneFinished
<1>5. CASE tx[e][i].status = 0
  <2>1. tx' = [tx EXCEPT ![e][i] = [tx[e][i] EXCEPT !.status = st, !.attached = FALSE]]
    <3>1. tx' = Ended(tx, e, i, st)
      BY <1>5 DEF chn_tx_set_status, Ended
    <3>2. tx \in [Ends -> [Ids -> Txs]]
      BY <1>1 DEF MemoryTypes
    <3>3. Ended(tx, e, i, st) = EndedOnce(tx, e, i, st)
      BY <3>2, TwoFields
    <3> QED
      BY <3>1, <3>3 DEF EndedOnce
  <2>2. stream' = [stream EXCEPT ![h][tx[e][i].key] =
                     IF tx[e][i].kind = "sender" THEN stream_remove_reader(stream[h][tx[e][i].key], <<e, i>>)
                     ELSE stream_remove_writer(stream[h][tx[e][i].key])]
    BY <1>2, <1>5 DEF chn_tx_set_status
  <2>3. CASE tx[e][i].kind = "none"
    <3>1. ~ tx[e][i].attached /\ tx[e][i].key = NoOne
      BY <2>3 DEF HeldInv, TxsNamed
    <3>2. NoOne \notin Keys
      BY ChannelAssumption DEF Keys, Ids
    <3>3. stream \in [Hosts -> [Keys -> Streams]]
      BY <1>1 DEF MemoryTypes
    <3>4. \A x : [stream EXCEPT ![h][NoOne] = x] = stream
      BY <3>2, <3>3
    <3>5. stream' = stream
      BY <2>2, <3>1, <3>4
    <3> QED
      BY <2>1, <2>3, <3>1, <3>5, AloneFinished
  <2>4. CASE tx[e][i].kind # "none"
    <3>1. tx[e][i].attached /\ tx[e][i].key \in Keys
      BY <1>5, <2>4 DEF HeldInv, TxsNamed, Keys
    <3>2. PICK k \in Keys : k = tx[e][i].key
      BY <3>1
    <3>3. PICK kind \in {"sender", "receiver"} : kind = tx[e][i].kind
      BY <1>3, <2>4
    <3>4. stream' = [stream EXCEPT ![h][k] = IF kind = "sender" THEN stream_remove_reader(stream[h][k], <<e, i>>)
                                             ELSE stream_remove_writer(stream[h][k])]
      BY <2>2, <3>2, <3>3
    <3> QED
      BY <1>2, <2>1, <3>1, <3>2, <3>3, <3>4, HeldFinished
  <2> QED
    BY <2>3, <2>4
<1> QED
  BY <1>4, <1>5

LEMMA ThxStep ==
  ASSUME HeldInv, NEW e \in Ends, NEW i \in Ids, Finished(e, i), ends[e] = "open", net[e] # <<>>,
         net' \in [Ends -> Seq(Msgs)], net'[e] = Tail(net[e]),
         \A f \in Ends : f # e => \/ net'[f] = net[f]
                                  \/ \E m \in Msgs : m.t \notin {"start", "read", "write"} /\ net'[f] = net[f] \o <<m>>,
         \A f \in Ends : ends[f] \in {"none", "closed"} => net'[f] = net[f],
         file' \in [Hosts -> [Resources -> Seq(Nat)]],
         UNCHANGED <<put, owner, pend, proc, main, next, todo, ends, user>>
  PROVE  HeldInv'
<1>1. ChannelTypes /\ MemoryTypes
  BY DEF HeldInv, ChannelTypes
<1>2. /\ tx' \in [Ends -> [Ids -> Txs]] /\ stream' \in [Hosts -> [Keys -> Streams]]
      /\ \A f \in Ends : f # e => tx'[f] = tx[f]
      /\ \A g \in Hosts : \A j \in Keys : ~ stream[g][j].writer => ~ stream'[g][j].writer
      /\ \A g \in Hosts : \A j \in Keys : Counted(g, j)'
  BY DEF Finished
<1>3. \A f \in Ends : \A j \in Ids :
        /\ tx'[f][j].kind = tx[f][j].kind /\ tx'[f][j].key = tx[f][j].key
        /\ tx'[f][j].attached <=> tx'[f][j].kind # "none" /\ tx'[f][j].status = 0
  BY DEF Finished
<1>4. QueriesNew'
  <2>1. \A f \in Ends : f # e => \/ net'[f] = net[f]
                                 \/ \E m \in Msgs : /\ m.t \notin {"read", "write"} /\ (m.t = "start" => f[1] = "client")
                                                    /\ net'[f] = net[f] \o <<m>>
    OBVIOUS
  <2>2. UNCHANGED next
    OBVIOUS
  <2> QED
    BY <1>2, <1>3, <2>1, <2>2, TakenQueries
<1>5. CnxsUsed'
  <2>1. \A f \in Ends : ends[f] \in {"none", "connecting", "closed"} => pend'[f] = pend[f] /\ tx'[f] = tx[f]
    BY <1>2
  <2> QED
    BY <2>1, CnxsKeep DEF HeldInv
<1>6. TxsNamed'
  <2> SUFFICES ASSUME NEW f \in Ends, NEW j \in Ids PROVE TxsNamed!(f)!(j)'
    BY DEF TxsNamed
  <2>1. TxsNamed!(f)!(j)
    BY DEF HeldInv, TxsNamed
  <2> QED
    BY <1>3, <2>1
<1>7. ASSUME NEW d \in Clients PROVE MainWaits!(d)'
  <2>1. \A k \in Resources : ~ stream[d][k].writer => ~ stream'[d][k].writer
    BY <1>2 DEF Hosts, Keys
  <2>2. CASE proc[d] \in Cnxs
    <3>1. ClientEnd(proc[d]) \in Ends
      BY <2>2, EndFacts
    <3> QED
      BY <1>3, <2>1, <3>1, WaitsStill
  <2>3. CASE proc[d] = NoOne
    <3>1. main[d].id = 0 /\ main[d] = NoCmd
      BY <2>3 DEF HeldInv, MainWaits
    <3> QED
      BY <3>1
  <2> QED
    BY <1>1, <2>2, <2>3 DEF ChannelTypes
<1>8. ChannelTypes'
  BY <1>1, <1>2 DEF ChannelTypes, MemoryTypes
<1> QED
  BY <1>2, <1>4, <1>5, <1>6, <1>7, <1>8 DEF HeldInv, MainWaits

LEMMA ThxKeeps ==
  ASSUME HeldInv, NEW e \in Ends, serve_thx(e) \/ finalize_thx(e) PROVE HeldInv'
<1>1. PICK kind \in {"thx", "thxAnswer"} : Reading(e, kind)
  BY DEF serve_thx, finalize_thx
<1>2. /\ ends[e] = "open" /\ net[e] # <<>> /\ net[e] \in Seq(Msgs) /\ Head_(e).id \in Ids /\ Host(e) \in Hosts
      /\ Tail(net[e]) \in Seq(Msgs)
  BY <1>1, ReadingFacts
<1>3. PICK i \in Ids : i = Head_(e).id
  BY <1>2
<1>4. /\ UNCHANGED <<file, put, owner, pend, proc, main, next, todo, ends, user>>
      /\ chn_tx_set_status(e, i, 200)
  BY <1>3 DEF serve_thx, finalize_thx, disk, client
<1>a. file' \in [Hosts -> [Resources -> Seq(Nat)]]
  BY <1>4 DEF HeldInv, ChannelTypes
<1>5. Finished(e, i)
  BY <1>2, <1>4, StatusFinished DEF Statuses
<1>6. CASE serve_thx(e)
  <2>1. PICK m \in Answers : m = [t |-> "thxAnswer", id |-> i, status |-> 200]
    BY DEF Answers
  <2>2. Exchange(e, m)
    BY <1>2, <1>3, <1>6, <2>1 DEF serve_thx, Reply, Exchange
  <2>3. Exchanged(e, m)
    BY <2>2, RepliedNet
  <2>4. m \in Msgs /\ m.t \notin {"start", "read", "write"}
    BY <2>1 DEF Msgs
  <2>5. \A f \in Ends : f # e =>
          \/ net'[f] = net[f]
          \/ \E a \in Msgs : a.t \notin {"start", "read", "write"} /\ net'[f] = net[f] \o <<a>>
    BY <2>3, <2>4 DEF Exchanged
  <2>6. net' \in [Ends -> Seq(Msgs)] /\ net'[e] = Tail(net[e])
    BY <2>3 DEF Exchanged
  <2>7. \A f \in Ends : ends[f] \in {"none", "closed"} => net'[f] = net[f]
    BY <1>2, <2>3 DEF Exchanged
  <2> QED
    BY <1>2, <1>4, <1>5, <1>a, <2>5, <2>6, <2>7, ThxStep
<1>7. CASE finalize_thx(e)
  <2>1. net \in [Ends -> Seq(Msgs)] /\ net' = [net EXCEPT ![e] = Tail(net[e])]
    BY <1>7 DEF finalize_thx, Consumed, HeldInv, ChannelTypes
  <2>2. net' \in [Ends -> Seq(Msgs)] /\ net'[e] = Tail(net[e]) /\ \A f \in Ends : f # e => net'[f] = net[f]
    BY <1>2, <2>1
  <2>3. \A f \in Ends : ends[f] \in {"none", "closed"} => net'[f] = net[f]
    BY <1>2, <2>2
  <2> QED
    BY <1>2, <1>4, <1>5, <1>a, <2>2, <2>3, ThxStep
<1> QED
  BY <1>6, <1>7

(* A transfer whose write failed lets go of its stream in the same way.    *)
LEMMA FailedKeeps ==
  ASSUME HeldInv, NEW e \in Ends, CopyFails(e) PROVE HeldInv'
<1>1. Reading(e, "copy") /\ tx[e][Head_(e).id].attached
  BY DEF CopyFails
<1>2. /\ ends[e] = "open" /\ net[e] # <<>> /\ net[e] \in Seq(Msgs) /\ Head_(e).id \in Ids /\ Host(e) \in Hosts
      /\ Tail(net[e]) \in Seq(Msgs) /\ Head_(e) \in Msgs /\ Head_(e).t = "copy"
  BY <1>1, ReadingFacts
<1>3. PICK i \in Ids : i = Head_(e).id
  BY <1>2
<1>4. PICK h \in Hosts : h = Host(e)
  BY <1>2
<1>5. /\ UNCHANGED <<put, owner, pend, proc, main, next, todo, ends, user>>
      /\ chn_tx_set_status(e, i, 501) /\ net' = [net EXCEPT ![e] = Tail(net[e])]
  BY <1>3 DEF CopyFails, client, Consumed
<1>6. Finished(e, i)
  BY <1>2, <1>5, StatusFinished DEF Statuses
<1>7. file' \in [Hosts -> [Resources -> Seq(Nat)]]
  <2>1. file \in [Hosts -> [Resources -> Seq(Nat)]] /\ MemoryTypes
    BY DEF HeldInv, ChannelTypes
  <2>2. Head_(e) \in Copies
    BY <1>2 DEF Msgs, Copies, Queries, Answers, Notes
  <2>3. PICK off \in Nat, data \in Seq(Nat) : off = Head_(e).off /\ data = Head_(e).data
    BY <2>2 DEF Copies
  <2>4. \A f \in Seq(Nat) : Written(f, off, data, FALSE) \in Seq(Nat)
    BY WrittenType
  <2>5. PICK res : res = stream[h][tx[e][i].key].res
    OBVIOUS
  <2>6. file' = file \/ file' = [file EXCEPT ![h][res] = Written(file[h][res], off, data, FALSE)]
    BY <1>3, <1>4, <2>3, <2>5 DEF CopyFails
  <2>7. CASE res \in Resources
    <3>1. Written(file[h][res], off, data, FALSE) \in Seq(Nat)
      BY <2>1, <2>4, <2>7
    <3>2. PICK w \in Seq(Nat) : w = Written(file[h][res], off, data, FALSE)
      BY <3>1
    <3>3. [file EXCEPT ![h][res] = w] \in [Hosts -> [Resources -> Seq(Nat)]]
      BY <2>1, <2>7
    <3> QED
      BY <2>1, <2>6, <3>2, <3>3
  <2>8. CASE res \notin Resources
    <3>1. \A w : [file EXCEPT ![h][res] = w] = file
      BY <2>1, <2>8
    <3> QED
      BY <2>1, <2>6, <3>1
  <2> QED
    BY <2>7, <2>8
<1>8. net' \in [Ends -> Seq(Msgs)] /\ net'[e] = Tail(net[e]) /\ \A f \in Ends : f # e => net'[f] = net[f]
  BY <1>2, <1>5 DEF HeldInv, ChannelTypes
<1>9. \A f \in Ends : ends[f] \in {"none", "closed"} => net'[f] = net[f]
  BY <1>2, <1>8
<1> QED
  BY <1>2, <1>5, <1>6, <1>7, <1>8, <1>9, ThxStep

(* The COPY that finds no stream ends its program.                         *)
LEMMA CrashKeeps ==
  ASSUME HeldInv, NEW e \in Ends, CopyCrashes(e) PROVE HeldInv'
<1>1. Reading(e, "copy") /\ (Restarted \/ (e[1] = "client" /\ Leave(Host(e))))
  BY DEF CopyCrashes
<1>2. e[1] = "client" => Host(e) \in Clients
  BY <1>1, ReadingFacts
<1> QED
  BY <1>1, <1>2, DeathKeeps, LeaveKeeps

-----------------------------------------------------------------------------
(* The theorem about streams.                                              *)

LEMMA HeldInit == Init => HeldInv
<1> SUFFICES ASSUME Init PROVE HeldInv
  OBVIOUS
<1>0. file \in [Hosts -> [Resources -> Seq(Nat)]] /\ owner \in [Resources -> Hosts \cup {NoOne}]
  <2>1. NoFile \in Seq(Nat) /\ Content \in Seq(Nat)
    BY ChannelAssumption DEF NoFile, Content
  <2>2. PICK old \in SUBSET Stored :
          /\ file = [h \in Hosts |-> [r \in Resources |-> IF h = Server /\ r \in old THEN Content ELSE NoFile]]
          /\ owner = [r \in Resources |-> IF r \in old THEN Server ELSE NoOne]
    BY DEF Init
  <2> QED
    BY <2>1, <2>2 DEF Hosts
<1>1. /\ stream = [h \in Hosts |-> [k \in Keys |-> NoStream]]
      /\ tx = [e \in Ends |-> [i \in Ids |-> NoTx]]
      /\ ends = [e \in Ends |-> "none"] /\ net = [e \in Ends |-> <<>>] /\ pend = [e \in Ends |-> NoPend]
      /\ user = [x \in Cnxs |-> NoOne] /\ proc = [c \in Clients |-> NoOne] /\ main = [c \in Clients |-> NoCmd]
      /\ next = [x \in Cnxs |-> 1]
      /\ put = [c \in Clients |-> {}] /\ todo = [c \in Clients |-> {}]
  BY DEF Init
<1>2. NoFile \in Seq(Nat) /\ <<>> \in Seq(Msgs)
  BY DEF NoFile
<1>3. MemoryTypes
  BY <1>1, NoStreamType DEF MemoryTypes
<1>4. ChannelTypes
  BY <1>0, <1>1, <1>2, <1>3, NoStreamType DEF ChannelTypes
<1>5. CnxsUsed
  <2>1. \A x \in Cnxs : ends[ClientEnd(x)] = "none" /\ ends[ServerEnd(x)] = "none" /\ user[x] = NoOne
    BY <1>1, EndFacts
  <2>2. \A e \in Ends : pend[e] = NoPend /\ net[e] = <<>> /\ \A i \in Ids : tx[e][i] = NoTx
    BY <1>1
  <2> QED
    BY <1>1, <2>1, <2>2 DEF CnxsUsed
<1>6. MainWaits
  BY <1>1 DEF MainWaits, NoCmd
<1>7. \A e \in Ends : \A i \in Ids : tx[e][i] = NoTx
  BY <1>1
<1>8. ~ NoTx.attached /\ NoTx.kind = "none" /\ NoTx.key = NoOne
  BY DEF NoTx
<1>9. TxsNamed
  BY <1>7, <1>8 DEF TxsNamed
<1>10. QueriesNew
  BY <1>1, EmptyQueries DEF QueriesNew
<1>11. ASSUME NEW h \in Hosts, NEW k \in Keys PROVE Counted(h, k)
  <2>1. Mine(h, k) = {} /\ Writers(h, k) = {}
    BY <1>7, <1>8 DEF Mine, Writers, Parties
  <2>2. Pending(h, k) = 0
    BY <1>1 DEF Pending, NoCmd
  <2>3. stream[h][k] = NoStream
    BY <1>1
  <2>4. NoStream.count = 0 /\ NoStream.readers = {} /\ ~ NoStream.writer
    BY DEF NoStream
  <2>5. Cardinality({}) = 0
    BY FS_EmptySet
  <2> QED
    BY <2>1, <2>2, <2>3, <2>4, <2>5 DEF Counted
<1> QED
  BY <1>4, <1>5, <1>6, <1>9, <1>10, <1>11 DEF HeldInv

LEMMA HeldStep == HeldInv /\ [Next]_vars => HeldInv'
<1> SUFFICES ASSUME HeldInv, [Next]_vars PROVE HeldInv'
  OBVIOUS
<1>1. CASE UNCHANGED vars
  <2>1. UNCHANGED <<file, put, owner, stream, tx, pend, proc, main, next, todo, ends, net, user>>
    BY <1>1 DEF vars, disk, memory, client
  <2>2. Alike /\ ChannelTypes'
    BY <2>1 DEF Alike, HeldInv, ChannelTypes, MemoryTypes
  <2>3. CnxsUsed'
    BY <2>1 DEF HeldInv, CnxsUsed
  <2>4. QueriesNew'
    BY <2>1 DEF HeldInv, QueriesNew
  <2> QED
    BY <2>1, <2>2, <2>3, <2>4, QuietKeeps
<1>2. ASSUME NEW c \in Clients, NEW x \in Cnxs, Connect(c, x) PROVE HeldInv'
  BY <1>2, ConnectKeeps
<1>3. ASSUME NEW c \in Clients, Login(c) PROVE HeldInv'
  BY <1>3, LoginKeeps
<1>4. ASSUME NEW c \in Clients, Leave(c) PROVE HeldInv'
  BY <1>4, LeaveKeeps
<1>5. ASSUME NEW c \in Clients, StartPass(c) PROVE HeldInv'
  BY <1>5, PassKeeps
<1>6. ASSUME NEW c \in Clients, NEW r \in Resources, chn_send_file_request(c, r) PROVE HeldInv'
  BY <1>6, RequestKeeps
<1>7. ASSUME NEW c \in Clients, NEW r \in Resources, SendNext(c, r) PROVE HeldInv'
  BY <1>7, NextKeeps
<1>8. ASSUME NEW c \in Clients, NEW r \in Resources, Fetch(c, r) PROVE HeldInv'
  BY <1>8, FetchKeeps
<1>9. CASE ServerDies
  BY <1>9, DeathKeeps DEF ServerDies
<1>10. ASSUME NEW e \in Ends, ReaderThread(e) PROVE HeldInv'
  <2>1. CASE serve_write(e)
    BY <2>1, WriteKeeps
  <2>2. CASE serve_read(e)
    BY <2>2, ReadKeeps
  <2>3. CASE finalize_txstart(e)
    BY <2>3, StartKeeps
  <2>4. CASE serve_copy(e)
    BY <2>4, CopyKeeps
  <2>5. CASE RegisterFragment(e)
    BY <2>5, RegisterKeeps
  <2>6. CASE serve_thx(e)
    BY <2>6, ThxKeeps
  <2>7. CASE finalize_thx(e)
    BY <2>7, ThxKeeps
  <2>8. CASE serve_miss(e)
    BY <2>8, MissKeeps
  <2>9. CASE SeeEnd(e)
    BY <2>9, SeeEndKeeps
  <2>10. CASE CopyCrashes(e)
    BY <2>10, CrashKeeps
  <2> QED
    BY <1>10, <2>10, <2>1, <2>2, <2>3, <2>4, <2>5, <2>6, <2>7, <2>8, <2>9 DEF ReaderThread
<1>11. ASSUME NEW e \in Ends, NEW i \in Ids, tx_checker(e, i) PROVE HeldInv'
  BY <1>11, CheckerKeeps
<1>12. ASSUME NEW h \in Hosts, NEW k \in Keys, PushResumes(h, k) PROVE HeldInv'
  BY <1>12, ResumeKeeps
<1>13. ASSUME NEW h \in Hosts, NEW k \in Keys, NEW t \in Ends \X Ids, stream_push(h, k, t) PROVE HeldInv'
  BY <1>13, PushKeeps DEF Parties
<1>14. ASSUME NEW e \in Ends, CopyFails(e) PROVE HeldInv'
  BY <1>14, FailedKeeps
<1> QED
  BY <1>1, <1>2, <1>3, <1>4, <1>5, <1>6, <1>7, <1>8, <1>9, <1>10, <1>11, <1>12, <1>13, <1>14 DEF Next

LEMMA HeldShows == HeldInv => StreamHeld
<1> SUFFICES ASSUME HeldInv, NEW h \in Hosts, NEW k \in Keys
             PROVE  /\ stream[h][k].count >= Cardinality(Mine(h, k))
                    /\ stream[h][k].readers = Mine(h, k) \ Writers(h, k)
                    /\ Cardinality(Writers(h, k)) = (IF stream[h][k].writer THEN 1 ELSE 0)
  BY DEF StreamHeld, Mine, Writers, Parties
<1>1. Counted(h, k)
  BY DEF HeldInv
<1>2. Cardinality(Mine(h, k)) \in Nat /\ Pending(h, k) \in Nat /\ stream[h][k].count \in Nat
  BY FitsNow, MineFinite DEF Streams
<1>3. stream[h][k].count >= Cardinality(Mine(h, k))
  BY <1>1, <1>2 DEF Counted
<1>4. Cardinality(Writers(h, k)) = (IF stream[h][k].writer THEN 1 ELSE 0)
  <2>1. CASE Writers(h, k) = {}
    BY <1>1, <2>1, FS_EmptySet DEF Counted
  <2>2. CASE Writers(h, k) # {}
    <3>1. PICK t : t \in Writers(h, k)
      BY <2>2
    <3>2. Writers(h, k) = {t}
      BY <1>1, <3>1 DEF Counted
    <3> QED
      BY <1>1, <2>2, <3>2, FS_Singleton DEF Counted
  <2> QED
    BY <2>1, <2>2
<1> QED
  BY <1>1, <1>3, <1>4 DEF Counted

(* A transfer never loses its stream (stream_ref, stream_unref and their   *)
(* callers in stream.c and channel.c): in every state of every behaviour,  *)
(* for any clients, resources, connections and commands, the transfers     *)
(* that have a stream are its readers and its one writer, and all of their *)
(* references are counted.                                                 *)
THEOREM StreamsAreHeld == Spec => []StreamHeld
<1>1. Init => HeldInv
  BY HeldInit
<1>2. HeldInv /\ [Next]_vars => HeldInv'
  BY HeldStep
<1>3. HeldInv => StreamHeld
  BY HeldShows
<1> QED
  BY <1>1, <1>2, <1>3, PTL DEF Spec

=============================================================================
