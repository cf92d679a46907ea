---------------------------- MODULE MerefsProofs ----------------------------
(***************************************************************************)
(* Theorems about module Merefs: nothing that a user wrote is destroyed,   *)
(* and nothing is removed from the mdir that the user did not remove, for  *)
(* every number of files, of edits on either side and of ends of merefs.   *)
(***************************************************************************)
EXTENDS Merefs, NaturalsInduction, WellFoundedInduction, TLAPS

-----------------------------------------------------------------------------
(* Induction, stated with sets instead of predicates.                      *)

(* A set of numbers that is not empty has a least element.                 *)
LEMMA LeastNumber ==
  ASSUME NEW T, T \subseteq Nat, T # {} PROVE \E x \in T : \A y \in T : x <= y
<1>1. PICK x \in T : \A y \in T : <<y, x>> \notin OpToRel(<, Nat)
  BY NatLessThanWellFounded, WFMin
<1>2. \A y \in T : ~ (y < x)
  BY <1>1 DEF OpToRel
<1> QED
  BY <1>2

(* A set with 0 and the successor of each of its numbers has all numbers.  *)
LEMMA AllNumbers ==
  ASSUME NEW S, 0 \in S, \A n \in Nat : n \in S => n + 1 \in S PROVE \A n \in Nat : n \in S
<1> DEFINE T == {n \in Nat : n \notin S}
<1> SUFFICES ASSUME T # {} PROVE FALSE
  OBVIOUS
<1>1. PICK x \in T : \A y \in T : x <= y
  BY LeastNumber
<1>2. x # 0 /\ x \in Nat /\ x - 1 \in Nat
  OBVIOUS
<1>3. x - 1 \in S
  BY <1>1, <1>2
<1> QED
  BY <1>2, <1>3

-----------------------------------------------------------------------------
(* read_mdir folds List over the versions behind the cursor.               *)

(* A table that gives, for a set of positions of q, what List makes of     *)
(* them in their order.                                                    *)
IsFold(it, known, q, m) ==
  it = [s \in SUBSET (1 .. m) |-> IF s = {} THEN known ELSE List(it[s \ {Max(s)}], q[Max(s)])]

LEMMA LastOf ==
  ASSUME NEW m \in Nat, NEW s \in SUBSET (1 .. m + 1), m + 1 \in s PROVE Max(s) = m + 1
<1>1. \A x \in s : x \in Nat /\ x <= m + 1
  OBVIOUS
<1>2. \A x \in s : (\A y \in s : x >= y) <=> x = m + 1
  BY <1>1
<1>3. \E x \in s : \A y \in s : x >= y
  BY <1>2
<1>4. Max(s) \in s /\ \A y \in s : Max(s) >= y
  BY <1>3 DEF Max
<1> QED
  BY <1>2, <1>4

LEMMA FoldLonger ==
  ASSUME NEW known, NEW q, NEW m \in Nat, NEW it, IsFold(it, known, q, m)
  PROVE  \E jt : IsFold(jt, known, q, m + 1)
<1> DEFINE jt == [s \in SUBSET (1 .. m + 1) |->
                    IF m + 1 \in s THEN List(it[s \ {m + 1}], q[m + 1]) ELSE it[s]]
           R(s) == IF s = {} THEN known ELSE List(jt[s \ {Max(s)}], q[Max(s)])
<1>1. \A s \in SUBSET (1 .. m) : s \in SUBSET (1 .. m + 1) /\ m + 1 \notin s
  OBVIOUS
<1>2. \A s \in SUBSET (1 .. m) : jt[s] = it[s]
  BY <1>1
<1>3. \A s \in SUBSET (1 .. m) : it[s] = IF s = {} THEN known ELSE List(it[s \ {Max(s)}], q[Max(s)])
  BY DEF IsFold
<1>4. jt = [s \in SUBSET (1 .. m + 1) |-> jt[s]]
  OBVIOUS
<1>5. ASSUME NEW s \in SUBSET (1 .. m + 1), m + 1 \in s PROVE jt[s] = List(it[s \ {m + 1}], q[m + 1])
  BY <1>5
<1> HIDE DEF jt
<1>6. ASSUME NEW s \in SUBSET (1 .. m + 1) PROVE jt[s] = R(s)
  <2>1. CASE m + 1 \in s
    <3>1. s # {} /\ Max(s) = m + 1 /\ s \ {m + 1} \in SUBSET (1 .. m)
      BY <2>1, LastOf
    <3> QED
      BY <1>2, <1>5, <2>1, <3>1
  <2>2. CASE m + 1 \notin s
    <3>1. \A x \in s : x \in 1 .. m + 1 /\ x # m + 1
      BY <2>2
    <3>2. \A x \in 1 .. m + 1 : x # m + 1 => x \in 1 .. m
      OBVIOUS
    <3>3. s \in SUBSET (1 .. m)
      BY <3>1, <3>2
    <3>4. s \ {Max(s)} \in SUBSET (1 .. m)
      BY <3>3
    <3> QED
      BY <1>2, <1>3, <3>3, <3>4
  <2> QED
    BY <2>1, <2>2
<1>7. jt = [s \in SUBSET (1 .. m + 1) |-> R(s)]
  BY <1>4, <1>6, Zenon
<1> QED
  BY <1>7 DEF IsFold

LEMMA FoldExists ==
  ASSUME NEW known, NEW q, NEW m \in Nat PROVE \E it : IsFold(it, known, q, m)
<1> DEFINE S == {k \in Nat : \E it : IsFold(it, known, q, k)}
<1>1. 0 \in S
  <2>1. IsFold([s \in SUBSET (1 .. 0) |-> known], known, q, 0)
    <3>1. \A s \in SUBSET (1 .. 0) : s = {}
      OBVIOUS
    <3> QED
      BY <3>1 DEF IsFold
  <2> QED
    BY <2>1
<1>2. \A k \in Nat : k \in S => k + 1 \in S
  BY FoldLonger
<1> HIDE DEF S
<1>3. m \in S
  BY <1>1, <1>2, AllNumbers
<1> QED
  BY <1>3 DEF S

LEMMA FoldValue ==
  ASSUME NEW known, NEW q \in Seq(Nat)
  PROVE  \E it : IsFold(it, known, q, Len(q)) /\ FoldLeft(List, known, q) = it[1 .. Len(q)]
<1> DEFINE it == CHOOSE it : it = [s \in SUBSET (1 .. Len(q)) |->
                                     IF s = {} THEN known ELSE List(it[s \ {Max(s)}], q[Max(s)])]
<1>1. IsFold(it, known, q, Len(q))
  <2>1. Len(q) \in Nat
    OBVIOUS
  <2>2. \E jt : IsFold(jt, known, q, Len(q))
    BY <2>1, FoldExists
  <2> QED
    BY <2>2, Zenon DEF IsFold
<1>2. DOMAIN q = 1 .. Len(q)
  OBVIOUS
<1>3. FoldLeft(List, known, q) = it[1 .. Len(q)]
  BY <1>2 DEF FoldLeft, MapThenFoldSet
<1> QED
  BY <1>1, <1>3

(* What List keeps, the fold keeps.                                        *)
LEMMA FoldInto ==
  ASSUME NEW K, NEW known \in K, NEW D, NEW q \in Seq(Nat), \A i \in 1 .. Len(q) : q[i] \in D,
         \A k \in K : \A v \in D : List(k, v) \in K
  PROVE  FoldLeft(List, known, q) \in K
<1>1. PICK it : IsFold(it, known, q, Len(q)) /\ FoldLeft(List, known, q) = it[1 .. Len(q)]
  BY FoldValue
<1> DEFINE S == {k \in Nat : k <= Len(q) => it[1 .. k] \in K}
<1>2. Len(q) \in Nat
  OBVIOUS
<1>3. \A s \in SUBSET (1 .. Len(q)) : it[s] = IF s = {} THEN known ELSE List(it[s \ {Max(s)}], q[Max(s)])
  BY <1>1 DEF IsFold
<1>4. 0 \in S
  <2>1. 1 .. 0 = {} /\ {} \in SUBSET (1 .. Len(q))
    OBVIOUS
  <2> QED
    BY <1>3, <2>1
<1>5. ASSUME NEW k \in Nat, k \in S PROVE k + 1 \in S
  <2> SUFFICES ASSUME k + 1 <= Len(q) PROVE it[1 .. k + 1] \in K
    OBVIOUS
  <2>1. it[1 .. k] \in K /\ q[k + 1] \in D
    BY <1>2, <1>5
  <2>2. 1 .. k + 1 \in SUBSET (1 .. Len(q)) /\ 1 .. k + 1 # {} /\ k + 1 \in 1 .. k + 1
    <3>1. \A x \in 1 .. k + 1 : x \in 1 .. Len(q)
      BY <1>2
    <3>2. k + 1 \in 1 .. k + 1
      OBVIOUS
    <3> QED
      BY <3>1, <3>2
  <2>3. Max(1 .. k + 1) = k + 1
    BY <2>2, LastOf
  <2>4. (1 .. k + 1) \ {k + 1} = 1 .. k
    OBVIOUS
  <2>5. it[1 .. k + 1] = List(it[(1 .. k + 1) \ {Max(1 .. k + 1)}], q[Max(1 .. k + 1)])
    BY <1>3, <2>2
  <2> QED
    BY <2>1, <2>3, <2>4, <2>5
<1>6. \A k \in Nat : k \in S => k + 1 \in S
  BY <1>5
<1> HIDE DEF S
<1>7. Len(q) \in S
  BY <1>2, <1>4, <1>6, AllNumbers
<1> QED
  BY <1>1, <1>2, <1>7 DEF S

-----------------------------------------------------------------------------
(* The invariant.                                                          *)

Patches == [tag : {"+", "-"}, name : Names \cup {""}, digest : Int, target : Nat]
Entries == [name : Names, digest : Int]
Remotes == [digest : Int, version : Nat]

(* The file of which the digest was taken is being treated; a file of the  *)
(* mdir is being taken.                                                    *)
Looking == {"match", "upload", "replace"}
Taking  == {"get", "unlink", "link"}
Saving  == {"save", "record"}
Pcs     == {"off", "stuck", "pass"} \cup Passing \cup Saving

Runs ==
  [pc : Pcs, bg : BOOLEAN, filed : BOOLEAN, cursor : Nat, known : [Names -> Remotes], matched : SUBSET Names,
   cmap : Seq(Entries), nmap : Seq(Entries), todo : SUBSET Names, name : {Off.name} \cup Names, digest : Int,
   saved : Nat]

(* Contents that filed has or for which there is a cache file.             *)
Safe == filed \cup DOMAIN cache

(* What is in the mdir, in the lists and in the maps is safe.              *)
JournalTrue(j, S) ==
  \A v \in 1 .. Len(j) :
    IF j[v].tag = "+" THEN j[v].name \in Names /\ j[v].digest # 0 /\ j[v].digest \in S ELSE j[v].digest = 0
KnownTrue(known, S) == \A n \in Names : known[n] = None \/ (known[n].digest # 0 /\ known[n].digest \in S)
MapTrue(map, S)     == \A i \in 1 .. Len(map) : map[i].digest # 0 /\ map[i].digest \in S
FileTrue(map, S)    == \A i \in 1 .. Len(map) : map[i].digest = 0 \/ map[i].digest \in S

Disk ==
  /\ local \in [Names -> Int] /\ link \in [Names -> Int]
  /\ 0 \notin DOMAIN cache /\ \A d \in DOMAIN cache : d \in Int /\ cache[d] \in Int /\ cache[d] # 0
  /\ arriving \subseteq DOMAIN cache
  /\ \A n \in Names : link[n] # 0 => local[n] # 0 /\ link[n] \in DOMAIN cache

Books ==
  /\ journal \in Seq(Patches) /\ JournalTrue(journal, Safe)
  /\ mapfile \in Seq(Entries) /\ FileTrue(mapfile, Safe)

Flags ==
  /\ filed \subseteq Int /\ edits \in Nat /\ stale \in BOOLEAN
  /\ removed \subseteq Names /\ raced \subseteq Names /\ lost \subseteq Skipped

StoreInv == Disk /\ Books /\ Flags

(* There is an entry for n in the map.                                     *)
Has(map, n) == \E i \in 1 .. Len(map) : map[i].name = n

Lists ==
  /\ run \in Runs /\ run.cursor <= Len(journal)
  /\ KnownTrue(run.known, Safe) /\ MapTrue(run.cmap, Safe) /\ MapTrue(run.nmap, Safe)

(* Where merefs is in its lists.                                           *)
Control ==
  /\ run.pc \in Looking \cup Taking => run.name \in Names /\ run.name \notin run.todo
  /\ run.pc \in Looking => run.digest # 0
  /\ run.pc \in {"upload", "replace"} => run.digest \in Safe
  /\ run.pc \in Taking => run.known[run.name] # None /\ (run.name \in run.matched \/ ~ Has(run.cmap, run.name))
  /\ run.pc \in {"unlink", "link"} => run.known[run.name].digest \in DOMAIN cache
  /\ run.pc \in {"pass", "scan", "create"} => run.digest = 0
  /\ run.pc = "pass" => run.matched = {} /\ run.nmap = <<>>
  /\ run.pc = "create" \/ (run.pc \in Taking /\ run.digest = 0) =>
       \A n \in run.todo : run.known[n] # None /\ n \notin run.matched
  /\ run.pc = "save" => run.saved <= Len(mapfile)
  /\ run.pc = "record" => run.saved + 1 \in 1 .. Len(run.nmap) /\ run.saved + 1 \in 1 .. Len(mapfile)

(* A file gets into the new map when it is treated, once in a pass.        *)
NewOnce ==
  run.pc \in Passing =>
    \A n \in Names : Has(run.nmap, n) =>
      n \notin run.todo /\ (run.pc \in Looking \cup Taking => n # run.name) /\ (n \in run.matched \/ run.known[n] = None)

RunInv == Lists /\ Control /\ NewOnce

(* Nothing of a user would be lost with the file.                          *)
Harmless(n) == local[n] <= 0 \/ local[n] \in Safe

(* Unless its user was faster, the file is what it was when its digest was *)
(* taken, but for the rest of a download.                                  *)
LookedAt ==
  run.pc \in Looking /\ run.name \notin raced => local[run.name] = run.digest \/ Harmless(run.name)

(* A file that is about to be unlinked may go.                             *)
Spare == run.pc \in {"get", "unlink"} /\ run.name \notin raced \cup Skipped => Harmless(run.name)

(* A file that was passed by is gone, or not in the mdir, or matched.      *)
PassedBy ==
  run.pc \in Passing =>
    \A n \in Names \ (raced \cup Skipped) :
      \/ n \in Ahead
      \/ run.pc \in Looking \cup Taking /\ n = run.name
      \/ local[n] = 0 \/ run.known[n] = None \/ n \in run.matched

(* What the map of the last pass names is there, or was removed by its     *)
(* user.                                                                   *)
There(n)  == local[n] # 0 \/ n \in removed
Kept(map) == \A n \in Names : Has(map, n) => There(n)

MapsKept == ~stale =>
  /\ run.pc = "off" => Kept(mapfile)
  /\ run.pc = "pass" => Kept(run.cmap)
  /\ run.pc \in Passing \cup Saving => Kept(run.nmap)
  /\ run.pc \in Passing =>
       \A n \in Names : Has(run.cmap, n) /\ run.known[n] # None /\ n \notin run.matched => There(n)
  /\ run.pc \in Looking => There(run.name)

World == LookedAt /\ Spare /\ PassedBy /\ MapsKept

MerefsInv == StoreInv /\ RunInv /\ World

-----------------------------------------------------------------------------
(* The operators of the model.                                             *)

(* file_search finds an entry of that name if there is one.                *)
LEMMA SearchFinds ==
  ASSUME NEW map \in Seq(Entries), NEW n
  PROVE  /\ file_search(map, n) = 0 => ~ Has(map, n)
         /\ file_search(map, n) # 0 => file_search(map, n) \in 1 .. Len(map) /\ map[file_search(map, n)].name = n
<1> DEFINE I == {i \in 1 .. Len(map) : map[i].name = n}
<1>1. CASE I = {}
  <2>1. file_search(map, n) = 0
    BY <1>1 DEF file_search, SelectInSeq
  <2> QED
    BY <1>1, <2>1 DEF Has
<1>2. CASE I # {}
  <2>1. I \subseteq Nat
    OBVIOUS
  <2>2. \E x \in I : \A y \in I : x <= y
    BY <1>2, <2>1, LeastNumber
  <2>3. file_search(map, n) = CHOOSE x \in I : \A y \in I : x <= y
    BY <1>2 DEF file_search, SelectInSeq, Min
  <2>4. file_search(map, n) \in I
    BY <2>2, <2>3
  <2> QED
    BY <2>4
<1> QED
  BY <1>1, <1>2

(* A digest that map_get_digest returns is one of the map's, and one that  *)
(* is missing is missing.                                                  *)
LEMMA DigestFound ==
  ASSUME NEW map \in Seq(Entries), NEW n, NEW S, MapTrue(map, S)
  PROVE  /\ map_get_digest(map, n) # 0 => map_get_digest(map, n) \in S /\ Has(map, n)
         /\ map_get_digest(map, n) = 0 => ~ Has(map, n)
         /\ map_get_digest(map, n) \in Int
<1> DEFINE i == file_search(map, n)
<1>1. /\ i = 0 => ~ Has(map, n)
      /\ i # 0 => i \in 1 .. Len(map) /\ map[i].name = n
  BY SearchFinds
<1>2. map_get_digest(map, n) = IF i = 0 THEN 0 ELSE map[i].digest
  BY DEF map_get_digest
<1> HIDE DEF i
<1>3. CASE i = 0
  BY <1>1, <1>2, <1>3
<1>4. CASE i # 0
  <2>1. map[i] \in Entries /\ map[i].digest # 0 /\ map[i].digest \in S
    BY <1>1, <1>4 DEF MapTrue
  <2>2. Has(map, n)
    BY <1>1, <1>4 DEF Has
  <2> QED
    BY <1>2, <1>4, <2>1, <2>2 DEF Entries
<1> QED
  BY <1>3, <1>4

(* map_set adds or changes the entry of one name.                          *)
LEMMA MapSet ==
  ASSUME NEW map \in Seq(Entries), NEW n \in Names, NEW c \in Int, NEW S,
         MapTrue(map, S), c # 0, c \in S
  PROVE  /\ map_set(map, n, c) \in Seq(Entries) /\ MapTrue(map_set(map, n, c), S)
         /\ \A x \in Names : Has(map_set(map, n, c), x) => Has(map, x) \/ x = n
<1> DEFINE i == file_search(map, n)
           e == [name |-> n, digest |-> c]
<1>1. i # 0 => i \in 1 .. Len(map) /\ map[i].name = n
  BY SearchFinds
<1>2. map_set(map, n, c) = IF i = 0 THEN <<e>> \o map ELSE [map EXCEPT ![i].digest = c]
  BY DEF map_set, file_new
<1>3. e \in Entries /\ e.digest = c /\ e.name = n
  BY DEF Entries
<1> HIDE DEF i, e
<1>4. CASE i = 0
  <2> DEFINE s == <<e>> \o map
  <2>1. s \in Seq(Entries) /\ Len(s) = 1 + Len(map)
    BY <1>3
  <2>2. \A k \in 1 .. Len(s) : s[k] = IF k = 1 THEN e ELSE map[k - 1]
    OBVIOUS
  <2>3. ASSUME NEW k \in 1 .. Len(s) PROVE s[k] = e \/ \E l \in 1 .. Len(map) : s[k] = map[l]
    <3>1. k # 1 => k - 1 \in 1 .. Len(map)
      BY <2>1
    <3> QED
      BY <2>2, <3>1
  <2> HIDE DEF s
  <2>4. MapTrue(s, S)
    BY <1>3, <2>3 DEF MapTrue
  <2>5. \A x \in Names : Has(s, x) => Has(map, x) \/ x = n
    BY <1>3, <2>3 DEF Has
  <2> QED
    BY <1>2, <1>4, <2>1, <2>4, <2>5 DEF s
<1>5. CASE i # 0
  <2> DEFINE s == [map EXCEPT ![i].digest = c]
  <2>1. map[i] \in Entries /\ i \in 1 .. Len(map)
    BY <1>1, <1>5
  <2>2. [map[i] EXCEPT !.digest = c] \in Entries
    BY <2>1 DEF Entries
  <2>3. s \in Seq(Entries) /\ Len(s) = Len(map)
    BY <2>1, <2>2
  <2>4. \A k \in 1 .. Len(map) : s[k] = IF k = i THEN [map[i] EXCEPT !.digest = c] ELSE map[k]
    BY <2>1
  <2>5. \A k \in 1 .. Len(map) : s[k].name = map[k].name /\ s[k].digest = IF k = i THEN c ELSE map[k].digest
    BY <2>1, <2>4 DEF Entries
  <2> HIDE DEF s
  <2>6. MapTrue(s, S)
    BY <2>3, <2>5 DEF MapTrue
  <2>7. \A x \in Names : Has(s, x) => Has(map, x)
    BY <2>3, <2>5 DEF Has
  <2> QED
    BY <1>2, <1>5, <2>3, <2>6, <2>7 DEF s
<1> QED
  BY <1>4, <1>5

(* map_load reverses the entries of a file that is not torn.               *)
LEMMA Loaded ==
  ASSUME NEW S, mapfile \in Seq(Entries), FileTrue(mapfile, S), ~ Torn
  PROVE  /\ map_load \in Seq(Entries) /\ MapTrue(map_load, S)
         /\ \A x \in Names : Has(map_load, x) => Has(mapfile, x)
<1>1. map_load = [i \in 1 .. Len(mapfile) |-> mapfile[Len(mapfile) - i + 1]]
  BY DEF map_load, Reverse
<1>2. \A i \in 1 .. Len(mapfile) : Len(mapfile) - i + 1 \in 1 .. Len(mapfile)
  OBVIOUS
<1>3. map_load \in Seq(Entries) /\ Len(map_load) = Len(mapfile)
  BY <1>1, <1>2
<1>4. \A i \in 1 .. Len(map_load) : \E l \in 1 .. Len(mapfile) : map_load[i] = mapfile[l]
  BY <1>1, <1>2, <1>3
<1>5. MapTrue(mapfile, S)
  BY DEF MapTrue, FileTrue, Torn
<1> QED
  BY <1>3, <1>4, <1>5 DEF MapTrue, Has

(* read_mdir keeps a list of files whose contents are safe.                *)
LEMMA ListKeeps ==
  ASSUME NEW S, journal \in Seq(Patches), JournalTrue(journal, S), NEW k \in [Names -> Remotes], KnownTrue(k, S),
         NEW v \in 1 .. Len(journal)
  PROVE  List(k, v) \in [Names -> Remotes] /\ KnownTrue(List(k, v), S)
<1>0. journal[v] \in Patches /\ None \in Remotes /\ v \in Nat
  BY DEF Remotes, None
<1>1. CASE journal[v].tag = "-"
  <2>1. List(k, v) = [n \in Names |-> IF k[n].version = journal[v].target THEN None ELSE k[n]]
    BY <1>1 DEF List, remove_remote_file
  <2> QED
    BY <1>0, <2>1 DEF KnownTrue
<1>2. CASE journal[v].tag # "-" /\ Erased(v)
  BY <1>2 DEF List
<1>3. CASE journal[v].tag # "-" /\ ~ Erased(v)
  <2> DEFINE e == [digest |-> journal[v].digest, version |-> v]
  <2>1. journal[v].tag = "+"
    BY <1>0, <1>3 DEF Patches
  <2>2. journal[v].name \in Names /\ journal[v].digest # 0 /\ journal[v].digest \in S
    BY <2>1 DEF JournalTrue
  <2>3. e \in Remotes /\ e.digest = journal[v].digest
    BY <1>0 DEF Remotes, Patches
  <2>4. List(k, v) = [k EXCEPT ![journal[v].name] = e]
    BY <1>3 DEF List, add_remote_file
  <2> HIDE DEF e
  <2> QED
    BY <2>2, <2>3, <2>4 DEF KnownTrue
<1> QED
  BY <1>1, <1>2, <1>3

LEMMA ReadKeeps ==
  ASSUME NEW S, journal \in Seq(Patches), JournalTrue(journal, S), NEW r, r.known \in [Names -> Remotes],
         KnownTrue(r.known, S), r.cursor \in Nat, r.cursor <= Len(journal)
  PROVE  \E k \in [Names -> Remotes] :
           KnownTrue(k, S) /\ read_mdir(r) = [r EXCEPT !.known = k, !.cursor = Len(journal)]
<1> DEFINE K == {k \in [Names -> Remotes] : KnownTrue(k, S)}
           q == [i \in 1 .. Len(journal) - r.cursor |-> r.cursor + i]
           D == 1 .. Len(journal)
<1>1. Len(journal) \in Nat
  OBVIOUS
<1>2. Len(journal) - r.cursor \in Nat
  BY <1>1
<1>3. q \in Seq(Nat) /\ Len(q) = Len(journal) - r.cursor
  <2> DEFINE m == Len(journal) - r.cursor
  <2>1. \A i \in 1 .. m : r.cursor + i \in Nat
    BY <1>2
  <2>2. m \in Nat
    BY <1>2
  <2> HIDE DEF m
  <2>3. [i \in 1 .. m |-> r.cursor + i] \in Seq(Nat) /\ Len([i \in 1 .. m |-> r.cursor + i]) = m
    BY <2>1, <2>2
  <2> QED
    BY <2>3 DEF m
<1>4. \A i \in 1 .. Len(q) : q[i] \in D
  BY <1>1, <1>3
<1>5. \A k \in K : \A v \in D : List(k, v) \in K
  BY ListKeeps
<1>6. r.known \in K
  OBVIOUS
<1>7. read_mdir(r) = [r EXCEPT !.known = FoldLeft(List, r.known, q), !.cursor = Len(journal)]
  BY DEF read_mdir
<1> HIDE DEF K, q, D
<1>8. FoldLeft(List, r.known, q) \in K
  BY <1>3, <1>4, <1>5, <1>6, FoldInto
<1> QED
  BY <1>7, <1>8 DEF K

-----------------------------------------------------------------------------
(* The journal and what is safe only grow.                                 *)

(* A patch that may follow.                                                *)
Fits(p, S) ==
  p \in Patches /\ IF p.tag = "+" THEN p.name \in Names /\ p.digest # 0 /\ p.digest \in S ELSE p.digest = 0

LEMMA JournalAppend ==
  ASSUME NEW S, NEW j \in Seq(Patches), JournalTrue(j, S), NEW p, Fits(p, S)
  PROVE  Append(j, p) \in Seq(Patches) /\ JournalTrue(Append(j, p), S) /\ Len(j) <= Len(Append(j, p))
<1> DEFINE a == Append(j, p)
<1>1. p \in Patches /\ Len(j) \in Nat
  BY DEF Fits
<1>2. a \in Seq(Patches) /\ Len(a) = Len(j) + 1 /\ \A v \in 1 .. Len(a) : a[v] = IF v = Len(j) + 1 THEN p ELSE j[v]
  BY <1>1
<1> HIDE DEF a
<1>3. \A v \in 1 .. Len(a) : v = Len(j) + 1 \/ v \in 1 .. Len(j)
  BY <1>1, <1>2
<1>4. JournalTrue(a, S)
  BY <1>2, <1>3 DEF JournalTrue, Fits
<1>5. Len(j) <= Len(a)
  BY <1>1, <1>2
<1> QED
  BY <1>2, <1>4, <1>5 DEF a

LEMMA Larger ==
  ASSUME NEW S, NEW T, S \subseteq T
  PROVE  /\ \A m : MapTrue(m, S) => MapTrue(m, T)
         /\ \A m : FileTrue(m, S) => FileTrue(m, T)
         /\ \A f : KnownTrue(f, S) => KnownTrue(f, T)
         /\ \A j : JournalTrue(j, S) => JournalTrue(j, T)
BY DEF MapTrue, FileTrue, KnownTrue, JournalTrue

(* The last live version of a file is a number.                            *)
LEMMA LastLive ==
  ASSUME journal \in Seq(Patches), NEW n \in Names, Live(n) # {}
  PROVE  (CHOOSE v \in Live(n) : \A w \in Live(n) : w <= v) \in Nat
<1> DEFINE T == {Len(journal) - v : v \in Live(n)}
<1>1. Live(n) \subseteq 1 .. Len(journal) /\ Len(journal) \in Nat
  BY DEF Live
<1>2. T \subseteq Nat /\ T # {}
  BY <1>1
<1>3. PICK x \in T : \A y \in T : x <= y
  BY <1>2, LeastNumber
<1>4. PICK v \in Live(n) : x = Len(journal) - v
  BY <1>3
<1>5. ASSUME NEW w \in Live(n) PROVE w <= v
  <2>1. x <= Len(journal) - w
    BY <1>3
  <2> QED
    BY <1>1, <1>4, <2>1
<1>6. (CHOOSE v1 \in Live(n) : \A w \in Live(n) : w <= v1) \in Live(n)
  BY <1>5
<1> QED
  BY <1>1, <1>6

LEMMA RemFits ==
  ASSUME NEW S, NEW v \in Nat PROVE Fits(Rem(v), S)
BY DEF Fits, Rem, Patches

LEMMA AddFits ==
  ASSUME NEW S, NEW n \in Names, NEW c \in Int, c # 0, c \in S PROVE Fits(Add(n, c), S)
BY DEF Fits, Add, Patches

LEMMA ReplacedAppends ==
  ASSUME NEW S, journal \in Seq(Patches), NEW k \in Seq(Patches), JournalTrue(k, S), NEW n \in Names
  PROVE  k \o Replaced(n) \in Seq(Patches) /\ JournalTrue(k \o Replaced(n), S) /\ Len(k) <= Len(k \o Replaced(n))
<1>2. CASE Live(n) = {}
  <2>1. k \o Replaced(n) = k
    BY <1>2 DEF Replaced
  <2> QED
    BY <2>1
<1>3. CASE Live(n) # {}
  <2> DEFINE v == CHOOSE v \in Live(n) : \A w \in Live(n) : w <= v
  <2>1. v \in Nat
    BY <1>3, LastLive
  <2>2. Replaced(n) = <<Rem(v)>>
    BY <1>3 DEF Replaced
  <2> HIDE DEF v
  <2>3. Fits(Rem(v), S) /\ Rem(v) \in Patches
    BY <2>1, RemFits DEF Fits
  <2>4. k \o <<Rem(v)>> = Append(k, Rem(v))
    BY <2>3
  <2> QED
    BY <2>2, <2>3, <2>4, JournalAppend
<1> QED
  BY <1>2, <1>3

-----------------------------------------------------------------------------
(* Every action keeps the invariant.                                       *)

LEMMA OffFields ==
  /\ Off \in Runs /\ Off.pc = "off" /\ Off.cursor = 0 /\ Off.known = [n \in Names |-> None] /\ Off.matched = {}
  /\ Off.cmap = <<>> /\ Off.nmap = <<>> /\ Off.todo = {} /\ Off.digest = 0 /\ Off.saved = 0
<1>1. None \in Remotes
  BY DEF None, Remotes
<1>2. /\ Off.pc = "off" /\ Off.cursor = 0 /\ Off.known = [n \in Names |-> None] /\ Off.matched = {}
      /\ Off.cmap = <<>> /\ Off.nmap = <<>> /\ Off.todo = {} /\ Off.digest = 0 /\ Off.saved = 0
  BY DEF Off
<1>3. Off = [pc |-> "off", bg |-> FALSE, filed |-> FALSE, cursor |-> 0, known |-> [n \in Names |-> None],
             matched |-> {}, cmap |-> <<>>, nmap |-> <<>>, todo |-> {}, name |-> Off.name, digest |-> 0, saved |-> 0]
  BY DEF Off
<1>4. Off \in Runs
  <2> DEFINE name == Off.name
             known == [n \in Names |-> None]
  <2>1. known \in [Names -> Remotes] /\ <<>> \in Seq(Entries) /\ "off" \in Pcs
    BY <1>1 DEF Pcs
  <2>2. Off = [pc |-> "off", bg |-> FALSE, filed |-> FALSE, cursor |-> 0, known |-> known,
               matched |-> {}, cmap |-> <<>>, nmap |-> <<>>, todo |-> {}, name |-> name, digest |-> 0, saved |-> 0]
    BY <1>3
  <2>3. Runs = [pc : Pcs, bg : BOOLEAN, filed : BOOLEAN, cursor : Nat, known : [Names -> Remotes],
                matched : SUBSET Names, cmap : Seq(Entries), nmap : Seq(Entries), todo : SUBSET Names,
                name : {name} \cup Names, digest : Int, saved : Nat]
    BY DEF Runs
  <2> HIDE DEF name, known
  <2> QED
    BY <2>1, <2>2, <2>3
<1> QED
  BY <1>2, <1>4

LEMMA MapEmpty ==
  ASSUME NEW S PROVE MapTrue(<<>>, S) /\ <<>> \in Seq(Entries) /\ \A n \in Names : ~ Has(<<>>, n)
BY DEF MapTrue, Has

(* Nothing changed but run.                                                *)
LEMMA StoreSame ==
  ASSUME StoreInv, UNCHANGED <<files, filed, journal, mapfile, edits, hist>>
  PROVE  StoreInv' /\ Safe' = Safe
<1>1. UNCHANGED <<local, link, cache, arriving, raced, removed, stale, lost>>
  BY DEF files, hist
<1>2. Safe' = Safe
  BY <1>1 DEF Safe
<1>3. Disk' /\ Books'
  BY <1>1, <1>2 DEF StoreInv, Disk, Books
<1>4. Flags'
  BY <1>1 DEF StoreInv, Flags
<1> QED
  BY <1>2, <1>3, <1>4 DEF StoreInv

(* merefs ends, or waits for ever.                                         *)
LEMMA ShutKeeps ==
  ASSUME StoreInv',
         \/ run' = Off /\ (stale' \/ Kept(mapfile)')
         \/ run' = [Off EXCEPT !.pc = "stuck"]
  PROVE  MerefsInv'
<1>1. /\ run' \in Runs /\ run'.pc \in {"off", "stuck"} /\ run'.cursor = 0 /\ run'.known = [n \in Names |-> None]
      /\ run'.cmap = <<>> /\ run'.nmap = <<>>
  <2>1. CASE run' = Off
    BY <2>1, OffFields
  <2>2. CASE run' = [Off EXCEPT !.pc = "stuck"]
    BY <2>2, OffFields DEF Runs, Pcs
  <2> QED
    BY <2>1, <2>2
<1>2. Lists'
  <2>1. KnownTrue(run.known, Safe)'
    BY <1>1 DEF KnownTrue
  <2>2. Len(journal') \in Nat
    BY DEF StoreInv, Books
  <2> QED
    BY <1>1, <2>1, <2>2, MapEmpty DEF Lists
<1>3. Control' /\ NewOnce'
  BY <1>1 DEF Control, NewOnce, Looking, Taking, Passing
<1>4. LookedAt' /\ Spare' /\ PassedBy'
  BY <1>1 DEF LookedAt, Spare, PassedBy, Looking, Taking, Passing
<1>5. MapsKept'
  <2>1. CASE run'.pc = "off"
    <3>1. run' # [Off EXCEPT !.pc = "stuck"]
      BY <2>1, OffFields DEF Runs
    <3>2. stale' \/ Kept(mapfile)'
      BY <3>1
    <3> QED
      BY <2>1, <3>2 DEF MapsKept, Passing, Looking, Saving
  <2>2. CASE run'.pc = "stuck"
    BY <2>2 DEF MapsKept, Passing, Looking, Saving
  <2> QED
    BY <1>1, <2>1, <2>2
<1> QED
  BY <1>2, <1>3, <1>4, <1>5 DEF MerefsInv, RunInv, World

LEMMA MerefsInit ==
  ASSUME Init PROVE MerefsInv
<1>1. Disk
  BY DEF Init, Disk
<1>2. Books
  BY DEF Init, Books, JournalTrue, FileTrue
<1>3. Flags
  BY DEF Init, Flags
<1>4. Lists
  BY OffFields, MapEmpty DEF Init, Lists, KnownTrue
<1>5. Control /\ NewOnce /\ LookedAt /\ Spare /\ PassedBy
  BY OffFields DEF Init, Control, NewOnce, LookedAt, Spare, PassedBy, Looking, Taking, Passing
<1>6. MapsKept
  <2>1. run.pc = "off" /\ Kept(mapfile)
    BY OffFields, MapEmpty DEF Init, Kept
  <2> QED
    BY <2>1 DEF MapsKept, Passing, Looking, Saving
<1> QED
  BY <1>1, <1>2, <1>3, <1>4, <1>5, <1>6 DEF MerefsInv, StoreInv, RunInv, World

(* merefs is where it was; what changed does not concern it.               *)
SameRun ==
  /\ run' \in Runs /\ run'.pc = run.pc /\ run'.cursor = run.cursor /\ run'.known = run.known
  /\ run'.matched = run.matched /\ run'.cmap = run.cmap /\ run'.nmap = run.nmap /\ run'.todo = run.todo
  /\ run'.name = run.name /\ run'.digest = run.digest /\ run'.saved = run.saved

LEMMA QuietKeeps ==
  ASSUME MerefsInv, StoreInv', SameRun, Safe \subseteq Safe', DOMAIN cache \subseteq DOMAIN cache',
         Len(journal) <= Len(journal'), mapfile' = mapfile, stale' = stale, raced \subseteq raced',
         \A x \in Names : There(x) => There(x)',
         \A x \in Names :
           \/ local'[x] = local[x]
           \/ local[x] # 0 /\ local'[x] # 0 /\ local'[x] \in Safe'
           \/ run.pc \in Passing => x \in Ahead \/ x \in raced'
  PROVE  MerefsInv'
<1>1. /\ run \in Runs /\ run' \in Runs /\ run'.pc = run.pc /\ run'.cursor = run.cursor /\ run'.known = run.known
      /\ run'.matched = run.matched /\ run'.cmap = run.cmap /\ run'.nmap = run.nmap /\ run'.todo = run.todo
      /\ run'.name = run.name /\ run'.digest = run.digest /\ run'.saved = run.saved
  BY DEF SameRun, MerefsInv, RunInv, Lists
<1>2. Lists'
  <2>1. run'.cursor <= Len(journal')
    <3>1. run.cursor \in Nat /\ run.cursor <= Len(journal) /\ Len(journal) \in Nat /\ Len(journal') \in Nat
      BY DEF MerefsInv, RunInv, Lists, Runs, StoreInv, Books
    <3> QED
      BY <1>1, <3>1
  <2>2. KnownTrue(run.known, Safe') /\ MapTrue(run.cmap, Safe') /\ MapTrue(run.nmap, Safe')
    BY Larger DEF MerefsInv, RunInv, Lists
  <2> QED
    BY <1>1, <2>1, <2>2 DEF Lists
<1>3. Control'
  BY <1>1 DEF MerefsInv, RunInv, Control
<1>4. NewOnce'
  BY <1>1 DEF MerefsInv, RunInv, NewOnce
<1>5. Ahead' = Ahead
  BY <1>1 DEF Ahead
<1>6. \A x \in Names : Harmless(x) /\ local'[x] = local[x] => Harmless(x)'
  BY DEF Harmless
<1>7. \A x \in Names : local'[x] \in Safe' => Harmless(x)'
  BY DEF Harmless
<1>8. run.pc \in Looking \cup Taking => run.name \in Names /\ run.name \notin Ahead /\ run.pc \in Passing
  BY DEF MerefsInv, RunInv, Control, Ahead, Passing, Looking, Taking
<1>9. LookedAt'
  <2> SUFFICES ASSUME run.pc \in Looking, run.name \notin raced'
               PROVE  local'[run.name] = run.digest \/ Harmless(run.name)'
    BY <1>1 DEF LookedAt
  <2>1. run.name \in Names /\ run.name \notin Ahead /\ run.pc \in Passing /\ run.name \notin raced
    BY <1>8
  <2>2. local[run.name] = run.digest \/ Harmless(run.name)
    BY <2>1 DEF MerefsInv, World, LookedAt
  <2> QED
    BY <1>1, <1>6, <1>7, <2>1, <2>2
<1>10. Spare'
  <2> SUFFICES ASSUME run.pc \in {"get", "unlink"}, run.name \notin raced' \cup Skipped
               PROVE  Harmless(run.name)'
    BY <1>1 DEF Spare
  <2>1. run.name \in Names /\ run.name \notin Ahead /\ run.pc \in Passing /\ run.name \notin raced
    BY <1>8 DEF Taking
  <2>2. Harmless(run.name)
    BY <2>1 DEF MerefsInv, World, Spare
  <2> QED
    BY <1>1, <1>6, <1>7, <2>1, <2>2
<1>11. PassedBy'
  <2> SUFFICES ASSUME run.pc \in Passing, NEW x \in Names \ (raced' \cup Skipped)
               PROVE  \/ x \in Ahead
                      \/ run.pc \in Looking \cup Taking /\ x = run.name
                      \/ local'[x] = 0 \/ run.known[x] = None \/ x \in run.matched
    BY <1>1, <1>5 DEF PassedBy
  <2>1. \/ x \in Ahead
        \/ run.pc \in Looking \cup Taking /\ x = run.name
        \/ local[x] = 0 \/ run.known[x] = None \/ x \in run.matched
    BY DEF MerefsInv, World, PassedBy
  <2> QED
    BY <2>1
<1>12. MapsKept'
  <2>1. \A map : Kept(map) => Kept(map)'
    BY DEF Kept, Has
  <2>2. run.pc \in Looking => run.name \in Names
    BY DEF MerefsInv, RunInv, Control
  <2>3. \A n \in Names : Has(run'.cmap, n) => Has(run.cmap, n)
    BY <1>1
  <2> QED
    BY <1>1, <2>1, <2>2, <2>3 DEF MerefsInv, World, MapsKept
<1> QED
  BY <1>2, <1>3, <1>4, <1>9, <1>10, <1>11, <1>12 DEF MerefsInv, RunInv, World

LEMMA StartKeeps ==
  ASSUME MerefsInv, NEW bg \in BOOLEAN, Start(bg) PROVE MerefsInv'
<1> DEFINE r == [Off EXCEPT !.pc = "pass", !.bg = bg, !.filed = TRUE, !.cmap = map_load]
<1>1. StoreInv' /\ Safe' = Safe
  BY StoreSame DEF Start, MerefsInv
<1>2. UNCHANGED <<local, journal, removed, stale>> /\ run.pc = "off" /\ ~ Torn /\ run' = read_mdir(r)
  BY DEF Start, files, hist
<1>3. /\ map_load \in Seq(Entries) /\ MapTrue(map_load, Safe)
      /\ \A x \in Names : Has(map_load, x) => Has(mapfile, x)
  BY <1>2, Loaded DEF MerefsInv, StoreInv, Books
<1>4. /\ r \in Runs /\ r.pc = "pass" /\ r.cursor = 0 /\ r.known = [n \in Names |-> None]
      /\ r.matched = {} /\ r.cmap = map_load /\ r.nmap = <<>> /\ r.todo = {} /\ r.digest = 0
  BY <1>3, OffFields DEF Runs, Pcs
<1> HIDE DEF r
<1>5. PICK k \in [Names -> Remotes] :
        KnownTrue(k, Safe) /\ read_mdir(r) = [r EXCEPT !.known = k, !.cursor = Len(journal)]
  <2>1. KnownTrue(r.known, Safe) /\ r.known \in [Names -> Remotes]
    BY <1>4 DEF KnownTrue, Runs
  <2>2. journal \in Seq(Patches) /\ JournalTrue(journal, Safe) /\ r.cursor \in Nat /\ r.cursor <= Len(journal)
    BY <1>4 DEF MerefsInv, StoreInv, Books
  <2> QED
    BY <2>1, <2>2, ReadKeeps
<1>6. /\ run' \in Runs /\ run'.pc = "pass" /\ run'.known = k /\ run'.cursor = Len(journal)
      /\ run'.matched = {} /\ run'.cmap = map_load /\ run'.nmap = <<>> /\ run'.digest = 0
  <2>1. Len(journal) \in Nat
    BY DEF MerefsInv, StoreInv, Books
  <2> QED
    BY <1>2, <1>4, <1>5, <2>1 DEF Runs
<1>7. Lists'
  <2>1. Len(journal) \in Nat
    BY DEF MerefsInv, StoreInv, Books
  <2> QED
    BY <1>1, <1>2, <1>3, <1>5, <1>6, <2>1, MapEmpty DEF Lists
<1>8. Control' /\ NewOnce'
  BY <1>6 DEF Control, NewOnce, Looking, Taking, Passing
<1>9. LookedAt' /\ Spare' /\ PassedBy'
  BY <1>6 DEF LookedAt, Spare, PassedBy, Looking, Taking, Passing
<1>10. MapsKept'
  <2>1. ~ stale => Kept(mapfile)
    BY <1>2 DEF MerefsInv, World, MapsKept
  <2>2. ~ stale' => Kept(run.cmap)'
    BY <1>2, <1>3, <1>6, <2>1 DEF Kept, There
  <2> QED
    BY <1>6, <2>2 DEF MapsKept, Passing, Looking, Saving
<1> QED
  BY <1>1, <1>7, <1>8, <1>9, <1>10 DEF MerefsInv, RunInv, World

LEMMA BeginKeeps ==
  ASSUME MerefsInv, BeginPass PROVE MerefsInv'
<1>1. StoreInv' /\ Safe' = Safe
  BY StoreSame DEF BeginPass, MerefsInv
<1>2. UNCHANGED <<local, journal, removed, stale, raced>> /\ run.pc = "pass"
  BY DEF BeginPass, files, hist
<1>3. /\ run \in Runs /\ run.digest = 0 /\ run.matched = {} /\ run.nmap = <<>> /\ MapTrue(run.cmap, Safe)
      /\ Len(journal) \in Nat /\ run.cmap \in Seq(Entries)
  BY <1>2 DEF MerefsInv, RunInv, Lists, Control, StoreInv, Books, Runs
<1>4. PICK k \in [Names -> Remotes] :
        KnownTrue(k, Safe) /\ read_mdir(run) = [run EXCEPT !.known = k, !.cursor = Len(journal)]
  <2>1. KnownTrue(run.known, Safe) /\ run.known \in [Names -> Remotes] /\ run.cursor \in Nat /\ run.cursor <= Len(journal)
    BY DEF MerefsInv, RunInv, Lists, Runs
  <2>2. journal \in Seq(Patches) /\ JournalTrue(journal, Safe)
    BY DEF MerefsInv, StoreInv, Books
  <2> QED
    BY <2>1, <2>2, ReadKeeps
<1> DEFINE todo == {n \in Names \ Skipped : local[n] # 0}
<1>5. run' = [[run EXCEPT !.known = k, !.cursor = Len(journal)] EXCEPT !.pc = "scan", !.todo = todo]
  BY <1>4 DEF BeginPass
<1>6. todo \in SUBSET Names /\ \A n \in Names \ Skipped : local[n] = 0 \/ n \in todo
  OBVIOUS
<1> HIDE DEF todo
<1>7. /\ run' \in Runs /\ run'.pc = "scan" /\ run'.known = k /\ run'.cursor = Len(journal) /\ run'.digest = 0
      /\ run'.matched = {} /\ run'.cmap = run.cmap /\ run'.nmap = <<>> /\ run'.todo = todo
  BY <1>3, <1>5, <1>6 DEF Runs, Pcs, Passing
<1>8. Lists'
  BY <1>1, <1>2, <1>3, <1>4, <1>7, MapEmpty DEF Lists
<1>9. Control' /\ NewOnce'
  BY <1>7, MapEmpty DEF Control, NewOnce, Looking, Taking, Passing
<1>10. LookedAt' /\ Spare'
  BY <1>7 DEF LookedAt, Spare, Looking
<1>11. PassedBy'
  BY <1>2, <1>6, <1>7 DEF PassedBy, Ahead
<1>12. MapsKept'
  <2>1. ~ stale' => Kept(run.cmap)'
    BY <1>2, <1>7 DEF MerefsInv, World, MapsKept, Kept, There
  <2>2. Kept(run.nmap)'
    BY <1>7, MapEmpty DEF Kept
  <2> QED
    BY <1>7, <2>1, <2>2 DEF MapsKept, Kept, Passing, Looking, Saving
<1> QED
  BY <1>1, <1>8, <1>9, <1>10, <1>11, <1>12 DEF MerefsInv, RunInv, World

LEMMA EndsKeep ==
  ASSUME StoreInv, Disk', Ends, UNCHANGED <<filed, journal, mapfile, removed, lost>>, edits' \in Nat,
         DOMAIN cache \subseteq DOMAIN cache'
  PROVE  MerefsInv'
<1>1. run' = Off /\ stale' = TRUE /\ raced' = {}
  BY DEF Ends
<1>2. Books'
  <2>1. Safe \subseteq Safe'
    BY DEF Safe
  <2> QED
    BY <2>1, Larger DEF StoreInv, Books
<1>3. Flags'
  BY <1>1 DEF StoreInv, Flags
<1> QED
  BY <1>1, <1>2, <1>3, ShutKeeps DEF StoreInv

LEMMA DigestKeeps ==
  ASSUME MerefsInv, NEW n \in Names, digest_file(n) PROVE MerefsInv'
<1>1. run.pc = "scan" /\ n \in run.todo /\ UNCHANGED <<local, link, cache, filed, journal, mapfile, edits, removed, lost>>
  BY DEF digest_file
<1>2. /\ run \in Runs /\ run.todo \subseteq Names /\ run.digest = 0 /\ KnownTrue(run.known, Safe) /\ run.cursor <= Len(journal)
      /\ MapTrue(run.cmap, Safe) /\ MapTrue(run.nmap, Safe) /\ local[n] \in Int
  BY <1>1 DEF MerefsInv, RunInv, Lists, Control, Runs, StoreInv, Disk
<1>3. \A x \in Names : Has(run.nmap, x) => x \notin run.todo /\ (x \in run.matched \/ run.known[x] = None)
  BY <1>1 DEF MerefsInv, RunInv, NewOnce, Passing
<1>4. \A x \in Names \ (raced \cup Skipped) :
        x \in run.todo \/ local[x] = 0 \/ run.known[x] = None \/ x \in run.matched
  BY <1>1 DEF MerefsInv, World, PassedBy, Ahead, Looking, Taking, Passing
<1>5. ~ stale => /\ Kept(run.nmap)
                 /\ \A x \in Names : Has(run.cmap, x) /\ run.known[x] # None /\ x \notin run.matched => There(x)
  BY <1>1 DEF MerefsInv, World, MapsKept, Passing
<1>6. CASE Ends
  <2>1. Disk' /\ edits' \in Nat
    BY <1>1, <1>6 DEF Ends, MerefsInv, StoreInv, Disk, Flags
  <2> QED
    BY <1>1, <1>6, <2>1, EndsKeep DEF MerefsInv
<1>7. ASSUME UNCHANGED <<arriving, raced, stale>> PROVE StoreInv' /\ Safe' = Safe /\ \A x \in Names : There(x)' = There(x)
  <2>1. UNCHANGED <<files, filed, journal, mapfile, edits, hist>>
    BY <1>1, <1>7 DEF files, hist
  <2>2. StoreInv' /\ Safe' = Safe
    BY <2>1, StoreSame DEF MerefsInv
  <2> QED
    BY <1>1, <2>2 DEF There
<1>8. CASE /\ local[n] # 0
           /\ run' = [run EXCEPT !.pc = "match", !.todo = @ \ {n}, !.name = n, !.digest = local[n]]
           /\ UNCHANGED <<arriving, raced, stale>>
  <2>1. /\ run' \in Runs /\ run'.pc = "match" /\ run'.todo = run.todo \ {n} /\ run'.name = n /\ run'.digest = local[n]
        /\ run'.known = run.known /\ run'.cursor = run.cursor /\ run'.matched = run.matched
        /\ run'.cmap = run.cmap /\ run'.nmap = run.nmap
    BY <1>2, <1>8 DEF Runs, Pcs, Passing
  <2>2. StoreInv' /\ Safe' = Safe /\ \A x \in Names : There(x)' = There(x)
    BY <1>7, <1>8
  <2>3. Lists'
    BY <1>1, <1>2, <2>1, <2>2 DEF Lists
  <2>4. Control' /\ NewOnce'
    BY <1>1, <1>3, <1>8, <2>1 DEF Control, NewOnce, Looking, Taking
  <2>5. LookedAt' /\ Spare'
    BY <1>1, <2>1 DEF LookedAt, Spare
  <2>6. PassedBy'
    BY <1>1, <1>4, <1>8, <2>1 DEF PassedBy, Ahead, Looking
  <2>7. MapsKept'
    <3>1. There(n)
      BY <1>8 DEF There
    <3> QED
      BY <1>5, <1>8, <2>1, <2>2, <3>1 DEF MapsKept, Kept, Looking
  <2> QED
    BY <2>2, <2>3, <2>4, <2>5, <2>6, <2>7 DEF MerefsInv, RunInv, World
<1>9. CASE local[n] = 0 /\ run' = [run EXCEPT !.todo = @ \ {n}] /\ UNCHANGED <<arriving, raced, stale>>
  <2>1. /\ run' \in Runs /\ run'.pc = "scan" /\ run'.todo = run.todo \ {n} /\ run'.name = run.name /\ run'.digest = 0
        /\ run'.known = run.known /\ run'.cursor = run.cursor /\ run'.matched = run.matched
        /\ run'.cmap = run.cmap /\ run'.nmap = run.nmap
    BY <1>1, <1>2, <1>9 DEF Runs
  <2>2. StoreInv' /\ Safe' = Safe /\ \A x \in Names : There(x)' = There(x)
    BY <1>7, <1>9
  <2>3. Lists'
    BY <1>1, <1>2, <2>1, <2>2 DEF Lists
  <2>4. Control' /\ NewOnce'
    BY <1>3, <2>1 DEF Control, NewOnce, Looking, Taking
  <2>5. LookedAt' /\ Spare'
    BY <2>1 DEF LookedAt, Spare, Looking
  <2>6. PassedBy'
    BY <1>1, <1>4, <1>9, <2>1 DEF PassedBy, Ahead, Looking
  <2>7. MapsKept'
    BY <1>5, <1>9, <2>1, <2>2 DEF MapsKept, Kept, Looking
  <2> QED
    BY <2>2, <2>3, <2>4, <2>5, <2>6, <2>7 DEF MerefsInv, RunInv, World
<1> QED
  BY <1>6, <1>8, <1>9 DEF digest_file

-----------------------------------------------------------------------------
(* match_local_file.                                                       *)

(* What holds while the file of which the digest was taken is treated.     *)
LEMMA LookingAt ==
  ASSUME MerefsInv, run.pc \in Looking
  PROVE  /\ run \in Runs /\ Cur \in Names /\ Mine \in Int /\ Theirs \in Int /\ Mine # 0
         /\ Theirs = 0 <=> run.known[Cur] = None
         /\ Theirs # 0 => Theirs \in Safe
         /\ run.pc \in Passing /\ Ahead = run.todo /\ Matched \subseteq Names /\ run.matched \subseteq Matched
         /\ \A x \in Matched : x \in run.matched \/ x = Cur
         /\ Theirs # 0 => Cur \in Matched
         /\ Mapped # 0 => Mapped \in Safe
<1>1. run \in Runs /\ run.name \in Names /\ run.digest # 0 /\ run.digest \in Int /\ run.known \in [Names -> Remotes]
      /\ run.cmap \in Seq(Entries) /\ MapTrue(run.cmap, Safe) /\ run.matched \subseteq Names
  BY DEF MerefsInv, RunInv, Lists, Control, Runs
<1>2. run.known[run.name] = None \/ (run.known[run.name].digest # 0 /\ run.known[run.name].digest \in Safe)
  BY <1>1 DEF MerefsInv, RunInv, Lists, KnownTrue
<1>3. None.digest = 0 /\ run.known[run.name] \in Remotes
  BY <1>1 DEF None
<1>4. Theirs \in Int /\ (Theirs = 0 <=> run.known[Cur] = None) /\ (Theirs # 0 => Theirs \in Safe)
  BY <1>2, <1>3 DEF Theirs, Cur, Remotes
<1>5. Mapped # 0 => Mapped \in Safe
  BY <1>1, DigestFound DEF Mapped, Cur
<1>6. run.pc \in Passing /\ Ahead = run.todo
  BY DEF Looking, Passing, Ahead
<1>7. /\ Matched \subseteq Names /\ run.matched \subseteq Matched
      /\ Theirs # 0 => Cur \in Matched
      /\ \A x \in Matched : x \in run.matched \/ x = Cur
  BY <1>1 DEF Matched, Cur
<1> QED
  BY <1>1, <1>4, <1>5, <1>6, <1>7 DEF Cur, Mine

(* The fields of run when a file is done with.                             *)
LEMMA DoneFields ==
  ASSUME NEW r \in Runs, Matched \subseteq Names
  PROVE  /\ Done(r) \in Runs /\ Done(r).pc = IF Mine = 0 THEN "create" ELSE "scan"
         /\ Done(r).todo = r.todo /\ Done(r).digest = 0 /\ Done(r).known = r.known /\ Done(r).cursor = r.cursor
         /\ Done(r).matched = Matched /\ Done(r).cmap = r.cmap /\ Done(r).nmap = r.nmap
<1> DEFINE m == Matched
           o == Off.name
           pc == IF Mine = 0 THEN "create" ELSE "scan"
<1>1. Done(r) = [r EXCEPT !.pc = pc, !.name = o, !.digest = 0, !.matched = m]
  BY DEF Done
<1>2. m \in SUBSET Names /\ m = Matched /\ pc = IF Mine = 0 THEN "create" ELSE "scan"
  OBVIOUS
<1>3. pc \in Pcs
  BY DEF Pcs, Passing
<1>4. o \in {Off.name} \cup Names
  OBVIOUS
<1> HIDE DEF m, o, pc
<1>5. [r EXCEPT !.pc = pc, !.name = o, !.digest = 0, !.matched = m] \in Runs
  <2> DEFINE zero == 0
  <2>1. zero \in Int
    OBVIOUS
  <2>2. [r EXCEPT !.pc = pc, !.name = o, !.digest = 0, !.matched = m] =
        [r EXCEPT !.pc = pc, !.name = o, !.digest = zero, !.matched = m]
    OBVIOUS
  <2> HIDE DEF zero
  <2>3. [r EXCEPT !.pc = pc, !.name = o, !.digest = zero, !.matched = m] \in Runs
    BY <1>2, <1>3, <1>4, <2>1 DEF Runs
  <2> QED
    BY <2>2, <2>3
<1>6. /\ Done(r).pc = pc /\ Done(r).todo = r.todo /\ Done(r).digest = 0 /\ Done(r).known = r.known
      /\ Done(r).cursor = r.cursor /\ Done(r).matched = m /\ Done(r).cmap = r.cmap /\ Done(r).nmap = r.nmap
  BY <1>1 DEF Runs
<1> QED
  BY <1>1, <1>2, <1>5, <1>6

(* The file is in the new map with its digest; the next one is looked at.  *)
LEMMA TreatedKeeps ==
  ASSUME MerefsInv, run.pc \in Looking, StoreInv', Safe \subseteq Safe', Mine \in Safe',
         run' = Done([run EXCEPT !.nmap = map_set(@, Cur, Mine)]),
         UNCHANGED <<local, raced, removed, stale>>, Len(journal) <= Len(journal')
  PROVE  MerefsInv'
<1>1. /\ run \in Runs /\ Cur \in Names /\ Mine \in Int /\ Mine # 0 /\ (Theirs = 0 <=> run.known[Cur] = None)
      /\ run.pc \in Passing /\ Ahead = run.todo /\ Matched \subseteq Names /\ run.matched \subseteq Matched
      /\ (Theirs # 0 => Cur \in Matched)
  BY LookingAt
<1>2. run.nmap \in Seq(Entries) /\ MapTrue(run.nmap, Safe')
  BY Larger DEF MerefsInv, RunInv, Lists, Runs
<1> DEFINE nmap == map_set(run.nmap, Cur, Mine)
<1>3. /\ nmap \in Seq(Entries) /\ MapTrue(nmap, Safe')
      /\ \A x \in Names : Has(nmap, x) => Has(run.nmap, x) \/ x = Cur
  BY <1>1, <1>2, MapSet
<1>4. run' = Done([run EXCEPT !.nmap = nmap])
  OBVIOUS
<1> HIDE DEF nmap
<1>5. /\ run' \in Runs /\ run'.pc = "scan" /\ run'.todo = run.todo /\ run'.digest = 0
      /\ run'.known = run.known /\ run'.cursor = run.cursor /\ run'.matched = Matched
      /\ run'.cmap = run.cmap /\ run'.nmap = nmap
  <2>1. /\ [run EXCEPT !.nmap = nmap] \in Runs
        /\ [run EXCEPT !.nmap = nmap].todo = run.todo /\ [run EXCEPT !.nmap = nmap].known = run.known
        /\ [run EXCEPT !.nmap = nmap].cursor = run.cursor /\ [run EXCEPT !.nmap = nmap].cmap = run.cmap
        /\ [run EXCEPT !.nmap = nmap].nmap = nmap
    BY <1>1, <1>3 DEF Runs
  <2> QED
    BY <1>1, <1>4, <2>1, DoneFields
<1>6. Lists'
  <2>1. run'.cursor <= Len(journal')
    <3>1. run.cursor \in Nat /\ run.cursor <= Len(journal) /\ Len(journal) \in Nat /\ Len(journal') \in Nat
      BY DEF MerefsInv, RunInv, Lists, Runs, StoreInv, Books
    <3> QED
      BY <1>5, <3>1
  <2>2. KnownTrue(run.known, Safe') /\ MapTrue(run.cmap, Safe')
    BY Larger DEF MerefsInv, RunInv, Lists
  <2> QED
    BY <1>3, <1>5, <2>1, <2>2 DEF Lists
<1>7. Cur = run.name
  BY DEF Cur
<1>8. Control'
  BY <1>5 DEF Control, Looking, Taking
<1>9. NewOnce'
  <2>1. \A x \in Names : Has(run.nmap, x) => x \notin run.todo /\ (x \in run.matched \/ run.known[x] = None)
    BY <1>1 DEF MerefsInv, RunInv, NewOnce
  <2>2. Cur \notin run.todo /\ (Cur \in Matched \/ run.known[Cur] = None)
    BY <1>1, <1>7 DEF MerefsInv, RunInv, Control
  <2> QED
    BY <1>1, <1>3, <1>5, <2>1, <2>2 DEF NewOnce, Looking, Taking
<1>10. LookedAt' /\ Spare'
  BY <1>5 DEF LookedAt, Spare, Looking
<1>11. PassedBy'
  <2>1. \A x \in Names \ (raced \cup Skipped) :
          x \in run.todo \/ x = Cur \/ local[x] = 0 \/ run.known[x] = None \/ x \in run.matched
    BY <1>1, <1>7 DEF MerefsInv, World, PassedBy
  <2> QED
    BY <1>1, <1>5, <2>1 DEF PassedBy, Ahead
<1>12. MapsKept'
  <2>1. \A x \in Names : There(x)' = There(x)
    BY DEF There
  <2>2. ~ stale => /\ Kept(run.nmap) /\ There(Cur)
                   /\ \A x \in Names : Has(run.cmap, x) /\ run.known[x] # None /\ x \notin run.matched => There(x)
    BY <1>1, <1>7 DEF MerefsInv, World, MapsKept
  <2> QED
    BY <1>1, <1>3, <1>5, <2>1, <2>2 DEF MapsKept, Kept, Looking, Saving
<1> QED
  BY <1>6, <1>8, <1>9, <1>10, <1>11, <1>12 DEF MerefsInv, RunInv, World

(* The file goes on to the next part of local_is_master.                   *)
LEMMA MasterKeeps ==
  ASSUME MerefsInv, run.pc \in Looking, StoreInv', Safe \subseteq Safe', Mine \in Safe',
         NEW pc \in {"upload", "replace"}, run' = [run EXCEPT !.pc = pc],
         UNCHANGED <<local, raced, removed, stale>>, Len(journal) <= Len(journal')
  PROVE  MerefsInv'
<1>1. run \in Runs /\ Cur \in Names /\ Mine # 0 /\ run.pc \in Passing /\ Ahead = run.todo
  BY LookingAt
<1>2. /\ run' \in Runs /\ run'.pc = pc /\ run'.todo = run.todo /\ run'.digest = run.digest /\ run'.name = run.name
      /\ run'.known = run.known /\ run'.cursor = run.cursor /\ run'.matched = run.matched
      /\ run'.cmap = run.cmap /\ run'.nmap = run.nmap
  BY <1>1 DEF Runs, Pcs, Passing
<1>3. Lists'
  <2>1. run'.cursor <= Len(journal')
    <3>1. run.cursor \in Nat /\ run.cursor <= Len(journal) /\ Len(journal) \in Nat /\ Len(journal') \in Nat
      BY DEF MerefsInv, RunInv, Lists, Runs, StoreInv, Books
    <3> QED
      BY <1>2, <3>1
  <2>2. KnownTrue(run.known, Safe') /\ MapTrue(run.cmap, Safe') /\ MapTrue(run.nmap, Safe')
    BY Larger DEF MerefsInv, RunInv, Lists
  <2> QED
    BY <1>2, <2>1, <2>2 DEF Lists
<1>4. Control'
  BY <1>1, <1>2 DEF MerefsInv, RunInv, Control, Looking, Taking, Cur, Mine
<1>5. NewOnce'
  BY <1>1, <1>2 DEF MerefsInv, RunInv, NewOnce, Looking, Passing
<1>6. LookedAt'
  <2>1. Harmless(run.name) => Harmless(run.name)'
    BY <1>2 DEF Harmless
  <2> QED
    BY <1>2, <2>1 DEF MerefsInv, World, LookedAt
<1>7. Spare'
  BY <1>2 DEF Spare
<1>8. PassedBy'
  BY <1>1, <1>2 DEF MerefsInv, World, PassedBy, Ahead, Looking
<1>9. MapsKept'
  <2>1. \A x \in Names : There(x)' = There(x)
    BY DEF There
  <2> QED
    BY <1>1, <1>2, <2>1 DEF MerefsInv, World, MapsKept, Kept, Cur, Looking, Saving
<1> QED
  BY <1>3, <1>4, <1>5, <1>6, <1>7, <1>8, <1>9 DEF MerefsInv, RunInv, World

LEMMA KeepMapKeeps ==
  ASSUME MerefsInv, keep_map PROVE MerefsInv'
<1>1. run.pc \in Looking /\ Theirs = Mine
  BY DEF keep_map, Looking
<1>2. Mine \in Safe
  BY <1>1, LookingAt
<1>3. StoreInv' /\ Safe' = Safe
  BY StoreSame DEF keep_map, MerefsInv
<1>4. UNCHANGED <<local, raced, removed, stale, journal>>
  BY DEF keep_map, files, hist
<1>5. Len(journal) <= Len(journal')
  BY <1>4 DEF MerefsInv, StoreInv, Books
<1> QED
  BY <1>1, <1>2, <1>3, <1>4, <1>5, TreatedKeeps DEF keep_map

(* The remote file is taken, the local one stays or was renamed.           *)
LEMMA TakeKeeps ==
  ASSUME MerefsInv, run.pc = "match", StoreInv', Safe' = Safe, Theirs # 0,
         run' = [run EXCEPT !.pc = "get", !.matched = Matched],
         UNCHANGED <<raced, removed, stale, journal>>,
         \/ Renamed(Cur)
         \/ local' = local /\ Mapped = Mine
  PROVE  MerefsInv'
<1>0. run.pc \in Looking
  BY DEF Looking
<1>1. /\ run \in Runs /\ Cur \in Names /\ Mine \in Int /\ Mine # 0 /\ run.known[Cur] # None
      /\ run.pc \in Passing /\ Ahead = run.todo /\ Matched \subseteq Names /\ run.matched \subseteq Matched
      /\ Cur \in Matched /\ (Mapped # 0 => Mapped \in Safe) /\ \A x \in Matched : x \in run.matched \/ x = Cur
  BY <1>0, LookingAt
<1>2. /\ run' \in Runs /\ run'.pc = "get" /\ run'.todo = run.todo /\ run'.digest = run.digest /\ run'.name = run.name
      /\ run'.known = run.known /\ run'.cursor = run.cursor /\ run'.matched = Matched
      /\ run'.cmap = run.cmap /\ run'.nmap = run.nmap
  <2> DEFINE m == Matched
  <2>1. run' = [run EXCEPT !.pc = "get", !.matched = m] /\ m \subseteq Names
    BY <1>1
  <2>2. run'.matched = m /\ m = Matched
    BY <1>1, <2>1 DEF Runs
  <2> HIDE DEF m
  <2> QED
    BY <1>1, <2>1, <2>2 DEF Runs, Pcs, Passing
<1>3. Lists'
  BY <1>2 DEF MerefsInv, RunInv, Lists
<1>4. Control'
  BY <1>1, <1>2 DEF MerefsInv, RunInv, Control, Looking, Taking, Cur, Mine
<1>5. NewOnce'
  <2>1. \A x \in Names : Has(run.nmap, x) => x \notin run.todo /\ x # run.name /\ (x \in run.matched \/ run.known[x] = None)
    BY <1>0, <1>1 DEF MerefsInv, RunInv, NewOnce
  <2> QED
    BY <1>1, <1>2, <2>1 DEF NewOnce
<1>6. LookedAt'
  BY <1>2 DEF LookedAt, Looking
<1>7. Cur = run.name /\ Mine = run.digest
  BY DEF Cur, Mine
<1>8. \A x \in Names : x # Cur => local'[x] = local[x]
  BY DEF Renamed, MerefsInv, StoreInv, Disk
<1>9. Spare'
  <2> SUFFICES ASSUME Cur \notin raced PROVE Harmless(Cur)'
    BY <1>2, <1>7 DEF Spare, Cur
  <2>1. Cur' = Cur
    BY <1>2 DEF Cur
  <2>2. CASE Renamed(Cur)
    BY <1>1, <2>1, <2>2 DEF Renamed, Harmless, MerefsInv, StoreInv, Disk
  <2>3. CASE local' = local /\ Mapped = Mine
    <3>1. local[Cur] = Mine \/ Harmless(Cur)
      BY <1>0, <1>7 DEF MerefsInv, World, LookedAt
    <3>2. Mine \in Safe
      BY <1>1, <2>3
    <3> QED
      BY <2>1, <2>3, <3>1, <3>2 DEF Harmless
  <2> QED
    BY <2>2, <2>3
<1>10. PassedBy'
  <2>1. \A x \in Names \ (raced \cup Skipped) :
          x \in run.todo \/ x = Cur \/ local[x] = 0 \/ run.known[x] = None \/ x \in run.matched
    BY <1>1, <1>7 DEF MerefsInv, World, PassedBy
  <2>2. Ahead' = run.todo
    BY <1>1, <1>2, <1>7 DEF Ahead
  <2> QED
    BY <1>1, <1>2, <1>7, <1>8, <2>1, <2>2 DEF PassedBy, Taking
<1>11. MapsKept'
  <2>1. \A x \in Names : x # Cur /\ There(x) => There(x)'
    BY <1>8 DEF There
  <2>2. ~ stale => /\ Kept(run.nmap)
                   /\ \A x \in Names : Has(run.cmap, x) /\ run.known[x] # None /\ x \notin run.matched => There(x)
    BY <1>1 DEF MerefsInv, World, MapsKept
  <2>3. ~ Has(run.nmap, Cur)
    BY <1>0, <1>1, <1>7 DEF MerefsInv, RunInv, NewOnce
  <2> QED
    BY <1>1, <1>2, <2>1, <2>2, <2>3 DEF MapsKept, Kept, Looking, Saving
<1> QED
  BY <1>3, <1>4, <1>5, <1>6, <1>9, <1>10, <1>11 DEF MerefsInv, RunInv, World

(* Removing or renaming a file leaves what is on the disk in order.        *)
LEMMA RenamedDisk ==
  ASSUME Disk, NEW n \in Names, Renamed(n), cache' = cache, arriving' = arriving \/ arriving' = {} PROVE Disk'
<1>1. local' = [local EXCEPT ![n] = 0] /\ link' = [link EXCEPT ![n] = 0]
  BY DEF Renamed
<1>2. local' \in [Names -> Int] /\ link' \in [Names -> Int]
  BY <1>1 DEF Disk
<1>3. \A x \in Names : link'[x] # 0 => local'[x] # 0 /\ link'[x] \in DOMAIN cache
  BY <1>1 DEF Disk
<1> QED
  BY <1>2, <1>3 DEF Disk

LEMMA RemoteKeeps ==
  ASSUME MerefsInv, RemoteChanged \/ conflict PROVE MerefsInv'
<1>1. CASE RemoteChanged
  <2>1. StoreInv' /\ Safe' = Safe
    BY <1>1, StoreSame DEF RemoteChanged, MerefsInv
  <2>2. UNCHANGED <<local, raced, removed, stale, journal>>
    BY <1>1 DEF RemoteChanged, files, hist
  <2> QED
    BY <1>1, <2>1, <2>2, TakeKeeps DEF RemoteChanged
<1>2. CASE conflict
  <2>1. /\ run.pc = "match" /\ Renamed(Cur) /\ Theirs # 0
        /\ UNCHANGED <<cache, arriving, filed, journal, mapfile, edits, raced, removed, stale, lost>>
    BY <1>2 DEF conflict, Conflicting
  <2>2. Cur \in Names
    BY <2>1, LookingAt DEF Looking
  <2>3. Safe' = Safe
    BY <2>1 DEF Safe
  <2>4. StoreInv'
    <3>1. Disk'
      BY <2>1, <2>2, RenamedDisk DEF MerefsInv, StoreInv
    <3>2. Books'
      BY <2>1, <2>3 DEF MerefsInv, StoreInv, Books
    <3>3. Flags'
      BY <2>1 DEF MerefsInv, StoreInv, Flags
    <3> QED
      BY <3>1, <3>2, <3>3 DEF StoreInv
  <2> QED
    BY <1>2, <2>1, <2>3, <2>4, TakeKeeps DEF conflict
<1> QED
  BY <1>1, <1>2

LEMMA RemoveLocalKeeps ==
  ASSUME MerefsInv, remove_local_file PROVE MerefsInv'
<1>1. /\ run.pc = "match" /\ run.pc \in Looking /\ Theirs = 0 /\ Mapped # 0 /\ Mapped = Mine
      /\ run' = Done(run) /\ Renamed(Cur) /\ lost' = lost \cup Destroys(Cur)
      /\ UNCHANGED <<cache, arriving, filed, journal, mapfile, edits, raced, removed, stale>>
  BY DEF remove_local_file, DeletedThere, Unlinked, Renamed, Looking
<1>2. /\ run \in Runs /\ Cur \in Names /\ Mine \in Int /\ Mine # 0 /\ run.known[Cur] = None /\ Mine \in Safe
      /\ run.pc \in Passing /\ Ahead = run.todo /\ Matched \subseteq Names /\ run.matched \subseteq Matched
  BY <1>1, LookingAt
<1>3. Cur = run.name /\ Mine = run.digest /\ Matched = run.matched
  BY <1>1 DEF Cur, Mine, Matched
<1>4. Safe' = Safe
  BY <1>1 DEF Safe
<1>5. Destroys(Cur) = {}
  <2>1. Cur \notin raced => local[Cur] = Mine \/ Harmless(Cur)
    BY <1>1, <1>3 DEF MerefsInv, World, LookedAt
  <2>2. local[Cur] \in Int
    BY <1>2 DEF MerefsInv, StoreInv, Disk
  <2> QED
    BY <1>2, <2>1, <2>2 DEF Destroys, Harmless, Safe
<1>6. StoreInv'
  <2>1. Disk'
    BY <1>1, <1>2, RenamedDisk DEF MerefsInv, StoreInv
  <2>2. Books'
    BY <1>1, <1>4 DEF MerefsInv, StoreInv, Books
  <2>3. Flags'
    BY <1>1, <1>5 DEF MerefsInv, StoreInv, Flags
  <2> QED
    BY <2>1, <2>2, <2>3 DEF StoreInv
<1>7. /\ run' \in Runs /\ run'.pc = "scan" /\ run'.todo = run.todo /\ run'.digest = 0
      /\ run'.known = run.known /\ run'.cursor = run.cursor /\ run'.matched = run.matched
      /\ run'.cmap = run.cmap /\ run'.nmap = run.nmap
  BY <1>1, <1>2, <1>3, DoneFields
<1>8. Lists'
  BY <1>1, <1>4, <1>7 DEF MerefsInv, RunInv, Lists
<1>9. Control'
  BY <1>7 DEF Control, Looking, Taking
<1>10. \A x \in Names : Has(run.nmap, x) => x \notin run.todo /\ x # Cur /\ (x \in run.matched \/ run.known[x] = None)
  BY <1>1, <1>2, <1>3 DEF MerefsInv, RunInv, NewOnce
<1>11. NewOnce'
  BY <1>7, <1>10 DEF NewOnce, Looking, Taking
<1>12. LookedAt' /\ Spare'
  BY <1>7 DEF LookedAt, Spare, Looking
<1>13. (\A x \in Names : x # Cur => local'[x] = local[x]) /\ local'[Cur] = 0
  BY <1>1, <1>2 DEF Renamed, MerefsInv, StoreInv, Disk
<1>14. PassedBy'
  <2>1. \A x \in Names \ (raced \cup Skipped) :
          x \in run.todo \/ x = Cur \/ local[x] = 0 \/ run.known[x] = None \/ x \in run.matched
    BY <1>2, <1>3 DEF MerefsInv, World, PassedBy
  <2> QED
    BY <1>1, <1>7, <1>13, <2>1 DEF PassedBy, Ahead
<1>15. MapsKept'
  <2>1. \A x \in Names : x # Cur /\ There(x) => There(x)'
    BY <1>1, <1>13 DEF There
  <2>2. ~ stale => /\ Kept(run.nmap)
                   /\ \A x \in Names : Has(run.cmap, x) /\ run.known[x] # None /\ x \notin run.matched => There(x)
    BY <1>2 DEF MerefsInv, World, MapsKept
  <2> QED
    BY <1>1, <1>2, <1>7, <1>10, <2>1, <2>2 DEF MapsKept, Kept, Looking, Saving
<1> QED
  BY <1>6, <1>8, <1>9, <1>11, <1>12, <1>14, <1>15 DEF MerefsInv, RunInv, World

LEMMA GoneKeeps ==
  ASSUME MerefsInv, ConflictGone \/ Vanished PROVE MerefsInv'
<1>1. run.pc \in Looking /\ Ends /\ UNCHANGED <<cache, filed, journal, mapfile, edits, removed, lost>> /\ arriving' = {}
  BY DEF ConflictGone, Vanished, Looking, Ends
<1>2. Cur \in Names
  BY <1>1, LookingAt
<1>3. Renamed(Cur) \/ UNCHANGED <<local, link>>
  BY DEF ConflictGone, Vanished
<1>4. Disk'
  <2>1. CASE Renamed(Cur)
    BY <1>1, <1>2, <2>1, RenamedDisk DEF MerefsInv, StoreInv
  <2>2. CASE UNCHANGED <<local, link>>
    BY <1>1, <2>2 DEF MerefsInv, StoreInv, Disk
  <2> QED
    BY <1>3, <2>1, <2>2
<1>5. edits' \in Nat
  BY <1>1 DEF MerefsInv, StoreInv, Flags
<1> QED
  BY <1>1, <1>4, <1>5, EndsKeep DEF MerefsInv

(* local_is_master advertises a content that is safe.                      *)
LEMMA AdvertisedKeeps ==
  ASSUME MerefsInv, run.pc \in Looking, filed \subseteq filed', filed' \subseteq filed \cup {Mine}, Mine \in Safe,
         journal' = Append(journal, Add(Cur, Mine)),
         run' = IF Theirs = 0 THEN Done([run EXCEPT !.nmap = map_set(@, Cur, Mine)]) ELSE [run EXCEPT !.pc = "replace"],
         UNCHANGED <<files, mapfile, edits, hist>>
  PROVE  MerefsInv'
<1>1. Cur \in Names /\ Mine \in Int /\ Mine # 0
  BY LookingAt
<1>2. UNCHANGED <<local, link, cache, arriving, raced, removed, stale, lost>>
  BY DEF files, hist
<1>3. Safe \subseteq Safe' /\ Mine \in Safe'
  BY <1>2 DEF Safe
<1>4. journal' \in Seq(Patches) /\ JournalTrue(journal', Safe') /\ Len(journal) <= Len(journal')
  <2>1. journal \in Seq(Patches) /\ JournalTrue(journal, Safe')
    BY <1>3, Larger DEF MerefsInv, StoreInv, Books
  <2>2. Fits(Add(Cur, Mine), Safe')
    BY <1>1, <1>3, AddFits
  <2> QED
    BY <2>1, <2>2, JournalAppend
<1>5. StoreInv'
  <2>1. Disk'
    BY <1>2 DEF MerefsInv, StoreInv, Disk
  <2>2. Books'
    <3>1. FileTrue(mapfile, Safe')
      BY <1>3, Larger DEF MerefsInv, StoreInv, Books
    <3> QED
      BY <1>4, <3>1 DEF MerefsInv, StoreInv, Books
  <2>3. Flags'
    BY <1>1, <1>2 DEF MerefsInv, StoreInv, Flags
  <2> QED
    BY <2>1, <2>2, <2>3 DEF StoreInv
<1>6. CASE Theirs = 0
  <2>1. run' = Done([run EXCEPT !.nmap = map_set(@, Cur, Mine)])
    BY <1>6
  <2> QED
    BY <1>2, <1>3, <1>4, <1>5, <2>1, TreatedKeeps
<1>7. CASE Theirs # 0
  <2>1. run' = [run EXCEPT !.pc = "replace"]
    BY <1>7
  <2> QED
    BY <1>2, <1>3, <1>4, <1>5, <2>1, MasterKeeps
<1> QED
  BY <1>6, <1>7

LEMMA ReuseKeeps ==
  ASSUME MerefsInv, Reuse PROVE MerefsInv'
<1>1. run.pc \in Looking /\ \E v \in 1 .. run.cursor : journal[v].digest = Mine
  BY DEF Reuse, Looking
<1>2. PICK v \in 1 .. run.cursor : journal[v].digest = Mine
  BY <1>1
<1>3. v \in 1 .. Len(journal)
  <2>1. run.cursor \in Nat /\ run.cursor <= Len(journal) /\ Len(journal) \in Nat
    BY DEF MerefsInv, RunInv, Lists, Runs, StoreInv, Books
  <2> QED
    BY <2>1
<1>4. Mine # 0
  BY <1>1, LookingAt
<1>5. Mine \in Safe
  BY <1>2, <1>3, <1>4 DEF MerefsInv, StoreInv, Books, JournalTrue
<1> QED
  BY <1>1, <1>5, AdvertisedKeeps DEF Reuse

LEMMA MasterUploadKeeps ==
  ASSUME MerefsInv, local_is_master PROVE MerefsInv'
<1>1. run.pc \in Looking /\ run.pc = "upload" /\ filed \subseteq filed' /\ filed' \subseteq filed \cup {Mine}
  BY DEF local_is_master, Looking
<1>2. Mine \in Safe
  BY <1>1 DEF MerefsInv, RunInv, Control, Mine
<1> QED
  BY <1>1, <1>2, AdvertisedKeeps DEF local_is_master

LEMMA ReplaceKeeps ==
  ASSUME MerefsInv, ReplaceVersion PROVE MerefsInv'
<1>1. /\ run.pc \in Looking /\ run.pc = "replace" /\ journal' = Append(journal, Rem(run.known[Cur].version))
      /\ UNCHANGED <<local, link, cache, arriving, filed, mapfile, edits, raced, removed, stale, lost>>
  BY DEF ReplaceVersion, Looking, files, hist
<1>2. run \in Runs /\ Cur \in Names
  BY <1>1, LookingAt
<1>3. run.known[Cur].version \in Nat
  BY <1>2 DEF Runs, Remotes
<1>4. Safe' = Safe /\ Mine \in Safe
  BY <1>1 DEF Safe, MerefsInv, RunInv, Control, Mine
<1>5. journal' \in Seq(Patches) /\ JournalTrue(journal', Safe) /\ Len(journal) <= Len(journal')
  BY <1>1, <1>3, RemFits, JournalAppend DEF MerefsInv, StoreInv, Books
<1>6. StoreInv'
  <2>1. Disk'
    BY <1>1 DEF MerefsInv, StoreInv, Disk
  <2>2. Books'
    BY <1>1, <1>4, <1>5 DEF MerefsInv, StoreInv, Books
  <2>3. Flags'
    BY <1>1 DEF MerefsInv, StoreInv, Flags
  <2> QED
    BY <2>1, <2>2, <2>3 DEF StoreInv
<1> QED
  BY <1>1, <1>4, <1>5, <1>6, TreatedKeeps DEF ReplaceVersion

(* A cache file is made or overwritten.                                    *)
LEMMA PutDisk ==
  ASSUME Disk, NEW d \in Int, d # 0, NEW c \in Int, c # 0, cache' = Put(cache, d, c), UNCHANGED <<local, link>>,
         arriving' \subseteq arriving \cup {d}
  PROVE  Disk' /\ DOMAIN cache' = DOMAIN cache \cup {d}
<1>1. DOMAIN cache' = DOMAIN cache \cup {d} /\ \A x \in DOMAIN cache' : cache'[x] = IF x = d THEN c ELSE cache[x]
  BY DEF Put
<1> QED
  BY <1>1 DEF Disk

LEMMA SendKeeps ==
  ASSUME MerefsInv, chn_send_file_request PROVE MerefsInv'
<1>1. /\ run.pc \in Looking /\ local[Cur] # 0 /\ cache' = Put(cache, Mine, local[Cur])
      /\ UNCHANGED <<local, link, filed, journal, mapfile, edits, removed, lost>>
  BY DEF chn_send_file_request, Looking
<1>2. Cur \in Names /\ Mine \in Int /\ Mine # 0
  BY <1>1, LookingAt
<1>3. local[Cur] \in Int /\ Disk /\ StoreInv /\ edits' \in Nat
  BY <1>1, <1>2 DEF MerefsInv, StoreInv, Disk, Flags
<1>4. arriving' \subseteq arriving \cup {Mine}
  BY DEF chn_send_file_request, Unanswered, Ends
<1>5. Disk' /\ DOMAIN cache' = DOMAIN cache \cup {Mine}
  BY <1>1, <1>2, <1>3, <1>4, PutDisk
<1>6. Safe \subseteq Safe' /\ Mine \in Safe'
  BY <1>1, <1>5 DEF Safe
<1>7. Books'
  BY <1>1, <1>6, Larger DEF MerefsInv, StoreInv, Books
<1>8. CASE Ends
  BY <1>1, <1>3, <1>5, <1>8, EndsKeep
<1>9. CASE ~ Ends
  <2>1. /\ UNCHANGED <<arriving, stale, raced>>
        /\ run' = [run EXCEPT !.pc = "upload"] \/ run' = [Off EXCEPT !.pc = "stuck"]
    BY <1>9 DEF chn_send_file_request, Unanswered
  <2>2. Flags'
    BY <1>1, <2>1 DEF MerefsInv, StoreInv, Flags
  <2>3. StoreInv'
    BY <1>5, <1>7, <2>2 DEF StoreInv
  <2>4. CASE run' = [run EXCEPT !.pc = "upload"]
    <3>1. Len(journal) <= Len(journal')
      BY <1>1 DEF MerefsInv, StoreInv, Books
    <3>2. UNCHANGED <<local, raced, removed, stale>>
      BY <1>1, <2>1
    <3> QED
      BY <1>1, <1>6, <2>3, <2>4, <3>1, <3>2, MasterKeeps
  <2>5. CASE run' = [Off EXCEPT !.pc = "stuck"]
    BY <2>3, <2>5, ShutKeeps
  <2> QED
    BY <2>1, <2>4, <2>5
<1> QED
  BY <1>8, <1>9

-----------------------------------------------------------------------------
(* remote_is_master.                                                       *)

(* What holds while a file of the mdir is being taken.                     *)
LEMMA TakingIt ==
  ASSUME MerefsInv, run.pc \in Taking
  PROVE  /\ run \in Runs /\ Cur \in Names /\ Cur = run.name /\ Mine = run.digest /\ Mine \in Int /\ Theirs \in Int
         /\ Theirs # 0 /\ Theirs \in Safe /\ run.known[Cur] # None
         /\ Cur \in run.matched \/ ~ Has(run.cmap, Cur)
         /\ run.pc \in Passing /\ ~ (run.pc \in Looking) /\ run.pc \notin Saving
         /\ Ahead = (IF run.digest # 0 THEN run.todo ELSE {}) /\ Cur \notin run.todo
         /\ \A x \in Names : Has(run.nmap, x) => x \notin run.todo /\ x # Cur /\ (x \in run.matched \/ run.known[x] = None)
<1>1. /\ run \in Runs /\ run.name \in Names /\ run.name \notin run.todo /\ run.digest \in Int
      /\ run.known \in [Names -> Remotes] /\ run.known[run.name] # None
      /\ (run.name \in run.matched \/ ~ Has(run.cmap, run.name))
  BY DEF MerefsInv, RunInv, Lists, Control, Runs
<1>2. run.known[run.name].digest # 0 /\ run.known[run.name].digest \in Safe
  BY <1>1 DEF MerefsInv, RunInv, Lists, KnownTrue
<1>3. run.known[run.name].digest \in Int
  BY <1>1 DEF Remotes
<1>4. run.pc \in Passing /\ ~ (run.pc \in Looking) /\ run.pc \notin Saving /\ Ahead = IF run.digest # 0 THEN run.todo ELSE {}
  BY DEF Taking, Passing, Looking, Saving, Ahead
<1>5. \A x \in Names : Has(run.nmap, x) => x \notin run.todo /\ x # run.name /\ (x \in run.matched \/ run.known[x] = None)
  BY <1>4 DEF MerefsInv, RunInv, NewOnce
<1> QED
  BY <1>1, <1>2, <1>3, <1>4, <1>5 DEF Cur, Mine, Theirs

(* The next part of remote_is_master: the file is as it was, or gone.      *)
LEMMA PartKeeps ==
  ASSUME MerefsInv, StoreInv', Safe \subseteq Safe', DOMAIN cache \subseteq DOMAIN cache', Theirs \in DOMAIN cache',
         UNCHANGED <<journal, mapfile, raced, removed, stale>>,
         \/ run.pc = "get" /\ run' = [run EXCEPT !.pc = "unlink"] /\ local' = local
         \/ run.pc = "unlink" /\ run' = [run EXCEPT !.pc = "link"] /\ local' = [local EXCEPT ![Cur] = 0]
  PROVE  MerefsInv'
<1>1. run.pc \in Taking
  BY DEF Taking
<1>2. /\ run \in Runs /\ Cur \in Names /\ Cur = run.name /\ Mine = run.digest /\ run.known[Cur] # None
      /\ (Cur \in run.matched \/ ~ Has(run.cmap, Cur)) /\ run.pc \in Passing /\ Ahead = (IF run.digest # 0 THEN run.todo ELSE {})
      /\ Cur \notin run.todo
      /\ \A x \in Names : Has(run.nmap, x) => x \notin run.todo /\ x # Cur /\ (x \in run.matched \/ run.known[x] = None)
  BY <1>1, TakingIt
<1>3. /\ run' \in Runs /\ run'.pc \in {"unlink", "link"} /\ run'.todo = run.todo /\ run'.digest = run.digest
      /\ run'.name = run.name /\ run'.known = run.known /\ run'.cursor = run.cursor /\ run'.matched = run.matched
      /\ run'.cmap = run.cmap /\ run'.nmap = run.nmap
      /\ run'.pc = "unlink" => run.pc = "get" /\ local' = local
  BY <1>2 DEF Runs, Pcs, Passing
<1>4. \A x \in Names : x # Cur => local'[x] = local[x]
  BY DEF MerefsInv, StoreInv, Disk
<1>5. Lists'
  <2>1. KnownTrue(run.known, Safe') /\ MapTrue(run.cmap, Safe') /\ MapTrue(run.nmap, Safe') /\ run.cursor <= Len(journal)
    BY Larger DEF MerefsInv, RunInv, Lists
  <2> QED
    BY <1>3, <2>1 DEF Lists
<1>6. Control'
  <2>1. run'.known[run'.name].digest \in DOMAIN cache'
    BY <1>2, <1>3 DEF Theirs
  <2>2. run.digest = 0 => \A n \in run.todo : run.known[n] # None /\ n \notin run.matched
    BY <1>1 DEF MerefsInv, RunInv, Control
  <2> QED
    BY <1>2, <1>3, <2>1, <2>2 DEF Control, Looking, Taking
<1>7. NewOnce'
  BY <1>2, <1>3 DEF NewOnce
<1>8. LookedAt'
  BY <1>3 DEF LookedAt, Looking
<1>9. Spare'
  <2>1. CASE run'.pc = "unlink"
    <3>1. run.name \notin raced \cup Skipped => Harmless(run.name)
      BY <1>3, <2>1 DEF MerefsInv, World, Spare
    <3> QED
      BY <1>3, <2>1, <3>1 DEF Spare, Harmless
  <2>2. CASE run'.pc = "link"
    BY <2>2 DEF Spare
  <2> QED
    BY <1>3, <2>1, <2>2
<1>10. PassedBy'
  <2>1. \A x \in Names \ (raced \cup Skipped) :
          x \in Ahead \/ x = Cur \/ local[x] = 0 \/ run.known[x] = None \/ x \in run.matched
    BY <1>2 DEF MerefsInv, World, PassedBy
  <2>2. Ahead' = Ahead
    BY <1>2, <1>3 DEF Ahead
  <2> QED
    BY <1>2, <1>3, <1>4, <2>1, <2>2 DEF PassedBy, Taking
<1>11. MapsKept'
  <2>1. \A x \in Names : x # Cur /\ There(x) => There(x)'
    BY <1>4 DEF There
  <2>2. ~ stale => /\ Kept(run.nmap)
                   /\ \A x \in Names : Has(run.cmap, x) /\ run.known[x] # None /\ x \notin run.matched => There(x)
    BY <1>2 DEF MerefsInv, World, MapsKept
  <2> QED
    BY <1>2, <1>3, <2>1, <2>2 DEF MapsKept, Kept, Looking, Saving
<1> QED
  BY <1>5, <1>6, <1>7, <1>8, <1>9, <1>10, <1>11 DEF MerefsInv, RunInv, World

LEMMA GetKeeps ==
  ASSUME MerefsInv, chn_get_file PROVE MerefsInv'
<1>1. /\ run.pc = "get" /\ run' = [run EXCEPT !.pc = "unlink"]
      /\ UNCHANGED <<local, link, filed, journal, mapfile, edits, raced, removed, stale, lost>>
  BY DEF chn_get_file, hist
<1>2. Theirs \in Int /\ Theirs # 0
  BY <1>1, TakingIt DEF Taking
<1>3. Disk' /\ DOMAIN cache \subseteq DOMAIN cache' /\ Theirs \in DOMAIN cache'
  <2>1. CASE Theirs \in DOMAIN cache /\ UNCHANGED <<cache, arriving>>
    BY <1>1, <2>1 DEF MerefsInv, StoreInv, Disk
  <2>2. CASE cache' = Put(cache, Theirs, - Theirs) /\ arriving' = arriving \cup {Theirs}
    <3>1. - Theirs \in Int /\ - Theirs # 0
      BY <1>2
    <3> QED
      BY <1>1, <1>2, <2>2, <3>1, PutDisk DEF MerefsInv, StoreInv
  <2> QED
    BY <2>1, <2>2 DEF chn_get_file
<1>4. Safe \subseteq Safe'
  BY <1>1, <1>3 DEF Safe
<1>5. Books'
  BY <1>1, <1>4, Larger DEF MerefsInv, StoreInv, Books
<1>6. Flags'
  BY <1>1 DEF MerefsInv, StoreInv, Flags
<1> QED
  BY <1>1, <1>3, <1>4, <1>5, <1>6, PartKeeps DEF StoreInv

LEMMA GetLostKeeps ==
  ASSUME MerefsInv, GetLost PROVE MerefsInv'
<1>1. Unanswered /\ UNCHANGED <<local, link, cache, filed, journal, mapfile, edits, removed, lost>>
  BY DEF GetLost
<1>2. CASE Ends
  <2>1. Disk' /\ edits' \in Nat
    BY <1>1, <1>2 DEF Ends, MerefsInv, StoreInv, Disk, Flags
  <2> QED
    BY <1>1, <1>2, <2>1, EndsKeep DEF MerefsInv
<1>3. CASE run' = [Off EXCEPT !.pc = "stuck"] /\ UNCHANGED <<arriving, stale, raced>>
  <2>1. UNCHANGED <<files, filed, journal, mapfile, edits, hist>>
    BY <1>1, <1>3 DEF files, hist
  <2> QED
    BY <1>3, <2>1, StoreSame, ShutKeeps DEF MerefsInv
<1> QED
  BY <1>1, <1>2, <1>3 DEF Unanswered

LEMMA UnlinkKeeps ==
  ASSUME MerefsInv, Unlink PROVE MerefsInv'
<1>1. /\ run.pc = "unlink" /\ run' = [run EXCEPT !.pc = "link"] /\ Renamed(Cur)
      /\ local' = [local EXCEPT ![Cur] = 0] /\ lost' = lost \cup Destroys(Cur)
      /\ UNCHANGED <<cache, arriving, filed, journal, mapfile, edits, raced, removed, stale>>
  BY DEF Unlink, Unlinked, Renamed
<1>2. Cur \in Names /\ Cur = run.name
  BY <1>1, TakingIt DEF Taking
<1>3. Theirs \in DOMAIN cache
  BY <1>1 DEF MerefsInv, RunInv, Control, Theirs, Cur
<1>4. Destroys(Cur) \subseteq Skipped
  <2>1. Cur \notin raced \cup Skipped => Harmless(Cur)
    BY <1>1, <1>2 DEF MerefsInv, World, Spare
  <2>2. local[Cur] \in Int
    BY <1>2 DEF MerefsInv, StoreInv, Disk
  <2> QED
    BY <2>1, <2>2 DEF Destroys, Harmless, Safe
<1>5. Safe' = Safe
  BY <1>1 DEF Safe
<1>6. Disk'
  BY <1>1, <1>2, RenamedDisk DEF MerefsInv, StoreInv
<1>7. Books'
  BY <1>1, <1>5 DEF MerefsInv, StoreInv, Books
<1>8. Flags'
  BY <1>1, <1>4 DEF MerefsInv, StoreInv, Flags
<1> QED
  BY <1>1, <1>3, <1>5, <1>6, <1>7, <1>8, PartKeeps DEF StoreInv

LEMMA LinkKeeps ==
  ASSUME MerefsInv, Link PROVE MerefsInv'
<1>1. run.pc = "link" /\ UNCHANGED <<cache, filed, journal, mapfile, edits, lost>>
  BY DEF Link
<1>2. CASE local[Cur] # 0 /\ Ends /\ UNCHANGED <<local, link, removed>>
  <2>1. Disk' /\ edits' \in Nat
    BY <1>1, <1>2 DEF Ends, MerefsInv, StoreInv, Disk, Flags
  <2> QED
    BY <1>1, <1>2, <2>1, EndsKeep DEF MerefsInv
<1>3. CASE /\ local' = [local EXCEPT ![Cur] = cache[Theirs]] /\ link' = [link EXCEPT ![Cur] = Theirs]
           /\ run' = Done([run EXCEPT !.nmap = map_set(@, Cur, Theirs)])
           /\ removed' = removed \ {Cur}
           /\ UNCHANGED <<arriving, raced, stale>>
  <2>1. /\ run \in Runs /\ Cur \in Names /\ Cur = run.name /\ Mine = run.digest /\ Mine \in Int /\ Theirs \in Int
        /\ Theirs # 0 /\ Theirs \in Safe /\ run.known[Cur] # None
        /\ (Cur \in run.matched \/ ~ Has(run.cmap, Cur))
        /\ run.pc \in Passing /\ Ahead = (IF run.digest # 0 THEN run.todo ELSE {}) /\ Cur \notin run.todo
        /\ \A x \in Names : Has(run.nmap, x) => x \notin run.todo /\ x # Cur /\ (x \in run.matched \/ run.known[x] = None)
    BY <1>1, TakingIt DEF Taking
  <2>2. Theirs \in DOMAIN cache /\ cache[Theirs] \in Int /\ cache[Theirs] # 0
    BY <1>1 DEF MerefsInv, RunInv, Control, StoreInv, Disk, Theirs, Cur
  <2>3. Safe' = Safe
    BY <1>1 DEF Safe
  <2>4. local'[Cur] # 0 /\ \A x \in Names : x # Cur => local'[x] = local[x]
    BY <1>3, <2>1, <2>2 DEF MerefsInv, StoreInv, Disk
  <2>5. StoreInv'
    <3>1. Disk'
      <4>1. local' \in [Names -> Int] /\ link' \in [Names -> Int]
        BY <1>3, <2>1, <2>2 DEF MerefsInv, StoreInv, Disk
      <4>2. \A x \in Names : link'[x] # 0 => local'[x] # 0 /\ link'[x] \in DOMAIN cache
        BY <1>3, <2>1, <2>2, <2>4 DEF MerefsInv, StoreInv, Disk
      <4> QED
        BY <1>1, <1>3, <4>1, <4>2 DEF MerefsInv, StoreInv, Disk
    <3>2. Books'
      BY <1>1, <2>3 DEF MerefsInv, StoreInv, Books
    <3>3. Flags'
      BY <1>1, <1>3 DEF MerefsInv, StoreInv, Flags
    <3> QED
      BY <3>1, <3>2, <3>3 DEF StoreInv
  <2> DEFINE nmap == map_set(run.nmap, Cur, Theirs)
  <2>6. /\ nmap \in Seq(Entries) /\ MapTrue(nmap, Safe)
        /\ \A x \in Names : Has(nmap, x) => Has(run.nmap, x) \/ x = Cur
    <3>1. run.nmap \in Seq(Entries) /\ MapTrue(run.nmap, Safe)
      BY DEF MerefsInv, RunInv, Lists, Runs
    <3> QED
      BY <2>1, <3>1, MapSet
  <2>7. run' = Done([run EXCEPT !.nmap = nmap])
    BY <1>3
  <2> HIDE DEF nmap
  <2>8. Matched \subseteq Names /\ Matched = run.matched \cup {Cur}
    BY <2>1 DEF Matched, Runs
  <2>9. /\ run' \in Runs /\ run'.pc = (IF Mine = 0 THEN "create" ELSE "scan") /\ run'.todo = run.todo /\ run'.digest = 0
        /\ run'.known = run.known /\ run'.cursor = run.cursor /\ run'.matched = Matched
        /\ run'.cmap = run.cmap /\ run'.nmap = nmap
    <3>1. /\ [run EXCEPT !.nmap = nmap] \in Runs
          /\ [run EXCEPT !.nmap = nmap].todo = run.todo /\ [run EXCEPT !.nmap = nmap].known = run.known
          /\ [run EXCEPT !.nmap = nmap].cursor = run.cursor /\ [run EXCEPT !.nmap = nmap].cmap = run.cmap
          /\ [run EXCEPT !.nmap = nmap].nmap = nmap
      BY <2>1, <2>6 DEF Runs
    <3> QED
      BY <2>7, <2>8, <3>1, DoneFields
  <2>10. Lists'
    BY <1>1, <2>3, <2>6, <2>9 DEF MerefsInv, RunInv, Lists
  <2>11. Control'
    <3>1. run.digest = 0 => \A n \in run.todo : run.known[n] # None /\ n \notin run.matched
      BY <1>1 DEF MerefsInv, RunInv, Control, Taking
    <3> QED
      BY <2>1, <2>8, <2>9, <3>1 DEF Control, Looking, Taking
  <2>12. NewOnce'
    BY <2>1, <2>6, <2>8, <2>9 DEF NewOnce, Looking, Taking
  <2>13. LookedAt' /\ Spare'
    BY <2>9 DEF LookedAt, Spare, Looking
  <2>14. PassedBy'
    <3>1. \A x \in Names \ (raced \cup Skipped) :
            x \in Ahead \/ x = Cur \/ local[x] = 0 \/ run.known[x] = None \/ x \in run.matched
      BY <2>1 DEF MerefsInv, World, PassedBy
    <3>2. Ahead' = Ahead
      BY <2>1, <2>9 DEF Ahead
    <3> QED
      BY <1>3, <2>1, <2>4, <2>8, <2>9, <3>1, <3>2 DEF PassedBy, Taking, Looking
  <2>15. MapsKept'
    <3>1. \A x \in Names : x = Cur \/ There(x) => There(x)'
      BY <1>3, <2>4 DEF There
    <3>2. ~ stale => /\ Kept(run.nmap)
                     /\ \A x \in Names : Has(run.cmap, x) /\ run.known[x] # None /\ x \notin run.matched => There(x)
      BY <2>1 DEF MerefsInv, World, MapsKept
    <3> QED
      BY <1>3, <2>6, <2>8, <2>9, <3>1, <3>2 DEF MapsKept, Kept, Looking, Saving, Passing
  <2> QED
    BY <2>5, <2>10, <2>11, <2>12, <2>13, <2>14, <2>15 DEF MerefsInv, RunInv, World
<1> QED
  BY <1>2, <1>3 DEF Link

-----------------------------------------------------------------------------
(* create_unmatched_files, and the end of a pass.                          *)

LEMMA TraverseKeeps ==
  ASSUME MerefsInv, TraverseEnd PROVE MerefsInv'
<1> DEFINE todo == {n \in Names : run.known[n] # None /\ n \notin run.matched}
<1>1. StoreInv' /\ Safe' = Safe
  BY StoreSame DEF TraverseEnd, MerefsInv
<1>2. /\ run.pc = "scan" /\ run.todo = {} /\ run' = [run EXCEPT !.pc = "create", !.todo = todo]
      /\ UNCHANGED <<local, journal, raced, removed, stale>>
  BY DEF TraverseEnd, files, hist
<1>3. todo \in SUBSET Names /\ \A n \in Names : n \in todo <=> run.known[n] # None /\ n \notin run.matched
  OBVIOUS
<1> HIDE DEF todo
<1>4. run \in Runs /\ run.digest = 0
  BY <1>2 DEF MerefsInv, RunInv, Lists, Control
<1>5. /\ run' \in Runs /\ run'.pc = "create" /\ run'.todo = todo /\ run'.digest = 0 /\ run'.known = run.known
      /\ run'.cursor = run.cursor /\ run'.matched = run.matched /\ run'.cmap = run.cmap /\ run'.nmap = run.nmap
  BY <1>2, <1>3, <1>4 DEF Runs, Pcs, Passing
<1>6. Lists'
  BY <1>1, <1>2, <1>5 DEF MerefsInv, RunInv, Lists
<1>7. Control'
  BY <1>3, <1>5 DEF Control, Looking, Taking
<1>8. NewOnce'
  BY <1>2, <1>3, <1>5 DEF MerefsInv, RunInv, NewOnce, Looking, Taking, Passing
<1>9. LookedAt' /\ Spare'
  BY <1>5 DEF LookedAt, Spare, Looking
<1>10. PassedBy'
  BY <1>2, <1>5 DEF MerefsInv, World, PassedBy, Ahead, Looking, Taking, Passing
<1>11. MapsKept'
  <2>1. \A x \in Names : There(x)' = There(x)
    BY <1>2 DEF There
  <2> QED
    BY <1>2, <1>5, <2>1 DEF MerefsInv, World, MapsKept, Kept, Looking, Passing, Saving
<1> QED
  BY <1>1, <1>6, <1>7, <1>8, <1>9, <1>10, <1>11 DEF MerefsInv, RunInv, World

(* What holds while files of the mdir are created.                         *)
LEMMA Creating ==
  ASSUME MerefsInv, run.pc = "create", NEW n \in run.todo
  PROVE  /\ run \in Runs /\ n \in Names /\ run.digest = 0 /\ run.known[n] # None /\ n \notin run.matched
         /\ Ahead = {} /\ run.pc \in Passing /\ run.pc \notin Looking \cup Taking
         /\ n \notin raced \cup Skipped => local[n] = 0
<1>1. run \in Runs /\ n \in Names /\ run.digest = 0 /\ run.known[n] # None /\ n \notin run.matched
  BY DEF MerefsInv, RunInv, Lists, Control, Runs
<1>2. Ahead = {} /\ run.pc \in Passing /\ run.pc \notin Looking \cup Taking
  BY <1>1 DEF Ahead, Passing, Looking, Taking
<1>3. n \notin raced \cup Skipped => local[n] = 0
  BY <1>1, <1>2 DEF MerefsInv, World, PassedBy
<1> QED
  BY <1>1, <1>2, <1>3

LEMMA CreateKeeps ==
  ASSUME MerefsInv, NEW n \in Names, CreateLocal(n) PROVE MerefsInv'
<1>1. StoreInv' /\ Safe' = Safe
  BY StoreSame DEF CreateLocal, MerefsInv
<1>2. /\ run.pc = "create" /\ n \in run.todo /\ map_get_digest(run.cmap, n) = 0
      /\ run' = [run EXCEPT !.pc = "get", !.todo = @ \ {n}, !.name = n]
      /\ UNCHANGED <<local, journal, raced, removed, stale>>
  BY DEF CreateLocal, files, hist
<1>3. /\ run \in Runs /\ run.digest = 0 /\ run.known[n] # None /\ n \notin run.matched
      /\ Ahead = {} /\ run.pc \in Passing /\ run.pc \notin Looking \cup Taking
      /\ (n \notin raced \cup Skipped => local[n] = 0)
  BY <1>2, Creating
<1>4. ~ Has(run.cmap, n)
  <2>1. run.cmap \in Seq(Entries) /\ MapTrue(run.cmap, Safe)
    BY DEF MerefsInv, RunInv, Lists, Runs
  <2> QED
    BY <1>2, <2>1, DigestFound
<1>5. /\ run' \in Runs /\ run'.pc = "get" /\ run'.todo = run.todo \ {n} /\ run'.name = n /\ run'.digest = 0
      /\ run'.known = run.known /\ run'.cursor = run.cursor /\ run'.matched = run.matched
      /\ run'.cmap = run.cmap /\ run'.nmap = run.nmap
  BY <1>2, <1>3 DEF Runs, Pcs, Passing
<1>6. Lists'
  BY <1>1, <1>2, <1>5 DEF MerefsInv, RunInv, Lists
<1>7. Control'
  <2>1. \A x \in run.todo : run.known[x] # None /\ x \notin run.matched
    BY <1>2 DEF MerefsInv, RunInv, Control
  <2> QED
    BY <1>3, <1>4, <1>5, <2>1 DEF Control, Looking, Taking
<1>8. NewOnce'
  <2>1. \A x \in Names : Has(run.nmap, x) => x \notin run.todo /\ (x \in run.matched \/ run.known[x] = None)
    BY <1>3 DEF MerefsInv, RunInv, NewOnce
  <2> QED
    BY <1>2, <1>5, <2>1 DEF NewOnce
<1>9. LookedAt'
  BY <1>5 DEF LookedAt, Looking
<1>10. Spare'
  BY <1>2, <1>3, <1>5 DEF Spare, Harmless
<1>11. PassedBy'
  <2>1. \A x \in Names \ (raced \cup Skipped) : local[x] = 0 \/ run.known[x] = None \/ x \in run.matched
    BY <1>3 DEF MerefsInv, World, PassedBy
  <2> QED
    BY <1>2, <1>5, <2>1 DEF PassedBy
<1>12. MapsKept'
  <2>1. \A x \in Names : There(x)' = There(x)
    BY <1>2 DEF There
  <2> QED
    BY <1>2, <1>3, <1>5, <2>1 DEF MerefsInv, World, MapsKept, Kept, Looking, Saving
<1> QED
  BY <1>1, <1>6, <1>7, <1>8, <1>9, <1>10, <1>11, <1>12 DEF MerefsInv, RunInv, World

LEMMA RemoveRemoteKeeps ==
  ASSUME MerefsInv, NEW n \in Names, RemoveRemote(n) PROVE MerefsInv'
<1>1. /\ run.pc = "create" /\ n \in run.todo /\ journal' = Append(journal, Rem(run.known[n].version))
      /\ run' = [run EXCEPT !.todo = @ \ {n}]
      /\ UNCHANGED <<local, link, cache, arriving, filed, mapfile, edits, raced, removed, stale, lost>>
  BY DEF RemoveRemote, files, hist
<1>2. run \in Runs /\ run.digest = 0 /\ Ahead = {} /\ run.pc \in Passing /\ run.pc \notin Looking \cup Taking
  BY <1>1, Creating
<1>3. run.known[n].version \in Nat
  BY <1>2 DEF Runs, Remotes
<1>4. Safe' = Safe
  BY <1>1 DEF Safe
<1>5. journal' \in Seq(Patches) /\ JournalTrue(journal', Safe) /\ Len(journal) <= Len(journal')
  BY <1>1, <1>3, RemFits, JournalAppend DEF MerefsInv, StoreInv, Books
<1>6. StoreInv'
  <2>1. Disk'
    BY <1>1 DEF MerefsInv, StoreInv, Disk
  <2>2. Books'
    BY <1>1, <1>4, <1>5 DEF MerefsInv, StoreInv, Books
  <2>3. Flags'
    BY <1>1 DEF MerefsInv, StoreInv, Flags
  <2> QED
    BY <2>1, <2>2, <2>3 DEF StoreInv
<1>7. /\ run' \in Runs /\ run'.pc = "create" /\ run'.todo = run.todo \ {n} /\ run'.digest = 0
      /\ run'.known = run.known /\ run'.cursor = run.cursor /\ run'.matched = run.matched
      /\ run'.cmap = run.cmap /\ run'.nmap = run.nmap
  BY <1>1, <1>2 DEF Runs
<1>8. Lists'
  <2>1. run.cursor \in Nat /\ run.cursor <= Len(journal) /\ Len(journal) \in Nat /\ Len(journal') \in Nat
    BY <1>5 DEF MerefsInv, RunInv, Lists, Runs, StoreInv, Books
  <2> QED
    BY <1>4, <1>5, <1>7, <2>1 DEF MerefsInv, RunInv, Lists
<1>9. Control'
  <2>1. \A x \in run.todo : run.known[x] # None /\ x \notin run.matched
    BY <1>1 DEF MerefsInv, RunInv, Control
  <2> QED
    BY <1>7, <2>1 DEF Control, Looking, Taking
<1>10. NewOnce'
  BY <1>2, <1>7 DEF MerefsInv, RunInv, NewOnce, Looking, Taking
<1>11. LookedAt' /\ Spare'
  BY <1>7 DEF LookedAt, Spare, Looking
<1>12. PassedBy'
  <2>1. \A x \in Names \ (raced \cup Skipped) : local[x] = 0 \/ run.known[x] = None \/ x \in run.matched
    BY <1>2 DEF MerefsInv, World, PassedBy
  <2> QED
    BY <1>1, <1>7, <2>1 DEF PassedBy
<1>13. MapsKept'
  <2>1. \A x \in Names : There(x)' = There(x)
    BY <1>1 DEF There
  <2> QED
    BY <1>1, <1>2, <1>7, <2>1 DEF MerefsInv, World, MapsKept, Kept, Looking, Saving
<1> QED
  BY <1>6, <1>8, <1>9, <1>10, <1>11, <1>12, <1>13 DEF MerefsInv, RunInv, World

(* merefs is between two passes, or saves its map.                         *)
LEMMA RestKeeps ==
  ASSUME MerefsInv, StoreInv', Safe \subseteq Safe', run' \in Runs, run'.cursor <= Len(journal'),
         KnownTrue(run'.known, Safe), MapTrue(run'.cmap, Safe), MapTrue(run'.nmap, Safe),
         \/ run'.pc = "pass" /\ run'.digest = 0 /\ run'.matched = {} /\ run'.nmap = <<>> /\ (~ stale' => Kept(run.cmap)')
         \/ run'.pc = "save" /\ run'.saved <= Len(mapfile') /\ (~ stale' => Kept(run.nmap)')
         \/ /\ run'.pc = "record" /\ (~ stale' => Kept(run.nmap)')
            /\ run'.saved + 1 \in 1 .. Len(run'.nmap) /\ run'.saved + 1 \in 1 .. Len(mapfile')
  PROVE  MerefsInv'
<1>1. run'.pc \in {"pass", "save", "record"}
  OBVIOUS
<1>2. Lists'
  BY Larger DEF Lists
<1>3. Control'
  BY DEF Control, Looking, Taking
<1>4. NewOnce' /\ LookedAt' /\ Spare' /\ PassedBy'
  BY <1>1 DEF NewOnce, LookedAt, Spare, PassedBy, Looking, Taking, Passing
<1>5. MapsKept'
  BY DEF MapsKept, Looking, Passing, Saving
<1> QED
  BY <1>2, <1>3, <1>4, <1>5 DEF MerefsInv, RunInv, World

LEMMA EndPassKeeps ==
  ASSUME MerefsInv, EndPass PROVE MerefsInv'
<1>1. /\ run.pc = "create" /\ raced' = {}
      /\ UNCHANGED <<local, link, cache, arriving, filed, journal, mapfile, edits, removed, stale, lost>>
  BY DEF EndPass, files
<1>2. Safe' = Safe
  BY <1>1 DEF Safe
<1>3. StoreInv'
  <2>1. Disk'
    BY <1>1 DEF MerefsInv, StoreInv, Disk
  <2>2. Books'
    BY <1>1, <1>2 DEF MerefsInv, StoreInv, Books
  <2>3. Flags'
    BY <1>1 DEF MerefsInv, StoreInv, Flags
  <2> QED
    BY <2>1, <2>2, <2>3 DEF StoreInv
<1>4. /\ run \in Runs /\ run.digest = 0 /\ run.cursor <= Len(journal) /\ run.nmap \in Seq(Entries)
      /\ KnownTrue(run.known, Safe) /\ MapTrue(run.nmap, Safe) /\ Len(journal) \in Nat
  BY <1>1 DEF MerefsInv, RunInv, Lists, Control, Runs, StoreInv, Books
<1>5. ~ stale' => Kept(run.nmap)
  BY <1>1 DEF MerefsInv, World, MapsKept, Passing
<1>6. \A map : Kept(map) => Kept(map)'
  BY <1>1 DEF Kept, There
<1>7. CASE run.bg
  <2>1. run' = [run EXCEPT !.pc = "pass", !.cmap = run.nmap, !.nmap = <<>>, !.matched = {}]
    BY <1>7 DEF EndPass
  <2>2. /\ run' \in Runs /\ run'.pc = "pass" /\ run'.matched = {} /\ run'.nmap = <<>> /\ run'.cmap = run.nmap
        /\ run'.known = run.known /\ run'.cursor = run.cursor /\ run'.digest = 0
    <3> DEFINE empty == <<>>
               none == {}
    <3>1. run' = [run EXCEPT !.pc = "pass", !.cmap = run.nmap, !.nmap = empty, !.matched = none]
      BY <2>1
    <3>2. empty \in Seq(Entries) /\ none \in SUBSET Names /\ empty = <<>> /\ none = {}
      OBVIOUS
    <3> HIDE DEF empty, none
    <3> QED
      BY <1>4, <3>1, <3>2 DEF Runs, Pcs
  <2>3. ~ stale' => Kept(run.cmap)'
    BY <1>5, <1>6, <2>2
  <2>4. run'.cursor <= Len(journal')
    BY <1>1, <1>4, <2>2
  <2> QED
    BY <1>2, <1>3, <1>4, <2>2, <2>3, <2>4, MapEmpty, RestKeeps
<1>8. CASE ~ run.bg
  <2>1. run' = [Off EXCEPT !.pc = "save", !.nmap = run.nmap]
    BY <1>8 DEF EndPass
  <2>2. /\ run' \in Runs /\ run'.pc = "save" /\ run'.nmap = run.nmap /\ run'.cmap = <<>>
        /\ run'.known = [n \in Names |-> None] /\ run'.cursor = 0 /\ run'.saved = 0
    BY <1>4, <2>1, OffFields DEF Runs, Pcs, Saving
  <2>3. ~ stale' => Kept(run.nmap)'
    BY <1>5, <1>6, <2>2
  <2>4. run'.cursor <= Len(journal')
    BY <1>1, <1>4, <2>2
  <2>5. KnownTrue(run'.known, Safe)
    BY <2>2 DEF KnownTrue
  <2>6. run'.saved <= Len(mapfile')
    BY <1>1, <2>2 DEF MerefsInv, StoreInv, Books
  <2> QED
    BY <1>2, <1>3, <1>4, <2>2, <2>3, <2>4, <2>5, <2>6, MapEmpty, RestKeeps
<1> QED
  BY <1>7, <1>8

(* Each record of .map that is written is of the map, or has no digest.    *)
LEMMA SaveKeeps ==
  ASSUME MerefsInv, SaveName \/ SaveDigest PROVE MerefsInv'
<1>1. /\ run.pc \in Saving /\ UNCHANGED <<local, link, cache, arriving, filed, journal, edits, raced, removed, stale, lost>>
  BY DEF SaveName, SaveDigest, Saving, files, hist
<1>2. Safe' = Safe
  BY <1>1 DEF Safe
<1>3. /\ run \in Runs /\ run.cursor <= Len(journal) /\ run.nmap \in Seq(Entries) /\ run.saved \in Nat
      /\ KnownTrue(run.known, Safe) /\ MapTrue(run.cmap, Safe) /\ MapTrue(run.nmap, Safe)
      /\ mapfile \in Seq(Entries) /\ FileTrue(mapfile, Safe)
  BY DEF MerefsInv, RunInv, Lists, Runs, StoreInv, Books
<1> DEFINE i == run.saved + 1
<1>4. /\ i \in 1 .. Len(run.nmap)
      /\ run.pc = "record" => i \in 1 .. Len(mapfile)
  <2>1. CASE SaveName
    <3>1. run.saved < Len(run.nmap) /\ Len(run.nmap) \in Nat /\ run.pc = "save"
      BY <1>3, <2>1 DEF SaveName
    <3> QED
      BY <1>3, <3>1
  <2>2. CASE SaveDigest
    BY <2>2 DEF SaveDigest, MerefsInv, RunInv, Control
  <2> QED
    BY <2>1, <2>2
<1>5. run.nmap[i] \in Entries /\ run.nmap[i].digest \in Safe
  BY <1>3, <1>4 DEF MapTrue
<1>6. \A map : Kept(map) => Kept(map)'
  BY <1>1 DEF Kept, There
<1>7. ~ stale' => Kept(run.nmap)
  BY <1>1 DEF MerefsInv, World, MapsKept
<1>8. ASSUME mapfile' \in Seq(Entries), FileTrue(mapfile', Safe) PROVE StoreInv'
  <2>1. Disk'
    BY <1>1 DEF MerefsInv, StoreInv, Disk
  <2>2. Books'
    BY <1>1, <1>2, <1>8 DEF MerefsInv, StoreInv, Books
  <2>3. Flags'
    BY <1>1 DEF MerefsInv, StoreInv, Flags
  <2> QED
    BY <2>1, <2>2, <2>3 DEF StoreInv
<1>9. CASE SaveName
  <2>1. /\ run.pc = "save" /\ run' = [run EXCEPT !.pc = "record"]
        /\ mapfile' = IF i <= Len(mapfile) THEN [mapfile EXCEPT ![i].name = run.nmap[i].name]
                      ELSE Append(mapfile, [name |-> run.nmap[i].name, digest |-> 0])
    BY <1>9 DEF SaveName
  <2>2. run.saved <= Len(mapfile) /\ Len(mapfile) \in Nat /\ i \in Nat
    BY <1>3, <2>1 DEF MerefsInv, RunInv, Control
  <2>3. mapfile' \in Seq(Entries) /\ FileTrue(mapfile', Safe) /\ i \in 1 .. Len(mapfile')
    <3>1. CASE i <= Len(mapfile)
      <4>1. i \in 1 .. Len(mapfile) /\ mapfile[i] \in Entries /\ run.nmap[i].name \in Names
        <5>1. i \in 1 .. Len(mapfile)
          BY <1>3, <2>2, <3>1
        <5>2. run.nmap[i].name \in Names
          BY <1>5 DEF Entries
        <5> HIDE DEF i
        <5> QED
          BY <1>3, <5>1, <5>2
      <4>2. [mapfile[i] EXCEPT !.name = run.nmap[i].name] \in Entries
            /\ [mapfile[i] EXCEPT !.name = run.nmap[i].name].digest = mapfile[i].digest
        BY <4>1 DEF Entries
      <4>3. mapfile' = [mapfile EXCEPT ![i] = [mapfile[i] EXCEPT !.name = run.nmap[i].name]]
        BY <2>1, <3>1, <4>1
      <4> DEFINE e == [mapfile[i] EXCEPT !.name = run.nmap[i].name]
      <4>4. e \in Entries /\ e.digest = mapfile[i].digest /\ mapfile' = [mapfile EXCEPT ![i] = e]
        BY <4>2, <4>3
      <4> HIDE DEF e, i
      <4>5. /\ mapfile' \in Seq(Entries) /\ Len(mapfile') = Len(mapfile)
            /\ \A k \in 1 .. Len(mapfile) : mapfile'[k] = IF k = i THEN e ELSE mapfile[k]
        BY <1>3, <4>1, <4>4
      <4> QED
        BY <1>3, <4>1, <4>4, <4>5 DEF FileTrue
    <3>2. CASE ~ (i <= Len(mapfile))
      <4> DEFINE e == [name |-> run.nmap[i].name, digest |-> 0]
      <4>1. e \in Entries /\ e.digest = 0
        BY <1>5 DEF Entries
      <4>2. mapfile' = Append(mapfile, e) /\ i = Len(mapfile) + 1
        BY <1>3, <2>1, <2>2, <3>2
      <4> HIDE DEF e, i
      <4>3. /\ mapfile' \in Seq(Entries) /\ Len(mapfile') = Len(mapfile) + 1
            /\ \A k \in 1 .. Len(mapfile') : mapfile'[k] = IF k = Len(mapfile) + 1 THEN e ELSE mapfile[k]
        BY <1>3, <4>1, <4>2
      <4>4. \A k \in 1 .. Len(mapfile') : k = Len(mapfile) + 1 \/ k \in 1 .. Len(mapfile)
        BY <2>2, <4>3
      <4>5. FileTrue(mapfile', Safe)
        BY <1>3, <4>1, <4>3, <4>4 DEF FileTrue
      <4>6. i \in 1 .. Len(mapfile')
        BY <2>2, <4>2, <4>3
      <4> QED
        BY <4>3, <4>5, <4>6
    <3> QED
      BY <3>1, <3>2
  <2>4. StoreInv'
    BY <1>8, <2>3
  <2>5. /\ run' \in Runs /\ run'.pc = "record" /\ run'.nmap = run.nmap /\ run'.cmap = run.cmap
        /\ run'.known = run.known /\ run'.cursor = run.cursor /\ run'.saved = run.saved
    BY <1>3, <2>1 DEF Runs, Pcs, Saving
  <2>6. run'.saved + 1 \in 1 .. Len(run'.nmap) /\ run'.saved + 1 \in 1 .. Len(mapfile')
    BY <1>4, <2>3, <2>5
  <2>7. ~ stale' => Kept(run.nmap)'
    BY <1>6, <1>7, <2>5
  <2>8. run'.cursor <= Len(journal')
    BY <1>1, <1>3, <2>5
  <2> QED
    BY <1>2, <1>3, <2>4, <2>5, <2>6, <2>7, <2>8, RestKeeps
<1>10. CASE SaveDigest
  <2>1. /\ run.pc = "record" /\ run' = [run EXCEPT !.pc = "save", !.saved = @ + 1]
        /\ mapfile' = [mapfile EXCEPT ![i].digest = run.nmap[i].digest]
    BY <1>10 DEF SaveDigest
  <2>2. i \in 1 .. Len(mapfile) /\ mapfile[i] \in Entries /\ run.nmap[i].digest \in Int
    <3>1. i \in 1 .. Len(mapfile)
      BY <1>4, <2>1
    <3>2. run.nmap[i].digest \in Int
      BY <1>5 DEF Entries
    <3> HIDE DEF i
    <3> QED
      BY <1>3, <3>1, <3>2
  <2> DEFINE e == [mapfile[i] EXCEPT !.digest = run.nmap[i].digest]
  <2>3. e \in Entries /\ e.digest = run.nmap[i].digest /\ mapfile' = [mapfile EXCEPT ![i] = e]
    BY <2>1, <2>2 DEF Entries
  <2>4. i = run.saved + 1
    OBVIOUS
  <2> HIDE DEF e, i
  <2>5. /\ mapfile' \in Seq(Entries) /\ Len(mapfile') = Len(mapfile) /\ Len(mapfile) \in Nat
        /\ \A k \in 1 .. Len(mapfile) : mapfile'[k] = IF k = i THEN e ELSE mapfile[k]
    BY <1>3, <2>2, <2>3
  <2>6. FileTrue(mapfile', Safe)
    BY <1>3, <1>5, <2>2, <2>3, <2>5 DEF FileTrue
  <2>7. StoreInv'
    BY <1>8, <2>5, <2>6
  <2>8. /\ run' \in Runs /\ run'.pc = "save" /\ run'.nmap = run.nmap /\ run'.cmap = run.cmap
        /\ run'.known = run.known /\ run'.cursor = run.cursor /\ run'.saved = run.saved + 1
    <3>1. run.saved + 1 \in Nat
      BY <1>3
    <3> QED
      BY <1>3, <2>1, <3>1 DEF Runs, Pcs, Saving
  <2>9. run'.saved <= Len(mapfile')
    BY <2>2, <2>4, <2>5, <2>8
  <2>10. ~ stale' => Kept(run.nmap)'
    BY <1>6, <1>7, <2>8
  <2>11. run'.cursor <= Len(journal')
    BY <1>1, <1>3, <2>8
  <2> QED
    BY <1>2, <1>3, <2>7, <2>8, <2>9, <2>10, <2>11, RestKeeps
<1> QED
  BY <1>9, <1>10

LEMMA ExitsKeep ==
  ASSUME MerefsInv, Exits PROVE MerefsInv'
<1>1. /\ run.pc = "save" /\ stale' = (stale \/ mapfile # run.nmap) /\ run' = Off /\ arriving' = {}
      /\ UNCHANGED <<local, link, cache, filed, journal, mapfile, edits, raced, removed, lost>>
  BY DEF Exits
<1>2. Safe' = Safe
  BY <1>1 DEF Safe
<1>3. StoreInv'
  <2>1. Disk'
    BY <1>1 DEF MerefsInv, StoreInv, Disk
  <2>2. Books'
    BY <1>1, <1>2 DEF MerefsInv, StoreInv, Books
  <2>3. stale' \in BOOLEAN
    BY <1>1, Zenon
  <2>4. Flags'
    BY <1>1, <2>3 DEF MerefsInv, StoreInv, Flags
  <2> QED
    BY <2>1, <2>2, <2>4 DEF StoreInv
<1>4. ~ stale => Kept(run.nmap)
  BY <1>1 DEF MerefsInv, World, MapsKept, Saving
<1>5. \A map : Kept(map) => Kept(map)'
  BY <1>1 DEF Kept, There
<1>6. stale' \/ Kept(mapfile)'
  BY <1>1, <1>4, <1>5
<1> QED
  BY <1>1, <1>3, <1>6, ShutKeeps

LEMMA KilledKeeps ==
  ASSUME MerefsInv, Killed PROVE MerefsInv'
<1>1. Ends /\ UNCHANGED <<local, link, cache, filed, journal, mapfile, removed, lost>> /\ edits' = edits + 1
  BY DEF Killed, Edited
<1>2. Disk' /\ edits' \in Nat
  BY <1>1 DEF Ends, MerefsInv, StoreInv, Disk, Flags
<1> QED
  BY <1>1, <1>2, EndsKeep DEF MerefsInv

-----------------------------------------------------------------------------
(* Downloads, connections and users.                                       *)

LEMMA SameRunSame ==
  ASSUME MerefsInv, run' = run PROVE SameRun
BY DEF SameRun, MerefsInv, RunInv, Lists

LEMMA ArriveKeeps ==
  ASSUME MerefsInv, NEW d \in arriving, Arrive(d) PROVE MerefsInv'
<1>1. /\ arriving' = arriving \ {d}
      /\ UNCHANGED <<link, filed, journal, mapfile, run, edits, raced, removed, stale, lost>>
  BY DEF Arrive, hist
<1>2. d \in DOMAIN cache /\ d \in Int /\ d # 0
  BY DEF MerefsInv, StoreInv, Disk
<1>3. \/ cache' = [cache EXCEPT ![d] = d] /\ local' = [n \in Names |-> IF link[n] = d THEN d ELSE local[n]]
      \/ UNCHANGED <<cache, local>>
  BY DEF Arrive
<1>4. DOMAIN cache' = DOMAIN cache /\ \A x \in DOMAIN cache : cache'[x] \in {d, cache[x]}
  BY <1>2, <1>3
<1>5. \A x \in Names : local'[x] = local[x] \/ (local'[x] = d /\ link[x] = d)
  BY <1>3
<1>6. local' \in [Names -> Int]
  BY <1>2, <1>3 DEF MerefsInv, StoreInv, Disk
<1>7. Disk'
  <2>1. \A x \in Names : link[x] # 0 => local'[x] # 0 /\ link[x] \in DOMAIN cache
    BY <1>2, <1>5 DEF MerefsInv, StoreInv, Disk
  <2> QED
    BY <1>1, <1>2, <1>4, <1>6, <2>1 DEF MerefsInv, StoreInv, Disk
<1>8. Safe' = Safe /\ d \in Safe
  BY <1>1, <1>2, <1>4 DEF Safe
<1>9. Books'
  BY <1>1, <1>8 DEF MerefsInv, StoreInv, Books
<1>10. Flags'
  BY <1>1 DEF MerefsInv, StoreInv, Flags
<1>11. \A x \in Names : local'[x] = local[x] \/ (local[x] # 0 /\ local'[x] # 0 /\ local'[x] \in Safe')
  BY <1>2, <1>5, <1>8 DEF MerefsInv, StoreInv, Disk
<1>12. \A x \in Names : There(x) => There(x)'
  BY <1>1, <1>11 DEF There
<1>13. Len(journal) <= Len(journal')
  BY <1>1 DEF MerefsInv, StoreInv, Books
<1>14. SameRun
  BY <1>1, SameRunSame
<1> QED
  BY <1>1, <1>4, <1>7, <1>8, <1>9, <1>10, <1>11, <1>12, <1>13, <1>14, QuietKeeps DEF StoreInv

(* Patches of others, a lost connection, or nothing.                       *)
LEMMA OthersKeep ==
  ASSUME MerefsInv, SameRun, UNCHANGED <<local, link, cache, mapfile, hist>>, arriving' \subseteq arriving,
         filed \subseteq filed', filed' \subseteq Int, edits' \in Nat,
         journal' \in Seq(Patches), JournalTrue(journal', Safe'), Len(journal) <= Len(journal')
  PROVE  MerefsInv'
<1>1. UNCHANGED <<raced, removed, stale, lost>>
  BY DEF hist
<1>2. Safe \subseteq Safe'
  BY DEF Safe
<1>3. Disk'
  BY DEF MerefsInv, StoreInv, Disk
<1>4. Books'
  <2>1. FileTrue(mapfile, Safe')
    BY <1>2, Larger DEF MerefsInv, StoreInv, Books
  <2> QED
    BY <2>1 DEF MerefsInv, StoreInv, Books
<1>5. Flags'
  BY <1>1 DEF MerefsInv, StoreInv, Flags
<1>6. \A x \in Names : There(x) => There(x)'
  BY <1>1 DEF There
<1> QED
  BY <1>1, <1>2, <1>3, <1>4, <1>5, <1>6, QuietKeeps DEF StoreInv

LEMMA FiledLostKeeps ==
  ASSUME MerefsInv, FiledLost PROVE MerefsInv'
<1>1. /\ run' = [run EXCEPT !.filed = FALSE] /\ arriving' = {} /\ edits' = edits + 1
      /\ UNCHANGED <<local, link, cache, filed, journal, mapfile, hist>>
  BY DEF FiledLost, Edited
<1>2. run \in Runs
  BY DEF MerefsInv, RunInv, Lists
<1>3. SameRun
  BY <1>1, <1>2 DEF SameRun, Runs
<1>4. Safe' = Safe
  BY <1>1 DEF Safe
<1>5. /\ edits' \in Nat /\ filed' \subseteq Int /\ journal' \in Seq(Patches) /\ JournalTrue(journal', Safe')
      /\ Len(journal) <= Len(journal')
  BY <1>1, <1>4 DEF MerefsInv, StoreInv, Books, Flags
<1> QED
  BY <1>1, <1>3, <1>5, OthersKeep

(* A user changes a file, and the files that are links to the same cache   *)
(* file.                                                                   *)
LEMMA UserKeeps ==
  ASSUME MerefsInv, Disk', run' = run, edits' = edits + 1, UNCHANGED <<filed, journal, mapfile, stale, lost>>,
         removed' \subseteq Names, raced' \subseteq Names, raced \subseteq raced', DOMAIN cache' = DOMAIN cache,
         \A x \in Names : There(x) => There(x)',
         \A x \in Names : local'[x] = local[x] \/ (run.pc \in Passing => x \in Ahead \/ x \in raced')
  PROVE  MerefsInv'
<1>1. Safe' = Safe
  BY DEF Safe
<1>2. Books'
  BY <1>1 DEF MerefsInv, StoreInv, Books
<1>3. Flags'
  BY DEF MerefsInv, StoreInv, Flags
<1>4. Len(journal) <= Len(journal') /\ SameRun
  BY SameRunSame DEF MerefsInv, StoreInv, Books
<1> QED
  BY <1>1, <1>2, <1>3, <1>4, QuietKeeps DEF StoreInv

LEMMA TouchRaces ==
  ASSUME NEW n \in Names, raced \subseteq Names, Touch(n)
  PROVE  raced' \subseteq Names /\ raced \subseteq raced' /\ (run.pc \in Passing => n \in Ahead \/ n \in raced')
BY DEF Touch

LEMMA LocalKeeps ==
  ASSUME MerefsInv, NEW n \in Names, EditLocal(n) \/ RemoveLocal(n) PROVE MerefsInv'
<1>1. /\ edits \in Nat /\ edits' = edits + 1 /\ Touch(n) /\ UNCHANGED <<cache, arriving, filed, journal, mapfile, run, stale, lost>>
      /\ link' = [link EXCEPT ![n] = 0]
  BY DEF EditLocal, RemoveLocal, Edited, MerefsInv, StoreInv, Flags
<1>2. PICK c \in Nat : /\ local' = [local EXCEPT ![n] = c]
                       /\ \/ c # 0 /\ removed' = removed \ {n}
                          \/ c = 0 /\ removed' = removed \cup {n}
  <2>1. edits + 1 \in Nat /\ edits + 1 # 0
    BY <1>1
  <2> QED
    BY <2>1 DEF EditLocal, RemoveLocal
<1>3. /\ local \in [Names -> Int] /\ link \in [Names -> Int] /\ removed \subseteq Names /\ raced \subseteq Names
      /\ \A x \in Names : link[x] # 0 => local[x] # 0 /\ link[x] \in DOMAIN cache
  BY DEF MerefsInv, StoreInv, Disk, Flags
<1>4. Disk'
  <2>1. local' \in [Names -> Int] /\ link' \in [Names -> Int]
    BY <1>1, <1>2, <1>3
  <2>2. \A x \in Names : link'[x] # 0 => local'[x] # 0 /\ link'[x] \in DOMAIN cache
    BY <1>1, <1>2, <1>3
  <2> QED
    BY <1>1, <2>1, <2>2 DEF MerefsInv, StoreInv, Disk
<1>5. removed' \subseteq Names
  BY <1>2, <1>3
<1>6. \A x \in Names : There(x) => There(x)'
  BY <1>2, <1>3 DEF There
<1>7. raced' \subseteq Names /\ raced \subseteq raced' /\ (run.pc \in Passing => n \in Ahead \/ n \in raced')
  BY <1>1, <1>3, TouchRaces
<1>8. \A x \in Names : local'[x] = local[x] \/ (run.pc \in Passing => x \in Ahead \/ x \in raced')
  BY <1>2, <1>3, <1>7
<1> QED
  BY <1>1, <1>4, <1>5, <1>6, <1>7, <1>8, UserKeeps

LEMMA InPlaceKeeps ==
  ASSUME MerefsInv, NEW n \in Names, EditInPlace(n) PROVE MerefsInv'
<1>1. /\ edits \in Nat /\ edits' = edits + 1 /\ link[n] # 0
      /\ local' = [x \in Names |-> IF link[x] = link[n] THEN edits + 1 ELSE local[x]]
      /\ cache' = [cache EXCEPT ![link[n]] = edits + 1]
      /\ raced' = IF run.pc \in Passing THEN raced \cup {x \in Names \ Ahead : link[x] = link[n]} ELSE raced
      /\ UNCHANGED <<link, arriving, filed, journal, mapfile, run, removed, stale, lost>>
  BY DEF EditInPlace, Edited, MerefsInv, StoreInv, Flags
<1>2. /\ local \in [Names -> Int] /\ link \in [Names -> Int] /\ removed \subseteq Names /\ raced \subseteq Names
      /\ \A x \in Names : link[x] # 0 => local[x] # 0 /\ link[x] \in DOMAIN cache
      /\ 0 \notin DOMAIN cache /\ \A d \in DOMAIN cache : d \in Int /\ cache[d] \in Int /\ cache[d] # 0
  BY DEF MerefsInv, StoreInv, Disk, Flags
<1>3. edits + 1 \in Int /\ edits + 1 # 0
  BY <1>1
<1>4. DOMAIN cache' = DOMAIN cache /\ \A d \in DOMAIN cache : cache'[d] \in {edits + 1, cache[d]}
  BY <1>1, <1>2
<1>5. local' \in [Names -> Int]
  BY <1>1, <1>2, <1>3
<1>6. \A x \in Names : link[x] # 0 => local'[x] # 0
  BY <1>1, <1>2, <1>3
<1>7. Disk'
  BY <1>1, <1>2, <1>3, <1>4, <1>5, <1>6 DEF MerefsInv, StoreInv, Disk
<1>8. \A x \in Names : There(x) => There(x)'
  BY <1>1, <1>3 DEF There
<1>9. raced' \subseteq Names /\ raced \subseteq raced'
  BY <1>1, <1>2
<1>10. \A x \in Names : local'[x] = local[x] \/ (run.pc \in Passing => x \in Ahead \/ x \in raced')
  BY <1>1
<1> QED
  BY <1>1, <1>2, <1>4, <1>7, <1>8, <1>9, <1>10, UserKeeps

LEMMA RemoteUserKeeps ==
  ASSUME MerefsInv, NEW n \in Names, EditRemote(n) \/ DeleteRemote(n) PROVE MerefsInv'
<1>1. /\ edits \in Nat /\ edits' = edits + 1 /\ run' = run
      /\ UNCHANGED <<local, link, cache, mapfile, hist, arriving>>
  BY DEF EditRemote, DeleteRemote, Edited, files, MerefsInv, StoreInv, Flags
<1>2. edits' \in Nat /\ SameRun /\ edits + 1 \in Int /\ edits + 1 # 0
  BY <1>1, SameRunSame
<1>3. journal \in Seq(Patches) /\ JournalTrue(journal, Safe) /\ filed \subseteq Int
  BY DEF MerefsInv, StoreInv, Books, Flags
<1>4. CASE EditRemote(n)
  <2>1. filed' = filed \cup {edits + 1} /\ journal' = Append(journal, Add(n, edits + 1)) \o Replaced(n)
    BY <1>4 DEF EditRemote
  <2>2. Safe \subseteq Safe' /\ edits + 1 \in Safe'
    BY <1>1, <2>1 DEF Safe
  <2>3. Fits(Add(n, edits + 1), Safe') /\ JournalTrue(journal, Safe')
    BY <1>2, <1>3, <2>2, AddFits, Larger
  <2> DEFINE j == Append(journal, Add(n, edits + 1))
  <2>4. j \in Seq(Patches) /\ JournalTrue(j, Safe') /\ Len(journal) <= Len(j)
    BY <1>3, <2>3, JournalAppend
  <2>5. journal' = j \o Replaced(n)
    BY <2>1
  <2> HIDE DEF j
  <2>6. journal' \in Seq(Patches) /\ JournalTrue(journal', Safe') /\ Len(j) <= Len(journal')
    BY <1>3, <2>4, <2>5, ReplacedAppends
  <2>7. Len(journal) <= Len(journal')
    BY <1>3, <2>4, <2>6
  <2>8. filed \subseteq filed' /\ filed' \subseteq Int
    BY <1>2, <1>3, <2>1
  <2> QED
    BY <1>1, <1>2, <2>6, <2>7, <2>8, OthersKeep
<1>5. CASE DeleteRemote(n)
  <2>1. filed' = filed /\ journal' = journal \o Replaced(n)
    BY <1>5 DEF DeleteRemote
  <2>2. Safe' = Safe
    BY <1>1, <2>1 DEF Safe
  <2>3. journal' \in Seq(Patches) /\ JournalTrue(journal', Safe') /\ Len(journal) <= Len(journal')
    BY <1>3, <2>1, <2>2, ReplacedAppends
  <2> QED
    BY <1>1, <1>2, <1>3, <2>1, <2>3, OthersKeep
<1> QED
  BY <1>4, <1>5

LEMMA MerefsStep ==
  ASSUME MerefsInv, [Next]_vars PROVE MerefsInv'
<1>1. CASE UNCHANGED vars
  <2>1. UNCHANGED <<local, link, cache, arriving, filed, journal, mapfile, run, edits, hist>>
    BY <1>1 DEF vars, files
  <2>2. SameRun /\ Safe' = Safe
    BY <2>1, SameRunSame DEF Safe
  <2>3. /\ filed' \subseteq Int /\ edits' \in Nat /\ journal' \in Seq(Patches) /\ JournalTrue(journal', Safe')
        /\ Len(journal) <= Len(journal')
    BY <2>1, <2>2 DEF MerefsInv, StoreInv, Books, Flags
  <2> QED
    BY <2>1, <2>2, <2>3, OthersKeep
<1>2. CASE \E bg \in BOOLEAN : Start(bg)
  BY <1>2, StartKeeps
<1>3. CASE match_local_file
  BY <1>3, KeepMapKeeps, RemoteKeeps, RemoveLocalKeeps, GoneKeeps, ReuseKeeps, SendKeeps, MasterUploadKeeps, ReplaceKeeps
     DEF match_local_file
<1>4. CASE loop
  BY <1>3, <1>4, BeginKeeps, DigestKeeps, TraverseKeeps, GetKeeps, GetLostKeeps, UnlinkKeeps, LinkKeeps, CreateKeeps,
     RemoveRemoteKeeps, EndPassKeeps, SaveKeeps, ExitsKeep DEF loop
<1>5. CASE Killed \/ FiledLost
  BY <1>5, KilledKeeps, FiledLostKeeps
<1>6. CASE \E d \in arriving : Arrive(d)
  BY <1>6, ArriveKeeps
<1>7. CASE \E n \in Names : EditLocal(n) \/ EditInPlace(n) \/ RemoveLocal(n) \/ EditRemote(n) \/ DeleteRemote(n)
  BY <1>7, LocalKeeps, InPlaceKeeps, RemoteUserKeeps
<1> QED
  BY <1>1, <1>2, <1>4, <1>5, <1>6, <1>7 DEF Next

-----------------------------------------------------------------------------
(* The theorems.                                                           *)

(* A content that a user wrote is destroyed by an unlink of merefs (in     *)
(* remote_is_master and remove_local_file) only if filed or the cache has  *)
(* it, if it was written after its digest was taken, or under a name that  *)
(* the scan skips; whatever the map file held, wherever merefs was killed, *)
(* with uploads cut short and files half downloaded, for every number of   *)
(* files and of edits.                                                     *)
THEOREM WrittenIsKept == Spec => []NothingLost
<1>1. Init => MerefsInv
  BY MerefsInit
<1>2. MerefsInv /\ [Next]_vars => MerefsInv'
  BY MerefsStep
<1>3. MerefsInv => NothingLost
  BY DEF MerefsInv, StoreInv, Flags, NothingLost
<1> QED
  BY <1>1, <1>2, <1>3, PTL DEF Spec

(* create_unmatched_files removes a file from the mdir only if the user    *)
(* has removed the local one, as long as .map held the last map whenever   *)
(* map_load read it and the scan does not skip the name.                   *)
THEOREM RemovesDeliberately == Spec => Deliberate
<1>1. Init => MerefsInv
  BY MerefsInit
<1>2. MerefsInv /\ [Next]_vars => MerefsInv'
  BY MerefsStep
<1>3. ASSUME MerefsInv, NEW n \in Names \ Skipped, RemoveRemote(n) PROVE n \in removed \cup raced \/ stale
  <2>1. run.pc = "create" /\ n \in run.todo /\ map_get_digest(run.cmap, n) # 0
    BY <1>3 DEF RemoveRemote
  <2>2. /\ run.known[n] # None /\ n \notin run.matched /\ run.pc \in Passing
        /\ n \notin raced \cup Skipped => local[n] = 0
    BY <1>3, <2>1, Creating
  <2>3. Has(run.cmap, n)
    <3>1. run.cmap \in Seq(Entries) /\ MapTrue(run.cmap, Safe)
      BY <1>3 DEF MerefsInv, RunInv, Lists, Runs
    <3> QED
      BY <2>1, <3>1, DigestFound
  <2>4. ~ stale => There(n)
    BY <1>3, <2>2, <2>3 DEF MerefsInv, World, MapsKept
  <2> QED
    BY <2>2, <2>4 DEF There
<1>4. MerefsInv /\ [Next]_vars =>
        [\A n \in Names \ Skipped : RemoveRemote(n) => n \in removed \cup raced \/ stale]_vars
  BY <1>3
<1> QED
  BY <1>1, <1>2, <1>4, PTL DEF Spec, Deliberate

=============================================================================
