---------------------------- MODULE MdLinkProofs ----------------------------
(***************************************************************************)
(* Theorems about module MdLink: the folders of a host follow the patches  *)
(* it has recorded, for every number of names, directories, requests and   *)
(* crashes of mdsyncc between two system calls.                            *)
(***************************************************************************)
EXTENDS MdLink, NaturalsInduction, WellFoundedInduction, TLAPS

-----------------------------------------------------------------------------
(* Induction, stated with sets instead of predicates.                      *)

(* A set of numbers that is not empty has a least element.                 *)
LEMMA LeastNumber ==
  ASSUME NEW T, T \subseteq Nat, T # {} PROVE \E x \in T : \A y \in T : x <= y
<1>1. PICK x \in T : \A y \in T : <<y, x>> \notin OpToRel(<, Nat)
  BY NatLessThanWellFounded, WFMin
<1>2. \A y \in T : ~ (y < x)
  BY <1>1 DEF OpToRel
<1> QED
  BY <1>2

(* A set with 0 and the successor of each of its numbers has all numbers.  *)
LEMMA AllNumbers ==
  ASSUME NEW S, 0 \in S, \A n \in Nat : n \in S => n + 1 \in S PROVE \A n \in Nat : n \in S
<1> DEFINE T == {n \in Nat : n \notin S}
<1> SUFFICES ASSUME T # {} PROVE FALSE
  OBVIOUS
<1>1. PICK x \in T : \A y \in T : x <= y
  BY LeastNumber
<1>2. x # 0 /\ x \in Nat /\ x - 1 \in Nat
  OBVIOUS
<1>3. x - 1 \in S
  BY <1>1, <1>2
<1> QED
  BY <1>2, <1>3

-----------------------------------------------------------------------------
(* The links after some patches.  Tree is a recursive function; its        *)
(* equations follow once there is a function that satisfies them.          *)

After(j, t, i) ==
  IF j[i].act = "+" THEN [t EXCEPT ![j[i].name] = j[i].dir]
  ELSE Unlinked(t, SubSeq(j, 1, i - 1), j[i].target)

IsTree(j, t, v) == t = [i \in 0 .. v |-> IF i = 0 THEN [n \in Names |-> 0] ELSE After(j, t[i - 1], i)]

(* A function for v patches and its value for one more.                    *)
LEMMA TreeLonger ==
  ASSUME NEW j, NEW v \in Nat, NEW t, IsTree(j, t, v)
  PROVE  \E u : IsTree(j, u, v + 1)
<1> DEFINE u == [i \in 0 .. v + 1 |-> IF i = v + 1 THEN After(j, t[v], v + 1) ELSE t[i]]
<1>1. \A i \in 0 .. v : u[i] = t[i]
  OBVIOUS
<1>2. u[v + 1] = After(j, u[v], v + 1)
  BY <1>1
<1>3. \A i \in 0 .. v : t[i] = IF i = 0 THEN [n \in Names |-> 0] ELSE After(j, t[i - 1], i)
  BY DEF IsTree
<1>4. u = [i \in 0 .. v + 1 |-> u[i]]
  OBVIOUS
<1> HIDE DEF u
<1>5. ASSUME NEW i \in 0 .. v + 1 PROVE u[i] = IF i = 0 THEN [n \in Names |-> 0] ELSE After(j, u[i - 1], i)
  <2>1. CASE i = v + 1
    BY <1>2, <2>1
  <2>2. CASE i \in 0 .. v
    <3>1. i # 0 => i - 1 \in 0 .. v
      BY <2>2
    <3> QED
      BY <1>1, <1>3, <2>2, <3>1
  <2> QED
    BY <2>1, <2>2
<1>6. u = [i \in 0 .. v + 1 |-> IF i = 0 THEN [n \in Names |-> 0] ELSE After(j, u[i - 1], i)]
  BY <1>4, <1>5, Zenon
<1> QED
  BY <1>6 DEF IsTree

LEMMA TreeExists ==
  ASSUME NEW j, NEW v \in Nat PROVE \E t : IsTree(j, t, v)
<1> DEFINE S == {k \in Nat : \E t : IsTree(j, t, k)}
<1>1. 0 \in S
  <2>1. IsTree(j, [i \in 0 .. 0 |-> [n \in Names |-> 0]], 0)
    BY DEF IsTree
  <2> QED
    BY <2>1
<1>2. \A k \in Nat : k \in S => k + 1 \in S
  BY TreeLonger
<1> HIDE DEF S
<1>3. v \in S
  BY <1>1, <1>2, AllNumbers
<1> QED
  BY <1>3 DEF S

(* Two functions agree as far as both of them and the patches go.          *)
LEMMA TreesAgree ==
  ASSUME NEW j, NEW k, NEW v \in Nat, NEW w \in Nat, v <= w, NEW t, IsTree(j, t, v), NEW u, IsTree(k, u, w),
         \A x : \A i \in 1 .. v : After(j, x, i) = After(k, x, i)
  PROVE  t[v] = u[v]
<1> DEFINE S == {i \in Nat : i <= v => t[i] = u[i]}
<1>1. \A i \in 0 .. v : t[i] = IF i = 0 THEN [n \in Names |-> 0] ELSE After(j, t[i - 1], i)
  BY DEF IsTree
<1>2. \A i \in 0 .. w : u[i] = IF i = 0 THEN [n \in Names |-> 0] ELSE After(k, u[i - 1], i)
  BY DEF IsTree
<1>3. 0 \in S
  BY <1>1, <1>2
<1>4. ASSUME NEW i \in Nat, i \in S PROVE i + 1 \in S
  <2> SUFFICES ASSUME i + 1 <= v PROVE t[i + 1] = u[i + 1]
    OBVIOUS
  <2>1. i + 1 \in 1 .. v /\ i + 1 \in 0 .. v /\ i + 1 \in 0 .. w /\ i + 1 # 0 /\ i + 1 - 1 = i /\ t[i] = u[i]
    BY <1>4
  <2>2. t[i + 1] = After(j, t[i], i + 1) /\ u[i + 1] = After(k, u[i], i + 1)
    BY <1>1, <1>2, <2>1
  <2> QED
    BY <2>1, <2>2
<1>5. \A i \in Nat : i \in S => i + 1 \in S
  BY <1>4
<1> HIDE DEF S
<1>6. v \in S
  BY <1>3, <1>5, AllNumbers
<1> QED
  BY <1>6 DEF S

LEMMA TreeValue ==
  ASSUME NEW v \in Nat PROVE \E t : IsTree(sj, t, v) /\ Tree(v) = t[v]
<1> DEFINE t == CHOOSE t : t = [i \in 0 .. v |-> IF i = 0 THEN [n \in Names |-> 0]
                                  ELSE IF sj[i].act = "+" THEN [t[i - 1] EXCEPT ![sj[i].name] = sj[i].dir]
                                  ELSE Unlinked(t[i - 1], SubSeq(sj, 1, i - 1), sj[i].target)]
<1>1. IsTree(sj, t, v)
  BY TreeExists DEF IsTree, After
<1>2. Tree(v) = t[v]
  BY DEF Tree
<1> QED
  BY <1>1, <1>2

(* The same of the next state.                                             *)
LEMMA TreeValueNext ==
  ASSUME NEW v \in Nat PROVE \E t : IsTree(sj', t, v) /\ Tree(v)' = t[v]
<1> DEFINE t == CHOOSE t : t = [i \in 0 .. v |-> IF i = 0 THEN [n \in Names |-> 0]
                                  ELSE IF sj'[i].act = "+" THEN [t[i - 1] EXCEPT ![sj'[i].name] = sj'[i].dir]
                                  ELSE Unlinked(t[i - 1], SubSeq(sj', 1, i - 1), sj'[i].target)]
<1>1. IsTree(sj', t, v)
  BY TreeExists DEF IsTree, After
<1>2. Tree(v)' = t[v]
  BY DEF Tree, Unlinked, Erased
<1> QED
  BY <1>1, <1>2

(* One patch more.                                                         *)
LEMMA TreeStep ==
  ASSUME NEW v \in Nat PROVE Tree(v + 1) = After(sj, Tree(v), v + 1)
<1>1. PICK t : IsTree(sj, t, v) /\ Tree(v) = t[v]
  BY TreeValue
<1>2. PICK u : IsTree(sj, u, v + 1) /\ Tree(v + 1) = u[v + 1]
  BY TreeValue
<1>3. t[v] = u[v]
  BY <1>1, <1>2, TreesAgree
<1>4. u[v + 1] = After(sj, u[v], v + 1)
  BY <1>2 DEF IsTree
<1> QED
  BY <1>1, <1>2, <1>3, <1>4

LEMMA TreeZero == Tree(0) = [n \in Names |-> 0]
<1>1. PICK t : IsTree(sj, t, 0) /\ Tree(0) = t[0]
  BY TreeValue
<1> QED
  BY <1>1 DEF IsTree

(* The server's mdir: every removal targets an addition before it.         *)
AddPatch == [act : {"+"}, name : Names, dir : Dirs]
RemPatch == [act : {"-"}, target : Nat]

Extends(j, k) == Len(j) <= Len(k) /\ \A i \in 1 .. Len(j) : k[i] = j[i]

(* The server only adds patches, so what the first of them say stays.      *)
LEMMA TreeStays ==
  ASSUME sj \in Seq(AddPatch \cup RemPatch), sj' \in Seq(AddPatch \cup RemPatch), Extends(sj, sj'),
         NEW v \in 0 .. Len(sj)
  PROVE  Tree(v)' = Tree(v)
<1>1. PICK t : IsTree(sj, t, v) /\ Tree(v) = t[v]
  BY TreeValue
<1>2. PICK u : IsTree(sj', u, v) /\ Tree(v)' = u[v]
  BY TreeValueNext
<1>3. ASSUME NEW i \in 1 .. v, NEW x PROVE After(sj, x, i) = After(sj', x, i)
  <2>1. i \in 1 .. Len(sj) /\ sj'[i] = sj[i] /\ i - 1 \in 0 .. Len(sj) /\ i - 1 \in 0 .. Len(sj')
    BY DEF Extends
  <2>2. SubSeq(sj, 1, i - 1) = SubSeq(sj', 1, i - 1)
    BY <2>1 DEF Extends
  <2> QED
    BY <2>1, <2>2 DEF After
<1> QED
  BY <1>1, <1>2, <1>3, TreesAgree

-----------------------------------------------------------------------------
(* The invariant.                                                          *)

Requests == [act : {"+"}, name : Names, dir : 0 .. MaxDirs] \cup RemPatch

Places == {"idle", "unversion", "mark", "erase", "symlink", "record", "rename", "alias", "unlink", "unlinkFail", "confirm", "dead"}

(* What mdsyncc has under way is a removal, or an addition that is not     *)
(* recorded yet.                                                           *)
Removing == {"unversion", "mark", "erase"}
Adding == {"symlink", "record", "rename", "alias", "unlink", "unlinkFail"}

LinkTypes ==
  /\ sj \in Seq(AddPatch \cup RemPatch) /\ sdirs \in 0 .. MaxDirs
  /\ link \in [Names -> Paths \cup {0}] /\ real \subseteq Paths
  /\ vers \in [Names -> Nat] /\ tmp \subseteq Requests /\ asked \subseteq Nat /\ chosen \in Nat
  /\ tseq \in 0 .. MaxTransient
  /\ applied \in 0 .. Len(sj) /\ pc \in Places /\ prev \in -MaxTransient .. 0

(* A version whose removal was asked for is an addition that the server    *)
(* has recorded.                                                           *)
AddIn(j, v) == v \in 1 .. Len(j) /\ j[v].act = "+"
IsAdd(v)    == AddIn(sj, v)
TargetsIn(j) ==
  \A i \in 1 .. Len(j) : j[i].act = "-" => j[i].target \in 1 .. i - 1 /\ AddIn(j, j[i].target)

Targets ==
  /\ TargetsIn(sj)
  /\ \A q \in tmp : q.act = "-" => IsAdd(q.target)
  /\ \A v \in asked : IsAdd(v)
  /\ chosen # 0 => IsAdd(chosen) /\ chosen <= applied

(* The marks of the journal: the targets of the removals recorded so far,  *)
(* and that of the one under way once its version file is gone.            *)
Past(v) == \E w \in 1 .. applied : sj[w].act = "-" /\ sj[w].target = v

Marks ==
  /\ \A v : Past(v) => v \in gone
  /\ \A v \in gone : Past(v) \/ /\ applied < Len(sj) /\ Patch.act = "-" /\ Patch.target = v
                                /\ vers[sj[v].name] = 0 /\ pc # "confirm"

(* Where mdsyncc is in mdir_patch: nobody but a user who asks for a        *)
(* removal takes away the link that it looked at or made.                  *)
Under ==
  /\ pc \in Adding => applied < Len(sj) /\ Patch.act = "+"
  /\ pc = "symlink" => Patch.dir \in real
  /\ pc = "record" => link[Patch.name] = Patch.dir \/ RemovalAsked(Patch.name)
  /\ pc \in {"rename", "alias", "unlink", "unlinkFail"} =>
       prev < 0 /\ (link[Patch.name] = prev \/ RemovalAsked(Patch.name))
  /\ pc \in {"alias", "unlink"} => Patch.dir \in real
  /\ pc = "confirm" =>
       IsAdd(applied) /\ (link[sj[applied].name] = sj[applied].dir \/ RemovalAsked(sj[applied].name))
  /\ pc \in Removing => applied < Len(sj) /\ Patch.act = "-" /\ (pc = "erase" <=> Patch.target \in gone)
  /\ pc = "mark" => vers[sj[Patch.target].name] = 0

(* A name that leads to a directory of the server leads to one that is     *)
(* there.                                                                  *)
LinksReal == \A n \in Names : link[n] > 0 => link[n] \in real

(* LinksFollow, where the link is the directory itself.                    *)
Excepted(n) == RemovalAsked(n) \/ Erasing(n)

Follows ==
  \A n \in Names : Tree(applied)[n] # 0 => link[n] = Tree(applied)[n] \/ Excepted(n)

VersionsTrue ==
  \A n \in Names : vers[n] # 0 =>
    /\ IsAdd(vers[n]) /\ vers[n] <= applied /\ sj[vers[n]].name = n
    /\ link[n] = sj[vers[n]].dir \/ Excepted(n)

LinkInv == LinkTypes /\ Targets /\ Marks /\ Under /\ LinksReal /\ Follows /\ VersionsTrue

-----------------------------------------------------------------------------
(* The server records a patch, or refuses the request.                     *)

LEMMA ServeEffect ==
  ASSUME LinkTypes, Targets, NEW q \in Requests, q.act = "-" => IsAdd(q.target), Serve(q)
  PROVE  /\ sj' \in Seq(AddPatch \cup RemPatch) /\ sdirs' \in 0 .. MaxDirs /\ Extends(sj, sj')
         /\ TargetsIn(sj')
<1>1. sj \in Seq(AddPatch \cup RemPatch) /\ sdirs \in 0 .. MaxDirs /\ Len(sj) \in Nat /\ MaxDirs \in Nat
  BY LinkAssumption DEF LinkTypes
<1>2. CASE UNCHANGED sj /\ sdirs' \in 0 .. MaxDirs
  BY <1>1, <1>2 DEF Extends, Targets, TargetsIn, IsAdd
<1>3. ASSUME NEW p \in AddPatch \cup RemPatch, sj' = Append(sj, p), sdirs' \in 0 .. MaxDirs,
             p.act = "-" => IsAdd(p.target)
      PROVE  /\ sj' \in Seq(AddPatch \cup RemPatch) /\ Extends(sj, sj')
             /\ TargetsIn(sj')
  <2>1. /\ sj' \in Seq(AddPatch \cup RemPatch) /\ Len(sj') = Len(sj) + 1 /\ sj'[Len(sj) + 1] = p
        /\ \A i \in 1 .. Len(sj) : sj'[i] = sj[i]
    BY <1>1, <1>3
  <2>2. Extends(sj, sj')
    BY <1>1, <2>1 DEF Extends
  <2>3. \A v : IsAdd(v) => IsAdd(v)'
    BY <1>1, <2>1 DEF IsAdd, AddIn
  <2>4. ASSUME NEW i \in 1 .. Len(sj'), sj'[i].act = "-" PROVE sj'[i].target \in 1 .. i - 1 /\ AddIn(sj', sj'[i].target)
    <3>1. CASE i = Len(sj) + 1
      BY <1>1, <1>3, <2>1, <2>3, <2>4, <3>1 DEF IsAdd, AddIn
    <3>2. CASE i \in 1 .. Len(sj)
      BY <2>1, <2>3, <2>4, <3>2 DEF Targets, TargetsIn, IsAdd
    <3> QED
      BY <1>1, <2>1, <3>1, <3>2
  <2> QED
    BY <2>1, <2>2, <2>4 DEF TargetsIn
<1>4. CASE q.act = "+"
  <2>1. q.name \in Names /\ q.dir \in 0 .. MaxDirs
    BY <1>4 DEF Requests, RemPatch
  <2>2. ServeAdd(q.name, q.dir)
    BY <1>4 DEF Serve
  <2>3. CASE q.dir = 0 /\ sdirs < MaxDirs /\ sdirs' = sdirs + 1
    <3>1. CASE UNCHANGED sj
      BY <1>1, <1>2, <2>3, <3>1
    <3>2. CASE sj' = Append(sj, [act |-> "+", name |-> q.name, dir |-> sdirs + 1])
      <4>1. [act |-> "+", name |-> q.name, dir |-> sdirs + 1] \in AddPatch
        BY <1>1, <2>1, <2>3 DEF AddPatch, Dirs
      <4> QED
        BY <1>1, <1>3, <2>3, <3>2, <4>1
    <3> QED
      BY <2>2, <2>3, <3>1, <3>2 DEF ServeAdd, Refused
  <2>4. CASE q.dir # 0 /\ UNCHANGED sdirs
    <3>1. CASE UNCHANGED sj
      BY <1>1, <1>2, <2>4, <3>1
    <3>2. CASE sj' = Append(sj, [act |-> "+", name |-> q.name, dir |-> q.dir])
      <4>1. [act |-> "+", name |-> q.name, dir |-> q.dir] \in AddPatch
        BY <1>1, <2>1, <2>4 DEF AddPatch, Dirs
      <4> QED
        BY <1>1, <1>3, <2>4, <3>2, <4>1
    <3> QED
      BY <2>2, <2>4, <3>1, <3>2 DEF ServeAdd, Refused
  <2> QED
    BY <2>2, <2>3, <2>4 DEF ServeAdd
<1>5. CASE q.act # "+"
  <2>1. q.act = "-" /\ q.target \in Nat /\ ServeRem(q.target)
    BY <1>5 DEF Requests, RemPatch, Serve
  <2>2. [act |-> "-", target |-> q.target] \in RemPatch
    BY <2>1 DEF RemPatch
  <2>3. sj' = Append(sj, [act |-> "-", target |-> q.target]) /\ sdirs' = sdirs
    BY <2>1 DEF ServeRem
  <2> QED
    BY <1>1, <1>3, <2>1, <2>2, <2>3
<1> QED
  BY <1>4, <1>5

(* A removal that was asked for stays so.                                  *)
LEMMA AskedStays ==
  ASSUME Targets, Extends(sj, sj'), asked \subseteq asked', NEW n, RemovalAsked(n) PROVE RemovalAsked(n)'
BY DEF Targets, IsAdd, AddIn, Extends, RemovalAsked

(* Erased, of the patches that the host has recorded.                      *)
LEMMA PastErased ==
  ASSUME LinkTypes, NEW v PROVE Erased(SubSeq(sj, 1, applied), v) <=> Past(v)
<1> DEFINE j == SubSeq(sj, 1, applied)
<1>1. applied \in Nat /\ applied \in 0 .. Len(sj) /\ sj \in Seq(AddPatch \cup RemPatch)
  BY DEF LinkTypes
<1>2. DOMAIN j = 1 .. applied /\ \A w \in 1 .. applied : j[w] = sj[w]
  BY <1>1
<1> HIDE DEF j
<1>3. Erased(j, v) <=> Past(v)
  BY <1>2 DEF Erased, Past
<1> QED
  BY <1>3 DEF j

(* So are the exceptions, until the next patch is recorded.                *)
LEMMA ExceptedStays ==
  ASSUME LinkTypes, Targets, sj' \in Seq(AddPatch \cup RemPatch), Extends(sj, sj'), asked \subseteq asked',
         UNCHANGED applied, NEW n, Excepted(n)
  PROVE  Excepted(n)'
<1>1. CASE RemovalAsked(n)
  BY <1>1, AskedStays DEF Excepted
<1>2. CASE Erasing(n)
  <2>1. /\ applied \in Nat /\ applied \in 0 .. Len(sj) /\ sj \in Seq(AddPatch \cup RemPatch) /\ Len(sj) \in Nat
        /\ Len(sj') \in Nat /\ Len(sj) <= Len(sj') /\ \A i \in 1 .. Len(sj) : sj'[i] = sj[i]
    BY DEF LinkTypes, Extends
  <2>2. applied < Len(sj) /\ Patch.act = "-" /\ sj[Patch.target].name = n /\ applied + 1 \in 1 .. Len(sj)
    BY <1>2, <2>1 DEF Erasing
  <2>3. Patch' = Patch /\ Patch = sj[applied + 1] /\ applied + 1 - 1 = applied
    BY <2>1, <2>2 DEF Patch
  <2>4. Patch.target \in 1 .. applied
    <3>1. sj[applied + 1].act = "-" /\ applied + 1 \in 1 .. Len(sj)
      BY <2>2, <2>3
    <3>2. sj[applied + 1].target \in 1 .. applied + 1 - 1
      <4>1. \A i \in 1 .. Len(sj) : sj[i].act = "-" => sj[i].target \in 1 .. i - 1
        BY DEF Targets, TargetsIn
      <4> QED
        BY <2>1, <3>1, <4>1
    <3> QED
      BY <2>1, <2>3, <3>2
  <2>5. sj'[Patch.target] = sj[Patch.target]
    BY <2>1, <2>4
  <2>6. SubSeq(sj', 1, applied) = SubSeq(sj, 1, applied)
    BY <2>1
  <2>7. ~ Erased(SubSeq(sj, 1, applied), Patch.target)
    BY <1>2 DEF Erasing
  <2>8. applied' < Len(sj')
    BY <2>1, <2>2
  <2>9. ~ Erased(SubSeq(sj', 1, applied'), Patch.target)
    BY <2>6, <2>7
  <2>10. Erasing(n)'
    BY <2>2, <2>3, <2>5, <2>8, <2>9 DEF Erasing, Erased
  <2> QED
    BY <2>10 DEF Excepted
<1> QED
  BY <1>1, <1>2 DEF Excepted

LEMMA ExceptedSame ==
  ASSUME LinkTypes, Targets, UNCHANGED <<sj, applied>>, asked \subseteq asked', NEW n, Excepted(n) PROVE Excepted(n)'
<1>1. sj' \in Seq(AddPatch \cup RemPatch) /\ Extends(sj, sj')
  BY DEF LinkTypes, Extends
<1> QED
  BY <1>1, ExceptedStays

(* Marks that are not touched.                                             *)
LEMMA MarksSame ==
  ASSUME LinkTypes, Targets, Marks, UNCHANGED <<sj, applied, gone>>, pc' # "confirm" \/ pc' = pc,
         \A n \in Names : vers[n] = 0 => vers'[n] = 0
  PROVE  Marks'
<1>1. \A v : Past(v)' <=> Past(v)
  BY DEF Past
<1>2. Patch' = Patch
  BY DEF Patch
<1>3. applied < Len(sj) /\ Patch.act = "-" => sj[Patch.target].name \in Names
  <2>1. applied < Len(sj) => applied + 1 \in 1 .. Len(sj) /\ applied + 1 - 1 = applied
    BY DEF LinkTypes
  <2>2. applied < Len(sj) /\ Patch.act = "-" => AddIn(sj, Patch.target)
    BY <2>1 DEF Targets, TargetsIn, Patch
  <2> QED
    BY <2>2 DEF AddIn, LinkTypes, AddPatch, RemPatch
<1> QED
  BY <1>1, <1>2, <1>3 DEF Marks

(* New patches of the server change nothing on the host.                   *)
LEMMA HostStays ==
  ASSUME LinkInv, sj' \in Seq(AddPatch \cup RemPatch), sdirs' \in 0 .. MaxDirs, Extends(sj, sj'), tmp' \subseteq tmp,
         TargetsIn(sj'),
         UNCHANGED <<link, real, alias, tseq, vers, asked, chosen, syncc>>
  PROVE  LinkInv'
<1>0. UNCHANGED <<applied, gone, pc, prev>>
  BY DEF syncc
<1>1. Len(sj) \in Nat /\ Len(sj') \in Nat /\ Len(sj) <= Len(sj') /\ applied \in 0 .. Len(sj)
  BY DEF LinkInv, LinkTypes, Extends
<1>2. LinkTypes'
  BY <1>0, <1>1 DEF LinkInv, LinkTypes
<1>3. \A v : IsAdd(v) => IsAdd(v)' /\ sj'[v] = sj[v]
  BY <1>1 DEF IsAdd, AddIn, Extends
<1>4. Targets'
  BY <1>0, <1>3 DEF LinkInv, Targets
<1>5. \A n : RemovalAsked(n) => RemovalAsked(n)'
  BY AskedStays DEF LinkInv
<1>6. applied < Len(sj) => Patch' = Patch /\ applied' < Len(sj')
  BY <1>0, <1>1 DEF Patch, Extends
<1>7. Under'
  <2>1. applied < Len(sj) /\ Patch.act = "-" => IsAdd(Patch.target)
    <3>1. applied < Len(sj) => applied + 1 \in 1 .. Len(sj)
      BY <1>1
    <3> QED
      BY <3>1 DEF LinkInv, Targets, TargetsIn, Patch, IsAdd
  <2> QED
    BY <1>0, <1>3, <1>5, <1>6, <2>1 DEF LinkInv, Under, Adding, Removing
<1>8. Tree(applied)' = Tree(applied)
  BY <1>0, <1>1, TreeStays DEF LinkInv, LinkTypes
<1>10. \A n : Excepted(n) => Excepted(n)'
  BY <1>0, ExceptedStays DEF LinkInv
<1>11. Marks'
  <2>1. \A v : Past(v)' <=> Past(v)
    BY <1>0, <1>1 DEF Past, Extends
  <2>2. applied < Len(sj) /\ Patch.act = "-" => IsAdd(Patch.target)
    <3>1. applied < Len(sj) => applied + 1 \in 1 .. Len(sj)
      BY <1>1
    <3> QED
      BY <3>1 DEF LinkInv, Targets, TargetsIn, Patch, IsAdd
  <2> QED
    BY <1>0, <1>3, <1>6, <2>1, <2>2 DEF LinkInv, Marks
<1>9. LinksReal' /\ Follows' /\ VersionsTrue'
  BY <1>0, <1>3, <1>8, <1>10 DEF LinkInv, LinksReal, Follows, VersionsTrue
<1> QED
  BY <1>2, <1>4, <1>7, <1>9, <1>11 DEF LinkInv

LEMMA ServerKeeps ==
  ASSUME LinkInv, OtherRequest \/ \E q \in tmp : SendRequest(q) PROVE LinkInv'
<1>1. LinkTypes /\ Targets
  BY DEF LinkInv
<1>2. ASSUME NEW q \in Requests, q.act = "-" => IsAdd(q.target), Serve(q), tmp' \subseteq tmp,
             UNCHANGED <<link, real, alias, tseq, vers, asked, chosen, syncc>>
      PROVE  LinkInv'
  BY <1>1, <1>2, ServeEffect, HostStays
<1>3. CASE \E q \in tmp : SendRequest(q)
  BY <1>1, <1>2, <1>3 DEF SendRequest, LinkTypes, Targets
<1>4. CASE OtherRequest
  <2>1. tmp' \subseteq tmp /\ UNCHANGED <<link, real, alias, tseq, vers, asked, chosen, syncc>>
    BY <1>4 DEF OtherRequest, host
  <2>2. CASE \E n \in Names, d \in 0 .. sdirs : Serve([act |-> "+", name |-> n, dir |-> d])
    <3>1. PICK n \in Names, d \in 0 .. sdirs : Serve([act |-> "+", name |-> n, dir |-> d])
      BY <2>2
    <3>2. d \in 0 .. MaxDirs
      BY <1>1, LinkAssumption DEF LinkTypes
    <3>3. [act |-> "+", name |-> n, dir |-> d] \in Requests
      BY <3>2 DEF Requests
    <3> QED
      BY <1>2, <2>1, <3>1, <3>3
  <2>3. CASE \E v \in DOMAIN sj : sj[v].act = "+" /\ Serve([act |-> "-", target |-> v])
    <3>1. PICK v \in DOMAIN sj : sj[v].act = "+" /\ Serve([act |-> "-", target |-> v])
      BY <2>3
    <3>2. IsAdd(v) /\ v \in Nat
      BY <1>1, <3>1 DEF IsAdd, AddIn, LinkTypes
    <3>3. [act |-> "-", target |-> v] \in Requests
      BY <3>2 DEF Requests, RemPatch
    <3> QED
      BY <1>2, <2>1, <3>1, <3>2, <3>3
  <2> QED
    BY <1>4, <2>2, <2>3 DEF OtherRequest
<1> QED
  BY <1>3, <1>4

-----------------------------------------------------------------------------
(* Requests of programs of this host.                                      *)

(* A name gets a link where it had none, or keeps the one it has.          *)
LEMMA LinkKeeps ==
  ASSUME LinkInv, LinkTypes', UNCHANGED <<server, vers, asked, chosen, syncc>>, real \subseteq real',
         \A q \in tmp' \ tmp : q.act = "+",
         \A n \in Names : link'[n] = link[n] \/ (link[n] = 0 /\ (link'[n] > 0 => link'[n] \in real'))
  PROVE  LinkInv'
<1>0. UNCHANGED <<sj, applied, gone, pc, prev>>
  BY DEF syncc, server
<1>1. Targets'
  BY <1>0 DEF LinkInv, Targets, TargetsIn, IsAdd
<1>2. \A n : RemovalAsked(n)' <=> RemovalAsked(n)
  BY <1>0 DEF RemovalAsked
<1>10. \A n : Excepted(n) => Excepted(n)'
  BY <1>0, ExceptedSame DEF LinkInv
<1>11. Marks'
  BY <1>0, MarksSame DEF LinkInv
<1>3. Patch' = Patch
  BY <1>0 DEF Patch
<1>4. LinksReal'
  BY DEF LinkInv, LinksReal
<1>5. \A v \in 1 .. Len(sj) : sj[v].act = "+" => sj[v].name \in Names /\ sj[v].dir # 0
  BY LinkAssumption DEF LinkInv, LinkTypes, AddPatch, RemPatch, Dirs
<1>6. VersionsTrue'
  BY <1>0, <1>5, <1>10 DEF LinkInv, VersionsTrue, IsAdd, AddIn
<1>7. Tree(applied)' = Tree(applied)
  BY <1>0, TreeStays DEF LinkInv, LinkTypes, Extends
<1>8. Follows'
  BY <1>0, <1>7, <1>10 DEF LinkInv, Follows
<1>9. Under'
  <2>1. applied \in Nat /\ Len(sj) \in Nat /\ (applied < Len(sj) => applied + 1 \in 1 .. Len(sj))
    BY DEF LinkInv, LinkTypes
  <2>2. pc \in Adding => Patch.name \in Names /\ Patch.dir # 0
    BY <1>5, <2>1 DEF LinkInv, Under, Patch
  <2>3. pc \in Adding => applied < Len(sj) /\ Patch.act = "+"
    BY DEF LinkInv, Under
  <2>4. pc = "symlink" => Patch.dir \in real'
    BY DEF LinkInv, Under
  <2>5. pc = "record" => link'[Patch.name] = Patch.dir \/ RemovalAsked(Patch.name)
    BY <2>2 DEF LinkInv, Under, Adding
  <2>6. pc \in {"rename", "alias", "unlink", "unlinkFail"} =>
          prev < 0 /\ (link'[Patch.name] = prev \/ RemovalAsked(Patch.name))
    <3>1. pc \in {"rename", "alias", "unlink", "unlinkFail"} => prev # 0
      BY DEF LinkInv, Under, LinkTypes
    <3> QED
      BY <2>2, <3>1 DEF LinkInv, Under, Adding
  <2>7. pc \in {"alias", "unlink"} => Patch.dir \in real'
    BY DEF LinkInv, Under
  <2>8. pc = "confirm" =>
          IsAdd(applied) /\ (link'[sj[applied].name] = sj[applied].dir \/ RemovalAsked(sj[applied].name))
    BY <1>5 DEF LinkInv, Under, IsAdd, AddIn
  <2>9. /\ pc \in Removing => applied < Len(sj) /\ Patch.act = "-" /\ (pc = "erase" <=> Patch.target \in gone)
        /\ pc = "mark" => vers[sj[Patch.target].name] = 0
    BY DEF LinkInv, Under
  <2> QED
    BY <1>0, <1>2, <1>3, <2>3, <2>4, <2>5, <2>6, <2>7, <2>8, <2>9 DEF Under, IsAdd
<1> QED
  BY <1>1, <1>4, <1>6, <1>8, <1>9, <1>11 DEF LinkInv

LEMMA NewKeeps ==
  ASSUME LinkInv, NEW n \in Names, RequestNew(n) PROVE LinkInv'
<1>1. tseq \in 0 .. MaxTransient /\ tseq < MaxTransient /\ MaxTransient \in Nat /\ MaxDirs \in Nat
  BY LinkAssumption DEF RequestNew, LinkInv, LinkTypes
<1>2. -(tseq + 1) \in Paths /\ tseq + 1 \in 0 .. MaxTransient /\ -(tseq + 1) < 0
  BY <1>1 DEF Paths
<1>3. [act |-> "+", name |-> n, dir |-> 0] \in Requests
  BY <1>1 DEF Requests
<1>4. /\ link' \in [Names -> Paths \cup {0}] /\ tmp' \subseteq Requests /\ real' \subseteq Paths
      /\ tseq' \in 0 .. MaxTransient /\ real \subseteq real'
      /\ UNCHANGED <<server, vers, asked, chosen, syncc>>
      /\ \A m \in Names : link'[m] = link[m] \/ (link[m] = 0 /\ link'[m] = -(tseq + 1))
      /\ \A q \in tmp' \ tmp : q.act = "+"
  BY <1>2, <1>3 DEF RequestNew, LinkInv, LinkTypes
<1>5. LinkTypes'
  BY <1>4 DEF LinkInv, LinkTypes, server, syncc
<1> QED
  BY <1>2, <1>4, <1>5, LinkKeeps

LEMMA MountKeeps ==
  ASSUME LinkInv, NEW n \in Names, NEW d \in Dirs, RequestMount(n, d) PROVE LinkInv'
<1>1. [act |-> "+", name |-> n, dir |-> d] \in Requests /\ d \in Paths
  BY LinkAssumption DEF Requests, Dirs, Paths
<1>2. /\ link' \in [Names -> Paths \cup {0}] /\ tmp' \subseteq Requests
      /\ UNCHANGED <<server, real, tseq, vers, asked, chosen, syncc>>
      /\ \A m \in Names : link'[m] = link[m] \/ (link[m] = 0 /\ link'[m] = d)
      /\ \A q \in tmp' \ tmp : q.act = "+"
  BY <1>1 DEF RequestMount, LinkInv, LinkTypes
<1>3. LinkTypes'
  BY <1>2 DEF LinkInv, LinkTypes, server, syncc
<1>4. d \in real
  BY DEF RequestMount
<1> QED
  BY <1>2, <1>3, <1>4, LinkKeeps

(* What Unlinked does to a table, whether the target is removed or not.    *)
LEMMA UnlinkedTable ==
  ASSUME NEW j, NEW t, NEW v, NEW T, t \in [Names -> T], 0 \in T
  PROVE  /\ Unlinked(t, j, v) \in [Names -> T]
         /\ \A n \in Names : Unlinked(t, j, v)[n] = t[n] \/ (n = j[v].name /\ Unlinked(t, j, v)[n] = 0)
BY DEF Unlinked

LEMMA UnmountedTable ==
  ASSUME NEW t, NEW v, NEW T, t \in [Names -> T], 0 \in T
  PROVE  /\ Unmounted(t, v) \in [Names -> T]
         /\ \A n \in Names : Unmounted(t, v)[n] = IF v \notin gone /\ n = sj[v].name THEN 0 ELSE t[n]
BY DEF Unmounted

(* The user is asked to confirm a removal.                                 *)
LEMMA DialogKeeps ==
  ASSUME LinkInv, CancelRem \/ \E n \in Names : ChooseRem(n) PROVE LinkInv'
<1>0. UNCHANGED <<sj, sdirs, link, real, tseq, vers, tmp, asked, gone, applied, pc, prev>>
  BY DEF CancelRem, ChooseRem, server, syncc
<1>1. chosen' \in Nat /\ (chosen' # 0 => IsAdd(chosen') /\ chosen' <= applied)
  <2>1. CASE CancelRem
    BY <2>1 DEF CancelRem
  <2>2. CASE \E n \in Names : ChooseRem(n)
    <3>1. PICK n \in Names : ChooseRem(n)
      BY <2>2
    <3> QED
      BY <3>1 DEF ChooseRem, LinkInv, LinkTypes, VersionsTrue
  <2> QED
    BY <2>1, <2>2
<1>2. LinkTypes' /\ Targets'
  BY <1>0, <1>1 DEF LinkInv, LinkTypes, Targets, TargetsIn, IsAdd
<1>3. \A n : (RemovalAsked(n) => RemovalAsked(n)') /\ (Excepted(n) => Excepted(n)')
  BY <1>0, ExceptedSame DEF LinkInv, RemovalAsked
<1>4. Marks'
  BY <1>0, MarksSame DEF LinkInv
<1>5. Under' /\ LinksReal'
  BY <1>0, <1>3 DEF LinkInv, Under, LinksReal, Patch, IsAdd, Adding, Removing
<1>6. Tree(applied)' = Tree(applied)
  BY <1>0, TreeStays DEF LinkInv, LinkTypes, Extends
<1>7. Follows' /\ VersionsTrue'
  BY <1>0, <1>3, <1>6 DEF LinkInv, Follows, VersionsTrue, IsAdd
<1> QED
  BY <1>2, <1>4, <1>5, <1>7 DEF LinkInv

LEMMA RemKeeps ==
  ASSUME LinkInv, ConfirmRem PROVE LinkInv'
<1>v. PICK v : v = chosen
  OBVIOUS
<1>n. PICK n : n = sj[v].name
  OBVIOUS
<1>0. UNCHANGED <<sj, sdirs, real, tseq, applied, gone, pc, prev>> /\ chosen' = 0
  BY DEF ConfirmRem, server, syncc
<1>1. /\ v # 0 /\ IsAdd(v) /\ v <= applied /\ v \in 1 .. applied /\ v \in Nat /\ applied \in 0 .. Len(sj) /\ Len(sj) \in Nat
      /\ n \in Names
  BY <1>v, <1>n DEF ConfirmRem, LinkInv, Targets, LinkTypes, IsAdd, AddIn, AddPatch, RemPatch
<1>3. /\ link' = Unmounted(link, v) /\ vers' = Unmounted(vers, v)
      /\ tmp' = tmp \cup {[act |-> "-", target |-> v]} /\ asked' = asked \cup {v}
  BY <1>v DEF ConfirmRem
<1>4. link \in [Names -> Paths \cup {0}] /\ vers \in [Names -> Nat]
  BY DEF LinkInv, LinkTypes
<1>5. /\ link' \in [Names -> Paths \cup {0}]
      /\ \A m \in Names : link'[m] = link[m] \/ (m = n /\ link'[m] = 0)
  <2> DEFINE T == Paths \cup {0}
  <2>1. 0 \in T /\ link \in [Names -> T]
    BY <1>4
  <2> HIDE DEF T
  <2>2. /\ Unmounted(link, v) \in [Names -> T]
        /\ \A m \in Names : Unmounted(link, v)[m] = IF v \notin gone /\ m = sj[v].name THEN 0 ELSE link[m]
    BY <2>1, UnmountedTable
  <2> QED
    BY <1>3, <1>n, <2>2 DEF T
<1>6. /\ vers' \in [Names -> Nat]
      /\ \A m \in Names : vers'[m] = vers[m] \/ vers'[m] = 0
  <2>1. /\ Unmounted(vers, v) \in [Names -> Nat]
        /\ \A m \in Names : Unmounted(vers, v)[m] = IF v \notin gone /\ m = sj[v].name THEN 0 ELSE vers[m]
    BY <1>4, UnmountedTable
  <2> QED
    BY <1>3, <2>1
<1>7. LinkTypes'
  <2>1. [act |-> "-", target |-> v] \in Requests
    BY <1>1 DEF Requests, RemPatch
  <2> QED
    BY <1>0, <1>1, <1>3, <1>5, <1>6, <2>1 DEF LinkInv, LinkTypes
<1>8. RemovalAsked(n)' /\ \A m : RemovalAsked(m) => RemovalAsked(m)'
  <2>1. \A m : RemovalAsked(m) => RemovalAsked(m)'
    BY <1>0, <1>3 DEF RemovalAsked
  <2>2. v \in asked' /\ sj'[v].name = n
    BY <1>0, <1>3, <1>n
  <2> QED
    BY <2>1, <2>2 DEF RemovalAsked
<1>9. Targets'
  BY <1>0, <1>1, <1>3 DEF LinkInv, Targets, TargetsIn, IsAdd
<1>18. \A m : Excepted(m) => Excepted(m)'
  <2>1. asked \subseteq asked'
    BY <1>3
  <2> QED
    BY <1>0, <2>1, ExceptedSame DEF LinkInv
<1>10. \A m \in Names : link'[m] = link[m] \/ RemovalAsked(m)'
  BY <1>5, <1>8
<1>11. Patch' = Patch
  BY <1>0 DEF Patch
<1>12. \A w \in 1 .. Len(sj) : sj[w].act = "+" => sj[w].name \in Names
  BY DEF LinkInv, LinkTypes, AddPatch, RemPatch
<1>13. LinksReal'
  BY <1>0, <1>5 DEF LinkInv, LinksReal
<1>14. VersionsTrue'
  BY <1>0, <1>6, <1>10, <1>12, <1>18 DEF LinkInv, VersionsTrue, IsAdd, AddIn, Excepted
<1>15. Tree(applied)' = Tree(applied)
  BY <1>0, TreeStays DEF LinkInv, LinkTypes, Extends
<1>16. Follows'
  BY <1>0, <1>10, <1>15, <1>18 DEF LinkInv, Follows, Excepted
<1>19. Marks'
  BY <1>0, <1>6, MarksSame DEF LinkInv
<1>17. Under'
  <2>1. pc \in Adding => applied + 1 \in 1 .. Len(sj) /\ Patch.name \in Names
    BY <1>1, <1>12 DEF LinkInv, Under, Patch
  <2>2. IsAdd(applied) => sj[applied].name \in Names
    BY <1>12 DEF IsAdd, AddIn
  <2>3. pc = "mark" => vers'[sj[Patch.target].name] = 0
    <3>1. pc = "mark" => applied < Len(sj) /\ Patch.act = "-" /\ vers[sj[Patch.target].name] = 0
      BY DEF LinkInv, Under, Removing
    <3>2. applied < Len(sj) /\ Patch.act = "-" => IsAdd(Patch.target)
      <4>1. applied < Len(sj) => applied + 1 \in 1 .. Len(sj)
        BY <1>1
      <4> QED
        BY <4>1 DEF LinkInv, Targets, TargetsIn, Patch, IsAdd
    <3> QED
      BY <1>6, <1>12, <3>1, <3>2 DEF IsAdd, AddIn
  <2> QED
    BY <1>0, <1>8, <1>10, <1>11, <2>1, <2>2, <2>3 DEF LinkInv, Under, IsAdd, Adding, Removing
<1> QED
  BY <1>7, <1>9, <1>13, <1>14, <1>16, <1>17, <1>19 DEF LinkInv

-----------------------------------------------------------------------------
(* mdsyncc.                                                                *)

LEMMA UnlinkedAt ==
  ASSUME NEW j, NEW t, NEW v, DOMAIN t = Names, NEW n \in Names
  PROVE  Unlinked(t, j, v)[n] = IF ~Erased(j, v) /\ n = j[v].name THEN 0 ELSE t[n]
BY DEF Unlinked

LEMMA TreeType ==
  ASSUME LinkTypes, NEW v \in 0 .. Len(sj) PROVE Tree(v) \in [Names -> 0 .. MaxDirs]
<1> DEFINE S == {k \in Nat : k <= Len(sj) => Tree(k) \in [Names -> 0 .. MaxDirs]}
<1>1. 0 \in S
  BY TreeZero, LinkAssumption
<1>2. ASSUME NEW k \in Nat, k \in S PROVE k + 1 \in S
  <2> SUFFICES ASSUME k + 1 <= Len(sj) PROVE Tree(k + 1) \in [Names -> 0 .. MaxDirs]
    OBVIOUS
  <2>1. k + 1 \in 1 .. Len(sj) /\ Len(sj) \in Nat
    BY DEF LinkTypes
  <2>2. Tree(k) \in [Names -> 0 .. MaxDirs]
    BY <1>2, <2>1
  <2>3. sj[k + 1] \in AddPatch \cup RemPatch
    BY <2>1 DEF LinkTypes
  <2>4. Tree(k + 1) = After(sj, Tree(k), k + 1)
    BY TreeStep
  <2>5. CASE sj[k + 1].act = "+"
    <3>1. sj[k + 1].name \in Names /\ sj[k + 1].dir \in 0 .. MaxDirs
      BY <2>3, <2>5, LinkAssumption DEF AddPatch, RemPatch, Dirs
    <3>2. Tree(k + 1) = [Tree(k) EXCEPT ![sj[k + 1].name] = sj[k + 1].dir]
      BY <2>4, <2>5 DEF After
    <3> QED
      BY <2>2, <3>1, <3>2
  <2>6. CASE sj[k + 1].act # "+"
    <3>1. Tree(k + 1) = Unlinked(Tree(k), SubSeq(sj, 1, k + 1 - 1), sj[k + 1].target)
      BY <2>4, <2>6 DEF After
    <3> DEFINE T == 0 .. MaxDirs
               j == SubSeq(sj, 1, k + 1 - 1)
    <3>2. 0 \in T /\ Tree(k) \in [Names -> T]
      BY <2>2, LinkAssumption
    <3> HIDE DEF T, j
    <3>3. Unlinked(Tree(k), j, sj[k + 1].target) \in [Names -> T]
      BY <3>2, UnlinkedTable
    <3> QED
      BY <3>1, <3>3 DEF T, j
  <2> QED
    BY <2>5, <2>6
<1>3. \A k \in Nat : k \in S => k + 1 \in S
  BY <1>2
<1>4. v \in Nat /\ v <= Len(sj)
  BY DEF LinkTypes
<1> HIDE DEF S
<1>5. v \in S
  BY <1>1, <1>3, <1>4, AllNumbers
<1> QED
  BY <1>4, <1>5 DEF S

(* The patch that is next, and its own index.                              *)
LEMMA NextPatch ==
  ASSUME LinkInv, applied < Len(sj)
  PROVE  /\ applied \in Nat /\ Len(sj) \in Nat /\ applied + 1 \in 1 .. Len(sj) /\ Patch = sj[applied + 1]
         /\ Patch.act = "+" => Patch.name \in Names /\ Patch.dir \in Dirs /\ IsAdd(applied + 1)
         /\ Patch.act # "+" => /\ Patch.act = "-" /\ Patch.target \in 1 .. applied /\ IsAdd(Patch.target)
                               /\ sj[Patch.target].name \in Names
<1>1. applied \in Nat /\ Len(sj) \in Nat /\ applied + 1 \in 1 .. Len(sj) /\ Patch = sj[applied + 1]
  BY DEF LinkInv, LinkTypes, Patch
<1>2. \A i \in 1 .. Len(sj) : sj[i] \in AddPatch \cup RemPatch
  BY DEF LinkInv, LinkTypes
<1>3. Patch.act # "+" => Patch.act = "-" /\ Patch.target \in 1 .. applied /\ IsAdd(Patch.target)
  <2>1. applied + 1 - 1 = applied
    BY <1>1
  <2> QED
    BY <1>1, <1>2, <2>1 DEF AddPatch, RemPatch, LinkInv, Targets, TargetsIn, IsAdd
<1> QED
  BY <1>1, <1>2, <1>3 DEF AddPatch, RemPatch, IsAdd, AddIn

(* A removal takes the name and its version away, then marks the target;   *)
(* until it is recorded, the name is an exception.                         *)
LEMMA UnlinkNameKeeps ==
  ASSUME LinkInv, UnlinkName PROVE LinkInv'
<1> DEFINE v == Patch.target
           n == sj[v].name
<1>0. /\ UNCHANGED <<sj, sdirs, real, tseq, vers, tmp, asked, chosen, applied, gone, prev>>
      /\ pc = "idle" /\ applied < Len(sj) /\ Patch.act = "-" /\ link' = Unmounted(link, v)
      /\ pc' = IF v \in gone THEN "erase" ELSE "unversion"
  BY DEF UnlinkName, server
<1>1. v \in 1 .. applied /\ n \in Names
  BY <1>0, NextPatch
<1>2. link \in [Names -> Paths \cup {0}]
  BY DEF LinkInv, LinkTypes
<1>3. /\ link' \in [Names -> Paths \cup {0}]
      /\ \A m \in Names : link'[m] = IF v \notin gone /\ m = n THEN 0 ELSE link[m]
  <2> DEFINE T == Paths \cup {0}
  <2>1. 0 \in T /\ link \in [Names -> T]
    BY <1>2
  <2> HIDE DEF T
  <2>2. /\ Unmounted(link, v) \in [Names -> T]
        /\ \A m \in Names : Unmounted(link, v)[m] = IF v \notin gone /\ m = sj[v].name THEN 0 ELSE link[m]
    BY <2>1, UnmountedTable
  <2> QED
    BY <1>0, <2>2 DEF T
<1>4. LinkTypes' /\ Targets'
  BY <1>0, <1>3 DEF LinkInv, LinkTypes, Targets, TargetsIn, IsAdd, Places
<1>5. \A m : Excepted(m) => Excepted(m)'
  BY <1>0, ExceptedSame DEF LinkInv
<1>6. \A m \in Names : link'[m] = link[m] \/ Excepted(m)
  <2>1. v \notin gone => ~ Past(v)
    BY DEF LinkInv, Marks
  <2>2. v \notin gone => Erasing(n)
    BY <1>0, <2>1, PastErased DEF LinkInv, Erasing
  <2> QED
    BY <1>3, <2>2 DEF Excepted
<1>7. Marks'
  BY <1>0, MarksSame DEF LinkInv
<1>8. Under'
  BY <1>0 DEF Under, Adding, Removing, Patch
<1>9. LinksReal'
  BY <1>0, <1>3 DEF LinkInv, LinksReal
<1>10. Tree(applied)' = Tree(applied)
  BY <1>0, TreeStays DEF LinkInv, LinkTypes, Extends
<1>11. Follows' /\ VersionsTrue'
  BY <1>0, <1>5, <1>6, <1>10 DEF LinkInv, Follows, VersionsTrue, IsAdd
<1> QED
  BY <1>4, <1>7, <1>8, <1>9, <1>11 DEF LinkInv

LEMMA UnlinkVersionKeeps ==
  ASSUME LinkInv, UnlinkVersion PROVE LinkInv'
<1> DEFINE v == Patch.target
           n == sj[v].name
<1>0. /\ UNCHANGED <<sj, sdirs, link, real, tseq, tmp, asked, chosen, applied, gone, prev>>
      /\ pc = "unversion" /\ pc' = "mark" /\ vers' = [vers EXCEPT ![n] = 0]
  BY DEF UnlinkVersion, Step, server
<1>1. applied < Len(sj) /\ Patch.act = "-" /\ v \notin gone
  BY <1>0 DEF LinkInv, Under, Removing
<1>2. v \in 1 .. applied /\ n \in Names /\ vers \in [Names -> Nat]
  BY <1>1, NextPatch DEF LinkInv, LinkTypes
<1>3. vers' \in [Names -> Nat] /\ \A m \in Names : vers'[m] = IF m = n THEN 0 ELSE vers[m]
  BY <1>0, <1>2
<1>4. LinkTypes' /\ Targets' /\ LinksReal'
  BY <1>0, <1>3 DEF LinkInv, LinkTypes, Targets, TargetsIn, IsAdd, Places, LinksReal
<1>5. \A m : Excepted(m) => Excepted(m)'
  BY <1>0, ExceptedSame DEF LinkInv
<1>6. Marks'
  BY <1>0, <1>3, MarksSame DEF LinkInv
<1>7. Under'
  BY <1>0, <1>1, <1>2, <1>3 DEF Under, Adding, Removing, Patch
<1>8. Tree(applied)' = Tree(applied)
  BY <1>0, TreeStays DEF LinkInv, LinkTypes, Extends
<1>9. Follows' /\ VersionsTrue'
  BY <1>0, <1>3, <1>5, <1>8 DEF LinkInv, Follows, VersionsTrue, IsAdd
<1> QED
  BY <1>4, <1>6, <1>7, <1>9 DEF LinkInv

LEMMA MarkKeeps ==
  ASSUME LinkInv, jnl_mark_del PROVE LinkInv'
<1>0. /\ UNCHANGED <<sj, sdirs, link, real, tseq, vers, tmp, asked, chosen, applied, prev>>
      /\ pc = "mark" /\ pc' = "erase" /\ gone' = gone \cup {Patch.target}
  BY DEF jnl_mark_del, Step, server, host
<1>1. applied < Len(sj) /\ Patch.act = "-" /\ vers[sj[Patch.target].name] = 0
  BY <1>0 DEF LinkInv, Under, Removing
<1>2. LinkTypes' /\ Targets' /\ LinksReal'
  BY <1>0 DEF LinkInv, LinkTypes, Targets, TargetsIn, IsAdd, Places, LinksReal
<1>3. \A m : Excepted(m) => Excepted(m)'
  BY <1>0, ExceptedSame DEF LinkInv
<1>4. Patch' = Patch /\ \A v : Past(v)' <=> Past(v)
  BY <1>0 DEF Patch, Past
<1>5. Marks'
  BY <1>0, <1>1, <1>4 DEF LinkInv, Marks
<1>6. Under'
  BY <1>0, <1>1, <1>4 DEF Under, Adding, Removing
<1>7. Tree(applied)' = Tree(applied)
  BY <1>0, TreeStays DEF LinkInv, LinkTypes, Extends
<1>8. Follows' /\ VersionsTrue'
  BY <1>0, <1>3, <1>7 DEF LinkInv, Follows, VersionsTrue, IsAdd
<1> QED
  BY <1>2, <1>5, <1>6, <1>8 DEF LinkInv

LEMMA RecordRemKeeps ==
  ASSUME LinkInv, RecordRem PROVE LinkInv'
<1> DEFINE v == Patch.target
           known == SubSeq(sj, 1, applied)
<1>0. /\ UNCHANGED <<sj, sdirs, link, real, tseq, vers, tmp, asked, chosen, gone, prev>>
      /\ pc = "erase" /\ pc' = "idle" /\ applied' = applied + 1
  BY DEF RecordRem, Step, server, host
<1>1. applied < Len(sj) /\ Patch.act = "-" /\ v \in gone
  BY <1>0 DEF LinkInv, Under, Removing
<1>2. /\ applied \in Nat /\ Len(sj) \in Nat /\ applied + 1 \in 1 .. Len(sj) /\ Patch = sj[applied + 1]
      /\ v \in 1 .. applied /\ sj[v].name \in Names
  BY <1>1, NextPatch
<1>3. known[v] = sj[v] /\ applied + 1 - 1 = applied /\ Tree(applied) \in [Names -> 0 .. MaxDirs]
  BY <1>2, TreeType DEF LinkInv, LinkTypes
<1>4. Tree(applied)' = Unlinked(Tree(applied), known, v)
  <2>1. Tree(applied)' = Tree(applied + 1)
    BY <1>0, <1>2, TreeStays DEF LinkInv, LinkTypes, Extends
  <2>2. Tree(applied + 1) = After(sj, Tree(applied), applied + 1)
    BY <1>2, TreeStep
  <2> QED
    BY <1>1, <1>2, <1>3, <2>1, <2>2 DEF After
<1>5. Erased(known, v) <=> Past(v)
  BY PastErased DEF LinkInv
<1> HIDE DEF known
<1>6. \A n \in Names : Tree(applied)'[n] = IF ~Past(v) /\ n = sj[v].name THEN 0 ELSE Tree(applied)[n]
  <2>1. DOMAIN Tree(applied) = Names
    BY <1>3
  <2> QED
    BY <1>3, <1>4, <1>5, <2>1, UnlinkedAt
<1> HIDE DEF v
<1>7. /\ \A n : RemovalAsked(n)' <=> RemovalAsked(n)
      /\ \A n : Excepted(n) => RemovalAsked(n) \/ (~Past(v) /\ n = sj[v].name)
  BY <1>0, <1>1, PastErased DEF LinkInv, RemovalAsked, Excepted, Erasing, v
<1>8. LinkTypes'
  BY <1>0, <1>2 DEF LinkInv, LinkTypes, Places
<1>9. Targets' /\ LinksReal'
  <2>1. chosen # 0 => chosen <= applied + 1
    BY <1>2 DEF LinkInv, Targets, LinkTypes
  <2> QED
    BY <1>0, <2>1 DEF LinkInv, Targets, TargetsIn, IsAdd, LinksReal
<1>10. \A w : Past(w)' <=> Past(w) \/ w = v
  <2>1. 1 .. applied + 1 = (1 .. applied) \cup {applied + 1} /\ sj[applied + 1].act = "-" /\ sj[applied + 1].target = v
    BY <1>1, <1>2 DEF v
  <2> QED
    BY <1>0, <2>1 DEF Past
<1>11. Marks'
  <2>1. \A w \in gone : Past(w)'
    BY <1>10 DEF LinkInv, Marks, v
  <2>2. \A w : Past(w)' => w \in gone
    BY <1>1, <1>10 DEF LinkInv, Marks
  <2> QED
    BY <1>0, <2>1, <2>2 DEF Marks
<1>12. Under'
  BY <1>0 DEF Under, Adding, Removing
<1>13. Follows'
  BY <1>0, <1>6, <1>7 DEF LinkInv, Follows, Excepted
<1>14. ~Past(v) => vers[sj[v].name] = 0
  BY <1>1 DEF LinkInv, Marks
<1>15. VersionsTrue'
  <2>1. \A n \in Names : vers[n] \in Nat /\ (vers[n] <= applied => vers[n] <= applied + 1)
    BY <1>2 DEF LinkInv, LinkTypes
  <2> QED
    BY <1>0, <1>7, <1>14, <2>1 DEF LinkInv, VersionsTrue, IsAdd, Excepted
<1> QED
  BY <1>8, <1>9, <1>11, <1>12, <1>13, <1>15 DEF LinkInv

(* A step inside mdir_patch that records nothing and touches no link:      *)
(* what remains to show is where mdsyncc is.                               *)
LEMMA StepKeeps ==
  ASSUME LinkInv, UNCHANGED <<sj, sdirs, link, tseq, vers, tmp, asked, chosen, gone, applied>>,
         real' \subseteq Paths, \A d \in real : d > 0 => d \in real',
         pc' \in Places, pc' # "confirm" \/ pc' = pc, prev' \in -MaxTransient .. 0, Under'
  PROVE  LinkInv'
<1>1. LinkTypes'
  BY DEF LinkInv, LinkTypes
<1>2. Targets' /\ \A n : Excepted(n) => Excepted(n)'
  BY ExceptedSame DEF LinkInv, Targets, TargetsIn, IsAdd
<1>6. Marks'
  BY MarksSame DEF LinkInv
<1>3. LinksReal'
  BY DEF LinkInv, LinksReal
<1>4. Tree(applied)' = Tree(applied)
  BY TreeStays DEF LinkInv, LinkTypes, Extends
<1>5. Follows' /\ VersionsTrue'
  BY <1>2, <1>4 DEF LinkInv, Follows, VersionsTrue, IsAdd
<1> QED
  BY <1>1, <1>2, <1>3, <1>5, <1>6 DEF LinkInv

LEMMA LookKeeps ==
  ASSUME LinkInv, mdir_link PROVE LinkInv'
<1>0. UNCHANGED <<sj, sdirs, link, tseq, vers, tmp, asked, chosen, gone, applied>> /\ pc = "idle" /\ applied < Len(sj) /\ Patch.act = "+"
  BY DEF mdir_link, server
<1>1. /\ Patch.name \in Names /\ Patch.dir \in Dirs /\ Dirs \subseteq Paths
      /\ link[Patch.name] \in Paths \cup {0} /\ prev \in -MaxTransient .. 0 /\ real \subseteq Paths
  BY <1>0, NextPatch DEF LinkInv, LinkTypes, Paths
<1>2. Patch' = Patch
  BY <1>0 DEF Patch
<1>3. CASE pc' = "symlink" /\ real' = real \cup {Patch.dir} /\ UNCHANGED prev
  <2>1. Under'
    BY <1>0, <1>2, <1>3 DEF Under, Adding, Removing
  <2> QED
    BY <1>0, <1>1, <1>3, <2>1, StepKeeps DEF Places
<1>4. CASE pc' = "record" /\ UNCHANGED <<real, prev>> /\ link[Patch.name] = Patch.dir
  <2>1. Under'
    BY <1>0, <1>2, <1>4 DEF Under, Adding, Removing
  <2> QED
    BY <1>0, <1>1, <1>4, <2>1, StepKeeps DEF Places
<1>5. CASE Fail /\ UNCHANGED real
  <2>1. pc' = "dead" /\ prev' = 0
    BY <1>5 DEF Fail
  <2>2. Under'
    BY <2>1 DEF Under, Adding, Removing
  <2>3. 0 \in -MaxTransient .. 0
    BY LinkAssumption
  <2> QED
    BY <1>0, <1>1, <1>5, <2>1, <2>2, <2>3, StepKeeps DEF Places
<1>6. CASE link[Patch.name] < 0 /\ pc' = "rename" /\ prev' = link[Patch.name] /\ UNCHANGED real
  <2>1. prev' \in -MaxTransient .. 0 /\ prev' < 0
    BY <1>1, <1>6, LinkAssumption DEF Paths, Dirs
  <2>2. Under'
    BY <1>0, <1>2, <1>6, <2>1 DEF Under, Adding, Removing
  <2> QED
    BY <1>0, <1>1, <1>6, <2>1, <2>2, StepKeeps DEF Places
<1> QED
  BY <1>3, <1>4, <1>5, <1>6 DEF mdir_link

LEMMA RenameKeeps ==
  ASSUME LinkInv, Rename \/ LeaveAlias PROVE LinkInv'
<1>0. UNCHANGED <<sj, sdirs, link, tseq, vers, tmp, asked, chosen, gone, applied, prev>> /\ pc \in {"rename", "alias"}
  BY DEF Rename, LeaveAlias, server
<1>1. /\ applied < Len(sj) /\ Patch.act = "+" /\ prev < 0 /\ prev \in -MaxTransient .. 0 /\ real \subseteq Paths
      /\ link[Patch.name] = prev \/ RemovalAsked(Patch.name)
      /\ pc = "alias" => Patch.dir \in real
  BY <1>0 DEF LinkInv, LinkTypes, Under, Adding
<1>2. Patch.dir \in Dirs /\ Dirs \subseteq Paths /\ Patch' = Patch
  BY <1>0, <1>1, NextPatch DEF Paths, Patch
<1>3. /\ pc' \in {"alias", "unlink", "unlinkFail"} /\ real' \subseteq real \cup {Patch.dir}
      /\ \A d \in real : d > 0 => d \in real'
      /\ pc' \in {"alias", "unlink"} => Patch.dir \in real'
  <2>1. CASE Rename
    BY <1>1, <2>1 DEF Rename
  <2>2. CASE LeaveAlias
    BY <1>1, <2>2 DEF LeaveAlias
  <2> QED
    BY <2>1, <2>2
<1>4. RemovalAsked(Patch.name)' <=> RemovalAsked(Patch.name)
  BY <1>0, <1>2 DEF RemovalAsked
<1>5. Under'
  BY <1>0, <1>1, <1>2, <1>3, <1>4 DEF Under, Adding, Removing
<1> QED
  BY <1>0, <1>1, <1>2, <1>3, <1>5, StepKeeps DEF Places

(* The link of the patch goes or comes.  The name leads nowhere in the     *)
(* links of the patches recorded so far, unless its removal was asked for. *)
LEMMA LinkChanges ==
  ASSUME LinkInv, UNCHANGED <<sj, sdirs, real, tseq, vers, tmp, asked, chosen, gone, applied>>,
         applied < Len(sj), Patch.act = "+", NEW d \in Paths \cup {0}, d > 0 => d \in real,
         link' = [link EXCEPT ![Patch.name] = d],
         link[Patch.name] <= 0 \/ RemovalAsked(Patch.name),
         pc' \in Places, pc' # "confirm", prev' \in -MaxTransient .. 0, Under'
  PROVE  LinkInv'
<1>1. Patch.name \in Names /\ link \in [Names -> Paths \cup {0}] /\ applied \in 0 .. Len(sj)
  BY NextPatch DEF LinkInv, LinkTypes
<1>2. \A n \in Names : link'[n] = IF n = Patch.name THEN d ELSE link[n]
  BY <1>1
<1>3. LinkTypes'
  BY <1>1 DEF LinkInv, LinkTypes
<1>4. Targets' /\ \A n : Excepted(n) => Excepted(n)'
  BY ExceptedSame DEF LinkInv, Targets, TargetsIn, IsAdd
<1>11. Marks'
  BY MarksSame DEF LinkInv
<1>12. \A n : ~Erasing(n) /\ (Excepted(n) <=> RemovalAsked(n))
  BY DEF Erasing, Excepted
<1>5. LinksReal'
  BY <1>2 DEF LinkInv, LinksReal
<1>6. Tree(applied)' = Tree(applied)
  BY TreeStays DEF LinkInv, LinkTypes, Extends
<1>7. Tree(applied) \in [Names -> 0 .. MaxDirs]
  BY <1>1, TreeType DEF LinkInv
<1>8. \A n \in Names : Tree(applied)[n] # 0 => ~ (Tree(applied)[n] <= 0)
  BY <1>7
<1>9. Follows'
  <2> SUFFICES ASSUME NEW n \in Names, Tree(applied)[n] # 0 PROVE link'[n] = Tree(applied)[n] \/ Excepted(n)
    BY <1>4, <1>6 DEF Follows
  <2>1. CASE n = Patch.name
    BY <1>8, <1>12, <2>1 DEF LinkInv, Follows
  <2>2. CASE n # Patch.name
    BY <1>2, <2>2 DEF LinkInv, Follows
  <2> QED
    BY <2>1, <2>2
<1>10. VersionsTrue'
  <2> SUFFICES ASSUME NEW n \in Names, vers[n] # 0
               PROVE  /\ IsAdd(vers[n]) /\ vers[n] <= applied /\ sj[vers[n]].name = n
                      /\ link'[n] = sj[vers[n]].dir \/ Excepted(n)
    BY <1>4 DEF VersionsTrue, IsAdd
  <2>1. /\ IsAdd(vers[n]) /\ vers[n] <= applied /\ sj[vers[n]].name = n
        /\ link[n] = sj[vers[n]].dir \/ Excepted(n)
    BY DEF LinkInv, VersionsTrue
  <2>2. ~ (sj[vers[n]].dir <= 0)
    BY <2>1, LinkAssumption DEF LinkInv, LinkTypes, IsAdd, AddIn, AddPatch, RemPatch, Dirs
  <2> QED
    BY <1>2, <1>12, <2>1, <2>2
<1> QED
  BY <1>3, <1>4, <1>5, <1>9, <1>10, <1>11 DEF LinkInv

LEMMA UnlinkKeeps ==
  ASSUME LinkInv, UnlinkPrevious PROVE LinkInv'
<1>0. /\ UNCHANGED <<sj, sdirs, real, tseq, vers, tmp, asked, chosen, gone, applied>> /\ pc \in {"unlink", "unlinkFail"}
      /\ link' = [link EXCEPT ![Patch.name] = 0]
  BY DEF UnlinkPrevious, Step, server
<1>1. /\ applied < Len(sj) /\ Patch.act = "+" /\ prev < 0 /\ prev \in -MaxTransient .. 0
      /\ link[Patch.name] = prev \/ RemovalAsked(Patch.name)
      /\ pc = "unlink" => Patch.dir \in real
  BY <1>0 DEF LinkInv, LinkTypes, Under, Adding
<1>2. Patch' = Patch
  BY <1>0 DEF Patch
<1>3. (pc = "unlink" /\ pc' = "symlink" /\ prev' = prev) \/ (pc' = "dead" /\ prev' = 0)
  BY DEF UnlinkPrevious, Step, Fail
<1>4. Under'
  BY <1>0, <1>1, <1>2, <1>3 DEF Under, Adding, Removing
<1>5. pc' \in Places /\ pc' # "confirm" /\ prev' \in -MaxTransient .. 0
  BY <1>1, <1>3, LinkAssumption DEF Places
<1>6. link[Patch.name] <= 0 \/ RemovalAsked(Patch.name)
  BY <1>1
<1>7. 0 \in Paths \cup {0} /\ (0 > 0 => 0 \in real)
  OBVIOUS
<1> QED
  BY <1>0, <1>1, <1>4, <1>5, <1>6, <1>7, LinkChanges

LEMMA SymlinkKeeps ==
  ASSUME LinkInv, Symlink PROVE LinkInv'
<1>0. UNCHANGED <<sj, sdirs, real, tseq, vers, tmp, asked, chosen, gone, applied>> /\ pc = "symlink"
  BY DEF Symlink, server
<1>1. /\ applied < Len(sj) /\ Patch.act = "+" /\ Patch.dir \in real /\ Patch.dir \in Paths /\ Patch.name \in Names
      /\ link \in [Names -> Paths \cup {0}] /\ real \subseteq Paths
  BY <1>0, NextPatch DEF LinkInv, LinkTypes, Under, Adding, Paths
<1>2. Patch' = Patch /\ 0 \in -MaxTransient .. 0
  BY <1>0, LinkAssumption DEF Patch
<1>3. CASE link[Patch.name] # 0
  <2>1. UNCHANGED link /\ pc' = "dead" /\ prev' = 0
    BY <1>3 DEF Symlink, Fail
  <2>2. Under'
    BY <2>1 DEF Under, Adding, Removing
  <2> QED
    BY <1>0, <1>1, <1>2, <2>1, <2>2, StepKeeps DEF Places
<1>4. CASE link[Patch.name] = 0
  <2>1. link' = [link EXCEPT ![Patch.name] = Patch.dir] /\ pc' = "record" /\ prev' = 0
    BY <1>4 DEF Symlink
  <2>2. link'[Patch.name] = Patch.dir
    BY <1>1, <2>1
  <2>3. Under'
    BY <1>0, <1>1, <1>2, <2>1, <2>2 DEF Under, Adding, Removing
  <2>4. Patch.dir \in Paths \cup {0} /\ link[Patch.name] <= 0 /\ pc' \in Places /\ pc' # "confirm"
    BY <1>1, <1>4, <2>1 DEF Places
  <2> QED
    BY <1>0, <1>1, <1>2, <2>1, <2>3, <2>4, LinkChanges
<1> QED
  BY <1>3, <1>4

LEMMA RecordKeeps ==
  ASSUME LinkInv, Record PROVE LinkInv'
<1>0. /\ UNCHANGED <<sj, sdirs, link, real, tseq, vers, tmp, asked, chosen, gone, prev>>
      /\ pc = "record" /\ pc' = "confirm" /\ applied' = applied + 1
  BY DEF Record, Step, server, host
<1>1. /\ applied < Len(sj) /\ Patch.act = "+" /\ (link[Patch.name] = Patch.dir \/ RemovalAsked(Patch.name))
  BY <1>0 DEF LinkInv, Under, Adding
<1>2. /\ applied \in Nat /\ Len(sj) \in Nat /\ applied + 1 \in 1 .. Len(sj) /\ Patch = sj[applied + 1]
      /\ Patch.name \in Names /\ Patch.dir \in Dirs /\ IsAdd(applied + 1)
  BY <1>1, NextPatch
<1>3. LinkTypes'
  BY <1>0, <1>2 DEF LinkInv, LinkTypes, Places
<1>10. chosen # 0 => chosen <= applied + 1
  BY <1>2 DEF LinkInv, Targets, LinkTypes
<1>4. Targets' /\ \A n : RemovalAsked(n)' <=> RemovalAsked(n)
  BY <1>0, <1>10 DEF LinkInv, Targets, TargetsIn, IsAdd, RemovalAsked
<1>11. \A n : Excepted(n) => RemovalAsked(n)
  BY <1>1 DEF Excepted, Erasing
<1>12. Marks'
  <2>1. 1 .. applied + 1 = (1 .. applied) \cup {applied + 1} /\ sj[applied + 1].act = "+"
    BY <1>1, <1>2
  <2>2. \A w : Past(w)' <=> Past(w)
    BY <1>0, <2>1 DEF Past
  <2> QED
    BY <1>0, <1>1, <2>2 DEF LinkInv, Marks
<1>5. LinksReal'
  BY <1>0 DEF LinkInv, LinksReal
<1>6. Under'
  BY <1>0, <1>1, <1>2, <1>4 DEF Under, Adding, Removing, IsAdd
<1>7. Tree(applied)' = [Tree(applied) EXCEPT ![Patch.name] = Patch.dir] /\ Tree(applied) \in [Names -> 0 .. MaxDirs]
  <2>1. Tree(applied)' = Tree(applied + 1)
    BY <1>0, <1>2, TreeStays DEF LinkInv, LinkTypes, Extends
  <2>2. Tree(applied + 1) = After(sj, Tree(applied), applied + 1)
    BY <1>2, TreeStep
  <2>3. applied \in 0 .. Len(sj)
    BY <1>2
  <2> QED
    BY <1>1, <1>2, <2>1, <2>2, <2>3, TreeType DEF After, LinkInv
<1>8. Follows'
  BY <1>0, <1>1, <1>2, <1>4, <1>7, <1>11 DEF LinkInv, Follows, Excepted
<1>9. VersionsTrue'
  <2>1. \A n \in Names : vers[n] \in Nat /\ (vers[n] <= applied => vers[n] <= applied + 1)
    BY <1>2 DEF LinkInv, LinkTypes
  <2> QED
    BY <1>0, <1>4, <1>11, <2>1 DEF LinkInv, VersionsTrue, IsAdd, Excepted
<1> QED
  BY <1>3, <1>4, <1>5, <1>6, <1>8, <1>9, <1>12 DEF LinkInv

LEMMA ConfirmKeeps ==
  ASSUME LinkInv, Confirm PROVE LinkInv'
<1>0. UNCHANGED <<sj, sdirs, link, real, tseq, tmp, asked, chosen, gone, applied>> /\ pc = "confirm"
  BY DEF Confirm, server
<1> DEFINE n == sj[applied].name
<1>1. /\ IsAdd(applied) /\ applied \in 1 .. Len(sj) /\ n \in Names /\ applied \in Nat
      /\ link[n] = sj[applied].dir \/ RemovalAsked(n)
  BY <1>0 DEF LinkInv, LinkTypes, Under, IsAdd, AddIn, AddPatch, RemPatch
<1>2. CASE pc' = "dead" /\ prev' = 0 /\ UNCHANGED vers
  <2>1. Under'
    BY <1>2 DEF Under, Adding, Removing
  <2>2. 0 \in -MaxTransient .. 0 /\ real \subseteq Paths
    BY LinkAssumption DEF LinkInv, LinkTypes
  <2> QED
    BY <1>0, <1>2, <2>1, <2>2, StepKeeps DEF Places
<1>3. CASE pc' = "idle" /\ prev' = prev /\ vers' = [vers EXCEPT ![n] = applied]
  <2>1. vers' \in [Names -> Nat] /\ \A m \in Names : vers'[m] = IF m = n THEN applied ELSE vers[m]
    BY <1>1, <1>3 DEF LinkInv, LinkTypes
  <2>2. LinkTypes'
    BY <1>0, <1>3, <2>1 DEF LinkInv, LinkTypes, Places
  <2>3. Targets' /\ LinksReal' /\ \A m : Excepted(m) => Excepted(m)'
    BY <1>0, ExceptedSame DEF LinkInv, Targets, TargetsIn, IsAdd, LinksReal
  <2>8. Marks'
    <3>1. \A w : Past(w)' <=> Past(w)
      BY <1>0 DEF Past
    <3> QED
      BY <1>0, <3>1 DEF LinkInv, Marks
  <2>4. Under'
    BY <1>3 DEF Under, Adding, Removing
  <2>5. Tree(applied)' = Tree(applied)
    BY <1>0, TreeStays DEF LinkInv, LinkTypes, Extends
  <2>6. Follows'
    BY <1>0, <2>3, <2>5 DEF LinkInv, Follows
  <2>7. VersionsTrue'
    BY <1>0, <1>1, <2>1, <2>3 DEF LinkInv, VersionsTrue, IsAdd, Excepted
  <2> QED
    BY <2>2, <2>3, <2>4, <2>6, <2>7, <2>8 DEF LinkInv
<1> QED
  BY <1>2, <1>3 DEF Confirm, Fail

LEMMA CrashKeeps ==
  ASSUME LinkInv, Crash \/ Restart PROVE LinkInv'
<1>0. UNCHANGED <<sj, sdirs, link, real, tseq, vers, tmp, asked, chosen, gone, applied>> /\ pc' \in {"dead", "idle"} /\ prev' \in {0, prev}
  BY DEF Crash, Restart, Step, Fail, server, host
<1>1. Under'
  BY <1>0 DEF Under, Adding, Removing
<1>2. prev' \in -MaxTransient .. 0 /\ real \subseteq Paths
  BY <1>0, LinkAssumption DEF LinkInv, LinkTypes
<1> QED
  BY <1>0, <1>1, <1>2, StepKeeps DEF Places

-----------------------------------------------------------------------------

LEMMA LinkInit == Init => LinkInv
<1> SUFFICES ASSUME Init PROVE LinkInv
  OBVIOUS
<1>1. LinkTypes
  BY LinkAssumption DEF Init, LinkTypes, Places
<1>2. Targets /\ Marks /\ Under /\ LinksReal /\ VersionsTrue
  BY DEF Init, Targets, TargetsIn, Marks, Past, Under, Adding, Removing, LinksReal, VersionsTrue
<1>3. Follows
  BY TreeZero DEF Init, Follows
<1> QED
  BY <1>1, <1>2, <1>3 DEF LinkInv

LEMMA LinkStep ==
  ASSUME LinkInv, [Next]_vars PROVE LinkInv'
<1>1. CASE UNCHANGED vars
  <2>1. UNCHANGED <<sj, sdirs, link, real, alias, tseq, vers, tmp, asked, chosen, gone, applied, pc, prev>>
    BY <1>1 DEF vars, server, host, syncc
  <2>2. Under'
    BY <2>1 DEF LinkInv, Under, IsAdd, Patch, RemovalAsked, Adding, Removing
  <2> QED
    BY <2>1, <2>2, StepKeeps DEF LinkInv, LinkTypes
<1>2. CASE Next
  BY <1>2, ServerKeeps, NewKeeps, MountKeeps, DialogKeeps, RemKeeps, UnlinkNameKeeps,
     UnlinkVersionKeeps, MarkKeeps, RecordRemKeeps, LookKeeps, RenameKeeps, UnlinkKeeps,
     SymlinkKeeps, RecordKeeps, ConfirmKeeps, CrashKeeps DEF Next, Reader
<1> QED
  BY <1>1, <1>2

(* The links of a host agree with the patches it has recorded, through     *)
(* requests, renamed directories and crashes between any two system calls  *)
(* of mdir_link, mdir_unlink and jnl_mark_del, but where a removal was     *)
(* requested on the host or is the next patch.                             *)
THEOREM FoldersFollow == Spec => []LinksFollow
<1>1. Init => LinkInv
  BY LinkInit
<1>2. LinkInv /\ [Next]_vars => LinkInv'
  BY LinkStep
<1>3. LinkInv => LinksFollow
  <2> SUFFICES ASSUME LinkInv, NEW n \in Names, Tree(applied)[n] # 0, ~Excepted(n)
               PROVE  Resolve(link[n]) = Tree(applied)[n]
    BY DEF LinksFollow, Excepted
  <2>1. Tree(applied)[n] > 0 /\ link[n] = Tree(applied)[n]
    BY TreeType DEF LinkInv, LinkTypes, Follows
  <2> QED
    BY <2>1 DEF LinkInv, LinksReal, Resolve
<1> QED
  BY <1>1, <1>2, <1>3, PTL DEF Spec

(* The version by which mdir_get_folder_version would have a folder        *)
(* removed is an addition under its name, and of the directory that it     *)
(* leads to but for the same two exceptions.                               *)
THEOREM RemovesRightFolder == Spec => []RemovesWhatItShows
<1>1. Init => LinkInv
  BY LinkInit
<1>2. LinkInv /\ [Next]_vars => LinkInv'
  BY LinkStep
<1>3. LinkInv => RemovesWhatItShows
  <2> SUFFICES ASSUME LinkInv, NEW n \in Names, vers[n] # 0
               PROVE  /\ vers[n] <= applied /\ sj[vers[n]].act = "+" /\ sj[vers[n]].name = n
                      /\ Resolve(link[n]) = sj[vers[n]].dir \/ Excepted(n)
    BY DEF RemovesWhatItShows, Excepted
  <2>1. IsAdd(vers[n]) /\ vers[n] <= applied /\ sj[vers[n]].name = n /\ (link[n] = sj[vers[n]].dir \/ Excepted(n))
    BY DEF LinkInv, VersionsTrue
  <2>2. sj[vers[n]].dir > 0
    BY <2>1, LinkAssumption DEF LinkInv, LinkTypes, IsAdd, AddIn, AddPatch, RemPatch, Dirs
  <2> QED
    BY <2>1, <2>2 DEF LinkInv, LinksReal, Resolve, IsAdd, AddIn
<1> QED
  BY <1>1, <1>2, <1>3, PTL DEF Spec

=============================================================================
