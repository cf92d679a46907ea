--------------------------- MODULE CommonsProofs ----------------------------
(***************************************************************************)
(* Theorems about what every program of the suite rests on: the persistent *)
(* sequences of module Persist, the stacks of errors of module Errors and  *)
(* the connections of module Cnx, for every set of processes, every set of *)
(* error codes and every bound.                                            *)
(***************************************************************************)
EXTENDS Persist, Errors, Cnx, SequenceTheorems, TLAPS

-----------------------------------------------------------------------------
(* Persistent sequences.                                                   *)

Places == {"new", "create", "fill", "ready", "read", "write", "unlock", "ended"}
Locked == {"read", "write", "unlock"}

SeqTypeOK ==
  /\ seqfile \in {Absent, Empty} \cup Nat
  /\ at \in [Processes -> Places]
  /\ count \in [Processes -> Nat]
  /\ lock \subseteq Processes
  /\ handed \in Seq(Nat)
  /\ deaths \in Nat

(* Whoever is between persist_lock and persist_unlock holds the lock.      *)
LockHeld == \A p \in Processes : at[p] \in Locked => lock = {p}

(* The file comes to be in two steps.  Before the first nobody is past     *)
(* open_or_create; between them nobody has read a number; and only the     *)
(* process that created the file fills it, if it lives that long.          *)
FileMade ==
  /\ seqfile \in {Absent, Empty} => handed = <<>>
  /\ seqfile = Absent => \A p \in Processes : at[p] \in {"new", "create"}
  /\ seqfile = Empty => \A p \in Processes : at[p] \notin {"write", "unlock"}
  /\ \A p \in Processes : at[p] = "fill" => seqfile = Empty
  /\ \A p, q \in Processes : at[p] = "fill" /\ at[q] = "fill" => p = q

(* The number that a process has read is the one of the file until it      *)
(* writes the next one.                                                    *)
CountCurrent ==
  \A p \in Processes : /\ at[p] = "write" => seqfile = count[p]
                       /\ at[p] = "unlock" => seqfile = count[p] + 1

(* The numbers handed out precede those still to come.                     *)
HandedPast ==
  \A i \in 1 .. Len(handed) : /\ handed[i] < seqfile
                              /\ \A p \in Processes : at[p] = "unlock" => handed[i] < count[p]

SeqInv == SeqTypeOK /\ LockHeld /\ FileMade /\ CountCurrent /\ HandedPast /\ SequenceRises

LEMMA SeqInitInv == SeqInit => SeqInv
BY DEF SeqInit, SeqInv, SeqTypeOK, Places, Locked, LockHeld, FileMade, CountCurrent, HandedPast,
       SequenceRises, Absent, Empty

(* A step keeps the invariant, wherever the process is.                    *)
LEMMA SeqNextInv == SeqInv /\ [SeqNext]_seqvars => SeqInv'
<1> SUFFICES ASSUME SeqInv, [SeqNext]_seqvars PROVE SeqInv'
  OBVIOUS
<1> USE DEF SeqInv, SeqTypeOK, Places, Locked, LockHeld, FileMade, CountCurrent, HandedPast,
            SequenceRises, Absent, Empty, Goes
<1>1. ASSUME NEW p \in Processes, Open(p) PROVE SeqInv'
  BY <1>1 DEF Open
<1>2. ASSUME NEW p \in Processes, Create(p) PROVE SeqInv'
  <2>1. SeqTypeOK'
    BY <1>2 DEF Create
  <2>2. LockHeld'
    BY <1>2 DEF Create
  <2>5. FileMade'
    <3>1. CASE seqfile = Absent
      <4>1. \A q \in Processes : at'[q] = IF q = p THEN "fill" ELSE at[q]
        BY <1>2, <3>1 DEF Create
      <4> QED
        BY <1>2, <3>1, <4>1 DEF Create
    <3>2. CASE seqfile # Absent
      BY <1>2, <3>2 DEF Create
    <3> QED
      BY <3>1, <3>2
  <2>3. CountCurrent'
    BY <1>2 DEF Create
  <2>4. HandedPast' /\ SequenceRises'
    BY <1>2 DEF Create
  <2> QED
    BY <2>1, <2>2, <2>3, <2>4, <2>5
<1>3. ASSUME NEW p \in Processes, Fill(p) PROVE SeqInv'
  BY <1>3 DEF Fill
<1>4. ASSUME NEW p \in Processes, persist_lock(p) PROVE SeqInv'
  BY <1>4 DEF persist_lock
<1>5. ASSUME NEW p \in Processes, persist_read(p) PROVE SeqInv'
  <2>1. SeqTypeOK'
    <3>1. seqfile = Empty \/ seqfile \in Nat
      BY <1>5 DEF persist_read
    <3> QED
      BY <1>5, <3>1, ZenonT(40) DEF persist_read
  <2>2. LockHeld'
    BY <1>5 DEF persist_read
  <2>5. FileMade'
    <3>1. CASE seqfile = Empty
      BY <1>5, <3>1 DEF persist_read
    <3>2. CASE seqfile # Empty
      BY <1>5, <3>2 DEF persist_read
    <3> QED
      BY <3>1, <3>2
  <2>3. CountCurrent'
    BY <1>5 DEF persist_read
  <2>4. HandedPast' /\ SequenceRises'
    BY <1>5 DEF persist_read
  <2> QED
    BY <2>1, <2>2, <2>3, <2>4, <2>5
<1>6. ASSUME NEW p \in Processes, persist_write(p) PROVE SeqInv'
  <2>1. SeqTypeOK'
    BY <1>6 DEF persist_write
  <2>2. LockHeld' /\ FileMade'
    BY <1>6 DEF persist_write
  <2>3. CountCurrent'
    BY <1>6 DEF persist_write
  <2>4. HandedPast' /\ SequenceRises'
    BY <1>6 DEF persist_write
  <2> QED
    BY <2>1, <2>2, <2>3, <2>4
<1>7. ASSUME NEW p \in Processes, persist_unlock(p) PROVE SeqInv'
  <2>1. SeqTypeOK'
    BY <1>7 DEF persist_unlock
  <2>2. LockHeld' /\ FileMade'
    BY <1>7 DEF persist_unlock
  <2>3. CountCurrent'
    BY <1>7 DEF persist_unlock
  <2>4. HandedPast' /\ SequenceRises'
    <3>1. /\ handed' \in Seq(Nat) /\ Len(handed') = Len(handed) + 1
          /\ \A i \in 1 .. Len(handed) : handed'[i] = handed[i]
          /\ handed'[Len(handed) + 1] = count[p]
      BY <1>7, AppendProperties DEF persist_unlock
    <3>2. \A q \in Processes : at'[q] # "unlock"
      BY <1>7 DEF persist_unlock
    <3>3. count[p] \in Nat /\ seqfile' = count[p] + 1 /\ \A i \in 1 .. Len(handed) : handed[i] < count[p]
      BY <1>7 DEF persist_unlock
    <3> HIDE DEF SeqInv, SequenceRises, HandedPast
    <3>4. Len(handed) \in Nat /\ \A i \in 1 .. Len(handed) : handed[i] \in Nat
      BY DEF SeqInv
    <3>5. HandedPast'
      BY <3>1, <3>2, <3>3, <3>4 DEF HandedPast
    <3>6. SequenceRises'
      <4>1. \A i \in 1 .. Len(handed) - 1 : handed[i] < handed[i + 1]
        BY DEF SeqInv, SequenceRises
      <4>3. ASSUME NEW i \in 1 .. Len(handed') - 1 PROVE handed'[i] < handed'[i + 1]
        <5>1. i \in Nat /\ i >= 1 /\ i <= Len(handed)
          BY <3>1, <3>4
        <5>2. CASE i = Len(handed)
          BY <3>1, <3>3, <5>1, <5>2
        <5>3. CASE i # Len(handed)
          <6>1. i \in 1 .. Len(handed) - 1 /\ i + 1 \in 1 .. Len(handed)
            BY <3>4, <5>1, <5>3
          <6> QED
            BY <3>1, <4>1, <5>1, <6>1
        <5> QED
          BY <5>2, <5>3
      <4> QED
        BY <4>3 DEF SequenceRises
    <3> QED
      BY <3>5, <3>6
  <2> QED
    BY <2>1, <2>2, <2>3, <2>4
<1>8. ASSUME NEW p \in Processes, Die(p) PROVE SeqInv'
  BY <1>8 DEF Die
<1>9. CASE UNCHANGED seqvars
  BY <1>9 DEF seqvars
<1> QED
  BY <1>1, <1>2, <1>3, <1>4, <1>5, <1>6, <1>7, <1>8, <1>9 DEF SeqNext

(* No number is handed out twice, and they rise: persist_read_inc_sequence *)
(* of any number of processes, on a file that one of them creates, with    *)
(* processes that end at any point.                                        *)
THEOREM NumbersRise == SeqInit /\ [][SeqNext]_seqvars => []SequenceRises
<1>1. SeqInv => SequenceRises
  BY DEF SeqInv
<1> QED
  BY <1>1, SeqInitInv, SeqNextInv, PTL

-----------------------------------------------------------------------------
(* Stacks of errors.                                                       *)

(* n levels were saved: each has an expected count, that of the errors     *)
(* that were there, the counts never decrease from a level to the next     *)
(* one, and there are at least as many errors as expected.                 *)
Nested(n, errors, acks, saved) ==
  /\ n \in Nat
  /\ errors \in Seq(Codes)
  /\ acks \in Seq(Nat) /\ Len(acks) = n + 1
  /\ saved \in Seq(Seq(Codes)) /\ Len(saved) = n
  /\ \A i, k \in 1 .. n + 1 : i <= k => acks[i] <= acks[k]
  /\ acks[n + 1] <= Len(errors)
  /\ \A k \in 1 .. n : /\ acks[k + 1] = Len(saved[k])
                       /\ \A i \in 1 .. Len(saved[k]) : saved[k][i] = errors[i]

ErrInv ==
  /\ eb = [errors |-> eb.errors, acks |-> eb.acks]
  /\ Nested(Len(noted), eb.errors, eb.acks, noted)

(* A sequence that agrees with another one as far as it goes is its prefix.*)
LEMMA PrefixByEntries ==
  ASSUME NEW S, NEW s \in Seq(S), NEW t \in Seq(S), Len(s) <= Len(t),
         \A i \in 1 .. Len(s) : s[i] = t[i]
  PROVE  IsPrefix(s, t)
<1>1. SubSeq(t, 1, Len(s)) \in Seq(S) /\ Len(SubSeq(t, 1, Len(s))) = Len(s)
      /\ \A i \in 1 .. Len(s) : SubSeq(t, 1, Len(s))[i] = t[i]
  BY SubSeqProperties
<1>2. s = SubSeq(t, 1, Len(s))
  BY <1>1, SeqEqual
<1> QED
  BY <1>2 DEF IsPrefix

(* The counts of a level reach its errors.                                 *)
LEMMA LevelFits ==
  ASSUME NEW n, NEW errors, NEW acks, NEW saved, Nested(n, errors, acks, saved), NEW k \in 1 .. n
  PROVE  /\ saved[k] \in Seq(Codes) /\ Len(saved[k]) \in Nat
         /\ acks[n + 1] \in Nat /\ Len(errors) \in Nat
         /\ Len(saved[k]) <= acks[n + 1] /\ Len(saved[k]) <= Len(errors)
<1>1. n \in Nat /\ k + 1 \in 1 .. n + 1 /\ n + 1 \in 1 .. n + 1 /\ k + 1 <= n + 1
  BY DEF Nested
<1>2. acks[k + 1] <= acks[n + 1] /\ acks[n + 1] <= Len(errors) /\ acks[k + 1] = Len(saved[k])
  BY <1>1 DEF Nested
<1>3. /\ saved[k] \in Seq(Codes) /\ Len(saved[k]) \in Nat
      /\ acks[n + 1] \in Nat /\ Len(errors) \in Nat
  BY <1>1 DEF Nested
<1> QED
  BY <1>2, <1>3

(* The errors may change beyond the last expected one.                     *)
LEMMA NestedErrors ==
  ASSUME NEW n, NEW errors, NEW acks, NEW saved, Nested(n, errors, acks, saved),
         NEW new \in Seq(Codes), acks[n + 1] <= Len(new),
         \A i \in 1 .. acks[n + 1] : new[i] = errors[i]
  PROVE  Nested(n, new, acks, saved)
<1>1. ASSUME NEW k \in 1 .. n, NEW i \in 1 .. Len(saved[k]) PROVE saved[k][i] = new[i]
  <2>1. i \in 1 .. acks[n + 1]
    BY LevelFits
  <2> QED
    BY <2>1 DEF Nested
<1> QED
  BY <1>1 DEF Nested

(* A level more.                                                           *)
LEMMA NestedSave ==
  ASSUME NEW n, NEW errors, NEW acks, NEW saved, Nested(n, errors, acks, saved)
  PROVE  Nested(n + 1, errors, Append(acks, Len(errors)), Append(saved, errors))
<1> DEFINE a == Append(acks, Len(errors))
           s == Append(saved, errors)
<1>1. /\ n \in Nat /\ n + 1 \in Nat /\ Len(errors) \in Nat /\ errors \in Seq(Codes)
      /\ acks \in Seq(Nat) /\ Len(acks) = n + 1 /\ saved \in Seq(Seq(Codes)) /\ Len(saved) = n
  BY DEF Nested
<1>2. /\ a \in Seq(Nat) /\ Len(a) = n + 2 /\ a[n + 2] = Len(errors)
      /\ \A k \in 1 .. n + 1 : a[k] = acks[k] /\ acks[k] \in Nat
  <2>1. /\ a \in Seq(Nat) /\ Len(a) = n + 1 + 1 /\ a[n + 1 + 1] = Len(errors)
        /\ \A k \in 1 .. n + 1 : a[k] = acks[k]
    BY <1>1, AppendProperties
  <2> QED
    BY <1>1, <2>1
<1>3. /\ s \in Seq(Seq(Codes)) /\ Len(s) = n + 1 /\ s[n + 1] = errors
      /\ \A k \in 1 .. n : s[k] = saved[k]
  BY <1>1, AppendProperties
<1> HIDE DEF a, s
<1>4. ASSUME NEW i \in 1 .. n + 2, NEW k \in 1 .. n + 2, i <= k PROVE a[i] <= a[k]
  <2>1. CASE k \in 1 .. n + 1
    <3>1. i \in 1 .. n + 1
      BY <1>1, <1>4, <2>1
    <3> QED
      BY <1>2, <1>4, <2>1, <3>1 DEF Nested
  <2>2. CASE k = n + 2 /\ i = n + 2
    BY <1>1, <1>2, <2>2
  <2>3. CASE k = n + 2 /\ i \in 1 .. n + 1
    <3>1. n + 1 \in 1 .. n + 1 /\ i <= n + 1
      BY <1>1, <2>3
    <3>2. acks[i] <= acks[n + 1] /\ acks[n + 1] <= Len(errors)
      BY <2>3, <3>1 DEF Nested
    <3>3. acks[i] \in Nat /\ acks[n + 1] \in Nat
      BY <1>2, <2>3, <3>1
    <3> QED
      BY <1>1, <1>2, <2>3, <3>2, <3>3
  <2> QED
    BY <1>1, <2>1, <2>2, <2>3
<1>5. ASSUME NEW k \in 1 .. n + 1
      PROVE  a[k + 1] = Len(s[k]) /\ \A i \in 1 .. Len(s[k]) : s[k][i] = errors[i]
  <2>1. CASE k = n + 1
    BY <1>1, <1>2, <1>3, <2>1
  <2>2. CASE k \in 1 .. n
    <3>1. k + 1 \in 1 .. n + 1
      BY <1>1, <2>2
    <3> QED
      <4>1. acks[k + 1] = Len(saved[k]) /\ \A i \in 1 .. Len(saved[k]) : saved[k][i] = errors[i]
        BY <2>2 DEF Nested
      <4> QED
        BY <1>2, <1>3, <2>2, <3>1, <4>1
  <2> QED
    BY <1>1, <2>1, <2>2
<1>6. n + 1 + 1 = n + 2 /\ a[n + 2] <= Len(errors)
  BY <1>1, <1>2
<1> QED
  BY <1>1, <1>2, <1>3, <1>4, <1>5, <1>6 DEF Nested, a, s

(* A level less.                                                           *)
LEMMA NestedFront ==
  ASSUME NEW n \in Nat, NEW errors, NEW acks, NEW saved, Nested(n + 1, errors, acks, saved)
  PROVE  Nested(n, errors, Front(acks), Front(saved))
<1> DEFINE a == Front(acks)
           s == Front(saved)
<1>1. acks \in Seq(Nat) /\ Len(acks) = n + 2 /\ saved \in Seq(Seq(Codes)) /\ Len(saved) = n + 1
  BY DEF Nested
<1>2. /\ a \in Seq(Nat) /\ Len(a) = n + 1
      /\ \A k \in 1 .. n + 1 : a[k] = acks[k] /\ acks[k] \in Nat
  <2>1. a = SubSeq(acks, 1, n + 1)
    BY <1>1 DEF Front
  <2> QED
    BY <1>1, <2>1, SubSeqProperties
<1>3. s \in Seq(Seq(Codes)) /\ Len(s) = n /\ \A k \in 1 .. n : s[k] = saved[k]
  <2>1. s = SubSeq(saved, 1, n)
    BY <1>1 DEF Front
  <2> QED
    BY <1>1, <2>1, SubSeqProperties
<1> HIDE DEF a, s
<1>4. ASSUME NEW i \in 1 .. n + 1, NEW k \in 1 .. n + 1, i <= k PROVE a[i] <= a[k]
  BY <1>2, <1>4 DEF Nested
<1>5. a[n + 1] <= Len(errors)
  <2>1. n + 1 \in 1 .. n + 2 /\ n + 2 \in 1 .. n + 2 /\ n + 1 <= n + 2 /\ n + 1 + 1 = n + 2 /\ n + 1 \in 1 .. n + 1
    OBVIOUS
  <2>2. acks[n + 1] <= acks[n + 2] /\ acks[n + 2] <= Len(errors)
    BY <2>1 DEF Nested
  <2>3. acks[n + 1] \in Nat /\ acks[n + 2] \in Nat /\ Len(errors) \in Nat
    BY <1>1, <2>1 DEF Nested
  <2> QED
    BY <1>2, <2>1, <2>2, <2>3
<1>6. ASSUME NEW k \in 1 .. n
      PROVE  a[k + 1] = Len(s[k]) /\ \A i \in 1 .. Len(s[k]) : s[k][i] = errors[i]
  <2>1. k + 1 \in 1 .. n + 1 /\ k \in 1 .. n + 1
    OBVIOUS
  <2> QED
    BY <1>2, <1>3, <2>1, ZenonT(40) DEF Nested
<1>7. errors \in Seq(Codes)
  BY DEF Nested
<1> QED
  BY <1>2, <1>3, <1>4, <1>5, <1>6, <1>7 DEF Nested, a, s

LEMMA ErrInitInv == ErrInit => ErrInv
BY DEF ErrInit, ErrInv, Nested

(* What error_clear and error_restore leave of the errors.                 *)
LEMMA ClearedTo ==
  ASSUME ErrInv
  PROVE  Nested(Len(noted), SubSeq(eb.errors, 1, nb_expected_errors), eb.acks, noted)
<1>1. /\ Nested(Len(noted), eb.errors, eb.acks, noted)
      /\ eb.errors \in Seq(Codes) /\ eb.acks \in Seq(Nat) /\ Len(eb.errors) \in Nat
      /\ Len(noted) \in Nat /\ Len(eb.acks) = Len(noted) + 1 /\ eb.acks[Len(noted) + 1] <= Len(eb.errors)
  BY DEF ErrInv, Nested
<1>2. nb_expected_errors = eb.acks[Len(noted) + 1]
  BY <1>1 DEF nb_expected_errors, Last
<1>3. eb.acks[Len(noted) + 1] \in 0 .. Len(eb.errors)
  BY <1>1
<1> DEFINE cut == SubSeq(eb.errors, 1, nb_expected_errors)
<1>4. /\ cut \in Seq(Codes) /\ Len(cut) = eb.acks[Len(noted) + 1]
      /\ \A i \in 1 .. eb.acks[Len(noted) + 1] : cut[i] = eb.errors[i]
  BY <1>1, <1>2, <1>3, SubSeqProperties
<1> QED
  <2>1. eb.acks[Len(noted) + 1] <= Len(cut)
    BY <1>1, <1>3, <1>4
  <2> HIDE DEF cut
  <2>2. Nested(Len(noted), cut, eb.acks, noted)
    BY <1>1, <1>4, <2>1, NestedErrors
  <2> QED
    BY <2>2 DEF cut

LEMMA ErrNextInv == ErrInv /\ [ErrNext]_errvars => ErrInv'
<1> SUFFICES ASSUME ErrInv, [ErrNext]_errvars PROVE ErrInv'
  OBVIOUS
<1>1. Nested(Len(noted), eb.errors, eb.acks, noted) /\ eb = [errors |-> eb.errors, acks |-> eb.acks]
  BY DEF ErrInv
<1>2. ASSUME NEW c \in Codes, error_push(c) PROVE ErrInv'
  <2>1. eb' = [errors |-> Append(eb.errors, c), acks |-> eb.acks] /\ noted' = noted
    BY <1>1, <1>2 DEF error_push
  <2>2. /\ Append(eb.errors, c) \in Seq(Codes) /\ Len(Append(eb.errors, c)) = Len(eb.errors) + 1
        /\ \A i \in 1 .. Len(eb.errors) : Append(eb.errors, c)[i] = eb.errors[i]
    BY <1>1, AppendProperties DEF Nested
  <2>3. eb.acks[Len(noted) + 1] \in Nat /\ Len(eb.errors) \in Nat /\ eb.acks[Len(noted) + 1] <= Len(eb.errors)
    BY <1>1 DEF Nested
  <2>4. /\ eb.acks[Len(noted) + 1] <= Len(Append(eb.errors, c))
        /\ \A i \in 1 .. eb.acks[Len(noted) + 1] : Append(eb.errors, c)[i] = eb.errors[i]
    BY <2>2, <2>3
  <2>5. Nested(Len(noted), Append(eb.errors, c), eb.acks, noted)
    BY <1>1, <2>2, <2>4, NestedErrors
  <2> QED
    BY <2>1, <2>5 DEF ErrInv
<1>3. CASE error_save
  <2>1. /\ eb' = [errors |-> eb.errors, acks |-> Append(eb.acks, Len(eb.errors))]
        /\ noted' = Append(noted, eb.errors)
    BY <1>1, <1>3 DEF error_save
  <2>2. Len(noted') = Len(noted) + 1
    BY <1>1, <2>1 DEF Nested
  <2> QED
    BY <1>1, <2>1, <2>2, NestedSave DEF ErrInv
<1>4. CASE error_clear
  <2>1. /\ eb' = [errors |-> SubSeq(eb.errors, 1, nb_expected_errors), acks |-> eb.acks]
        /\ noted' = noted
    BY <1>1, <1>4 DEF error_clear
  <2> QED
    BY <2>1, ClearedTo DEF ErrInv
<1>5. CASE error_restore
  <2>1. /\ eb' = [errors |-> SubSeq(eb.errors, 1, nb_expected_errors), acks |-> Front(eb.acks)]
        /\ noted' = Front(noted) /\ noted # <<>>
    BY <1>5 DEF error_restore
  <2>2. PICK n \in Nat : Len(noted) = n + 1
    <3>1. noted \in Seq(Seq(Codes)) /\ Len(noted) \in Nat /\ Len(noted) # 0
      BY <1>1, <2>1, EmptySeq DEF Nested
    <3>2. Len(noted) - 1 \in Nat /\ Len(noted) = (Len(noted) - 1) + 1
      BY <3>1
    <3> QED
      BY <3>2
  <2>3. Nested(n, SubSeq(eb.errors, 1, nb_expected_errors), Front(eb.acks), Front(noted))
    BY <2>2, ClearedTo, NestedFront
  <2>4. Len(noted') = n
    BY <2>1, <2>3 DEF Nested
  <2> QED
    BY <2>1, <2>3, <2>4 DEF ErrInv
<1>6. CASE UNCHANGED errvars
  BY <1>6 DEF errvars, ErrInv
<1> QED
  BY <1>2, <1>3, <1>4, <1>5, <1>6 DEF ErrNext

(* error_save and error_restore nest, whatever happens between them: each  *)
(* level finds the errors that it had.                                     *)
THEOREM ErrorsSurviveCleanup == ErrInit /\ [][ErrNext]_errvars => []SavedErrorsKept
<1>1. ASSUME ErrInv PROVE SavedErrorsKept
  <2>1. /\ Nested(Len(noted), eb.errors, eb.acks, noted) /\ DOMAIN noted = 1 .. Len(noted)
        /\ Len(eb.acks) = Len(noted) + 1 /\ eb.errors \in Seq(Codes)
    BY <1>1 DEF ErrInv, Nested
  <2>2. ASSUME NEW k \in 1 .. Len(noted)
        PROVE  eb.acks[k + 1] = Len(noted[k]) /\ IsPrefix(noted[k], eb.errors)
    <3>1. /\ eb.acks[k + 1] = Len(noted[k])
          /\ \A i \in 1 .. Len(noted[k]) : noted[k][i] = eb.errors[i]
      BY <2>1 DEF Nested
    <3>2. noted[k] \in Seq(Codes) /\ Len(noted[k]) <= Len(eb.errors)
      BY <2>1, LevelFits
    <3> QED
      BY <2>1, <3>1, <3>2, PrefixByEntries
  <2> QED
    BY <2>1, <2>2 DEF SavedErrorsKept
<1> QED
  BY <1>1, ErrInitInv, ErrNextInv, PTL
-----------------------------------------------------------------------------
(***************************************************************************)
(* Proofs about module Cnx: whatever the threads of the client do in       *)
(* between, nothing but auth is on a connection that the peer has not      *)
(* accepted yet.                                                           *)
(*                                                                         *)
(* The lines on their way are sequences of records whose numbers are cut   *)
(* by a recursive function; the argument looks at keywords only, so it     *)
(* asks of up and down no more than to be sequences of something.          *)
(***************************************************************************)

IsSeq(s) == \E S : s \in Seq(S)

AuthOnly(s) == \A i \in 1 .. Len(s) : s[i].kw = "auth"

(* Both directions of the connection carry auth alone until it is          *)
(* accepted.  Each conjunct of ~authed is needed by PeerAnswers, which     *)
(* moves a line from one direction to the other.                           *)
CnxInv ==
  /\ IsSeq(up) /\ IsSeq(down)
  /\ ~authed => AuthOnly(up) /\ AuthOnly(down)

-----------------------------------------------------------------------------
(* What the operations on sequences do to the two predicates.              *)

(* An empty direction carries nothing.                                     *)
LEMMA EmptyAuth == IsSeq(<<>>) /\ AuthOnly(<<>>)
<1>1. <<>> \in Seq({})
  OBVIOUS
<1>2. Len(<<>>) = 0
  OBVIOUS
<1> QED
  BY <1>1, <1>2 DEF IsSeq, AuthOnly

(* A line is sent.                                                         *)
LEMMA AppendAuth ==
  ASSUME NEW s, NEW e, IsSeq(s)
  PROVE  /\ IsSeq(Append(s, e))
         /\ AuthOnly(s) /\ e.kw = "auth" => AuthOnly(Append(s, e))
<1>1. PICK S : s \in Seq(S)
  BY DEF IsSeq
<1> DEFINE T == S \cup {e}
<1>2. s \in Seq(T) /\ e \in T
  <2>1. \A i \in 1 .. Len(s) : s[i] \in T
    BY <1>1
  <2> QED
    BY <1>1, <2>1, SeqDef, LenProperties
<1> HIDE DEF T
<1>3. Append(s, e) \in Seq(T)
  BY <1>2
<1>4. ASSUME AuthOnly(s), e.kw = "auth" PROVE AuthOnly(Append(s, e))
  <2>1. /\ Len(Append(s, e)) = Len(s) + 1 /\ Len(s) \in Nat
        /\ \A i \in 1 .. Len(s) : Append(s, e)[i] = s[i]
        /\ Append(s, e)[Len(s) + 1] = e
    BY <1>2
  <2> QED
    BY <2>1, <1>4 DEF AuthOnly
<1> QED
  BY <1>3, <1>4 DEF IsSeq

(* A line is received.                                                     *)
LEMMA TailAuth ==
  ASSUME NEW s, IsSeq(s), s # <<>>
  PROVE  /\ IsSeq(Tail(s))
         /\ AuthOnly(s) => AuthOnly(Tail(s)) /\ Head(s).kw = "auth"
<1>1. PICK S : s \in Seq(S)
  BY DEF IsSeq
<1>2. /\ Tail(s) \in Seq(S) /\ Len(s) \in Nat \ {0} /\ Head(s) = s[1]
      /\ Len(Tail(s)) = Len(s) - 1
      /\ \A i \in 1 .. Len(s) - 1 : Tail(s)[i] = s[i + 1]
  BY <1>1
<1>3. ASSUME AuthOnly(s) PROVE AuthOnly(Tail(s)) /\ Head(s).kw = "auth"
  <2>1. 1 \in 1 .. Len(s) /\ \A i \in 1 .. Len(s) - 1 : i + 1 \in 1 .. Len(s)
    BY <1>2
  <2> QED
    BY <1>2, <1>3, <2>1 DEF AuthOnly
<1> QED
  BY <1>2, <1>3 DEF IsSeq

-----------------------------------------------------------------------------

(* The invariant holds initially and every step keeps it.  One step per    *)
(* action; the actions that touch neither the lines nor authed are         *)
(* together at the end.                                                    *)
LEMMA CnxInductive == CnxInv /\ [Next]_vars => CnxInv'
<1> SUFFICES ASSUME CnxInv, [Next]_vars PROVE CnxInv'
  OBVIOUS
<1> USE DEF CnxInv
<1>1. CASE Connect
  BY <1>1, EmptyAuth DEF Connect
<1>2. CASE SendAuth
  <2>1. CASE closed
    BY <1>2, <2>1 DEF SendAuth, mdir_cnx_query
  <2>2. CASE ~closed
    <3> DEFINE e == [kw |-> "auth", seq |-> mdir_cmd_seq2str(next_seq), q |-> "my_sq", at |-> now]
    <3>1. up' = Append(up, e) /\ UNCHANGED <<down, authed>>
      BY <1>2, <2>2 DEF SendAuth, mdir_cnx_query
    <3>2. e.kw = "auth"
      OBVIOUS
    <3> HIDE DEF e
    <3> QED
      BY <3>1, <3>2, AppendAuth
  <2> QED
    BY <2>1, <2>2
<1>3. CASE ReadAuth
  <2>1. down # <<>> /\ down' = Tail(down) /\ up' = up /\ (authed' = TRUE \/ authed' = authed)
    BY <1>3 DEF ReadAuth
  <2> QED
    BY <2>1, TailAuth
<1>4. ASSUME NEW q \in Queries, NEW kw \in UserDefs, SendQuery(q, kw)
      PROVE  CnxInv'
  <2>1. authed /\ UNCHANGED <<down, authed>>
    BY <1>4 DEF SendQuery, mdir_cnx_query
  <2>2. CASE closed
    BY <1>4, <2>1, <2>2 DEF SendQuery, mdir_cnx_query
  <2>3. CASE ~closed
    <3>1. PICK e : up' = Append(up, e)
      BY <1>4, <2>3 DEF SendQuery, mdir_cnx_query
    <3> QED
      BY <2>1, <3>1, AppendAuth
  <2> QED
    BY <2>2, <2>3
<1>5. CASE mdir_cnx_read
  <2>1. down # <<>> /\ down' = Tail(down) /\ UNCHANGED <<up, authed>>
    BY <1>5 DEF mdir_cnx_read
  <2> QED
    BY <2>1, TailAuth
<1>6. CASE PeerAnswers
  <2>1. up # <<>> /\ up' = Tail(up) /\ authed' = authed
    BY <1>6 DEF PeerAnswers
  <2>2. PICK status \in {200, 500} :
          down' = Append(down, [kw |-> Head(up).kw, seq |-> Head(up).seq, status |-> status,
                                q |-> Head(up).q, at |-> Head(up).at])
    BY <1>6 DEF PeerAnswers
  <2> DEFINE e == [kw |-> Head(up).kw, seq |-> Head(up).seq, status |-> status,
                   q |-> Head(up).q, at |-> Head(up).at]
  <2>3. e.kw = Head(up).kw /\ down' = Append(down, e)
    BY <2>2
  <2> HIDE DEF e
  <2>4. /\ IsSeq(down') /\ IsSeq(up')
        /\ AuthOnly(up) => AuthOnly(up') /\ Head(up).kw = "auth"
    BY <2>1, <2>3, AppendAuth, TailAuth
  <2>5. AuthOnly(up) /\ AuthOnly(down) => AuthOnly(down')
    BY <2>3, <2>4, AppendAuth
  <2> QED
    BY <2>1, <2>4, <2>5
<1>7. CASE PeerCloses
  BY <1>7, EmptyAuth DEF PeerCloses
<1>8. CASE \/ ReadAuthFails \/ WakeUp \/ ReadFails \/ Tick \/ UNCHANGED vars
  <2>1. UNCHANGED <<up, down, authed>>
    BY <1>8 DEF ReadAuthFails, WakeUp, ReadFails, Tick, wire, lists, vars
  <2> QED
    BY <2>1
<1> QED
  BY <1>1, <1>2, <1>3, <1>4, <1>5, <1>6, <1>7, <1>8 DEF Next, Connecter, Users, Environment

(* In every state of the client, whichever thread sends first after a      *)
(* connection is established and however often it is lost: as long as the  *)
(* peer has not accepted the authentication, every line in either          *)
(* direction is an auth line.                                              *)
THEOREM NothingBeforeAuth == Spec => []AuthFirst
<1>1. Init => CnxInv
  BY EmptyAuth DEF Init, CnxInv
<1>2. CnxInv => AuthFirst
  <2> SUFFICES ASSUME CnxInv, ~authed,
                      NEW i \in DOMAIN (up \o down)
               PROVE  (up \o down)[i].kw = "auth"
    BY DEF AuthFirst
  <2>1. PICK S, T : up \in Seq(S) /\ down \in Seq(T)
    BY DEF CnxInv, IsSeq
  <2> DEFINE U == S \cup T
  <2>2. up \in Seq(U) /\ down \in Seq(U)
    <3>1. /\ \A k \in 1 .. Len(up) : up[k] \in U
          /\ \A k \in 1 .. Len(down) : down[k] \in U
      BY <2>1
    <3> QED
      BY <2>1, <3>1, SeqDef, LenProperties
  <2> HIDE DEF U
  <2>3. /\ i \in 1 .. Len(up) + Len(down)
        /\ (up \o down)[i] = IF i <= Len(up) THEN up[i] ELSE down[i - Len(up)]
    BY <2>2
  <2>4. Len(up) \in Nat /\ Len(down) \in Nat
    BY <2>2
  <2>5. \/ i \in 1 .. Len(up) /\ i <= Len(up)
        \/ i - Len(up) \in 1 .. Len(down) /\ ~(i <= Len(up))
    BY <2>3, <2>4
  <2> QED
    BY <2>3, <2>5 DEF CnxInv, AuthOnly
<1> QED
  BY <1>1, <1>2, CnxInductive, PTL DEF Spec

=============================================================================
