------------------------------ MODULE Persist -------------------------------
(***************************************************************************)
(* The numbers that the processes of a host share: commons/persist.c, as a *)
(* sequence (of transients, of dirIds, of files to send).  The file is     *)
(* created by the process that first needs it, read through a mapping and  *)
(* written with pwrite(2), between flock(2) and its end, which comes with  *)
(* the end of the process as well.                                         *)
(***************************************************************************)
EXTENDS Integers, SequencesExt

CONSTANTS
  Processes,
  MaxNumber,   \* bound: the last number handed out
  MaxDeaths    \* bound: processes that end at any point and start again

ASSUME PersistAssumption == MaxNumber \in Nat /\ MaxDeaths \in Nat

VARIABLES
  seqfile,   \* the number in the file, or Absent, or Empty
  at,        \* where each process is
  count,     \* its local variable
  lock,      \* the processes that hold flock(LOCK_EX): one or none
  handed,    \* history: the numbers in the order they were returned
  deaths

seqvars == <<seqfile, at, count, lock, handed, deaths>>

Absent == -2
Empty  == -1

SeqInit ==
  /\ seqfile = Absent
  /\ at = [p \in Processes |-> "new"] /\ count = [p \in Processes |-> 0]
  /\ lock = {} /\ handed = <<>> /\ deaths = 0

Goes(p, place) == at' = [at EXCEPT ![p] = place]

(* open_or_create: the file is there, or it has to be created...           *)
Open(p) ==
  /\ at[p] = "new"
  /\ Goes(p, IF seqfile = Absent THEN "create" ELSE "ready")
  /\ UNCHANGED <<seqfile, count, lock, handed, deaths>>

(* ... with O_EXCL, so that only one process does; the other fails...      *)
Create(p) ==
  /\ at[p] = "create"
  /\ IF seqfile = Absent THEN seqfile' = Empty /\ Goes(p, "fill")
                         ELSE UNCHANGED seqfile /\ Goes(p, "ended")
  /\ UNCHANGED <<count, lock, handed, deaths>>

(* ... and to be filled with the default value, without a lock.            *)
Fill(p) ==
  /\ at[p] = "fill"
  /\ seqfile' = 1
  /\ Goes(p, "ready")
  /\ UNCHANGED <<count, lock, handed, deaths>>

(* Mutant: the file is not locked.                                         *)
persist_lock_Never(p) ==
  /\ at[p] = "ready"
  /\ Goes(p, "read")
  /\ UNCHANGED <<seqfile, count, lock, handed, deaths>>

persist_lock(p) ==
  /\ at[p] = "ready" /\ lock = {}
  /\ lock' = {p}
  /\ Goes(p, "read")
  /\ UNCHANGED <<seqfile, count, handed, deaths>>

(* The mapping of a file without content cannot be read: SIGBUS.           *)
persist_read(p) ==
  /\ at[p] = "read"
  /\ seqfile <= MaxNumber
  /\ IF seqfile = Empty THEN Goes(p, "ended") /\ lock' = lock \ {p} /\ UNCHANGED count
                        ELSE Goes(p, "write") /\ count' = [count EXCEPT ![p] = seqfile] /\ UNCHANGED lock
  /\ UNCHANGED <<seqfile, handed, deaths>>

persist_write(p) ==
  /\ at[p] = "write"
  /\ seqfile' = count[p] + 1
  /\ Goes(p, "unlock")
  /\ UNCHANGED <<count, lock, handed, deaths>>

persist_unlock(p) ==
  /\ at[p] = "unlock"
  /\ lock' = lock \ {p}
  /\ handed' = Append(handed, count[p])
  /\ Goes(p, "ready")
  /\ UNCHANGED <<seqfile, count, deaths>>

(* A process ends, or has ended, and is started again.                     *)
Die(p) ==
  /\ deaths < MaxDeaths
  /\ deaths' = deaths + 1
  /\ lock' = lock \ {p}
  /\ count' = [count EXCEPT ![p] = 0]
  /\ Goes(p, "new")
  /\ UNCHANGED <<seqfile, handed>>

SeqNext ==
  \E p \in Processes :
    \/ Open(p) \/ Create(p) \/ Fill(p)
    \/ persist_lock(p) \/ persist_read(p) \/ persist_write(p) \/ persist_unlock(p)
    \/ Die(p)

-----------------------------------------------------------------------------
(* The numbers are handed out in increasing order, so none twice, whatever *)
(* processes open, create, fill and read the file at the same time and     *)
(* wherever one of them ends.                                              *)
SequenceRises ==
  \A i \in 1 .. Len(handed) - 1 : handed[i] < handed[i + 1]
=============================================================================
