------------------------------- MODULE MdLink -------------------------------
(***************************************************************************)
(* Folders: the symbolic links by which lib/mdir.c mounts an mdir in its   *)
(* parent, on one client host and on the server.                           *)
(*                                                                         *)
(* A patch of type dir mounts a directory under a name.  A program that    *)
(* creates a folder gets a transient directory at once; when the server's  *)
(* patch arrives, mdsyncc renames that directory to the number the server  *)
(* has given, leaves a link at its old path and rebuilds the link in the   *)
(* parent, one system call at a time, and it can die between any two.      *)
(*                                                                         *)
(* Directories are numbers: those of the server positive, transient ones   *)
(* (with a "_" in the source) negative, 0 for none.  Requests are sent and *)
(* answered in one step here; MdSync has the messages.                     *)
(***************************************************************************)
EXTENDS Integers, Sequences, FiniteSets, SequencesExt

CONSTANTS
  Names,
  MaxDirs,      \* bound: directories of the server
  MaxTransient, \* bound: transient directories of the host
  MaxVersion,   \* bound: patches of the server's mdir
  MaxCrashes    \* bound: crashes of mdsyncc

ASSUME LinkAssumption ==
  /\ MaxDirs \in Nat /\ MaxTransient \in Nat /\ MaxVersion \in Nat /\ MaxCrashes \in Nat
  /\ IsFiniteSet(Names)

Dirs     == 1 .. MaxDirs
Paths    == (-MaxTransient .. -1) \cup Dirs
Versions == 1 .. MaxVersion

VARIABLES
  sj,       \* the server's patches: [act, name, dir], or [act, target]
  slink,    \* the server's links
  sdirs,    \* directories the server has made
  link,     \* the host's links: where each name leads
  real,     \* the host's directories
  alias,    \* links left at the path of a renamed directory
  tseq,     \* transient directories made
  vers,     \* the files .versionOf_<name>
  tmp,      \* requests in .tmp
  asked,    \* versions whose removal was requested on this host
  chosen,   \* the version of the folder whose removal the user is asked to confirm
  applied,  \* patches in the host's journal
  gone,     \* the versions that are marked as deleted in it
  pc,       \* where mdsyncc is in mdir_patch
  prev,     \* the transient directory it renames
  crashes

server == <<sj, slink, sdirs>>
host   == <<link, real, alias, tseq, vers, tmp, asked, chosen>>
syncc  == <<applied, gone, pc, prev>>
vars   == <<server, host, syncc, crashes>>

-----------------------------------------------------------------------------
(* What a patch does to a table of links.                                  *)

Erased(j, v) == \E w \in DOMAIN j : j[w].act = "-" /\ j[w].target = v

(* mdir_prepare_rem and mdir_unlink: the name of the target leads nowhere, *)
(* unless the target was removed before.                                   *)
Unlinked(t, j, v) == IF Erased(j, v) THEN t ELSE [t EXCEPT ![j[v].name] = 0]

(* The links after the first v patches.                                    *)
Tree(v) ==
  LET t[i \in 0 .. v] ==
        IF i = 0 THEN [n \in Names |-> 0]
        ELSE IF sj[i].act = "+" THEN [t[i - 1] EXCEPT ![sj[i].name] = sj[i].dir]
        ELSE Unlinked(t[i - 1], SubSeq(sj, 1, i - 1), sj[i].target)
  IN  t[v]

(* Where a path of the host leads: a directory, or the one it was renamed  *)
(* to.                                                                     *)
Resolve(p) == IF p \in real THEN p ELSE IF p < 0 THEN alias[p] ELSE 0

-----------------------------------------------------------------------------
Init ==
  /\ sj = <<>> /\ slink = [n \in Names |-> 0] /\ sdirs = 0
  /\ link = [n \in Names |-> 0] /\ real = {} /\ alias = [p \in Paths |-> 0]
  /\ tseq = 0 /\ vers = [n \in Names |-> 0]
  /\ tmp = {} /\ asked = {} /\ chosen = 0
  /\ applied = 0 /\ gone = {} /\ pc = "idle" /\ prev = 0
  /\ crashes = 0

-----------------------------------------------------------------------------
(* The server: add_header, mdir_patch and mdir_link on its own links.  A   *)
(* request to create a name that exists, or to mount another directory     *)
(* there, is refused; the first of these has made a directory by then.     *)

Refused == UNCHANGED <<sj, slink>>

ServeAdd(n, d) ==
  LET new == sdirs + 1
  IN  \/ /\ d = 0 /\ sdirs < MaxDirs
         /\ sdirs' = new
         /\ IF slink[n] # 0 THEN Refused
            ELSE /\ slink' = [slink EXCEPT ![n] = new]
                 /\ sj' = Append(sj, [act |-> "+", name |-> n, dir |-> new])
      \/ /\ d # 0
         /\ IF slink[n] \notin {0, d} THEN Refused
            ELSE /\ slink' = [slink EXCEPT ![n] = d]
                 /\ sj' = Append(sj, [act |-> "+", name |-> n, dir |-> d])
         /\ UNCHANGED sdirs

ServeRem(v) ==
  /\ slink' = Unlinked(slink, sj, v)
  /\ sj' = Append(sj, [act |-> "-", target |-> v])
  /\ UNCHANGED sdirs

Serve(q) ==
  /\ Len(sj) < MaxVersion
  /\ IF q.act = "+" THEN ServeAdd(q.name, q.dir) ELSE ServeRem(q.target)

(* A request of another host.                                              *)
OtherRequest ==
  /\ \/ \E n \in Names, d \in 0 .. sdirs : Serve([act |-> "+", name |-> n, dir |-> d])
     \/ \E v \in DOMAIN sj : sj[v].act = "+" /\ Serve([act |-> "-", target |-> v])
  /\ UNCHANGED <<host, syncc, crashes>>

(* mdsyncc sends a request of this host; accepted or not, its file goes.   *)
SendRequest(q) ==
  /\ q \in tmp
  /\ Serve(q)
  /\ tmp' = tmp \ {q}
  /\ UNCHANGED <<link, real, alias, tseq, vers, asked, chosen, syncc, crashes>>

-----------------------------------------------------------------------------
(* Programs of the host.                                                   *)

(* mdir_patch_request of a new folder (newdir_cb of the browser): the      *)
(* transient directory is made even when its name is taken.                *)
RequestNew(n) ==
  /\ tseq < MaxTransient
  /\ tseq' = tseq + 1
  /\ real' = real \cup {-(tseq + 1)}
  /\ IF link[n] # 0 THEN UNCHANGED <<link, tmp>>
     ELSE /\ link' = [link EXCEPT ![n] = -(tseq + 1)]
          /\ tmp' = tmp \cup {[act |-> "+", name |-> n, dir |-> 0]}
  /\ UNCHANGED <<server, alias, vers, asked, chosen, syncc, crashes>>

(* The same with the number of a directory (mount_dirId).                  *)
RequestMount(n, d) ==
  /\ d \in real /\ link[n] \in {0, d}
  /\ [act |-> "+", name |-> n, dir |-> d] \notin tmp
  /\ link' = [link EXCEPT ![n] = d]
  /\ tmp' = tmp \cup {[act |-> "+", name |-> n, dir |-> d]}
  /\ UNCHANGED <<server, real, alias, tseq, vers, asked, chosen, syncc, crashes>>

(* cut_cb of the browser: mdir_get_folder_version, a dialog that the user  *)
(* confirms or not, and mdir_del_request of the version read before it.    *)
ChooseRem(n) ==
  /\ chosen = 0 /\ vers[n] # 0
  /\ chosen' = vers[n]
  /\ UNCHANGED <<server, link, real, alias, tseq, vers, tmp, asked, syncc, crashes>>

Unmounted(t, v) == IF v \in gone THEN t ELSE [t EXCEPT ![sj[v].name] = 0]

ConfirmRem ==
  /\ chosen # 0
  /\ link' = Unmounted(link, chosen)
  /\ vers' = Unmounted(vers, chosen)
  /\ tmp' = tmp \cup {[act |-> "-", target |-> chosen]}
  /\ asked' = asked \cup {chosen}
  /\ chosen' = 0
  /\ UNCHANGED <<server, real, alias, tseq, syncc, crashes>>

CancelRem ==
  /\ chosen # 0
  /\ chosen' = 0
  /\ UNCHANGED <<server, link, real, alias, tseq, vers, tmp, asked, syncc, crashes>>

-----------------------------------------------------------------------------
(* mdsyncc: mdir_patch of the next patch, in the reader thread.            *)

Patch == sj[applied + 1]

(* An error ends the reader thread, until mdsyncc is started again.        *)
Fail == pc' = "dead" /\ prev' = 0

Step(from, to) == pc = from /\ pc' = to

(* mdir_prepare_rem, mdir_unlink, jnl_mark_del and jnl_patch: what the     *)
(* target mounted goes, unless it was removed before.                      *)
UnlinkName ==
  /\ pc = "idle" /\ applied < Len(sj) /\ Patch.act = "-"
  /\ link' = Unmounted(link, Patch.target)
  /\ pc' = IF Patch.target \in gone THEN "erase" ELSE "unversion"
  /\ UNCHANGED <<server, real, alias, tseq, vers, tmp, asked, chosen, applied, gone, prev, crashes>>

UnlinkVersion ==
  /\ Step("unversion", "mark")
  /\ vers' = [vers EXCEPT ![sj[Patch.target].name] = 0]
  /\ UNCHANGED <<server, link, real, alias, tseq, tmp, asked, chosen, applied, gone, prev, crashes>>

jnl_mark_del ==
  /\ Step("mark", "erase")
  /\ gone' = gone \cup {Patch.target}
  /\ UNCHANGED <<server, host, applied, prev, crashes>>

(* jnl_patch of the removal.                                               *)
RecordRem ==
  /\ Step("erase", "idle")
  /\ applied' = applied + 1
  /\ UNCHANGED <<server, host, gone, prev, crashes>>

(* Mutant: the link of another directory is taken over as it is.           *)
mdir_link_Trusts ==
  /\ pc = "idle" /\ applied < Len(sj) /\ Patch.act = "+"
  /\ \/ /\ link[Patch.name] = 0
        /\ real' = real \cup {Patch.dir}
        /\ pc' = "symlink" /\ UNCHANGED prev
     \/ /\ link[Patch.name] > 0
        /\ pc' = "record" /\ UNCHANGED <<real, prev>>
     \/ /\ link[Patch.name] < 0
        /\ pc' = "rename" /\ prev' = link[Patch.name] /\ UNCHANGED real
  /\ UNCHANGED <<server, link, alias, tseq, vers, tmp, asked, chosen, applied, gone, crashes>>

(* mdir_link looks at what the name leads to.                              *)
mdir_link ==
  /\ pc = "idle" /\ applied < Len(sj) /\ Patch.act = "+"
  /\ \/ /\ link[Patch.name] = 0
        /\ real' = real \cup {Patch.dir}
        /\ pc' = "symlink" /\ UNCHANGED prev
     \/ /\ link[Patch.name] = Patch.dir
        /\ pc' = "record" /\ UNCHANGED <<real, prev>>
     \/ /\ link[Patch.name] > 0 /\ link[Patch.name] # Patch.dir
        /\ Fail /\ UNCHANGED real
     \/ /\ link[Patch.name] < 0
        /\ pc' = "rename" /\ prev' = link[Patch.name] /\ UNCHANGED real
  /\ UNCHANGED <<server, link, alias, tseq, vers, tmp, asked, chosen, applied, gone, crashes>>

(* lookup_rename: rename(2) refuses a path that is gone or has become a    *)
(* link, and one whose new name exists; symlink(2) refuses a path that has *)
(* come back.  Its failure is only noticed after the unlink that follows.  *)
Rename ==
  /\ pc = "rename"
  /\ IF prev \in real /\ Patch.dir \notin real
     THEN /\ real' = (real \ {prev}) \cup {Patch.dir}
          /\ pc' = "alias"
     ELSE pc' = "unlinkFail" /\ UNCHANGED real
  /\ UNCHANGED <<server, link, alias, tseq, vers, tmp, asked, chosen, applied, gone, prev, crashes>>

LeaveAlias ==
  /\ pc = "alias"
  /\ IF prev \in real \/ alias[prev] # 0
     THEN pc' = "unlinkFail" /\ UNCHANGED alias
     ELSE alias' = [alias EXCEPT ![prev] = Patch.dir] /\ pc' = "unlink"
  /\ UNCHANGED <<server, link, real, tseq, vers, tmp, asked, chosen, applied, gone, prev, crashes>>

(* Mutant: the link is removed only when the directory was renamed.        *)
UnlinkPrevious_OnSuccess ==
  /\ \/ Step("unlink", "symlink") /\ UNCHANGED prev
        /\ link' = [link EXCEPT ![Patch.name] = 0]
     \/ pc = "unlinkFail" /\ Fail /\ UNCHANGED link
  /\ UNCHANGED <<server, real, alias, tseq, vers, tmp, asked, chosen, applied, gone, crashes>>

UnlinkPrevious ==
  /\ \/ Step("unlink", "symlink") /\ UNCHANGED prev
     \/ pc = "unlinkFail" /\ Fail
  /\ link' = [link EXCEPT ![Patch.name] = 0]
  /\ UNCHANGED <<server, real, alias, tseq, vers, tmp, asked, chosen, applied, gone, crashes>>

Symlink ==
  /\ pc = "symlink"
  /\ IF link[Patch.name] # 0 THEN Fail /\ UNCHANGED link
     ELSE /\ link' = [link EXCEPT ![Patch.name] = Patch.dir]
          /\ pc' = "record" /\ prev' = 0
  /\ UNCHANGED <<server, real, alias, tseq, vers, tmp, asked, chosen, applied, gone, crashes>>

(* jnl_patch, then mdir_confirm_add.                                       *)
Record ==
  /\ Step("record", "confirm")
  /\ applied' = applied + 1
  /\ UNCHANGED <<server, host, gone, prev, crashes>>

(* Mutant: the version file of the request that came first is kept.        *)
Confirm_Later ==
  /\ pc = "confirm"
  /\ pc' = "idle"
  /\ vers' = [vers EXCEPT ![sj[applied].name] = applied + 1]
  /\ UNCHANGED <<server, link, real, alias, tseq, tmp, asked, chosen, applied, gone, prev, crashes>>

(* The version file is created read-only: creat(2) refuses one that is     *)
(* there, for anybody but root.                                            *)
Confirm ==
  /\ pc = "confirm"
  /\ IF vers[sj[applied].name] # 0 THEN Fail /\ UNCHANGED vers
     ELSE /\ pc' = "idle" /\ vers' = [vers EXCEPT ![sj[applied].name] = applied]
          /\ UNCHANGED prev
  /\ UNCHANGED <<server, link, real, alias, tseq, tmp, asked, chosen, applied, gone, crashes>>

Crash ==
  /\ crashes < MaxCrashes /\ pc # "dead"
  /\ crashes' = crashes + 1
  /\ Fail
  /\ UNCHANGED <<server, host, applied, gone>>

(* mdsyncc is started again and receives the patches after its last one.   *)
Restart ==
  /\ Step("dead", "idle")
  /\ UNCHANGED <<server, host, applied, gone, prev, crashes>>

-----------------------------------------------------------------------------
Reader == UnlinkName \/ UnlinkVersion \/ jnl_mark_del \/ RecordRem \/ mdir_link \/ Rename \/ LeaveAlias \/ UnlinkPrevious \/ Symlink
          \/ Record \/ Confirm

Next ==
  \/ OtherRequest
  \/ \E q \in tmp : SendRequest(q)
  \/ \E n \in Names : RequestNew(n) \/ ChooseRem(n) \/ \E d \in Dirs : RequestMount(n, d)
  \/ ConfirmRem \/ CancelRem
  \/ Reader \/ Crash \/ Restart

Spec == Init /\ [][Next]_vars

FairSpec == Spec /\ WF_vars(Reader) /\ WF_vars(Restart)

-----------------------------------------------------------------------------
(* A removal of a folder of that name was requested on this host.          *)
RemovalAsked(n) == \E v \in asked : sj[v].name = n

(* The next patch removes what the host has mounted under that name; the   *)
(* host may have died half way through it.                                 *)
Erasing(n) ==
  /\ applied < Len(sj) /\ Patch.act = "-" /\ sj[Patch.target].name = n
  /\ ~ Erased(SubSeq(sj, 1, applied), Patch.target)

(* The patches the host has recorded and its folders agree: a name that    *)
(* the server had mounted after those patches leads to that directory and  *)
(* nothing else, whatever requests, renames and crashes came in between.   *)
(* Two cases are excepted: a name whose removal was requested here, and    *)
(* one that the next patch removes, which is unlinked before the patch is  *)
(* recorded.                                                               *)
LinksFollow ==
  \A n \in Names : Tree(applied)[n] # 0 =>
    Resolve(link[n]) = Tree(applied)[n] \/ RemovalAsked(n) \/ Erasing(n)

(* The patch that a removal of a folder would target (mdir_get_folder_     *)
(* version) is one that mounted a directory under that name, and the one   *)
(* that the name leads to, also while mdsyncc is half way through a patch  *)
(* or has just died there; with the same two exceptions.                   *)
RemovesWhatItShows ==
  \A n \in Names : vers[n] # 0 =>
    /\ vers[n] <= applied /\ sj[vers[n]].act = "+" /\ sj[vers[n]].name = n
    /\ Resolve(link[n]) = sj[vers[n]].dir \/ RemovalAsked(n) \/ Erasing(n)

(* Another directory is mounted here under the name of the next patch: all *)
(* that mdir_link can do is to fail, again after every restart.            *)
Blocked ==
  /\ applied < Len(sj) /\ Patch.act = "+"
  /\ link[Patch.name] > 0 /\ link[Patch.name] # Patch.dir

(* mdsyncc catches up with the server, across crashes inside mdir_link,    *)
(* unless a directory mounted here under the same name is in the way.      *)
CatchesUp == <>[](applied = Len(sj) \/ Blocked)
=============================================================================
