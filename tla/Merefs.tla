------------------------------- MODULE Merefs -------------------------------
(***************************************************************************)
(* merefs keeps a local directory in step with an mdir whose messages are  *)
(* files.  It compares three lists: the local files, the files of the mdir *)
(* and the map of what it synchronised last, which it keeps in .map.       *)
(*                                                                         *)
(* A content is a number that stands for its digest and its resource; the  *)
(* beginning of a content that is still under way is its negative.  Every  *)
(* edit makes a new content.  A file that merefs brings is a hard link to  *)
(* the cache file of its resource.  Requests of this host are patches of   *)
(* the mdir at once (MdSync is about the time between), and two patches of *)
(* another host that replace a file are listed together.                   *)
(***************************************************************************)
EXTENDS Integers, FiniteSets, SequencesExt

CONSTANTS
  Names,
  Skipped,    \* names the scan passes over: hidden, symbolic links, unknown types
  MaxEdits    \* bound: what users do, kills and lost connections

ASSUME MerefsAssumption == MaxEdits \in Nat /\ Skipped \subseteq Names

VARIABLES
  local,      \* contents of the local files, 0 when there is none
  link,       \* the resource whose cache file a local file is, 0 for none
  cache,      \* contents of the cache files, by resource
  arriving,   \* resources whose download goes on
  filed,      \* resources that filed has whole
  journal,    \* patches of the mdir
  mapfile,    \* records of .map; digest 0: only its name was written
  run,        \* merefs: lists, maps and where it is
  edits,      \* how often a user did something
  raced,      \* history: files changed in this pass after they were looked at
  removed,    \* history: files the user removed and merefs did not bring back
  stale,      \* history: .map held something else than the last map, once
  lost,       \* history: names of files destroyed that nobody else has
  twins       \* history: the mdir had two files of one name, once

files == <<local, link, cache, arriving>>
hist  == <<raced, removed, stale, lost>>
vars  == <<files, filed, journal, mapfile, run, edits, hist, twins>>

None == [digest |-> 0, version |-> 0]
Off  == [pc |-> "off", bg |-> FALSE, filed |-> FALSE, cursor |-> 0, known |-> [n \in Names |-> None],
         matched |-> {}, cmap |-> <<>>, nmap |-> <<>>, todo |-> {}, name |-> CHOOSE n \in Names : TRUE,
         digest |-> 0, saved |-> 0]

Init ==
  /\ local = [n \in Names |-> 0] /\ link = [n \in Names |-> 0]
  /\ cache = <<>> /\ arriving = {} /\ filed = {}
  /\ journal = <<>> /\ mapfile = <<>> /\ run = Off
  /\ edits = 0
  /\ raced = {} /\ removed = {} /\ stale = FALSE /\ lost = {} /\ twins = FALSE

-----------------------------------------------------------------------------
(* The mdir.                                                               *)

Edited == edits < MaxEdits /\ edits' = edits + 1

Add(n, c) == [tag |-> "+", name |-> n, digest |-> c, target |-> 0]
Rem(v)    == [tag |-> "-", name |-> "", digest |-> 0, target |-> v]

Erased(v)  == \E w \in DOMAIN journal : journal[w].tag = "-" /\ journal[w].target = v
Live(n)    == {v \in DOMAIN journal : journal[v].tag = "+" /\ journal[v].name = n /\ ~ Erased(v)}
Remote(n)  == IF Live(n) = {} THEN 0 ELSE journal[CHOOSE v \in Live(n) : \A w \in Live(n) : w <= v].digest

-----------------------------------------------------------------------------
(* The maps: lists with the newest entry first.                            *)

(* Where the first entry of that name is.  0 stands for NULL, here and for *)
(* digests.                                                                *)
file_search(map, n) == SelectInSeq(map, LAMBDA f : f.name = n)

map_get_digest(map, n) ==
  IF file_search(map, n) = 0 THEN 0 ELSE map[file_search(map, n)].digest

file_new(map, n, c) == <<[name |-> n, digest |-> c]>> \o map

map_set(map, n, c) ==
  IF file_search(map, n) = 0 THEN file_new(map, n, c)
  ELSE [map EXCEPT ![file_search(map, n)].digest = c]

(* Each record that is read goes to the head of the list.                  *)
map_load == Reverse(mapfile)

(* A name without a digest: map_load leaves the error of Read.             *)
Torn == \E i \in 1 .. Len(mapfile) : mapfile[i].digest = 0

-----------------------------------------------------------------------------
(* read_mdir: the patches behind the cursor.                               *)

(* Mutant: the first file of a name stays.                                 *)
add_remote_file_First(known, v) ==
  [known EXCEPT ![journal[v].name] =
     IF known[journal[v].name] # None THEN @ ELSE [digest |-> journal[v].digest, version |-> v]]

(* One file per name: the last one takes the place of the one before.      *)
add_remote_file(known, v) ==
  [known EXCEPT ![journal[v].name] = [digest |-> journal[v].digest, version |-> v]]

remove_remote_file(known, v) ==
  [n \in Names |-> IF known[n].version = v THEN None ELSE known[n]]

List(known, v) ==
  IF journal[v].tag = "-" THEN remove_remote_file(known, journal[v].target)
  ELSE IF Erased(v) THEN known ELSE add_remote_file(known, v)

read_mdir(r) ==
  [r EXCEPT !.known = FoldLeft(List, r.known, [i \in 1 .. Len(journal) - r.cursor |-> r.cursor + i]),
            !.cursor = Len(journal)]

-----------------------------------------------------------------------------
(* The process.                                                            *)

Start(bg) ==
  /\ run.pc = "off" /\ ~ Torn
  /\ run' = read_mdir([Off EXCEPT !.pc = "pass", !.bg = bg, !.filed = TRUE, !.cmap = map_load])
  /\ UNCHANGED <<files, filed, journal, mapfile, edits, hist>>

(* An end that does not save; transfers end with the process.              *)
Ends == run' = Off /\ arriving' = {} /\ stale' = TRUE /\ raced' = {}

(* It is killed, or a rename, unlink, link, open or fetch fails.           *)
Killed ==
  /\ run.pc # "off" /\ Edited
  /\ Ends
  /\ UNCHANGED <<local, link, cache, filed, journal, mapfile, removed, lost>>

(* The connection to filed is lost, and the downloads with it.             *)
FiledLost ==
  /\ run.pc # "off" /\ run.filed /\ Edited
  /\ run' = [run EXCEPT !.filed = FALSE] /\ arriving' = {}
  /\ UNCHANGED <<local, link, cache, filed, journal, mapfile, hist>>

(* A query after that: command_wait waits for ever, or writing it ends     *)
(* merefs.                                                                 *)
Unanswered ==
  \/ run' = [Off EXCEPT !.pc = "stuck"] /\ UNCHANGED <<arriving, stale, raced>>
  \/ Ends

(* read_mdir and opendir.                                                  *)
BeginPass ==
  /\ run.pc = "pass"
  /\ run' = [read_mdir(run) EXCEPT !.pc = "scan", !.todo = {n \in Names \ Skipped : local[n] # 0}]
  /\ UNCHANGED <<files, filed, journal, mapfile, edits, hist>>

(* scan_opened_dir: the digest of the next file; one that has vanished is  *)
(* not listed any more, or ends merefs with an error.                      *)
digest_file(n) ==
  /\ run.pc = "scan" /\ n \in run.todo
  /\ \/ /\ local[n] # 0
        /\ run' = [run EXCEPT !.pc = "match", !.todo = @ \ {n}, !.name = n, !.digest = local[n]]
        /\ UNCHANGED <<arriving, raced, stale>>
     \/ local[n] = 0 /\ run' = [run EXCEPT !.todo = @ \ {n}] /\ UNCHANGED <<arriving, raced, stale>>
     \/ local[n] = 0 /\ Ends
  /\ UNCHANGED <<local, link, cache, filed, journal, mapfile, edits, removed, lost>>

(* Arguments of match_local_file: file, digest, entry of the mdir and of   *)
(* the map, each 0 when missing.                                           *)
Cur    == run.name
Mine   == run.digest
Theirs == run.known[Cur].digest
Mapped == map_get_digest(run.cmap, Cur)

Matched == run.matched \cup IF Theirs # 0 THEN {Cur} ELSE {}

(* The file is done with; the next one is looked at, or created.           *)
Done(r) == [r EXCEPT !.pc = IF Mine = 0 THEN "create" ELSE "scan", !.name = Off.name, !.digest = 0, !.matched = Matched]

Put(f, x, y) == [z \in DOMAIN f \cup {x} |-> IF z = x THEN y ELSE f[z]]

-----------------------------------------------------------------------------
(* remote_is_master: chn_get_file, unlink and link.                        *)

(* A cache file is taken as it is, whole or not; a fetch goes on behind.   *)
chn_get_file ==
  /\ run.pc = "get"
  /\ \/ Theirs \in DOMAIN cache /\ UNCHANGED <<cache, arriving>>
     \/ /\ Theirs \notin DOMAIN cache /\ run.filed
        /\ cache' = Put(cache, Theirs, - Theirs) /\ arriving' = arriving \cup {Theirs}
  /\ run' = [run EXCEPT !.pc = "unlink"]
  /\ UNCHANGED <<local, link, filed, journal, mapfile, edits, hist>>

GetLost ==
  /\ run.pc = "get" /\ Theirs \notin DOMAIN cache /\ ~ run.filed
  /\ Unanswered
  /\ UNCHANGED <<local, link, cache, filed, journal, mapfile, edits, removed, lost>>

(* What unlink destroys, unlike a renaming: a content that is neither with *)
(* filed nor in a cache file of its own.                                   *)
Destroys(n) ==
  IF local[n] > 0 /\ n \notin raced /\ local[n] \notin filed \cup DOMAIN cache THEN {n} ELSE {}

Unlinked(n) ==
  /\ local' = [local EXCEPT ![n] = 0] /\ link' = [link EXCEPT ![n] = 0]
  /\ lost' = lost \cup Destroys(n)
  /\ UNCHANGED <<cache, arriving>>

Unlink ==
  /\ run.pc = "unlink"
  /\ Unlinked(Cur)
  /\ run' = [run EXCEPT !.pc = "link"]
  /\ UNCHANGED <<filed, journal, mapfile, edits, raced, removed, stale>>

(* A file that was created meanwhile makes link fail.                      *)
Link ==
  /\ run.pc = "link"
  /\ \/ /\ local[Cur] = 0
        /\ local' = [local EXCEPT ![Cur] = cache[Theirs]] /\ link' = [link EXCEPT ![Cur] = Theirs]
        /\ run' = Done([run EXCEPT !.nmap = map_set(@, Cur, Theirs)])
        /\ removed' = removed \ {Cur}
        /\ UNCHANGED <<arriving, raced, stale>>
     \/ local[Cur] # 0 /\ Ends /\ UNCHANGED <<local, link, removed>>
  /\ UNCHANGED <<cache, filed, journal, mapfile, edits, lost>>

-----------------------------------------------------------------------------
(* match_local_file.                                                       *)

Conflicting  == Theirs # 0 /\ IF Mapped = 0 THEN Theirs # Mine ELSE Mapped \notin {Mine, Theirs}
DeletedThere == Theirs = 0 /\ Mapped # 0
ChangedHere  == IF Theirs = 0 THEN Mapped = 0 ELSE Mapped = Theirs /\ Mine # Theirs

keep_map ==
  /\ run.pc = "match"
  /\ Theirs = Mine /\ Mapped \in {0, Mine}
  /\ run' = Done([run EXCEPT !.nmap = map_set(@, Cur, Mine)])
  /\ UNCHANGED <<files, filed, journal, mapfile, edits, hist>>

RemoteChanged ==
  /\ run.pc = "match"
  /\ Theirs \notin {0, Mine} /\ Mapped = Mine
  /\ run' = [run EXCEPT !.pc = "get", !.matched = Matched]
  /\ UNCHANGED <<files, filed, journal, mapfile, edits, hist>>

Renamed(n) == local' = [local EXCEPT ![n] = 0] /\ link' = [link EXCEPT ![n] = 0]

(* Mutant: the local file gives way without a backup when it is not in the *)
(* map.                                                                    *)
conflict_Unmapped ==
  /\ run.pc = "match" /\ local[Cur] # 0
  /\ Conflicting
  /\ IF Mapped = 0 THEN UNCHANGED <<local, link>> ELSE Renamed(Cur)
  /\ run' = [run EXCEPT !.pc = "get", !.matched = Matched]
  /\ UNCHANGED <<cache, arriving, filed, journal, mapfile, edits, raced, removed, stale, lost>>

(* Both changed: conflict() saves the local file, then the remote wins.    *)
conflict ==
  /\ run.pc = "match" /\ local[Cur] # 0
  /\ Conflicting
  /\ Renamed(Cur)
  /\ run' = [run EXCEPT !.pc = "get", !.matched = Matched]
  /\ UNCHANGED <<cache, arriving, filed, journal, mapfile, edits, raced, removed, stale, lost>>

remove_local_file ==
  /\ run.pc = "match" /\ local[Cur] # 0
  /\ DeletedThere /\ Mapped = Mine
  /\ Unlinked(Cur)
  /\ run' = Done(run)
  /\ UNCHANGED <<filed, journal, mapfile, edits, raced, removed, stale>>

(* Deleted there and changed here: the file is saved by renaming it, and   *)
(* its removal then fails, which ends merefs.                              *)
ConflictGone ==
  /\ run.pc = "match" /\ local[Cur] # 0
  /\ DeletedThere /\ Mapped # Mine
  /\ Renamed(Cur)
  /\ Ends
  /\ UNCHANGED <<cache, filed, journal, mapfile, edits, removed, lost>>

(* local_is_master: a resource of the lists with that digest will do; the  *)
(* list of those removed holds some of the former ones.                    *)
Reuse ==
  /\ run.pc = "match"
  /\ ChangedHere /\ \E v \in 1 .. run.cursor : journal[v].digest = Mine
  /\ journal' = Append(journal, Add(Cur, Mine))
  /\ run' = IF Theirs = 0 THEN Done([run EXCEPT !.nmap = map_set(@, Cur, Mine)]) ELSE [run EXCEPT !.pc = "replace"]
  /\ UNCHANGED <<files, filed, mapfile, edits, hist>>

(* Otherwise the file is copied into the cache, as it is by now, under the *)
(* name of a new resource, and sent.  Of two resources with one digest the *)
(* model keeps one.                                                        *)
chn_send_file_request ==
  /\ run.pc = "match" /\ local[Cur] # 0
  /\ ChangedHere
  /\ cache' = Put(cache, Mine, local[Cur])
  /\ \/ run.filed /\ run' = [run EXCEPT !.pc = "upload"] /\ UNCHANGED <<arriving, stale, raced>>
     \/ ~ run.filed /\ Unanswered
  /\ UNCHANGED <<local, link, filed, journal, mapfile, edits, removed, lost>>

(* The renaming, the removal or the upload of a file that has vanished.    *)
Vanished ==
  /\ run.pc = "match" /\ local[Cur] = 0
  /\ Conflicting \/ DeletedThere \/ ChangedHere
  /\ Ends
  /\ UNCHANGED <<local, link, cache, filed, journal, mapfile, edits, removed, lost>>

(* wait_complete: the transfer has ended, well or not, or the connection;  *)
(* the content is advertised.                                              *)
local_is_master ==
  /\ run.pc = "upload"
  /\ \/ run.filed /\ filed' = filed \cup {Mine}
     \/ UNCHANGED filed
  /\ journal' = Append(journal, Add(Cur, Mine))
  /\ run' = IF Theirs = 0 THEN Done([run EXCEPT !.nmap = map_set(@, Cur, Mine)]) ELSE [run EXCEPT !.pc = "replace"]
  /\ UNCHANGED <<files, mapfile, edits, hist>>

(* The version that it replaces is removed.                                *)
ReplaceVersion ==
  /\ run.pc = "replace"
  /\ journal' = Append(journal, Rem(run.known[Cur].version))
  /\ run' = Done([run EXCEPT !.nmap = map_set(@, Cur, Mine)])
  /\ UNCHANGED <<files, filed, mapfile, edits, hist>>

match_local_file ==
  \/ keep_map \/ RemoteChanged \/ conflict \/ remove_local_file \/ ConflictGone \/ Vanished
  \/ Reuse \/ chn_send_file_request \/ local_is_master \/ ReplaceVersion

TraverseEnd ==
  /\ run.pc = "scan" /\ run.todo = {}
  /\ run' = [run EXCEPT !.pc = "create", !.todo = {n \in Names : run.known[n] # None /\ n \notin run.matched}]
  /\ UNCHANGED <<files, filed, journal, mapfile, edits, hist>>

(* create_unmatched_files: one that is not in the map is new, one that is  *)
(* was removed here.                                                       *)
CreateLocal(n) ==
  /\ run.pc = "create" /\ n \in run.todo
  /\ map_get_digest(run.cmap, n) = 0
  /\ run' = [run EXCEPT !.pc = "get", !.todo = @ \ {n}, !.name = n]
  /\ UNCHANGED <<files, filed, journal, mapfile, edits, hist>>

RemoveRemote(n) ==
  /\ run.pc = "create" /\ n \in run.todo
  /\ map_get_digest(run.cmap, n) # 0
  /\ journal' = Append(journal, Rem(run.known[n].version))
  /\ run' = [run EXCEPT !.todo = @ \ {n}]
  /\ UNCHANGED <<files, filed, mapfile, edits, hist>>

(* Mutant: what was in the old map stays in the new one.                   *)
EndPass_Forgets ==
  /\ run.pc = "create" /\ run.todo = {}
  /\ run' = IF run.bg THEN [run EXCEPT !.pc = "pass", !.cmap = run.nmap \o @, !.nmap = <<>>, !.matched = {}]
            ELSE [Off EXCEPT !.pc = "save", !.nmap = run.nmap]
  /\ raced' = {}
  /\ UNCHANGED <<files, filed, journal, mapfile, edits, removed, stale, lost>>

(* The new map takes the place of the old one; the daemon sleeps and then  *)
(* unmatches all, the tool saves and ends.                                 *)
EndPass ==
  /\ run.pc = "create" /\ run.todo = {}
  /\ run' = IF run.bg THEN [run EXCEPT !.pc = "pass", !.cmap = run.nmap, !.nmap = <<>>, !.matched = {}]
            ELSE [Off EXCEPT !.pc = "save", !.nmap = run.nmap]
  /\ raced' = {}
  /\ UNCHANGED <<files, filed, journal, mapfile, edits, removed, stale, lost>>

(* map_save: a write for the name and one for the digest of each record.   *)
(* The file is opened without O_TRUNC.                                     *)
SaveName ==
  /\ run.pc = "save" /\ run.saved < Len(run.nmap)
  /\ LET i == run.saved + 1
     IN  mapfile' = IF i <= Len(mapfile) THEN [mapfile EXCEPT ![i].name = run.nmap[i].name]
                    ELSE Append(mapfile, [name |-> run.nmap[i].name, digest |-> 0])
  /\ run' = [run EXCEPT !.pc = "record"]
  /\ UNCHANGED <<files, filed, journal, edits, hist>>

SaveDigest ==
  /\ run.pc = "record"
  /\ LET i == run.saved + 1
     IN  mapfile' = [mapfile EXCEPT ![i].digest = run.nmap[i].digest]
  /\ run' = [run EXCEPT !.pc = "save", !.saved = @ + 1]
  /\ UNCHANGED <<files, filed, journal, edits, hist>>

Exits ==
  /\ run.pc = "save" /\ run.saved = Len(run.nmap)
  /\ stale' = (stale \/ mapfile # run.nmap)
  /\ run' = Off /\ arriving' = {}
  /\ UNCHANGED <<local, link, cache, filed, journal, mapfile, edits, raced, removed, lost>>

(* A download ends.  It has overwritten the cache file, or left some of    *)
(* what a user has written there meanwhile.                                *)
Arrive(d) ==
  /\ d \in arriving /\ arriving' = arriving \ {d}
  /\ \/ /\ cache' = [cache EXCEPT ![d] = d]
        /\ local' = [n \in Names |-> IF link[n] = d THEN d ELSE local[n]]
     \/ cache[d] # - d /\ UNCHANGED <<cache, local>>
  /\ UNCHANGED <<link, filed, journal, mapfile, run, edits, hist>>

-----------------------------------------------------------------------------
(* The users.                                                              *)

(* Files that the pass will look at.                                       *)
Ahead == IF run.pc \in {"scan", "match", "upload", "replace"} \/ run.digest # 0 THEN run.todo ELSE {}

Passing == {"scan", "match", "upload", "replace", "get", "unlink", "link", "create"}

Touch(n) == raced' = IF run.pc \in Passing /\ n \notin Ahead THEN raced \cup {n} ELSE raced

(* A new file is put in the place of the old one.                          *)
EditLocal(n) ==
  /\ Edited /\ Touch(n)
  /\ local' = [local EXCEPT ![n] = edits + 1] /\ link' = [link EXCEPT ![n] = 0]
  /\ removed' = removed \ {n}
  /\ UNCHANGED <<cache, arriving, filed, journal, mapfile, run, stale, lost>>

(* The file is written in place, and with it the cache file and its other  *)
(* names.                                                                  *)
EditInPlace(n) ==
  /\ Edited /\ link[n] # 0
  /\ local' = [x \in Names |-> IF link[x] = link[n] THEN edits + 1 ELSE local[x]]
  /\ cache' = [cache EXCEPT ![link[n]] = edits + 1]
  /\ raced' = IF run.pc \in Passing THEN raced \cup {x \in Names \ Ahead : link[x] = link[n]} ELSE raced
  /\ UNCHANGED <<link, arriving, filed, journal, mapfile, run, removed, stale, lost>>

RemoveLocal(n) ==
  /\ Edited /\ Touch(n) /\ local[n] # 0
  /\ local' = [local EXCEPT ![n] = 0] /\ link' = [link EXCEPT ![n] = 0]
  /\ removed' = removed \cup {n}
  /\ UNCHANGED <<cache, arriving, filed, journal, mapfile, run, stale, lost>>

Replaced(n) == IF Live(n) = {} THEN <<>> ELSE <<Rem(CHOOSE v \in Live(n) : \A w \in Live(n) : w <= v)>>

EditRemote(n) ==
  /\ Edited
  /\ filed' = filed \cup {edits + 1}
  /\ journal' = Append(journal, Add(n, edits + 1)) \o Replaced(n)
  /\ UNCHANGED <<files, mapfile, run, hist>>

DeleteRemote(n) ==
  /\ Edited /\ Live(n) # {}
  /\ journal' = journal \o Replaced(n)
  /\ UNCHANGED <<files, filed, mapfile, run, hist>>

-----------------------------------------------------------------------------
loop ==
  \/ BeginPass \/ \E n \in Names : digest_file(n)
  \/ match_local_file \/ TraverseEnd
  \/ chn_get_file \/ GetLost \/ Unlink \/ Link
  \/ \E n \in Names : CreateLocal(n) \/ RemoveRemote(n)
  \/ EndPass \/ SaveName \/ SaveDigest \/ Exits

(* Two files of one name are left when two hosts replace the same version, *)
(* or when merefs is killed between the two requests of a replacement.     *)
Watch == twins' = (twins \/ (run'.pc # "replace" /\ \E n \in Names : Cardinality(Live(n)') > 1))

Next ==
  /\ \/ \E bg \in BOOLEAN : Start(bg)
     \/ loop \/ Killed \/ FiledLost
     \/ \E d \in arriving : Arrive(d)
     \/ \E n \in Names : EditLocal(n) \/ EditInPlace(n) \/ RemoveLocal(n) \/ EditRemote(n) \/ DeleteRemote(n)
  /\ Watch

(* merefs is run again and again, or as a daemon; users need do nothing.   *)
Spec ==
  /\ Init /\ [][Next]_vars
  /\ WF_vars((\E bg \in BOOLEAN : Start(bg)) /\ Watch) /\ WF_vars(loop /\ Watch)

-----------------------------------------------------------------------------
(* What a user wrote into a file is not destroyed by unlink unless filed,  *)
(* or the cache of this host has it (a conflict renames it), with a map    *)
(* that is missing, too old or mixed with an older one, with uploads that  *)
(* were cut short and half-downloaded files around.  Not covered are what  *)
(* is written after merefs has looked at the file in a pass, as nothing    *)
(* looks again before unlink; what is written into a file that still       *)
(* arrives, which is the cache file; and names that the scan skips: their  *)
(* file gives way to one of the mdir without a look.                       *)
NothingLost == lost \subseteq Skipped

(* What merefs removes from the mdir because it is in the map and not in   *)
(* the directory was removed by the user, as long as .map held the last    *)
(* map whenever it was read: merefs was neither killed nor ended by an     *)
(* error, and no map was saved over a longer one.  Names that the scan     *)
(* skips are not covered: merefs removes them in the pass after the one    *)
(* that brought them.                                                      *)
Deliberate ==
  [][\A n \in Names \ Skipped : RemoveRemote(n) => n \in removed \cup raced \/ stale]_vars

(* merefs does nothing any more: each start fails on a map that was cut    *)
(* between a name and its digest, or it waits for a lost connection.       *)
Halted == (run.pc = "off" /\ Torn) \/ run.pc = "stuck"

(* .map names the file twice, as it was saved over a longer one: the older *)
(* record is found first, and each run sees a conflict and takes the cache *)
(* file again, however little of its content it has.                       *)
Doubled(n) == Cardinality({i \in DOMAIN mapfile : mapfile[i].name = n}) > 1

(* When the users leave their files alone the directory comes to hold what *)
(* the mdir holds after each pass, but for the names that the scan skips,  *)
(* whatever changed on both sides in between, in whichever order merefs    *)
(* was run, was killed, ended by an error, lost its connection or left     *)
(* files half downloaded; unless it has halted for good, or the file is a  *)
(* link to a cache file that still arrives or that a doubled record brings *)
(* back.  Two files of one name in the mdir are not covered: merefs        *)
(* forgets the older one, and with the newer one it loses both.            *)
InStep ==
  <>[](run.pc \in {"off", "pass", "stuck"} =>
         \/ twins \/ Halted
         \/ \A n \in Names \ Skipped :
              local[n] = Remote(n) \/ (link[n] = Remote(n) /\ (link[n] \in arriving \/ Doubled(n))))
=============================================================================
