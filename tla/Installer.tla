---- MODULE Installer ----
(***************************************************************************)
(* PersonalDiscTrainer/native/Install.ps1 and the manifest merger it runs: *)
(* Install, upgrade and Restore of the files of one game folder, one file  *)
(* operation at a time, with operations that fail, and with the process or *)
(* the machine stopping between any two of them.                           *)
(*                                                                         *)
(* A file's content is an abstract record. `tab` says whose bytes they are *)
(* (the game's, a package version's, another tool's); for the manifest it  *)
(* is the tablet resources, `other` the unrelated entries and `pkgs` the   *)
(* number of package files it names.                                       *)
(***************************************************************************)
EXTENDS Naturals, FiniteSets, Sequences

CONSTANTS Version,      \* package versions
          Accepts,      \* <<v, w>>: v's tablet.patch lists w's resources as a baseline
          FrameFile,    \* the name of the n-th package file
          MaxInstalls,  \* bound: installs that reach the backup step
          MaxMods,      \* bound: modifications by other tools
          MaxFaults     \* bound: failed operations and crashes

ASSUME InstallerAssumption ==
  /\ Version \cap {"stock", "mod", "none", "torn"} = {}
  /\ Accepts \subseteq Version \X Version
  /\ {MaxInstalls, MaxMods, MaxFaults} \subseteq Nat
  /\ DOMAIN FrameFile = 0 .. MaxInstalls
  /\ \A n \in 0 .. MaxInstalls :
       /\ FrameFile[n] \notin {"dll", "script", "manifest", "state"}
       /\ \A k \in 0 .. MaxInstalls : FrameFile[k] = FrameFile[n] => k = n

GameFile == {"dll", "script", "manifest"}
Path == GameFile \cup {FrameFile[n] : n \in DOMAIN FrameFile} \cup {"state"}

Plain(who) == [tab |-> who, other |-> 0, pkgs |-> 0]
None == Plain("none")
Torn == Plain("torn")

VARIABLES disk,     \* Path -> content, None when there is no such file
          pending,  \* the <path>.trainer-pending beside each path
          backup,   \* one directory of saved files per install
          pc,       \* what the running script is doing, "idle" when none runs
          todo,     \* the rest of the loop it is in
          rollback, \* $rollback of the running install
          base,     \* history: the game folder when the running install began
          origin,   \* history: the folder before the install the state records
          mods, faults

job == <<pc, todo, rollback>>
vars == <<disk, pending, backup, job, base, origin, mods, faults>>

Init ==
  /\ disk = [p \in Path |-> IF p \in {"script", "manifest"} THEN Plain("stock") ELSE None]
  /\ pending = [p \in Path |-> None]
  /\ backup = << >>
  /\ pc = "idle" /\ todo = << >> /\ rollback = << >>
  /\ base = disk /\ origin = disk
  /\ mods = 0 /\ faults = 0

Installed == disk["state"] # None

-----------------------------------------------------------------------------
(* The merger: its own resources must be stock, its own, or a listed        *)
(* baseline; unrelated entries are kept; a package file is added unless     *)
(* nothing changes.                                                         *)
Mergeable(v, m) ==
  m.tab \in {"stock", v} \cup {w \in Version : <<v, w>> \in Accepts}

Merged(v, m) == IF m.tab = v THEN m ELSE [m EXCEPT !.tab = v, !.pkgs = @ + 1]

(* Bug variant of Copies: the manifest before the package file it names.    *)
CopiesManifestFirst(v) ==
  LET m == disk["manifest"]
      frame == IF m.tab = v THEN << >>
               ELSE <<[path |-> FrameFile[m.pkgs], source |-> Plain(v)]>>
  IN <<[path |-> "dll", source |-> Plain(v)], [path |-> "script", source |-> Plain(v)],
       [path |-> "manifest", source |-> Merged(v, m)]>> \o frame

(* The files to copy, in package order, the manifest after the package file *)
(* it names.                                                                *)
Copies(v) ==
  LET m == disk["manifest"]
      frame == IF m.tab = v THEN << >>
               ELSE <<[path |-> FrameFile[m.pkgs], source |-> Plain(v)]>>
  IN <<[path |-> "dll", source |-> Plain(v)], [path |-> "script", source |-> Plain(v)]>>
       \o frame \o <<[path |-> "manifest", source |-> Merged(v, m)]>>

Unmodified(files) == \A i \in DOMAIN files : disk[files[i].path] = files[i].after

(* -Action Verify: what an earlier install put there is untouched, or the   *)
(* scripts are the accepted ones.                                           *)
Verified == IF Installed THEN Unmodified(disk["state"].files)
                         ELSE disk["script"] = Plain("stock")

Supported(v) == Verified /\ Mergeable(v, disk["manifest"])

(* One backup per file about to be replaced; a file an earlier install      *)
(* already saved keeps that install's record of the original, and records   *)
(* of files this package no longer has are kept too.                        *)
Saved(copies) ==
  [i \in DOMAIN copies |->
     [path |-> copies[i].path, existed |-> disk[copies[i].path] # None,
      backup |-> Len(backup) + 1, after |-> copies[i].source]]

PathsOf(files) == {files[i].path : i \in DOMAIN files}

OldFiles == IF Installed THEN disk["state"].files ELSE << >>

(* The records of other files than those, in their order.                   *)
Others(files, paths) ==
  LET other == {i \in DOMAIN files : files[i].path \notin paths}
      Nth(k) == CHOOSE i \in other : Cardinality({j \in other : j <= i}) = k
  IN [k \in 1 .. Cardinality(other) |-> files[Nth(k)]]

(* Bug variants of Records: an upgrade records what it has just replaced as *)
(* the original; it appends its records to the old ones.                    *)
RecordsForgetOriginals(saved) == saved \o Others(OldFiles, PathsOf(saved))

RecordsAppended(saved) == saved \o OldFiles

Records(saved) ==
  LET Of(p) == {i \in DOMAIN OldFiles : OldFiles[i].path = p}
      First(p) == OldFiles[CHOOSE i \in Of(p) : \A j \in Of(p) : i <= j]
      kept == [i \in DOMAIN saved |->
                 IF Of(saved[i].path) = {} THEN saved[i]
                 ELSE [saved[i] EXCEPT !.existed = First(saved[i].path).existed,
                                       !.backup = First(saved[i].path).backup]]
  IN kept \o Others(OldFiles, PathsOf(saved))

-----------------------------------------------------------------------------
(* Every write goes through CopyAtomic: copy beside the target, compare,    *)
(* then replace. A stale pending file, a failed copy or a failed replace    *)
(* throws.                                                                  *)
CopyPending(p, content, next, thrown) ==
  \/ /\ pending[p] = None
     /\ pending' = [pending EXCEPT ![p] = content]
     /\ next
     /\ UNCHANGED faults
  \/ /\ pending[p] # None
     /\ thrown
     /\ UNCHANGED <<pending, faults>>
  \/ /\ pending[p] = None /\ faults < MaxFaults
     /\ faults' = faults + 1
     /\ \E c \in {None, Torn} : pending' = [pending EXCEPT ![p] = c]
     /\ thrown

ReplaceTarget(p, next, thrown) ==
  \/ /\ disk' = [disk EXCEPT ![p] = pending[p]]
     /\ pending' = [pending EXCEPT ![p] = None]
     /\ next
     /\ UNCHANGED faults
  \/ /\ faults < MaxFaults
     /\ faults' = faults + 1
     /\ thrown
     /\ UNCHANGED <<disk, pending>>

Go(where, rest) == pc' = where /\ todo' = rest
Exit == Go("idle", << >>) /\ rollback' = << >>
Throw == Go("undo", rollback) /\ UNCHANGED rollback

(* An install that passes every check: leftovers equal to what would be     *)
(* written are moved away, every file is backed up, and the copy loop, the  *)
(* state file last, begins.                                                 *)
Install(v) ==
  LET copies == Copies(v)
      saved == Saved(copies)
      ours == PathsOf(copies)
      files == [tab |-> "state", files |-> Records(saved)]
  IN
  /\ pc = "idle"
  /\ Len(backup) < MaxInstalls
  /\ Supported(v)
  /\ \A i \in DOMAIN copies : pending[copies[i].path] \in {None, copies[i].source}
  /\ pending' = [p \in Path |-> IF p \in ours THEN None ELSE pending[p]]
  /\ backup' = Append(backup, [p \in ours |-> disk[p]])
  /\ rollback' = saved
  /\ Go("copy", Append(copies, [path |-> "state", source |-> files]))
  /\ base' = disk
  /\ origin' = IF Installed THEN origin ELSE disk
  /\ UNCHANGED <<disk, mods, faults>>

(* A leftover that is not what would be written stops the install, after    *)
(* the leftovers of earlier files have been moved away.                     *)
InstallRefusedByLeftover(v) ==
  LET copies == Copies(v)
      strange == {i \in DOMAIN copies : pending[copies[i].path] \notin {None, copies[i].source}}
  IN
  /\ pc = "idle"
  /\ Supported(v)
  /\ strange # {}
  /\ LET before == {copies[i].path : i \in {j \in DOMAIN copies : \A k \in strange : j < k}}
     IN pending' = [p \in Path |-> IF p \in before THEN None ELSE pending[p]]
  /\ UNCHANGED <<disk, backup, job, base, origin, mods, faults>>

Copy ==
  /\ pc = "copy" /\ todo # << >>
  /\ Head(todo).path = "state" => Unmodified(Head(todo).source.files)
  /\ CopyPending(Head(todo).path, Head(todo).source,
                 Go("swap", todo) /\ UNCHANGED rollback, Throw)
  /\ UNCHANGED <<disk, backup, base, origin, mods>>

Swap ==
  /\ pc = "swap"
  /\ ReplaceTarget(Head(todo).path, Go("copy", Tail(todo)) /\ UNCHANGED rollback, Throw)
  /\ UNCHANGED <<backup, base, origin, mods>>

Finish ==
  /\ pc = "copy" /\ todo = << >>
  /\ Exit
  /\ UNCHANGED <<disk, pending, backup, base, origin, mods, faults>>

(* The catch block: for every file, in the order of the copies, drop our    *)
(* own pending file (skip the file when the pending one is not ours), then  *)
(* put the saved file back or remove the new one. A throw in here ends the  *)
(* script.                                                                  *)
UndoSkip ==
  /\ pc = "undo" /\ todo # << >>
  /\ pending[Head(todo).path] \notin {None, Head(todo).after}
  /\ Go("undo", Tail(todo))
  /\ UNCHANGED <<disk, pending, backup, rollback, base, origin, mods, faults>>

UndoPending ==
  /\ pc = "undo" /\ todo # << >>
  /\ pending[Head(todo).path] = Head(todo).after
  /\ pending' = [pending EXCEPT ![Head(todo).path] = None]
  /\ UNCHANGED <<disk, backup, job, base, origin, mods, faults>>

UndoCopy ==
  /\ pc = "undo" /\ todo # << >>
  /\ Head(todo).existed
  /\ pending[Head(todo).path] = None
  /\ CopyPending(Head(todo).path, backup[Head(todo).backup][Head(todo).path],
                 Go("undoSwap", todo) /\ UNCHANGED rollback, Exit)
  /\ UNCHANGED <<disk, backup, base, origin, mods>>

UndoSwap ==
  /\ pc = "undoSwap"
  /\ ReplaceTarget(Head(todo).path, Go("undo", Tail(todo)) /\ UNCHANGED rollback, Exit)
  /\ UNCHANGED <<backup, base, origin, mods>>

(* Bug variant of UndoRemove: only files with a backup are dealt with.      *)
UndoKeepsNew ==
  /\ pc = "undo" /\ todo # << >>
  /\ ~Head(todo).existed
  /\ Go("undo", Tail(todo))
  /\ UNCHANGED <<disk, pending, backup, rollback, base, origin, mods, faults>>

UndoRemove ==
  /\ pc = "undo" /\ todo # << >>
  /\ ~Head(todo).existed
  /\ pending[Head(todo).path] = None
  /\ disk' = [disk EXCEPT ![Head(todo).path] = None]
  /\ Go("undo", Tail(todo))
  /\ UNCHANGED <<pending, backup, rollback, base, origin, mods, faults>>

UndoEnds ==
  /\ pc = "undo" /\ todo = << >>
  /\ Exit
  /\ UNCHANGED <<disk, pending, backup, base, origin, mods, faults>>

(* Bug variant of RestoreAccepts: no check.                                 *)
RestoreUnchecked == Installed

(* Restore checks every file against the state before it touches the first  *)
(* one; a throw after that leaves the rest as it is.                        *)
RestoreAccepts == Installed /\ Unmodified(disk["state"].files)

Restore ==
  /\ pc = "idle"
  /\ RestoreAccepts
  /\ Go("restore", disk["state"].files)
  /\ UNCHANGED <<disk, pending, backup, rollback, base, origin, mods, faults>>

RestoreRefused ==
  /\ pc = "idle"
  /\ ~RestoreAccepts
  /\ UNCHANGED vars

RestoreCopy ==
  /\ pc = "restore" /\ todo # << >>
  /\ Head(todo).existed
  /\ CopyPending(Head(todo).path, backup[Head(todo).backup][Head(todo).path],
                 Go("restoreSwap", todo) /\ UNCHANGED rollback, Exit)
  /\ UNCHANGED <<disk, backup, base, origin, mods>>

RestoreSwap ==
  /\ pc = "restoreSwap"
  /\ ReplaceTarget(Head(todo).path, Go("restore", Tail(todo)) /\ UNCHANGED rollback, Exit)
  /\ UNCHANGED <<backup, base, origin, mods>>

RestoreRemove ==
  /\ pc = "restore" /\ todo # << >>
  /\ ~Head(todo).existed
  /\ disk' = [disk EXCEPT ![Head(todo).path] = None]
  /\ Go("restore", Tail(todo))
  /\ UNCHANGED <<pending, backup, rollback, base, origin, mods, faults>>

RestoreEnds ==
  /\ pc = "restore" /\ todo = << >>
  /\ disk' = [disk EXCEPT !["state"] = None]
  /\ Exit
  /\ UNCHANGED <<pending, backup, base, origin, mods, faults>>

(* The script or the machine stops; a copy in progress leaves a torn file.  *)
Crash ==
  /\ pc # "idle" /\ faults < MaxFaults
  /\ faults' = faults + 1
  /\ Exit
  /\ \/ UNCHANGED pending
     \/ /\ pc \in {"copy", "undo", "restore"} /\ todo # << >>
        /\ pending[Head(todo).path] = None
        /\ pending' = [pending EXCEPT ![Head(todo).path] = Torn]
  /\ UNCHANGED <<disk, backup, base, origin, mods>>

(* Between runs another tool or a game update changes a file.               *)
Modify ==
  /\ pc = "idle" /\ mods < MaxMods
  /\ mods' = mods + 1
  /\ \/ \E p \in {"dll", "script"} : disk' = [disk EXCEPT ![p] = Plain("mod")]
     \/ disk' = [disk EXCEPT !["manifest"].other = 1]
     \/ disk' = [disk EXCEPT !["manifest"].tab = "mod"]
  /\ UNCHANGED <<pending, backup, job, base, origin, faults>>

Next ==
  \/ \E v \in Version : Install(v)
  \/ \E v \in Version : InstallRefusedByLeftover(v)
  \/ Copy \/ Swap \/ Finish
  \/ UndoSkip \/ UndoPending \/ UndoCopy \/ UndoSwap \/ UndoRemove \/ UndoEnds
  \/ Restore \/ RestoreRefused \/ RestoreCopy \/ RestoreSwap \/ RestoreRemove \/ RestoreEnds
  \/ Crash \/ Modify

Spec == Init /\ [][Next]_vars

-----------------------------------------------------------------------------
Content == [tab : Version \cup {"stock", "mod", "none", "torn"},
            other : 0 .. 1, pkgs : 0 .. MaxInstalls]
Record == [path : Path, existed : BOOLEAN, backup : 1 .. MaxInstalls, after : Content]

(* Types: files hold contents, the state file a list of records, one per    *)
(* path, and the loops walk over files they may touch.                      *)
TypeOK ==
  /\ \A p \in Path \ {"state"} : {disk[p], pending[p], base[p], origin[p]} \subseteq Content
  /\ \A f \in {disk["state"], pending["state"]} :
       \/ f \in {None, Torn}
       \/ /\ f.files \in Seq(Record)
          /\ \A i, j \in DOMAIN f.files : f.files[i].path = f.files[j].path => i = j
  /\ Len(backup) <= MaxInstalls
  /\ pc \in {"idle", "copy", "swap", "undo", "undoSwap", "restore", "restoreSwap"}
  /\ \A i \in DOMAIN todo : todo[i].path \in Path
  /\ rollback \in Seq(Record)
  /\ mods \in 0 .. MaxMods /\ faults \in 0 .. MaxFaults

(* Restore is exact (Install.ps1 36-52, 113-124): when its loop ends, every *)
(* file is what it was before the first of the installs and upgrades that   *)
(* the state records, whatever failed or stopped on the way. The exception  *)
(* is a package file that the original manifest does not name: it may stay  *)
(* behind after an upgrade whose rollback was cut short, and only then.     *)
Leftover(p) ==
  faults > 0 /\ \E n \in DOMAIN FrameFile : n >= origin["manifest"].pkgs /\ p = FrameFile[n]

RestoreIsExact ==
  pc = "restore" /\ todo = << >> =>
    \A p \in Path \ {"state"} : disk[p] = origin[p] \/ Leftover(p)

(* A rollback that reaches its end (131-144) leaves the game folder exactly *)
(* as the failed install found it: an upgrade falls back to the version     *)
(* that was installed, not to the originals.                                *)
RollbackIsExact ==
  pc = "undo" /\ todo = << >> => disk = base

(* While the copies go forward, the manifest never names a package file     *)
(* that is not there, so a crash at any of these points leaves a manifest   *)
(* the game can follow, if it was one before (86-90, 126).                  *)
Whole(files) ==
  \A n \in DOMAIN FrameFile : n < files["manifest"].pkgs => files[FrameFile[n]] # None

ManifestHasPackages ==
  pc \in {"copy", "swap"} /\ Whole(base) => Whole(disk)

(* Nothing of the game's or of another tool's is lost: a script step that   *)
(* replaces or removes such a file leaves a copy of it in a backup          *)
(* directory (41, 64-66, 91, 110).                                          *)
Theirs(c) == "tab" \in DOMAIN c /\ c.tab \in {"stock", "mod"}

NothingLost ==
  [][pc # "idle" =>
       \A p \in Path : disk'[p] # disk[p] /\ Theirs(disk[p]) =>
         \E b \in DOMAIN backup : p \in DOMAIN backup[b] /\ backup[b][p] = disk[p]]_vars

(* What a refused Restore says (41): "File changed since install". A file   *)
(* that nobody but the installer touched has not changed since the install, *)
(* so Restore of an installed tablet is accepted.                           *)
RefusedOnlyIfModified ==
  pc = "idle" /\ Installed /\ mods = 0 => RestoreAccepts
====
