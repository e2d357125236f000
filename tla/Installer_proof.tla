---- MODULE Installer_proof ----
(***************************************************************************)
(* The installer: its records lead back to the folder as it was, whatever  *)
(* failed in between, for any versions, folders and numbers of installs;   *)
(* the published installer is the installer, and its upgrades go through.  *)
(*                                                                         *)
(* The merger it calls: a merge keeps the tables of a manifest sound and   *)
(* leaves alone what its patch does not name, for any tables and patches.  *)
(***************************************************************************)
EXTENDS PublishedInstaller, ManifestTables, FiniteSetTheorems, SequenceTheorems,
        WellFoundedInduction, TLAPS

File == Path \ {"state"}

IsSeq(s) == s \in Seq({s[i] : i \in DOMAIN s})

Distinct(files) == \A i, j \in DOMAIN files : files[i].path = files[j].path => i = j

\* What a state file says.
StateContent(f) == f.tab = "state" /\ f.files \in Seq(Record) /\ Distinct(f.files)

\* What is in a folder.
Folder(f) == f = [p \in Path |-> f[p]] /\ \A p \in File : f[p] \in Content

\* What a record puts back, from backups bk.
Original(r, bk) == IF r.existed THEN bk[r.backup][r.path] ELSE None

\* A package file that is no part of the original folder og and was left
\* behind, after fl failures.
Exempt(p, og, fl) ==
  fl > 0 /\ \E n \in DOMAIN FrameFile : n >= og["manifest"].pkgs /\ p = FrameFile[n]

\* A record leads back to the original folder.
LeadsBack(r, bk, og, fl) ==
  /\ r.path \in File /\ r.backup \in 1 .. Len(bk) /\ r.after.tab \in Version
  /\ Original(r, bk) \in Content
  /\ Original(r, bk) = og[r.path] \/ Exempt(r.path, og, fl)

SoundFiles(files, bk, og, fl) ==
  /\ GameFile \subseteq PathsOf(files)
  /\ \A i \in DOMAIN files : LeadsBack(files[i], bk, og, fl)

\* Where a folder differs from the original one, the records say so.
Covered(folder, files, og, fl) ==
  \A p \in File : folder[p] = og[p] \/ p \in PathsOf(files) \/ Exempt(p, og, fl)

\* A record of what the running install has saved: of the folder bs it began
\* with, in the last of the backups bk, for a rollback of all of rb.
Saves(r, bk, bs, rb) ==
  /\ r.path \in GameFile \cup {FrameFile[bs["manifest"].pkgs]}
  /\ r.backup = Len(bk) /\ r.path \in DOMAIN bk[Len(bk)]
  /\ bk[Len(bk)][r.path] = bs[r.path]
  /\ r.existed <=> bs[r.path] # None
  /\ r.after.tab \in Version
  /\ r.path = "manifest" =>
       /\ bs["manifest"].pkgs <= r.after.pkgs
       /\ r.after.pkgs <= Len(bk)
       /\ \A n \in DOMAIN FrameFile : n < r.after.pkgs =>
            n < bs["manifest"].pkgs \/ FrameFile[n] \in PathsOf(rb)

Types ==
  /\ Folder(disk) /\ Folder(pending) /\ Folder(base) /\ Folder(origin)
  /\ disk["state"] = None \/ StateContent(disk["state"])
  /\ pending["state"] \in {None, Torn} \/ StateContent(pending["state"])
  /\ IsSeq(backup) /\ Len(backup) \in 0 .. MaxInstalls
  /\ IsSeq(todo) /\ \A i \in DOMAIN todo : todo[i].path \in Path
  /\ rollback \in Seq(Record)
  /\ pc \in {"idle", "copy", "swap", "undo", "undoSwap", "restore", "restoreSwap"}
  /\ mods \in 0 .. MaxMods /\ faults \in 0 .. MaxFaults

Pkgs ==
  /\ \A f \in {disk, base, origin} : f["manifest"].pkgs <= Len(backup)
  /\ Installed => origin["manifest"].pkgs <= disk["manifest"].pkgs

\* What the state file says is true of the originals.
State ==
  /\ Installed => SoundFiles(disk["state"].files, backup, origin, faults)
  /\ Installed /\ pc = "idle" => Covered(disk, disk["state"].files, origin, faults)

Installing == pc \in {"copy", "swap", "undo", "undoSwap"}

\* The install that runs, and the folder it began with.
Base ==
  Installing =>
    /\ base["manifest"].pkgs < Len(backup)
    /\ GameFile \subseteq PathsOf(rollback)
    /\ Distinct(rollback)
    /\ \A k \in DOMAIN rollback : Saves(rollback[k], backup, base, rollback)
    /\ base["state"] = None => \A p \in File : base[p] = origin[p]
    /\ base["state"] # None =>
         /\ GameFile \subseteq PathsOf(base["state"].files)
         /\ Covered(base, base["state"].files, origin, faults)
         /\ origin["manifest"].pkgs <= base["manifest"].pkgs

Forward ==
  pc \in {"copy", "swap"} =>
    /\ Distinct(todo)
    /\ \A i \in DOMAIN todo : todo[i].path = "state" <=> i = Len(todo)
    /\ \A i \in DOMAIN todo : i # Len(todo) =>
         \E k \in DOMAIN rollback : rollback[k].path = todo[i].path /\ rollback[k].after = todo[i].source
    /\ \A i \in DOMAIN todo : disk[todo[i].path] = base[todo[i].path]
    /\ \A i \in DOMAIN todo : todo[i].path # "state" =>
         pending[todo[i].path] = IF pc = "swap" /\ i = 1 THEN todo[i].source ELSE None
    /\ pc = "swap" => todo # << >> /\ pending[todo[1].path] = todo[1].source
    /\ \A k \in DOMAIN rollback : rollback[k].path \notin PathsOf(todo) =>
         disk[rollback[k].path] = rollback[k].after /\ pending[rollback[k].path] = None
    /\ \A p \in File \ PathsOf(rollback) : disk[p] = base[p]
    /\ \A i \in DOMAIN todo : todo[i].path \notin GameFile \cup {"state"} =>
         \E j \in DOMAIN todo : i < j /\ todo[j].path = "manifest"

\* The state file that is the last to be copied.
Recording(f) ==
  /\ StateContent(f)
  /\ SoundFiles(f.files, backup, origin, faults)
  /\ PathsOf(rollback) \subseteq PathsOf(f.files)
  /\ Covered(base, f.files, origin, faults)

AtTheEnd ==
  pc \in {"copy", "swap"} =>
    /\ todo # << >> => Recording(todo[Len(todo)].source)
    /\ todo = << >> => /\ Installed /\ Unmodified(disk["state"].files)
                      /\ Covered(disk, disk["state"].files, origin, faults)
    /\ pc = "swap" /\ Len(todo) = 1 => Unmodified(todo[1].source.files)

Backward ==
  pc \in {"undo", "undoSwap"} =>
    /\ Distinct(todo)
    /\ \A i \in DOMAIN todo : \E k \in DOMAIN rollback : todo[i] = rollback[k]
    /\ disk["state"] = base["state"]
    /\ \A p \in File :
         \/ disk[p] = base[p]
         \/ \E i \in DOMAIN todo :
              /\ todo[i].path = p /\ disk[p] = todo[i].after
              /\ pending[p] \in {None, todo[i].after} \/ (pc = "undoSwap" /\ i = 1)
    /\ pc = "undoSwap" => /\ todo # << >> /\ todo[1].existed
                          /\ pending[todo[1].path] = base[todo[1].path]

Restoring ==
  pc \in {"restore", "restoreSwap"} =>
    /\ Installed
    /\ Distinct(todo)
    /\ \A i \in DOMAIN todo : \E k \in DOMAIN disk["state"].files : todo[i] = disk["state"].files[k]
    /\ \A i \in DOMAIN todo : disk[todo[i].path] = todo[i].after
    /\ \A p \in File : p \in PathsOf(todo) \/ disk[p] = origin[p] \/ Exempt(p, origin, faults)
    /\ pc = "restoreSwap" => /\ todo # << >> /\ todo[1].existed
                             /\ pending[todo[1].path] = Original(todo[1], backup)

\* Nothing has failed and nobody else has changed a file.
Clean ==
  /\ faults = 0 =>
       /\ pc \notin {"undo", "undoSwap"}
       /\ \A p \in Path : pending[p] = None \/ (pc \in {"swap", "restoreSwap"} /\ p = todo[1].path)
  /\ faults = 0 /\ mods = 0 =>
       /\ origin["script"] = Plain("stock") /\ origin["manifest"].tab = "stock"
       /\ pc = "idle" /\ Installed => Unmodified(disk["state"].files)
       /\ pc = "idle" /\ ~Installed => disk["script"] = Plain("stock") /\ disk["manifest"].tab = "stock"

IInv == Types /\ Pkgs /\ State /\ Base /\ Forward /\ AtTheEnd /\ Backward /\ Restoring /\ Clean

-----------------------------------------------------------------------------
\* The paths of the model are different from each other.
LEMMA PathFacts ==
  /\ GameFile \subseteq File /\ "state" \in Path /\ "state" \notin File
  /\ \A n \in 0 .. MaxInstalls : FrameFile[n] \in File /\ FrameFile[n] \notin GameFile
  /\ \A m, n \in 0 .. MaxInstalls : FrameFile[m] = FrameFile[n] => m = n
  /\ \A p \in File : p \in GameFile \/ \E n \in 0 .. MaxInstalls : p = FrameFile[n]
  /\ DOMAIN FrameFile = 0 .. MaxInstalls
  /\ Path = File \cup {"state"}
  /\ MaxInstalls \in Nat
  /\ "dll" \in GameFile /\ "script" \in GameFile /\ "manifest" \in GameFile
BY InstallerAssumption DEF File, Path, GameFile

\* Contents of a file that is not there, of a torn one and of a version.
LEMMA ContentFacts ==
  /\ None \in Content /\ Torn \in Content /\ Plain("stock") \in Content
  /\ None.tab = "none" /\ Torn.tab = "torn" /\ None # Torn
  /\ \A v \in Version : Plain(v) \in Content /\ Plain(v).tab = v /\ v # "none" /\ v # "torn"
  /\ \A v \in Version : v # "stock" /\ v # "mod"
  /\ \A who : Plain(who).tab = who /\ Plain(who).pkgs = 0
  /\ \A c : c.tab \in Version \cup {"state"} => c # None /\ c # Torn
BY InstallerAssumption DEF None, Torn, Plain, Content

LEMMA SeqDomain ==
  ASSUME NEW S, NEW s \in Seq(S)
  PROVE  DOMAIN s = 1 .. Len(s) /\ Len(s) \in Nat /\ \A i \in DOMAIN s : s[i] \in S
BY LenProperties, ElementOfSeq

LEMMA SeqIsSeq == ASSUME NEW S, NEW s \in Seq(S) PROVE IsSeq(s)
BY SeqOfRange DEF IsSeq, Range

\* The first of a sequence and the rest of it.
LEMMA HeadTail ==
  ASSUME NEW s, IsSeq(s), s # << >>
  PROVE  /\ Len(s) \in Nat \ {0} /\ DOMAIN s = 1 .. Len(s) /\ Head(s) = s[1]
         /\ IsSeq(Tail(s)) /\ Len(Tail(s)) = Len(s) - 1 /\ DOMAIN Tail(s) = 1 .. Len(s) - 1
         /\ \A i \in 1 .. Len(s) - 1 : Tail(s)[i] = s[i + 1]
<1> DEFINE S == {s[i] : i \in DOMAIN s}
<1>1. s \in Seq(S)
  BY DEF IsSeq
<1> HIDE DEF S
<1>2. /\ Len(s) \in Nat \ {0} /\ DOMAIN s = 1 .. Len(s) /\ Head(s) = s[1]
      /\ Tail(s) \in Seq(S) /\ Len(Tail(s)) = Len(s) - 1
      /\ DOMAIN Tail(s) = 1 .. Len(s) - 1
      /\ \A i \in 1 .. Len(s) - 1 : Tail(s)[i] = s[i + 1]
  BY <1>1, HeadTailProperties, EmptySeq, LenProperties
<1>3. IsSeq(Tail(s))
  BY <1>2, SeqIsSeq
<1> QED BY <1>2, <1>3

\* What is left after the first: other places, other paths.
LEMMA TailPaths ==
  ASSUME NEW s, IsSeq(s), s # << >>
  PROVE  /\ PathsOf(s) = PathsOf(Tail(s)) \cup {Head(s).path}
         /\ \A i \in DOMAIN Tail(s) : i + 1 \in DOMAIN s /\ Tail(s)[i] = s[i + 1]
         /\ \A j \in DOMAIN s : j # 1 => j - 1 \in DOMAIN Tail(s) /\ Tail(s)[j - 1] = s[j]
         /\ Distinct(s) => Distinct(Tail(s)) /\ Head(s).path \notin PathsOf(Tail(s))
<1>1. /\ Len(s) \in Nat \ {0} /\ DOMAIN s = 1 .. Len(s) /\ Head(s) = s[1]
      /\ DOMAIN Tail(s) = 1 .. Len(s) - 1
      /\ \A i \in 1 .. Len(s) - 1 : Tail(s)[i] = s[i + 1]
  BY HeadTail
<1>2. /\ \A i \in DOMAIN Tail(s) : i + 1 \in DOMAIN s /\ Tail(s)[i] = s[i + 1]
      /\ \A j \in DOMAIN s : j # 1 => j - 1 \in DOMAIN Tail(s) /\ Tail(s)[j - 1] = s[j]
  BY <1>1
<1>3. PathsOf(s) = PathsOf(Tail(s)) \cup {Head(s).path}
  <2>1. ASSUME NEW p \in PathsOf(s) PROVE p \in PathsOf(Tail(s)) \cup {Head(s).path}
    <3>1. PICK j \in DOMAIN s : p = s[j].path
      BY <2>1 DEF PathsOf
    <3> QED BY <3>1, <1>1, <1>2 DEF PathsOf
  <2>2. \A p \in PathsOf(Tail(s)) : p \in PathsOf(s)
    BY <1>2 DEF PathsOf
  <2>3. Head(s).path \in PathsOf(s)
    BY <1>1 DEF PathsOf
  <2> QED BY <2>1, <2>2, <2>3
<1>4. ASSUME Distinct(s) PROVE Distinct(Tail(s)) /\ Head(s).path \notin PathsOf(Tail(s))
  BY <1>1, <1>2, <1>4 DEF PathsOf, Distinct
<1> QED BY <1>2, <1>3, <1>4

\* More backups and more failures change nothing for a record.
LEMMA MoreBackups ==
  ASSUME NEW bk, NEW bk2, NEW og, NEW fl, Len(bk) \in Nat, Len(bk2) \in Nat, Len(bk) <= Len(bk2),
         \A b \in 1 .. Len(bk) : bk2[b] = bk[b]
  PROVE  \A fs : SoundFiles(fs, bk, og, fl) => SoundFiles(fs, bk2, og, fl)
<1>1. ASSUME NEW r, LeadsBack(r, bk, og, fl) PROVE LeadsBack(r, bk2, og, fl)
  BY <1>1 DEF LeadsBack, Original
<1> QED BY <1>1 DEF SoundFiles

LEMMA MoreFailures ==
  ASSUME NEW bk, NEW og, NEW fl \in Nat, NEW fl2 \in Nat, fl <= fl2
  PROVE  /\ \A fs : SoundFiles(fs, bk, og, fl) => SoundFiles(fs, bk, og, fl2)
         /\ \A f, fs : Covered(f, fs, og, fl) => Covered(f, fs, og, fl2)
<1>1. \A p : Exempt(p, og, fl) => Exempt(p, og, fl2)
  BY DEF Exempt
<1> QED BY <1>1 DEF SoundFiles, Covered, LeadsBack

\* The records of other files are those of the old ones, each once.
LEMMA OthersFacts ==
  ASSUME NEW S, NEW files \in Seq(S), NEW paths
  PROVE  LET t == Others(files, paths) IN
         /\ t \in Seq(S) /\ \A k \in DOMAIN t : t[k].path \notin paths
         /\ \A k \in DOMAIN t : \E i \in DOMAIN files : t[k] = files[i]
         /\ \A i \in DOMAIN files : files[i].path \notin paths => \E k \in DOMAIN t : t[k] = files[i]
         /\ Distinct(files) => Distinct(t)
<1> DEFINE other == {i \in DOMAIN files : files[i].path \notin paths}
           upto(i) == {j \in other : j <= i}
           c == Cardinality(other)
           rank == [i \in other |-> Cardinality(upto(i))]
           Nth(k) == CHOOSE i \in other : Cardinality(upto(i)) = k
           t == Others(files, paths)
<1>1. t = [k \in 1 .. c |-> files[Nth(k)]]
  BY DEF Others
<1>2. DOMAIN files = 1 .. Len(files) /\ Len(files) \in Nat
  OBVIOUS
<1>3. IsFiniteSet(other) /\ c \in Nat
  <2>1. IsFiniteSet(1 .. Len(files)) /\ other \in SUBSET (1 .. Len(files))
    BY <1>2, FS_Interval
  <2>2. IsFiniteSet(other)
    BY <2>1, FS_Subset
  <2> QED BY <2>2, FS_CardinalityType
<1>4. ASSUME NEW i \in other PROVE IsFiniteSet(upto(i)) /\ rank[i] \in 1 .. c
  <2>1. upto(i) \in SUBSET other /\ upto(i) # {}
    BY <1>2
  <2>2. IsFiniteSet(upto(i)) /\ Cardinality(upto(i)) <= c /\ Cardinality(upto(i)) \in Nat
    BY <2>1, <1>3, FS_Subset, FS_CardinalityType
  <2>3. Cardinality(upto(i)) # 0
    BY <2>1, <2>2, FS_EmptySet
  <2> QED BY <2>2, <2>3, <1>3
<1>5. ASSUME NEW i \in other, NEW j \in other, rank[i] = rank[j], i < j PROVE FALSE
  <2>1. upto(i) \in SUBSET upto(j)
    BY <1>2, <1>5
  <2>2. upto(i) = upto(j)
    BY <2>1, <1>4, <1>5, FS_Subset
  <2>3. j \in upto(j) /\ j \notin upto(i)
    BY <1>2, <1>5
  <2> QED BY <2>2, <2>3
<1>6. \A i, j \in other : rank[i] = rank[j] => i = j
  <2>1. \A i, j \in other : i < j \/ j < i \/ i = j
    BY <1>2
  <2> QED BY <2>1, <1>5
<1>7. rank \in Injection(other, 1 .. c)
  <2>1. rank \in [other -> 1 .. c]
    BY <1>4
  <2> QED BY <2>1, <1>6 DEF Injection, IsInjective
<1>8. rank \in Surjection(other, 1 .. c)
  <2>1. IsFiniteSet(1 .. c) /\ Cardinality(1 .. c) = c
    BY <1>3, FS_Interval
  <2> QED BY <2>1, <1>7, FS_Injection
<1>9. ASSUME NEW k \in 1 .. c PROVE Nth(k) \in other /\ rank[Nth(k)] = k
  <2>1. PICK i \in other : rank[i] = k
    BY <1>8 DEF Surjection
  <2> QED BY <2>1
<1>10. ASSUME NEW i \in other PROVE rank[i] \in 1 .. c /\ Nth(rank[i]) = i
  BY <1>4, <1>6, <1>9
<1> HIDE DEF Nth, rank
<1>11. t \in Seq(S) /\ DOMAIN t = 1 .. c
  <2>1. \A k \in 1 .. c : files[Nth(k)] \in S
    BY <1>2, <1>9
  <2> QED BY <1>1, <1>3, <2>1
<1>12. \A k \in DOMAIN t : t[k] = files[Nth(k)] /\ Nth(k) \in other
  BY <1>1, <1>9, <1>11
<1>13. ASSUME NEW i \in other PROVE rank[i] \in DOMAIN t /\ t[rank[i]] = files[i]
  BY <1>1, <1>10, <1>11
<1> HIDE DEF t
<1>14. ASSUME Distinct(files) PROVE Distinct(t)
  <2>1. ASSUME NEW k \in DOMAIN t, NEW l \in DOMAIN t, t[k].path = t[l].path PROVE k = l
    <3>1. Nth(k) = Nth(l)
      BY <1>12, <1>14, <2>1 DEF Distinct
    <3> QED BY <3>1, <1>9, <1>11
  <2> QED BY <2>1 DEF Distinct
<1>15. \A k \in DOMAIN t : t[k].path \notin paths /\ \E i \in DOMAIN files : t[k] = files[i]
  BY <1>12
<1>16. \A i \in DOMAIN files : files[i].path \notin paths => \E k \in DOMAIN t : t[k] = files[i]
  BY <1>13
<1> QED BY <1>11, <1>14, <1>15, <1>16 DEF t

LEMMA PkgsNat ==
  ASSUME NEW f, Folder(f)
  PROVE  f["manifest"] \in Content /\ f["manifest"].pkgs \in 0 .. MaxInstalls /\ f["manifest"].pkgs \in Nat
<1>1. f["manifest"] \in Content
  BY PathFacts DEF Folder
<1> QED BY <1>1, PathFacts DEF Content

\* A folder with one file changed.
LEMMA FolderExcept ==
  ASSUME NEW f, Folder(f), NEW q \in Path, NEW c, q \in File => c \in Content,
         NEW g, g = [f EXCEPT ![q] = c]
  PROVE  Folder(g) /\ g[q] = c /\ \A p \in Path : p # q => g[p] = f[p]
BY DEF Folder, File

-----------------------------------------------------------------------------
\* A script that ends leaves the game folder to the next one.
LEMMA FinishKeeps == ASSUME IInv, Finish PROVE IInv'
<1> USE DEF IInv, Finish, Go, Exit
<1>1. Types' /\ Pkgs'
  BY EmptySeq DEF Types, Pkgs, Installed, IsSeq
<1>2. State' /\ Base' /\ Forward' /\ AtTheEnd' /\ Backward' /\ Restoring'
  BY DEF State, Base, Forward, AtTheEnd, Backward, Restoring, Installed, Installing
<1>3. Clean'
  BY DEF Clean, AtTheEnd, Installed, Unmodified
<1> QED BY <1>1, <1>2, <1>3

LEMMA UndoEndsKeeps == ASSUME IInv, UndoEnds PROVE IInv'
<1> USE DEF IInv, UndoEnds, Go, Exit
<1>1. Types' /\ Pkgs'
  BY EmptySeq DEF Types, Pkgs, Installed, IsSeq
<1>2. State' /\ Base' /\ Forward' /\ AtTheEnd' /\ Backward' /\ Restoring'
  BY DEF State, Base, Forward, AtTheEnd, Backward, Restoring, Installed, Installing, Covered
<1>3. Clean'
  BY DEF Clean, Installed, Unmodified, Types
<1> QED BY <1>1, <1>2, <1>3

LEMMA RestoreKeeps == ASSUME IInv, Restore PROVE IInv'
<1> USE DEF IInv, Restore, RestoreAccepts, Go
<1>0. /\ todo' = disk["state"].files /\ todo' \in Seq(Record) /\ IsSeq(todo')
      /\ \A i \in DOMAIN todo' : todo'[i].path \in Path
  <2>1. todo' = disk["state"].files /\ todo' \in Seq(Record)
    BY DEF Types, Installed, StateContent
  <2>2. \A r \in Record : r.path \in Path
    BY DEF Record
  <2>3. \A i \in DOMAIN todo' : todo'[i] \in Record
    BY <2>1
  <2> HIDE DEF IInv, Restore
  <2> QED BY <2>1, <2>2, <2>3, SeqIsSeq
<1>1. Types' /\ Pkgs'
  BY <1>0 DEF Types, Pkgs, Installed
<1>2. State' /\ Base' /\ Forward' /\ AtTheEnd' /\ Backward'
  BY DEF State, Base, Forward, AtTheEnd, Backward, Installed, Installing
<1>3. Restoring'
  BY DEF Restoring, State, Types, StateContent, Unmodified, Covered, Installed
<1>4. Clean'
  BY DEF Clean, Installed, Unmodified, Types
<1> QED BY <1>1, <1>2, <1>3, <1>4

LEMMA RestoreEndsKeeps == ASSUME IInv, RestoreEnds PROVE IInv'
<1> USE DEF IInv, RestoreEnds, Go, Exit
<1>0. Folder(disk) /\ "state" \in Path /\ "state" \notin File /\ disk' = [disk EXCEPT !["state"] = None]
  BY PathFacts DEF Types
<1>1. Folder(disk') /\ disk'["state"] = None /\ \A p \in File : disk'[p] = disk[p]
  BY <1>0 DEF Folder, File
<1>2. Types' /\ Pkgs'
  BY <1>1, EmptySeq, PathFacts DEF Types, Pkgs, Installed, IsSeq
<1>3. State' /\ Base' /\ Forward' /\ AtTheEnd' /\ Backward' /\ Restoring'
  BY <1>1 DEF State, Base, Forward, AtTheEnd, Backward, Restoring, Installed, Installing
<1>4. Clean'
  BY <1>1, PathFacts DEF Clean, Installed, Restoring, PathsOf, Exempt
<1> QED BY <1>2, <1>3, <1>4

LEMMA RestoreRefusedKeeps == ASSUME IInv, RestoreRefused PROVE IInv'
<1>1. UNCHANGED vars
  BY DEF RestoreRefused
<1> QED
  BY <1>1 DEF vars, job, IInv, Types, Pkgs, State, Base, Forward, AtTheEnd, Backward, Restoring, Clean,
              Installed, Installing, Unmodified, Recording

\* Others change files of the game, which every record list has.
LEMMA ModifyKeeps == ASSUME IInv, Modify PROVE IInv'
<1>1. /\ pc = "idle" /\ mods < MaxMods /\ mods' = mods + 1
      /\ UNCHANGED <<pending, backup, pc, todo, rollback, base, origin, faults>>
  BY DEF Modify, job
<1>2. Types /\ Folder(disk) /\ disk["manifest"] \in Content
  BY PathFacts DEF IInv, Types, Folder
<1>3. /\ Folder(disk') /\ \A p \in Path \ GameFile : disk'[p] = disk[p]
      /\ disk'["manifest"].pkgs = disk["manifest"].pkgs
  <2>1. CASE \E p \in {"dll", "script"} : disk' = [disk EXCEPT ![p] = Plain("mod")]
    <3>1. PICK p \in {"dll", "script"} : disk' = [disk EXCEPT ![p] = Plain("mod")]
      BY <2>1
    <3>2. p \in File /\ p \in GameFile /\ p # "manifest" /\ Plain("mod") \in Content
      BY PathFacts, InstallerAssumption DEF Plain, Content, GameFile
    <3> QED BY <3>1, <3>2, <1>2, PathFacts DEF Folder, File
  <2>2. CASE disk' = [disk EXCEPT !["manifest"].other = 1]
    <3>1. [disk["manifest"] EXCEPT !.other = 1] \in Content /\ [disk["manifest"] EXCEPT !.other = 1].pkgs = disk["manifest"].pkgs
      BY <1>2 DEF Content
    <3> QED BY <2>2, <3>1, <1>2, PathFacts DEF Folder, File
  <2>3. CASE disk' = [disk EXCEPT !["manifest"].tab = "mod"]
    <3>1. [disk["manifest"] EXCEPT !.tab = "mod"] \in Content /\ [disk["manifest"] EXCEPT !.tab = "mod"].pkgs = disk["manifest"].pkgs
      BY <1>2 DEF Content
    <3> QED BY <2>3, <3>1, <1>2, PathFacts DEF Folder, File
  <2> QED BY <2>1, <2>2, <2>3 DEF Modify
<1>4. disk'["state"] = disk["state"]
  BY <1>3, PathFacts
<1>5. Types' /\ Pkgs'
  <2>1. mods' \in 0 .. MaxMods
    BY <1>1, InstallerAssumption DEF IInv, Types
  <2>2. Types'
    BY <1>1, <1>3, <1>4, <2>1 DEF IInv, Types
  <2> QED BY <1>1, <1>3, <1>4, <2>2 DEF IInv, Pkgs, Installed
<1>6. State'
  <2>1. \A p \in File : p \notin GameFile => disk'[p] = disk[p]
    BY <1>3, PathFacts
  <2> QED BY <1>1, <2>1, <1>4 DEF IInv, State, Installed, SoundFiles, Covered
<1>7. Base' /\ Forward' /\ AtTheEnd' /\ Backward' /\ Restoring'
  BY <1>1 DEF Base, Forward, AtTheEnd, Backward, Restoring, Installing
<1>8. Clean'
  BY <1>1 DEF IInv, Clean, Types
<1> QED BY <1>5, <1>6, <1>7, <1>8 DEF IInv

\* Between two runs, when a script was cut off: what differs from the original
\* is recorded, or it is a package file nobody names.
LEMMA CutOff ==
  ASSUME IInv, pc # "idle", Installed, NEW fl \in Nat, fl >= faults, fl > 0
  PROVE  Covered(disk, disk["state"].files, origin, fl)
<1>1. faults \in Nat /\ fl > 0 /\ \A p : Exempt(p, origin, faults) => Exempt(p, origin, fl)
  BY DEF IInv, Types, Exempt
<1>2. CASE pc \in {"restore", "restoreSwap"}
  BY <1>1, <1>2 DEF IInv, Restoring, Covered, PathsOf
<1>3. CASE pc \in {"copy", "swap"} /\ todo = << >>
  BY <1>1, <1>3 DEF IInv, AtTheEnd, Covered
<1>4. ASSUME Installing, disk["state"] = base["state"],
             \A p \in File \ PathsOf(rollback) : disk[p] = base[p]
      PROVE  Covered(disk, disk["state"].files, origin, fl)
  <2>1. /\ \A k \in DOMAIN rollback : rollback[k].path \in GameFile \cup {FrameFile[base["manifest"].pkgs]}
        /\ GameFile \subseteq PathsOf(base["state"].files)
        /\ Covered(base, base["state"].files, origin, faults)
        /\ origin["manifest"].pkgs <= base["manifest"].pkgs
    BY <1>4 DEF IInv, Base, Saves, Installed
  <2>2. base["manifest"].pkgs \in DOMAIN FrameFile
    BY PathFacts DEF IInv, Types, Folder, Content
  <2>3. \A p \in PathsOf(rollback) : p \in PathsOf(disk["state"].files) \/ Exempt(p, origin, fl)
    BY <2>1, <2>2, <1>1, <1>4 DEF PathsOf, Exempt
  <2> QED BY <2>1, <2>3, <1>1, <1>4 DEF Covered
<1>5. CASE pc \in {"copy", "swap"} /\ todo # << >>
  <2>1. Len(todo) \in DOMAIN todo
    BY <1>5, HeadTail DEF IInv, Types
  <2>2. disk["state"] = base["state"]
    BY <2>1, <1>5 DEF IInv, Forward
  <2> QED BY <1>4, <1>5, <2>2 DEF IInv, Forward, Installing
<1>6. CASE pc \in {"undo", "undoSwap"}
  <2>1. disk["state"] = base["state"] /\ \A p \in File \ PathsOf(rollback) : disk[p] = base[p]
    BY <1>6 DEF IInv, Backward, PathsOf
  <2> QED BY <1>4, <1>6, <2>1 DEF Installing
<1> QED BY <1>2, <1>3, <1>5, <1>6 DEF IInv, Types

\* A script that ends by a failure or is stopped.
LEMMA ExitKeeps ==
  ASSUME IInv, pc # "idle", Exit, UNCHANGED <<disk, backup, base, origin, mods>>,
         faults' \in Nat, faults' >= faults, faults' > 0, faults' <= MaxFaults,
         Folder(pending'), pending'["state"] = pending["state"] \/ pending'["state"] \in {None, Torn}
  PROVE  IInv'
<1>1. pc' = "idle" /\ todo' = << >> /\ rollback' = << >>
  BY DEF Exit, Go
<1>2. Types' /\ Pkgs'
  BY <1>1, EmptySeq DEF IInv, Types, Pkgs, Installed, IsSeq
<1>3. State'
  <2>1. ASSUME Installed PROVE SoundFiles(disk["state"].files, backup, origin, faults')
    <3>1. faults \in Nat
      BY DEF IInv, Types
    <3>2. SoundFiles(disk["state"].files, backup, origin, faults)
      BY <2>1 DEF IInv, State
    <3> QED BY <3>1, <3>2, MoreFailures
  <2>2. ASSUME Installed PROVE Covered(disk, disk["state"].files, origin, faults')
    BY <2>2, CutOff
  <2> QED BY <2>1, <2>2 DEF State, Installed
<1>4. Base' /\ Forward' /\ AtTheEnd' /\ Backward' /\ Restoring'
  BY <1>1 DEF Base, Forward, AtTheEnd, Backward, Restoring, Installing
<1>5. Clean'
  BY DEF IInv, Types, Clean
<1> QED BY <1>2, <1>3, <1>4, <1>5 DEF IInv

LEMMA CrashKeeps == ASSUME IInv, Crash PROVE IInv'
<1>1. /\ pc # "idle" /\ Exit /\ UNCHANGED <<disk, backup, base, origin, mods>>
      /\ faults' \in Nat /\ faults' >= faults /\ faults' > 0 /\ faults' <= MaxFaults
  BY InstallerAssumption DEF IInv, Types, Crash
<1>2. Folder(pending') /\ (pending'["state"] = pending["state"] \/ pending'["state"] \in {None, Torn})
  <2>1. CASE UNCHANGED pending
    BY <2>1 DEF IInv, Types
  <2>2. CASE todo # << >> /\ pending' = [pending EXCEPT ![Head(todo).path] = Torn]
    <3>1. Head(todo).path \in Path
      BY <2>2, HeadTail DEF IInv, Types
    <3> QED BY <3>1, <2>2, ContentFacts, PathFacts DEF IInv, Types, Folder
  <2> QED BY <2>1, <2>2 DEF Crash
<1> QED BY <1>1, <1>2, ExitKeeps

-----------------------------------------------------------------------------
\* A copy that goes wrong: the pending file is what it was, or torn, or gone.
LEMMA FailedCopy ==
  ASSUME IInv, NEW p \in Path,
         \/ pending' = pending
         \/ \E c \in {None, Torn} : pending' = [pending EXCEPT ![p] = c]
  PROVE  Folder(pending') /\ (pending'["state"] = pending["state"] \/ pending'["state"] \in {None, Torn})
<1>1. CASE pending' = pending
  BY <1>1 DEF IInv, Types
<1>2. CASE \E c \in {None, Torn} : pending' = [pending EXCEPT ![p] = c]
  <2>1. PICK c \in {None, Torn} : pending' = [pending EXCEPT ![p] = c]
    BY <1>2
  <2>2. c \in Content /\ Folder(pending)
    BY ContentFacts DEF IInv, Types
  <2> QED BY <2>1, <2>2, PathFacts DEF Folder
<1> QED BY <1>1, <1>2

\* The record whose file Restore is at.
LEMMA RestoreHead ==
  ASSUME IInv, pc \in {"restore", "restoreSwap"}, todo # << >>
  PROVE  /\ Head(todo) = todo[1] /\ 1 \in DOMAIN todo
         /\ LeadsBack(Head(todo), backup, origin, faults)
         /\ Head(todo).path \in File /\ Head(todo).path # "state" /\ Head(todo).path \in Path
         /\ disk[Head(todo).path] = Head(todo).after
         /\ Head(todo).existed => Original(Head(todo), backup) = backup[Head(todo).backup][Head(todo).path]
         /\ ~Head(todo).existed => Original(Head(todo), backup) = None
<1>1. Head(todo) = todo[1] /\ 1 \in DOMAIN todo
  BY HeadTail DEF IInv, Types
<1>2. PICK k \in DOMAIN disk["state"].files : Head(todo) = disk["state"].files[k]
  BY <1>1 DEF IInv, Restoring
<1>3. LeadsBack(Head(todo), backup, origin, faults)
  BY <1>2 DEF IInv, State, Restoring, SoundFiles
<1>4. Head(todo).path \in File /\ Head(todo).path # "state" /\ Head(todo).path \in Path
  BY <1>3, PathFacts DEF LeadsBack
<1>5. disk[Head(todo).path] = Head(todo).after
  BY <1>1 DEF IInv, Restoring
<1> QED BY <1>1, <1>3, <1>4, <1>5 DEF Original

LEMMA RestoreCopyKeeps == ASSUME IInv, RestoreCopy PROVE IInv'
<1> DEFINE p == Head(todo).path
           saved == backup[Head(todo).backup][Head(todo).path]
<1>1. /\ pc = "restore" /\ todo # << >> /\ UNCHANGED <<disk, backup, base, origin, mods>>
      /\ Head(todo).existed
  BY DEF RestoreCopy
<1>2. /\ p \in Path /\ p # "state" /\ p \in File /\ saved \in Content /\ Original(Head(todo), backup) = saved
      /\ Head(todo) = todo[1] /\ 1 \in DOMAIN todo
  BY <1>1, RestoreHead DEF LeadsBack
<1>3. CASE /\ pending[p] = None /\ pending' = [pending EXCEPT ![p] = saved] /\ UNCHANGED faults
           /\ pc' = "restoreSwap" /\ todo' = todo /\ UNCHANGED rollback
  <2>1. Folder(pending') /\ pending'["state"] = pending["state"] /\ pending'[p] = saved
        /\ \A q \in Path : q # p => pending'[q] = pending[q]
    BY <1>2, <1>3, PathFacts DEF IInv, Types, Folder
  <2>2. Types' /\ Pkgs' /\ State'
    BY <1>1, <1>3, <2>1 DEF IInv, Types, Pkgs, State, Installed
  <2>3. Base' /\ Forward' /\ AtTheEnd' /\ Backward'
    BY <1>3 DEF Base, Forward, AtTheEnd, Backward, Installing
  <2>4. Restoring'
    BY <1>1, <1>2, <1>3, <2>1 DEF IInv, Restoring, Installed
  <2>5. Clean'
    BY <1>1, <1>2, <1>3, <2>1 DEF IInv, Clean
  <2> QED BY <2>2, <2>3, <2>4, <2>5 DEF IInv
<1>4. CASE /\ Exit
           /\ \/ pending[p] # None /\ UNCHANGED <<pending, faults>>
              \/ /\ faults < MaxFaults /\ faults' = faults + 1
                 /\ \E c \in {None, Torn} : pending' = [pending EXCEPT ![p] = c]
  <2>1. faults' \in Nat /\ faults' >= faults /\ faults' > 0 /\ faults' <= MaxFaults
    BY <1>1, <1>2, <1>4, InstallerAssumption DEF IInv, Types, Clean
  <2>2. Folder(pending') /\ (pending'["state"] = pending["state"] \/ pending'["state"] \in {None, Torn})
    BY <1>2, <1>4, FailedCopy
  <2> QED BY <1>1, <1>4, <2>1, <2>2, ExitKeeps
<1> QED BY <1>3, <1>4 DEF RestoreCopy, CopyPending, Go

\* One file has been put back.
LEMMA OneRestored ==
  ASSUME IInv, pc \in {"restore", "restoreSwap"}, todo # << >>,
         disk' = [disk EXCEPT ![Head(todo).path] = Original(Head(todo), backup)],
         \/ (pc = "restore" /\ UNCHANGED pending)
         \/ pending' = [pending EXCEPT ![Head(todo).path] = None],
         UNCHANGED <<faults, rollback, backup, base, origin, mods>>, pc' = "restore", todo' = Tail(todo)
  PROVE  IInv'
<1> DEFINE p == Head(todo).path
<1>1. /\ p \in Path /\ p # "state" /\ p \in File /\ LeadsBack(Head(todo), backup, origin, faults)
      /\ Head(todo) = todo[1] /\ 1 \in DOMAIN todo
  BY RestoreHead
<1>2. /\ Folder(disk') /\ disk'["state"] = disk["state"] /\ disk'[p] = Original(Head(todo), backup)
      /\ \A q \in Path : q # p => disk'[q] = disk[q]
  BY <1>1, PathFacts DEF IInv, Types, Folder, LeadsBack
<1>3. /\ Folder(pending') /\ pending'["state"] = pending["state"]
      /\ \A q \in Path : q # p => pending'[q] = pending[q]
      /\ (pc = "restore" /\ UNCHANGED pending) \/ pending'[p] = None
  <2>1. CASE pc = "restore" /\ UNCHANGED pending
    BY <2>1 DEF IInv, Types
  <2>2. CASE pending' = [pending EXCEPT ![p] = None]
    <3>1. Folder(pending)
      BY DEF IInv, Types
    <3> QED BY <2>2, <3>1, <1>1, PathFacts, ContentFacts DEF Folder
  <2> QED BY <2>1, <2>2
<1>4. /\ IsSeq(todo') /\ \A i \in DOMAIN todo' : i + 1 \in DOMAIN todo /\ todo'[i] = todo[i + 1]
      /\ PathsOf(todo) = PathsOf(todo') \cup {p} /\ p \notin PathsOf(todo') /\ Distinct(todo')
  BY HeadTail, TailPaths DEF IInv, Types, Restoring
<1>5. disk'[p] = origin[p] \/ Exempt(p, origin, faults)
  BY <1>2, <1>1 DEF LeadsBack
<1>6. disk'["manifest"] = disk["manifest"] \/ disk'["manifest"] = origin["manifest"]
  BY <1>2, <1>5, PathFacts DEF Exempt
<1>7. Types'
  BY <1>2, <1>3, <1>4 DEF IInv, Types
<1>8. Pkgs'
  <2>1. origin["manifest"].pkgs \in Nat
    BY PathFacts DEF IInv, Types, Folder, Content
  <2> QED BY <2>1, <1>2, <1>6 DEF IInv, Pkgs, Installed, Restoring
<1>9. State' /\ Base' /\ Forward' /\ AtTheEnd' /\ Backward'
  BY <1>2 DEF IInv, State, Installed, Base, Forward, AtTheEnd, Backward, Installing
<1>10. Restoring'
  <2>1. \A i \in DOMAIN todo' : /\ disk'[todo'[i].path] = todo'[i].after
                                /\ \E k \in DOMAIN disk["state"].files : todo'[i] = disk["state"].files[k]
    <3>1. \A i \in DOMAIN todo' : todo'[i].path # p /\ todo'[i].path \in Path
      BY <1>4, <1>7 DEF PathsOf, Types
    <3> QED BY <3>1, <1>2, <1>4 DEF IInv, Restoring
  <2>2. \A q \in File : q \in PathsOf(todo') \/ disk'[q] = origin[q] \/ Exempt(q, origin, faults)
    BY <1>2, <1>4, <1>5, PathFacts DEF IInv, Restoring
  <2> QED BY <1>2, <1>4, <2>1, <2>2 DEF IInv, Restoring, Installed
<1>11. Clean'
  BY <1>1, <1>3 DEF IInv, Clean
<1> QED BY <1>7, <1>8, <1>9, <1>10, <1>11 DEF IInv

LEMMA RestoreSwapKeeps == ASSUME IInv, RestoreSwap PROVE IInv'
<1> DEFINE p == Head(todo).path
<1>1. pc = "restoreSwap" /\ todo # << >> /\ UNCHANGED <<backup, base, origin, mods>>
  BY DEF RestoreSwap, IInv, Restoring
<1>2. Head(todo) = todo[1] /\ pending[p] = Original(Head(todo), backup)
  BY <1>1, RestoreHead DEF IInv, Restoring
<1>3. CASE /\ disk' = [disk EXCEPT ![p] = pending[p]] /\ pending' = [pending EXCEPT ![p] = None]
           /\ UNCHANGED <<faults, rollback>> /\ pc' = "restore" /\ todo' = Tail(todo)
  BY <1>1, <1>2, <1>3, OneRestored
<1>4. CASE faults < MaxFaults /\ faults' = faults + 1 /\ Exit /\ UNCHANGED <<disk, pending>>
  <2>1. faults' \in Nat /\ faults' >= faults /\ faults' > 0 /\ faults' <= MaxFaults
    BY <1>4, InstallerAssumption DEF IInv, Types
  <2> QED BY <1>1, <1>4, <2>1, ExitKeeps DEF IInv, Types
<1> QED BY <1>3, <1>4 DEF RestoreSwap, ReplaceTarget, Go

LEMMA RestoreRemoveKeeps == ASSUME IInv, RestoreRemove PROVE IInv'
<1>1. /\ pc = "restore" /\ todo # << >> /\ ~Head(todo).existed /\ todo' = Tail(todo) /\ pc' = "restore"
      /\ UNCHANGED <<pending, backup, rollback, base, origin, mods, faults>>
      /\ disk' = [disk EXCEPT ![Head(todo).path] = None]
  BY DEF RestoreRemove, Go
<1>2. Original(Head(todo), backup) = None
  BY <1>1 DEF Original
<1> QED BY <1>1, <1>2, OneRestored


-----------------------------------------------------------------------------
\* The folder the running install began with, in its last backup.
LEMMA BaseFacts ==
  ASSUME IInv, Installing, NEW r, Saves(r, backup, base, rollback)
  PROVE  /\ r.path \in File /\ r.path # "state" /\ r.path \in Path
         /\ base[r.path] \in Content
         /\ r.existed => backup[r.backup][r.path] = base[r.path]
         /\ ~r.existed => base[r.path] = None
<1>1. base["manifest"].pkgs \in 0 .. MaxInstalls
  BY PathFacts DEF IInv, Types, Folder, Content
<1>2. r.path \in File
  BY <1>1, PathFacts DEF Saves
<1> QED BY <1>2, PathFacts DEF Saves, IInv, Types, Folder

\* The record whose file the rollback is at.
LEMMA UndoHead ==
  ASSUME IInv, pc \in {"undo", "undoSwap"}, todo # << >>
  PROVE  /\ Head(todo) = todo[1] /\ 1 \in DOMAIN todo
         /\ Head(todo).path \in File /\ Head(todo).path # "state" /\ Head(todo).path \in Path
         /\ base[Head(todo).path] \in Content
         /\ Head(todo).existed => backup[Head(todo).backup][Head(todo).path] = base[Head(todo).path]
         /\ ~Head(todo).existed => base[Head(todo).path] = None
         /\ faults > 0
<1>1. Head(todo) = todo[1] /\ 1 \in DOMAIN todo
  BY HeadTail DEF IInv, Types
<1>2. Saves(Head(todo), backup, base, rollback)
  BY <1>1 DEF IInv, Backward, Base, Installing
<1>3. faults > 0
  BY DEF IInv, Clean, Types
<1> QED BY <1>1, <1>2, <1>3, BaseFacts DEF Installing

\* One file is again what it was before the install.
LEMMA OneUndone ==
  ASSUME IInv, pc \in {"undo", "undoSwap"}, todo # << >>,
         disk'[Head(todo).path] = base[Head(todo).path], disk' = [q \in Path |-> disk'[q]],
         \A q \in Path : q # Head(todo).path => disk'[q] = disk[q],
         UNCHANGED pending \/ pending' = [pending EXCEPT ![Head(todo).path] = None],
         UNCHANGED <<faults, rollback, backup, base, origin, mods>>, pc' = "undo", todo' = Tail(todo)
  PROVE  IInv'
<1> DEFINE p == Head(todo).path
<1>1. /\ p \in Path /\ p # "state" /\ p \in File /\ base[p] \in Content
      /\ Head(todo) = todo[1] /\ 1 \in DOMAIN todo /\ faults > 0
  BY UndoHead
<1>2. Folder(disk') /\ disk'["state"] = disk["state"]
  BY <1>1, PathFacts DEF IInv, Types, Folder
<1>3. /\ Folder(pending') /\ pending'["state"] = pending["state"]
      /\ \A q \in Path : q # p => pending'[q] = pending[q]
  <2>1. CASE UNCHANGED pending
    BY <2>1 DEF IInv, Types
  <2>2. CASE pending' = [pending EXCEPT ![p] = None]
    <3>1. Folder(pending)
      BY DEF IInv, Types
    <3> QED BY <2>2, <3>1, <1>1, PathFacts, ContentFacts DEF Folder
  <2> QED BY <2>1, <2>2
<1>4. /\ IsSeq(todo') /\ \A i \in DOMAIN todo' : i + 1 \in DOMAIN todo /\ todo'[i] = todo[i + 1]
      /\ \A j \in DOMAIN todo : j # 1 => j - 1 \in DOMAIN todo' /\ todo'[j - 1] = todo[j]
      /\ PathsOf(todo) = PathsOf(todo') \cup {p} /\ p \notin PathsOf(todo') /\ Distinct(todo')
  BY HeadTail, TailPaths DEF IInv, Types, Backward
<1>5. disk["state"] = base["state"]
  BY DEF IInv, Backward
<1>6. Types'
  BY <1>2, <1>3, <1>4 DEF IInv, Types
<1>7. Pkgs'
  <2>1. disk'["manifest"] = disk["manifest"] \/ disk'["manifest"] = base["manifest"]
    BY PathFacts
  <2> QED BY <2>1, <1>2, <1>5 DEF IInv, Pkgs, Installed, Base, Installing
<1>8. State' /\ Base' /\ Forward' /\ AtTheEnd' /\ Restoring'
  BY <1>2 DEF IInv, State, Installed, Base, Forward, AtTheEnd, Restoring, Installing
<1>9. Backward'
  <2>1. \A i \in DOMAIN todo' : \E k \in DOMAIN rollback : todo'[i] = rollback[k]
    BY <1>4 DEF IInv, Backward
  <2>2. ASSUME NEW q \in File, disk'[q] # base[q]
        PROVE  \E i \in DOMAIN todo' :
                 todo'[i].path = q /\ disk'[q] = todo'[i].after /\ pending'[q] \in {None, todo'[i].after}
    <3>1. q # p /\ q \in Path /\ disk'[q] = disk[q] /\ pending'[q] = pending[q]
      BY <2>2, <1>3, PathFacts
    <3>2. PICK i \in DOMAIN todo :
             /\ todo[i].path = q /\ disk[q] = todo[i].after
             /\ pending[q] \in {None, todo[i].after} \/ (pc = "undoSwap" /\ i = 1)
      BY <2>2, <3>1 DEF IInv, Backward
    <3>3. i # 1
      BY <3>1, <3>2, <1>1
    <3> QED BY <3>1, <3>2, <3>3, <1>4
  <2> QED BY <2>1, <2>2, <1>2, <1>4, <1>5 DEF Backward
<1>10. Clean'
  BY <1>1 DEF Clean
<1> QED BY <1>6, <1>7, <1>8, <1>9, <1>10 DEF IInv

LEMMA UndoSkipKeeps == ASSUME IInv, UndoSkip PROVE IInv'
<1>1. /\ pc = "undo" /\ todo # << >> /\ pending[Head(todo).path] \notin {None, Head(todo).after}
      /\ UNCHANGED <<disk, pending, backup, rollback, base, origin, mods, faults>>
      /\ pc' = "undo" /\ todo' = Tail(todo)
  BY DEF UndoSkip, Go
<1>2. disk[Head(todo).path] = base[Head(todo).path]
  BY <1>1, UndoHead DEF IInv, Backward, Distinct
<1>3. disk = [q \in Path |-> disk[q]]
  BY DEF IInv, Types, Folder
<1> QED BY <1>1, <1>2, <1>3, OneUndone

LEMMA UndoRemoveKeeps == ASSUME IInv, UndoRemove PROVE IInv'
<1>1. /\ pc = "undo" /\ todo # << >> /\ ~Head(todo).existed /\ disk' = [disk EXCEPT ![Head(todo).path] = None]
      /\ UNCHANGED <<pending, backup, rollback, base, origin, mods, faults>>
      /\ pc' = "undo" /\ todo' = Tail(todo)
  BY DEF UndoRemove, Go
<1>2. disk'[Head(todo).path] = base[Head(todo).path] /\ disk' = [q \in Path |-> disk'[q]]
      /\ \A q \in Path : q # Head(todo).path => disk'[q] = disk[q]
  BY <1>1, UndoHead DEF IInv, Types, Folder
<1> QED BY <1>1, <1>2, OneUndone

LEMMA UndoPendingKeeps == ASSUME IInv, UndoPending PROVE IInv'
<1> DEFINE p == Head(todo).path
<1>1. /\ pc = "undo" /\ todo # << >> /\ pending' = [pending EXCEPT ![p] = None]
      /\ UNCHANGED <<disk, backup, pc, todo, rollback, base, origin, mods, faults>>
  BY DEF UndoPending, job
<1>2. p \in Path /\ p # "state" /\ p \in File /\ faults > 0
  BY <1>1, UndoHead
<1>3. /\ Folder(pending') /\ pending'["state"] = pending["state"] /\ pending'[p] = None
      /\ \A q \in Path : q # p => pending'[q] = pending[q]
  <2>1. Folder(pending)
    BY DEF IInv, Types
  <2> QED BY <2>1, <1>1, <1>2, PathFacts, ContentFacts DEF Folder
<1>4. Types' /\ Pkgs' /\ State' /\ Base' /\ Forward' /\ AtTheEnd' /\ Restoring'
  BY <1>1, <1>3 DEF IInv, Types, Pkgs, State, Installed, Base, Forward, AtTheEnd, Restoring, Installing
<1>5. Backward'
  BY <1>1, <1>3, PathFacts DEF IInv, Backward
<1>6. Clean'
  BY <1>1, <1>2 DEF Clean
<1> QED BY <1>4, <1>5, <1>6 DEF IInv

LEMMA UndoCopyKeeps == ASSUME IInv, UndoCopy PROVE IInv'
<1> DEFINE p == Head(todo).path
           saved == backup[Head(todo).backup][Head(todo).path]
<1>1. /\ pc = "undo" /\ todo # << >> /\ UNCHANGED <<disk, backup, base, origin, mods>>
      /\ Head(todo).existed
  BY DEF UndoCopy
<1>2. /\ p \in Path /\ p # "state" /\ p \in File /\ saved = base[p] /\ saved \in Content
      /\ Head(todo) = todo[1] /\ 1 \in DOMAIN todo /\ faults > 0
  BY <1>1, UndoHead
<1>3. CASE /\ pending' = [pending EXCEPT ![p] = saved] /\ UNCHANGED faults
           /\ pc' = "undoSwap" /\ todo' = todo /\ UNCHANGED rollback
  <2>1. Folder(pending') /\ pending'["state"] = pending["state"] /\ pending'[p] = saved
        /\ \A q \in Path : q # p => pending'[q] = pending[q]
    BY <1>2, <1>3, PathFacts DEF IInv, Types, Folder
  <2>2. Types' /\ Pkgs' /\ State' /\ Base'
    BY <1>1, <1>3, <2>1 DEF IInv, Types, Pkgs, State, Installed, Base, Installing
  <2>3. Forward' /\ AtTheEnd' /\ Restoring' /\ Clean'
    BY <1>2, <1>3 DEF Forward, AtTheEnd, Restoring, Clean
  <2>4. Backward'
    BY <1>1, <1>2, <1>3, <2>1, PathFacts DEF IInv, Backward, Distinct
  <2> QED BY <2>2, <2>3, <2>4 DEF IInv
<1>4. CASE /\ Exit
           /\ \/ pending[p] # None /\ UNCHANGED <<pending, faults>>
              \/ /\ faults < MaxFaults /\ faults' = faults + 1
                 /\ \E c \in {None, Torn} : pending' = [pending EXCEPT ![p] = c]
  <2>1. faults' \in Nat /\ faults' >= faults /\ faults' > 0 /\ faults' <= MaxFaults
    BY <1>2, <1>4, InstallerAssumption DEF IInv, Types
  <2>2. Folder(pending') /\ (pending'["state"] = pending["state"] \/ pending'["state"] \in {None, Torn})
    BY <1>2, <1>4, FailedCopy
  <2> QED BY <1>1, <1>4, <2>1, <2>2, ExitKeeps
<1> QED BY <1>3, <1>4 DEF UndoCopy, CopyPending, Go

LEMMA UndoSwapKeeps == ASSUME IInv, UndoSwap PROVE IInv'
<1> DEFINE p == Head(todo).path
<1>1. /\ pc = "undoSwap" /\ todo # << >> /\ UNCHANGED <<backup, base, origin, mods>>
      /\ pending[todo[1].path] = base[todo[1].path]
  BY DEF UndoSwap, IInv, Backward
<1>2. p = todo[1].path /\ p \in Path
  BY <1>1, UndoHead
<1>3. CASE /\ disk' = [disk EXCEPT ![p] = pending[p]] /\ pending' = [pending EXCEPT ![p] = None]
           /\ UNCHANGED <<faults, rollback>> /\ pc' = "undo" /\ todo' = Tail(todo)
  <2>1. disk'[p] = base[p] /\ disk' = [q \in Path |-> disk'[q]]
        /\ \A q \in Path : q # p => disk'[q] = disk[q]
    BY <1>1, <1>2, <1>3 DEF IInv, Types, Folder
  <2> QED BY <1>1, <1>3, <2>1, OneUndone
<1>4. CASE faults < MaxFaults /\ faults' = faults + 1 /\ Exit /\ UNCHANGED <<disk, pending>>
  <2>1. faults' \in Nat /\ faults' >= faults /\ faults' > 0 /\ faults' <= MaxFaults
    BY <1>4, InstallerAssumption DEF IInv, Types
  <2> QED BY <1>1, <1>4, <2>1, ExitKeeps DEF IInv, Types
<1> QED BY <1>3, <1>4 DEF UndoSwap, ReplaceTarget, Go

-----------------------------------------------------------------------------
\* The file that the running install is at.
LEMMA CopyHead ==
  ASSUME IInv, pc \in {"copy", "swap"}, todo # << >>
  PROVE  /\ Head(todo) = todo[1] /\ 1 \in DOMAIN todo /\ Len(todo) \in DOMAIN todo
         /\ Head(todo).path \in Path
         /\ Head(todo).path = "state" <=> Len(todo) = 1
         /\ Len(todo) # 1 =>
              /\ Head(todo).path \in File /\ Head(todo).source \in Content
              /\ \E k \in DOMAIN rollback : /\ rollback[k].path = Head(todo).path
                                            /\ rollback[k].after = Head(todo).source
                                            /\ Saves(rollback[k], backup, base, rollback)
         /\ Len(todo) = 1 => StateContent(Head(todo).source) /\ Recording(Head(todo).source)
<1>1. Head(todo) = todo[1] /\ 1 \in DOMAIN todo /\ Len(todo) \in DOMAIN todo /\ DOMAIN todo = 1 .. Len(todo)
  BY HeadTail DEF IInv, Types
<1>2. Head(todo).path \in Path /\ (Head(todo).path = "state" <=> Len(todo) = 1)
  BY <1>1 DEF IInv, Types, Forward
<1>3. ASSUME Len(todo) # 1
      PROVE  /\ Head(todo).path \in File /\ Head(todo).source \in Content
             /\ \E k \in DOMAIN rollback : /\ rollback[k].path = Head(todo).path
                                           /\ rollback[k].after = Head(todo).source
                                           /\ Saves(rollback[k], backup, base, rollback)
  <2>1. PICK k \in DOMAIN rollback : rollback[k].path = todo[1].path /\ rollback[k].after = todo[1].source
    BY <1>1, <1>3 DEF IInv, Forward
  <2>2. rollback[k] \in Record /\ Saves(rollback[k], backup, base, rollback)
    BY DEF IInv, Types, Base, Installing
  <2>3. rollback[k].after \in Content
    BY <2>2 DEF Record
  <2> QED BY <1>1, <1>2, <1>3, <2>1, <2>2, <2>3, PathFacts
<1>4. Len(todo) = 1 => StateContent(Head(todo).source) /\ Recording(Head(todo).source)
  BY <1>1 DEF IInv, AtTheEnd, Recording
<1> QED BY <1>1, <1>2, <1>3, <1>4

\* A copy that fails: the rollback begins.
LEMMA ThrowKeeps ==
  ASSUME IInv, pc \in {"copy", "swap"}, todo # << >>, Throw,
         UNCHANGED <<disk, backup, base, origin, mods>>,
         faults' \in Nat, faults' >= faults, faults' > 0, faults' <= MaxFaults,
         Folder(pending'), pending'["state"] = pending["state"] \/ pending'["state"] \in {None, Torn},
         \A q \in Path : q # Head(todo).path => pending'[q] = pending[q]
  PROVE  IInv'
<1>1. pc' = "undo" /\ todo' = rollback /\ UNCHANGED rollback
  BY DEF Throw, Go
<1>2. Types'
  <2>1. rollback \in Seq(Record)
    BY DEF IInv, Types
  <2>2. \A i \in DOMAIN rollback : rollback[i] \in Record /\ rollback[i].path \in Path
    <3>1. \A r \in Record : r.path \in Path
      BY DEF Record
    <3> QED BY <2>1, <3>1
  <2>3. IsSeq(todo')
    BY <2>1, <1>1, SeqIsSeq
  <2> QED BY <1>1, <2>2, <2>3 DEF IInv, Types
<1>3. faults \in Nat /\ Len(backup) \in Nat
  BY DEF IInv, Types
<1>4. Pkgs' /\ State'
  <2>1. ASSUME Installed PROVE SoundFiles(disk["state"].files, backup, origin, faults')
    <3>1. SoundFiles(disk["state"].files, backup, origin, faults)
      BY <2>1 DEF IInv, State
    <3> QED BY <1>3, <3>1, MoreFailures, Zenon
  <2> QED BY <1>1, <2>1 DEF IInv, Pkgs, State, Installed
<1>5. Base'
  <2>1. ASSUME base["state"] # None PROVE Covered(base, base["state"].files, origin, faults')
    <3>1. Covered(base, base["state"].files, origin, faults)
      BY <2>1 DEF IInv, Base, Installing
    <3> QED BY <1>3, <3>1, MoreFailures, Zenon
  <2> QED BY <1>1, <2>1 DEF IInv, Base, Installing
<1>6. Forward' /\ AtTheEnd' /\ Restoring' /\ Clean'
  BY <1>1 DEF Forward, AtTheEnd, Restoring, Clean
<1>7. Backward'
  <2>1. disk["state"] = base["state"] /\ Distinct(rollback)
    BY CopyHead DEF IInv, Forward, Base, Installing
  <2>2. ASSUME NEW p \in File, disk[p] # base[p]
        PROVE  \E i \in DOMAIN rollback :
                 rollback[i].path = p /\ disk[p] = rollback[i].after /\ pending'[p] = None
    <3>1. p \notin PathsOf(todo) /\ p \in Path
      BY <2>2, PathFacts DEF IInv, Forward, PathsOf
    <3>2. p # Head(todo).path
      BY <3>1, CopyHead DEF PathsOf
    <3>3. PICK k \in DOMAIN rollback : rollback[k].path = p
      BY <2>2 DEF IInv, Forward, PathsOf
    <3> QED BY <3>1, <3>2, <3>3 DEF IInv, Forward
  <2> QED BY <1>1, <2>1, <2>2 DEF Backward
<1> QED BY <1>2, <1>4, <1>5, <1>6, <1>7 DEF IInv

LEMMA CopyKeeps == ASSUME IInv, Copy PROVE IInv'
<1> DEFINE p == Head(todo).path
<1>1. /\ pc = "copy" /\ todo # << >> /\ UNCHANGED <<disk, backup, base, origin, mods>>
      /\ p = "state" => Unmodified(Head(todo).source.files)
  BY DEF Copy
<1>2. /\ p \in Path /\ Head(todo) = todo[1] /\ 1 \in DOMAIN todo /\ Len(todo) \in DOMAIN todo
      /\ p = "state" <=> Len(todo) = 1
      /\ p # "state" => p \in File /\ Head(todo).source \in Content
      /\ p = "state" => StateContent(Head(todo).source)
  BY <1>1, CopyHead
<1>3. CASE /\ pending' = [pending EXCEPT ![p] = Head(todo).source] /\ UNCHANGED faults
           /\ pc' = "swap" /\ todo' = todo /\ UNCHANGED rollback
  <2>1. Folder(pending') /\ pending'[p] = Head(todo).source
        /\ \A q \in Path : q # p => pending'[q] = pending[q]
    <3>1. Folder(pending) /\ (p \in File => Head(todo).source \in Content)
      BY <1>2, PathFacts DEF IInv, Types
    <3> QED BY <3>1, <1>2, <1>3, PathFacts DEF Folder
  <2>2. pending'["state"] = pending["state"] \/ StateContent(pending'["state"])
    BY <1>2, <2>1, PathFacts
  <2>3. Types' /\ Pkgs' /\ State' /\ Base'
    BY <1>1, <1>3, <2>1, <2>2 DEF IInv, Types, Pkgs, State, Installed, Base, Installing
  <2>4. Backward' /\ Restoring' /\ Clean'
    BY <1>1, <1>2, <1>3, <2>1 DEF IInv, Backward, Restoring, Clean
  <2>5. AtTheEnd'
    BY <1>1, <1>2, <1>3 DEF IInv, AtTheEnd, Recording, Unmodified, Installed
  <2>6. Forward'
    <3>1. \A i \in DOMAIN todo : i # 1 => todo[i].path # p /\ todo[i].path \in Path
      BY <1>1, <1>2 DEF IInv, Types, Forward, Distinct
    <3>2. \A i \in DOMAIN todo : todo[i].path # "state" =>
            pending'[todo[i].path] = IF i = 1 THEN todo[i].source ELSE None
      BY <1>1, <1>2, <2>1, <3>1 DEF IInv, Forward
    <3>3. ASSUME NEW k \in DOMAIN rollback, rollback[k].path \notin PathsOf(todo)
          PROVE  disk[rollback[k].path] = rollback[k].after /\ pending'[rollback[k].path] = None
      <4>1. rollback[k].path # p /\ rollback[k].path \in Path
        BY <1>1, <1>2, <3>3, BaseFacts DEF IInv, Base, Installing, PathsOf
      <4> QED BY <4>1, <1>1, <2>1, <3>3 DEF IInv, Forward
    <3> QED BY <1>1, <1>2, <1>3, <2>1, <3>2, <3>3 DEF IInv, Forward
  <2> QED BY <2>3, <2>4, <2>5, <2>6 DEF IInv
<1>4. CASE /\ Throw
           /\ \/ pending[p] # None /\ UNCHANGED <<pending, faults>>
              \/ /\ faults < MaxFaults /\ faults' = faults + 1
                 /\ \E c \in {None, Torn} : pending' = [pending EXCEPT ![p] = c]
  <2>1. faults' \in Nat /\ faults' >= faults /\ faults' > 0 /\ faults' <= MaxFaults
    BY <1>1, <1>2, <1>4, InstallerAssumption DEF IInv, Types, Clean
  <2>2. Folder(pending') /\ (pending'["state"] = pending["state"] \/ pending'["state"] \in {None, Torn})
    BY <1>2, <1>4, FailedCopy
  <2>3. \A q \in Path : q # p => pending'[q] = pending[q]
    BY <1>4 DEF IInv, Types, Folder
  <2> QED BY <1>1, <1>4, <2>1, <2>2, <2>3, ThrowKeeps
<1> QED BY <1>3, <1>4 DEF Copy, CopyPending, Go

\* A game file or a package file of the install is in its place.
LEMMA FileCopied ==
  ASSUME IInv, pc = "swap", Head(todo).path # "state",
         disk' = [disk EXCEPT ![Head(todo).path] = pending[Head(todo).path]],
         pending' = [pending EXCEPT ![Head(todo).path] = None],
         UNCHANGED <<faults, rollback, backup, base, origin, mods>>, pc' = "copy", todo' = Tail(todo)
  PROVE  IInv'
<1> DEFINE p == Head(todo).path
           c == Head(todo).source
<1>1. todo # << >> /\ pending[todo[1].path] = todo[1].source
  BY DEF IInv, Forward
<1>2. /\ p \in Path /\ Head(todo) = todo[1] /\ 1 \in DOMAIN todo /\ p \in File /\ c \in Content
      /\ Len(todo) # 1 /\ pending[p] = c /\ p # "state"
  BY <1>1, CopyHead
<1>3. PICK k \in DOMAIN rollback : /\ rollback[k].path = p /\ rollback[k].after = c
                                   /\ Saves(rollback[k], backup, base, rollback)
  BY <1>1, <1>2, CopyHead
<1>4. /\ Folder(disk') /\ disk'["state"] = disk["state"] /\ disk'[p] = c
      /\ \A q \in Path : q # p => disk'[q] = disk[q]
  <2>1. Folder(disk)
    BY DEF IInv, Types
  <2> QED BY <1>2, <2>1, PathFacts DEF Folder
<1>5. /\ Folder(pending') /\ pending'["state"] = pending["state"] /\ pending'[p] = None
      /\ \A q \in Path : q # p => pending'[q] = pending[q]
  <2>1. Folder(pending)
    BY DEF IInv, Types
  <2> QED BY <1>2, <2>1, PathFacts, ContentFacts DEF Folder
<1>6. /\ IsSeq(todo') /\ Len(todo') = Len(todo) - 1 /\ Len(todo) \in Nat
      /\ DOMAIN todo = 1 .. Len(todo) /\ DOMAIN todo' = 1 .. Len(todo')
      /\ \A i \in DOMAIN todo' : i + 1 \in DOMAIN todo /\ todo'[i] = todo[i + 1]
      /\ \A j \in DOMAIN todo : j # 1 => j - 1 \in DOMAIN todo' /\ todo'[j - 1] = todo[j]
      /\ PathsOf(todo) = PathsOf(todo') \cup {p} /\ p \notin PathsOf(todo') /\ Distinct(todo')
  BY <1>1, HeadTail, TailPaths DEF IInv, Types, Forward
<1>7. Types'
  BY <1>4, <1>5, <1>6 DEF IInv, Types
<1>8. todo' # << >> /\ Len(todo') \in DOMAIN todo' /\ todo'[Len(todo')] = todo[Len(todo)]
  <2>1. Len(todo') # 0 /\ Len(todo') \in 1 .. Len(todo')
    BY <1>1, <1>2, <1>6, CopyHead
  <2> QED BY <2>1, <1>6, EmptySeq
<1>9. disk["state"] = base["state"]
  BY <1>1, CopyHead DEF IInv, Forward
<1>10. Pkgs'
  <2>1. \/ disk'["manifest"] = disk["manifest"]
        \/ base["manifest"].pkgs <= disk'["manifest"].pkgs /\ disk'["manifest"].pkgs <= Len(backup)
    BY <1>3, <1>4, PathFacts DEF Saves
  <2>2. base["manifest"].pkgs \in Nat /\ origin["manifest"].pkgs \in Nat /\ disk'["manifest"].pkgs \in Nat
    BY <1>7, PkgsNat DEF Types
  <2>3. Installed => origin["manifest"].pkgs <= base["manifest"].pkgs
    BY <1>9 DEF IInv, Base, Installing, Installed
  <2> QED BY <1>4, <2>1, <2>2, <2>3 DEF IInv, Pkgs, Installed
<1>11. State' /\ Base' /\ Backward' /\ Restoring'
  BY <1>4 DEF IInv, State, Installed, Base, Backward, Restoring, Installing
<1>12. AtTheEnd'
  BY <1>8 DEF IInv, AtTheEnd, Recording
<1>13. Clean'
  BY <1>2, <1>5 DEF IInv, Clean
<1>14. Forward'
  <2>1. \A i \in DOMAIN todo' : todo'[i].path = "state" <=> i = Len(todo')
    BY <1>6 DEF IInv, Forward
  <2>2. \A i \in DOMAIN todo' : i # Len(todo') =>
          \E l \in DOMAIN rollback : rollback[l].path = todo'[i].path /\ rollback[l].after = todo'[i].source
    BY <1>6 DEF IInv, Forward
  <2>3. \A i \in DOMAIN todo' : todo'[i].path # p /\ todo'[i].path \in Path
    BY <1>6, <1>7 DEF Types, PathsOf
  <2>4. \A i \in DOMAIN todo' : disk'[todo'[i].path] = base[todo'[i].path]
    BY <2>3, <1>4, <1>6 DEF IInv, Forward
  <2>5. ASSUME NEW i \in DOMAIN todo', todo'[i].path # "state" PROVE pending'[todo'[i].path] = None
    <3>1. i + 1 \in DOMAIN todo /\ todo'[i] = todo[i + 1] /\ i + 1 # 1
      BY <1>6
    <3>2. pending[todo[i + 1].path] = None
      BY <3>1, <2>5 DEF IInv, Forward
    <3> QED BY <3>1, <3>2, <2>3, <1>5
  <2>6. ASSUME NEW l \in DOMAIN rollback, rollback[l].path \notin PathsOf(todo')
        PROVE  disk'[rollback[l].path] = rollback[l].after /\ pending'[rollback[l].path] = None
    <3>1. CASE rollback[l].path = p
      <4>1. l = k
        BY <3>1, <1>3 DEF IInv, Base, Installing, Distinct
      <4> QED BY <4>1, <3>1, <1>3, <1>4, <1>5
    <3>2. CASE rollback[l].path # p
      <4>1. rollback[l].path \in Path
        BY BaseFacts DEF IInv, Base, Installing
      <4>2. rollback[l].path \notin PathsOf(todo)
        BY <3>2, <2>6, <1>6
      <4> QED BY <4>1, <4>2, <3>2, <1>4, <1>5 DEF IInv, Forward
    <3> QED BY <3>1, <3>2
  <2>7. \A q \in File \ PathsOf(rollback) : disk'[q] = base[q]
    BY <1>3, <1>4, PathFacts DEF IInv, Forward, PathsOf
  <2>8. ASSUME NEW i \in DOMAIN todo', todo'[i].path \notin GameFile \cup {"state"}
        PROVE  \E j \in DOMAIN todo' : i < j /\ todo'[j].path = "manifest"
    <3>1. i + 1 \in DOMAIN todo /\ todo'[i] = todo[i + 1] /\ i \in Nat
      BY <1>6
    <3>2. PICK j \in DOMAIN todo : i + 1 < j /\ todo[j].path = "manifest"
      BY <3>1, <2>8 DEF IInv, Forward
    <3>3. j - 1 \in DOMAIN todo' /\ todo'[j - 1] = todo[j] /\ i < j - 1
      BY <3>1, <3>2, <1>6
    <3> QED BY <3>2, <3>3
  <2> QED BY <1>6, <2>1, <2>2, <2>4, <2>5, <2>6, <2>7, <2>8 DEF Forward
<1> QED BY <1>7, <1>10, <1>11, <1>12, <1>13, <1>14 DEF IInv

\* The state file is in its place, and says what has been installed.
LEMMA StateCopied ==
  ASSUME IInv, pc = "swap", Head(todo).path = "state",
         disk' = [disk EXCEPT !["state"] = pending["state"]],
         pending' = [pending EXCEPT !["state"] = None],
         UNCHANGED <<faults, rollback, backup, base, origin, mods>>, pc' = "copy", todo' = Tail(todo)
  PROVE  IInv'
<1> DEFINE f == Head(todo).source
<1>1. todo # << >> /\ pending[todo[1].path] = todo[1].source
  BY DEF IInv, Forward
<1>2. Head(todo) = todo[1] /\ 1 \in DOMAIN todo /\ Len(todo) = 1 /\ StateContent(f) /\ Recording(f)
      /\ pending["state"] = f
  BY <1>1, CopyHead
<1>3. Folder(disk') /\ disk'["state"] = f /\ \A q \in File : disk'[q] = disk[q]
  BY <1>2, PathFacts DEF IInv, Types, Folder, File
<1>4. Folder(pending') /\ pending'["state"] = None /\ \A q \in File : pending'[q] = pending[q]
  BY PathFacts DEF IInv, Types, Folder, File
<1>5. todo' = << >>
  BY <1>1, <1>2, HeadTail, EmptySeq DEF IInv, Types, IsSeq
<1>6. IsSeq(todo') /\ DOMAIN todo' = {} /\ PathsOf(todo') = {}
  <2>1. << >> \in Seq({}) /\ DOMAIN << >> = {}
    BY EmptySeq
  <2>2. IsSeq(<< >>)
    BY <2>1, SeqIsSeq
  <2> QED BY <1>5, <2>1, <2>2 DEF PathsOf
<1>7. \A q \in PathsOf(todo) : q = "state"
  <2>1. DOMAIN todo = {1}
    BY <1>1, <1>2, HeadTail DEF IInv, Types
  <2> QED BY <2>1, <1>2 DEF PathsOf
<1>8. \A k \in DOMAIN rollback : /\ rollback[k].path \in File
                                 /\ rollback[k].path \notin PathsOf(todo)
                                 /\ disk[rollback[k].path] = rollback[k].after
                                 /\ pending[rollback[k].path] = None
  <2>1. \A k \in DOMAIN rollback : rollback[k].path \in File /\ rollback[k].path # "state"
    BY BaseFacts DEF IInv, Base, Installing
  <2> QED BY <2>1, <1>7 DEF IInv, Forward
<1>9. Types'
  BY <1>2, <1>3, <1>4, <1>6 DEF IInv, Types
<1>10. f # None /\ f.tab = "state"
  BY <1>2, ContentFacts DEF StateContent
<1>11. Pkgs'
  <2>1. disk'["manifest"] = disk["manifest"]
    BY <1>3, PathFacts
  <2>2. PICK k \in DOMAIN rollback : rollback[k].path = "manifest"
    BY PathFacts DEF IInv, Base, Installing, PathsOf
  <2>3. base["manifest"].pkgs <= disk["manifest"].pkgs
    BY <2>2, <1>8 DEF IInv, Base, Installing, Saves
  <2>4. origin["manifest"].pkgs <= base["manifest"].pkgs
    BY PathFacts DEF IInv, Base, Installing, Types, Folder, Content
  <2>5. base["manifest"].pkgs \in Nat /\ origin["manifest"].pkgs \in Nat /\ disk["manifest"].pkgs \in Nat
    BY PkgsNat DEF IInv, Types
  <2> QED BY <2>1, <2>3, <2>4, <2>5 DEF IInv, Pkgs
<1>12. State' /\ Base' /\ Backward' /\ Restoring'
  BY <1>2, <1>3 DEF IInv, State, Recording, Base, Backward, Restoring, Installing
<1>13. AtTheEnd'
  <2>1. \A i \in DOMAIN f.files : disk'[f.files[i].path] = f.files[i].after
    <3>1. Unmodified(f.files) /\ SoundFiles(f.files, backup, origin, faults)
      BY <1>2 DEF IInv, AtTheEnd, Recording
    <3>2. \A i \in DOMAIN f.files : f.files[i].path \in File /\ disk[f.files[i].path] = f.files[i].after
      BY <3>1 DEF SoundFiles, LeadsBack, Unmodified
    <3> QED BY <3>2, <1>3
  <2>2. Covered(disk', f.files, origin, faults)
    <3>1. ASSUME NEW q \in File, q \notin PathsOf(f.files) PROVE disk'[q] = base[q]
      BY <3>1, <1>2, <1>3 DEF IInv, Forward, Recording
    <3> QED BY <3>1, <1>2 DEF Recording, Covered
  <2> QED BY <1>3, <1>5, <1>10, <2>1, <2>2 DEF AtTheEnd, Installed, Unmodified
<1>14. Clean'
  BY <1>2, <1>4, PathFacts DEF IInv, Clean
<1>15. Forward'
  <2>1. \A q \in File \ PathsOf(rollback) : disk'[q] = base[q]
    BY <1>3 DEF IInv, Forward
  <2>2. \A k \in DOMAIN rollback : disk'[rollback[k].path] = rollback[k].after /\ pending'[rollback[k].path] = None
    BY <1>3, <1>4, <1>8
  <2> QED BY <1>5, <1>6, <2>1, <2>2 DEF Forward, Distinct
<1> QED BY <1>9, <1>11, <1>12, <1>13, <1>14, <1>15 DEF IInv

LEMMA SwapKeeps == ASSUME IInv, Swap PROVE IInv'
<1> DEFINE p == Head(todo).path
<1>1. pc = "swap" /\ todo # << >> /\ UNCHANGED <<backup, base, origin, mods>>
  BY DEF Swap, IInv, Forward
<1>2. CASE /\ disk' = [disk EXCEPT ![p] = pending[p]] /\ pending' = [pending EXCEPT ![p] = None]
           /\ UNCHANGED <<faults, rollback>> /\ pc' = "copy" /\ todo' = Tail(todo)
  BY <1>1, <1>2, FileCopied, StateCopied
<1>3. CASE faults < MaxFaults /\ faults' = faults + 1 /\ Throw /\ UNCHANGED <<disk, pending>>
  <2>1. faults' \in Nat /\ faults' >= faults /\ faults' > 0 /\ faults' <= MaxFaults
    BY <1>3, InstallerAssumption DEF IInv, Types
  <2> QED BY <1>1, <1>3, <2>1, ThrowKeeps DEF IInv, Types
<1> QED BY <1>2, <1>3 DEF Swap, ReplaceTarget, Go

-----------------------------------------------------------------------------
\* What an install that passes its checks copies.
LEMMA CopiesFacts ==
  ASSUME Folder(disk), NEW v \in Version, disk["manifest"].pkgs < MaxInstalls
  PROVE  LET c == Copies(v)
             m == disk["manifest"]
         IN  /\ c \in Seq([path : File, source : Content]) /\ Distinct(c)
             /\ PathsOf(c) = GameFile \cup (IF m.tab = v THEN {} ELSE {FrameFile[m.pkgs]})
             /\ \A i \in DOMAIN c : c[i].source.tab = v
             /\ \A i \in DOMAIN c : c[i].path = "manifest" => c[i].source = Merged(v, m)
             /\ \A i \in DOMAIN c : c[i].path \notin GameFile =>
                  \E j \in DOMAIN c : i < j /\ c[j].path = "manifest"
<1> DEFINE c == Copies(v)
           m == disk["manifest"]
           a == [path |-> "dll", source |-> Plain(v)]
           b == [path |-> "script", source |-> Plain(v)]
           e == [path |-> FrameFile[m.pkgs], source |-> Plain(v)]
           d == [path |-> "manifest", source |-> Merged(v, m)]
           T == [path : File, source : Content]
<1>1. m \in Content /\ m.pkgs \in 0 .. MaxInstalls /\ m.pkgs + 1 \in 0 .. MaxInstalls
  BY PkgsNat, PathFacts
<1>2. Merged(v, m) \in Content /\ Merged(v, m).tab = v
  BY <1>1 DEF Merged, Content
<1>3. Plain(v) \in Content /\ Plain(v).tab = v
  BY ContentFacts
<1>4. a \in T /\ b \in T /\ e \in T /\ d \in T
  BY <1>1, <1>2, <1>3, PathFacts
<1>5. e.path \notin GameFile /\ GameFile = {"dll", "script", "manifest"}
  BY <1>1, PathFacts DEF GameFile
<1>6. CASE m.tab = v
  <2>1. c = <<a, b>> \o << >> \o <<d>>
    BY <1>6 DEF Copies
  <2>2. c \in Seq(T) /\ Len(c) = 3 /\ c[1] = a /\ c[2] = b /\ c[3] = d
    BY <2>1, <1>4
  <2>3. DOMAIN c = {1, 2, 3}
    BY <2>2
  <2> HIDE DEF c, a, b, e, d, T
  <2>4. /\ a.path = "dll" /\ b.path = "script" /\ d.path = "manifest"
        /\ a.source.tab = v /\ b.source.tab = v /\ d.source.tab = v /\ d.source = Merged(v, m)
    BY <1>2, <1>3 DEF a, b, d
  <2>5. PathsOf(c) = {"dll", "script", "manifest"}
    BY <2>2, <2>3, <2>4 DEF PathsOf
  <2>6. Distinct(c)
    BY <2>2, <2>3, <2>4 DEF Distinct
  <2>7. \A i \in DOMAIN c : /\ c[i].source.tab = v /\ c[i].path \in GameFile
                            /\ c[i].path = "manifest" => c[i].source = Merged(v, m)
    BY <2>2, <2>3, <2>4, <1>5
  <2> QED BY <1>5, <1>6, <2>2, <2>5, <2>6, <2>7 DEF c, T
<1>7. CASE m.tab # v
  <2>1. c = <<a, b>> \o <<e>> \o <<d>>
    BY <1>7 DEF Copies
  <2>2. c \in Seq(T) /\ Len(c) = 4 /\ c[1] = a /\ c[2] = b /\ c[3] = e /\ c[4] = d
    BY <2>1, <1>4
  <2>3. DOMAIN c = {1, 2, 3, 4}
    BY <2>2
  <2> HIDE DEF c, a, b, e, d, T
  <2>4. /\ a.path = "dll" /\ b.path = "script" /\ d.path = "manifest" /\ e.path = FrameFile[m.pkgs]
        /\ a.source.tab = v /\ b.source.tab = v /\ d.source.tab = v /\ d.source = Merged(v, m)
        /\ e.source.tab = v
    BY <1>2, <1>3 DEF a, b, d, e
  <2>5. PathsOf(c) = {"dll", "script", "manifest"} \cup {FrameFile[m.pkgs]}
    BY <2>2, <2>3, <2>4 DEF PathsOf
  <2>6. Distinct(c)
    BY <2>2, <2>3, <2>4, <1>5 DEF Distinct
  <2>7. \A i \in DOMAIN c : /\ c[i].source.tab = v
                            /\ c[i].path = "manifest" => c[i].source = Merged(v, m)
    BY <2>2, <2>3, <2>4, <1>5
  <2>8. \A i \in DOMAIN c : c[i].path \notin GameFile => i < 4 /\ 4 \in DOMAIN c /\ c[4].path = "manifest"
    BY <2>2, <2>3, <2>4, <1>5
  <2> QED BY <1>5, <1>7, <2>2, <2>5, <2>6, <2>7, <2>8 DEF c, T
<1> QED BY <1>6, <1>7

\* The new records: of what is saved now, with the originals of the old ones,
\* and of the other files.
LEMMA RecordsFacts ==
  ASSUME NEW saved \in Seq(Record), Distinct(saved), OldFiles \in Seq(Record), Distinct(OldFiles)
  PROVE  LET fs == Records(saved)
             old == OldFiles
         IN  /\ fs \in Seq(Record) /\ Distinct(fs)
             /\ PathsOf(fs) = PathsOf(saved) \cup PathsOf(old)
             /\ \A i \in DOMAIN fs :
                  \/ \E k \in DOMAIN old : fs[i] = old[k]
                  \/ \E j \in DOMAIN saved :
                       /\ fs[i].path = saved[j].path /\ fs[i].after = saved[j].after
                       /\ \/ saved[j].path \notin PathsOf(old) /\ fs[i] = saved[j]
                          \/ \E k \in DOMAIN old :
                               /\ old[k].path = saved[j].path /\ fs[i].existed = old[k].existed
                               /\ fs[i].backup = old[k].backup
<1> DEFINE old == OldFiles
           Of(p) == {i \in DOMAIN old : old[i].path = p}
           First(p) == old[CHOOSE i \in Of(p) : \A j \in Of(p) : i <= j]
           Kept(r) == IF Of(r.path) = {} THEN r
                      ELSE [r EXCEPT !.existed = First(r.path).existed, !.backup = First(r.path).backup]
           kept == [i \in DOMAIN saved |-> Kept(saved[i])]
           rest == Others(old, PathsOf(saved))
           fs == Records(saved)
<1>1. fs = kept \o rest
  BY DEF Records
<1>2. DOMAIN old = 1 .. Len(old) /\ DOMAIN saved = 1 .. Len(saved) /\ Len(saved) \in Nat /\ Len(old) \in Nat
  OBVIOUS
<1>3. ASSUME NEW p, Of(p) # {}
      PROVE  \E k \in DOMAIN old : old[k].path = p /\ First(p) = old[k]
  <2>1. PICK k \in DOMAIN old : old[k].path = p
    BY <1>3
  <2>2. Of(p) = {k}
    BY <2>1 DEF Distinct
  <2>3. k <= k
    BY <1>2
  <2>4. (CHOOSE i \in Of(p) : \A j \in Of(p) : i <= j) = k
    BY <2>2, <2>3
  <2> QED BY <2>1, <2>4
<1> HIDE DEF First
<1>4. ASSUME NEW r \in Record
      PROVE  /\ Kept(r) \in Record /\ Kept(r).path = r.path /\ Kept(r).after = r.after
             /\ \/ r.path \notin PathsOf(old) /\ Kept(r) = r
                \/ \E k \in DOMAIN old : /\ old[k].path = r.path /\ Kept(r).existed = old[k].existed
                                         /\ Kept(r).backup = old[k].backup
  <2>1. CASE Of(r.path) = {}
    BY <2>1 DEF PathsOf
  <2>2. CASE Of(r.path) # {}
    <3>1. PICK k \in DOMAIN old : old[k].path = r.path /\ First(r.path) = old[k]
      BY <1>3, <2>2
    <3>2. old[k] \in Record
      BY <1>2
    <3>3. Kept(r) = [r EXCEPT !.existed = old[k].existed, !.backup = old[k].backup]
      BY <2>2, <3>1
    <3> HIDE DEF Kept
    <3>4. /\ Kept(r) \in Record /\ Kept(r).path = r.path /\ Kept(r).after = r.after
          /\ Kept(r).existed = old[k].existed /\ Kept(r).backup = old[k].backup
      BY <3>2, <3>3 DEF Record
    <3> QED BY <3>1, <3>4
  <2> QED BY <2>1, <2>2
<1> HIDE DEF Kept
<1>5. kept \in Seq(Record) /\ Len(kept) = Len(saved) /\ \A i \in DOMAIN saved : kept[i] = Kept(saved[i])
  <2>1. \A i \in 1 .. Len(saved) : Kept(saved[i]) \in Record
    BY <1>2, <1>4
  <2>2. kept = [i \in 1 .. Len(saved) |-> Kept(saved[i])]
    BY <1>2
  <2> QED BY <2>1, <2>2, <1>2
<1>6. /\ rest \in Seq(Record) /\ \A k \in DOMAIN rest : rest[k].path \notin PathsOf(saved)
      /\ \A k \in DOMAIN rest : \E i \in DOMAIN old : rest[k] = old[i]
      /\ \A i \in DOMAIN old : old[i].path \notin PathsOf(saved) => \E k \in DOMAIN rest : rest[k] = old[i]
      /\ Distinct(rest)
  BY OthersFacts
<1> HIDE DEF kept, rest, fs
<1>7. /\ fs \in Seq(Record) /\ Len(fs) = Len(kept) + Len(rest) /\ Len(rest) \in Nat
      /\ DOMAIN rest = 1 .. Len(rest) /\ DOMAIN fs = 1 .. Len(fs)
      /\ \A i \in 1 .. Len(kept) : fs[i] = kept[i]
      /\ \A i \in 1 .. Len(rest) : fs[i + Len(kept)] = rest[i]
      /\ \A i \in DOMAIN fs : i \in 1 .. Len(kept) \/ (i - Len(kept) \in 1 .. Len(rest) /\ fs[i] = rest[i - Len(kept)])
  <2>1. /\ fs \in Seq(Record) /\ Len(fs) = Len(kept) + Len(rest)
        /\ \A i \in 1 .. Len(kept) + Len(rest) : fs[i] = IF i <= Len(kept) THEN kept[i] ELSE rest[i - Len(kept)]
    BY <1>1, <1>5, <1>6, ConcatProperties
  <2>2. Len(kept) \in Nat /\ Len(rest) \in Nat /\ DOMAIN rest = 1 .. Len(rest) /\ DOMAIN fs = 1 .. Len(fs)
    BY <2>1, <1>5, <1>6, LenProperties
  <2>3. \A i \in 1 .. Len(kept) : fs[i] = kept[i]
    BY <2>1, <2>2
  <2>4. \A i \in 1 .. Len(rest) : fs[i + Len(kept)] = rest[i]
    BY <2>1, <2>2
  <2>5. ASSUME NEW i \in DOMAIN fs, i \notin 1 .. Len(kept)
        PROVE  i - Len(kept) \in 1 .. Len(rest) /\ fs[i] = rest[i - Len(kept)]
    BY <2>1, <2>2, <2>5
  <2> QED BY <2>1, <2>2, <2>3, <2>4, <2>5
<1>8. \A i \in 1 .. Len(saved) : i \in DOMAIN fs /\ fs[i] = Kept(saved[i]) /\ saved[i] \in Record
  <2>1. ASSUME NEW i \in 1 .. Len(saved) PROVE i \in DOMAIN fs /\ fs[i] = Kept(saved[i])
    BY <1>2, <1>5, <1>7
  <2> QED BY <2>1, <1>2
<1>9. ASSUME NEW i \in DOMAIN fs
      PROVE  \/ i \in DOMAIN saved /\ fs[i] = Kept(saved[i])
             \/ i - Len(saved) \in DOMAIN rest /\ fs[i] = rest[i - Len(saved)]
  BY <1>2, <1>5, <1>7, <1>8
<1>10. \A i \in DOMAIN saved : Kept(saved[i]).path = saved[i].path
  BY <1>2, <1>4
<1>11. Distinct(fs)
  <2>1. ASSUME NEW i \in DOMAIN fs, NEW j \in DOMAIN fs, fs[i].path = fs[j].path PROVE i = j
    <3>1. CASE i \in DOMAIN saved /\ fs[i] = Kept(saved[i])
      <4>1. fs[j].path \in PathsOf(saved)
        BY <1>10, <2>1, <3>1 DEF PathsOf
      <4>2. j \in DOMAIN saved /\ fs[j] = Kept(saved[j])
        BY <4>1, <1>6, <1>9
      <4> QED BY <3>1, <4>2, <2>1, <1>10 DEF Distinct
    <3>2. CASE i - Len(saved) \in DOMAIN rest /\ fs[i] = rest[i - Len(saved)]
      <4>1. fs[j].path \notin PathsOf(saved)
        BY <1>6, <2>1, <3>2
      <4>2. j - Len(saved) \in DOMAIN rest /\ fs[j] = rest[j - Len(saved)]
        BY <4>1, <1>9, <1>10 DEF PathsOf
      <4>3. i - Len(saved) = j - Len(saved)
        BY <3>2, <4>2, <2>1, <1>6 DEF Distinct
      <4> QED BY <4>3, <1>2, <1>7
    <3> QED BY <3>1, <3>2, <1>9
  <2> QED BY <2>1 DEF Distinct
<1>12. PathsOf(fs) = PathsOf(saved) \cup PathsOf(old)
  <2>1. ASSUME NEW p \in PathsOf(saved) PROVE p \in PathsOf(fs)
    BY <1>2, <1>8, <1>10 DEF PathsOf
  <2>2. ASSUME NEW p \in PathsOf(old), p \notin PathsOf(saved) PROVE p \in PathsOf(fs)
    <3>1. PICK i \in DOMAIN old : p = old[i].path
      BY <2>2 DEF PathsOf
    <3>2. PICK k \in DOMAIN rest : rest[k] = old[i]
      BY <3>1, <2>2, <1>6
    <3>3. k + Len(kept) \in DOMAIN fs /\ fs[k + Len(kept)] = rest[k]
      BY <3>2, <1>5, <1>7, <1>2
    <3> QED BY <3>1, <3>2, <3>3 DEF PathsOf
  <2>3. ASSUME NEW p \in PathsOf(fs) PROVE p \in PathsOf(saved) \cup PathsOf(old)
    <3>1. PICK i \in DOMAIN fs : p = fs[i].path
      BY <2>3 DEF PathsOf
    <3>2. CASE i \in DOMAIN saved /\ fs[i] = Kept(saved[i])
      BY <3>1, <3>2, <1>10 DEF PathsOf
    <3>3. CASE i - Len(saved) \in DOMAIN rest /\ fs[i] = rest[i - Len(saved)]
      BY <3>1, <3>3, <1>6 DEF PathsOf
    <3> QED BY <1>9, <3>2, <3>3
  <2> QED BY <2>1, <2>2, <2>3
<1>13. ASSUME NEW i \in DOMAIN fs
       PROVE  \/ \E k \in DOMAIN old : fs[i] = old[k]
              \/ \E j \in DOMAIN saved :
                   /\ fs[i].path = saved[j].path /\ fs[i].after = saved[j].after
                   /\ \/ saved[j].path \notin PathsOf(old) /\ fs[i] = saved[j]
                      \/ \E k \in DOMAIN old :
                           /\ old[k].path = saved[j].path /\ fs[i].existed = old[k].existed
                           /\ fs[i].backup = old[k].backup
  <2>1. CASE i \in DOMAIN saved /\ fs[i] = Kept(saved[i])
    <3>1. saved[i] \in Record
      BY <2>1, <1>2
    <3> HIDE DEF old
    <3> QED BY <2>1, <3>1, <1>4
  <2>2. CASE i - Len(saved) \in DOMAIN rest /\ fs[i] = rest[i - Len(saved)]
    BY <2>2, <1>6
  <2> QED BY <1>9, <2>1, <2>2
<1> QED BY <1>7, <1>11, <1>12, <1>13 DEF fs

\* What an install saves before it replaces the first file.
LEMMA SavedFacts ==
  ASSUME Folder(disk), Len(backup) \in 0 .. MaxInstalls - 1, NEW copies,
         copies \in Seq([path : File, source : Content]), Distinct(copies)
  PROVE  LET saved == Saved(copies)
         IN  /\ saved \in Seq(Record) /\ Distinct(saved) /\ DOMAIN saved = DOMAIN copies
             /\ PathsOf(saved) = PathsOf(copies)
             /\ \A i \in DOMAIN copies :
                  /\ saved[i].path = copies[i].path /\ saved[i].backup = Len(backup) + 1
                  /\ saved[i].existed <=> disk[copies[i].path] # None
                  /\ saved[i].after = copies[i].source
<1> DEFINE saved == Saved(copies)
           Rec(c) == [path |-> c.path, existed |-> disk[c.path] # None,
                      backup |-> Len(backup) + 1, after |-> c.source]
<1>1. DOMAIN copies = 1 .. Len(copies) /\ Len(copies) \in Nat
      /\ \A i \in DOMAIN copies : copies[i] \in [path : File, source : Content]
  BY SeqDomain, Zenon
<1>2. saved = [i \in 1 .. Len(copies) |-> Rec(copies[i])]
  BY <1>1 DEF Saved
<1>3. ASSUME NEW c \in [path : File, source : Content]
      PROVE  /\ Rec(c) \in Record /\ Rec(c).path = c.path /\ Rec(c).backup = Len(backup) + 1
             /\ Rec(c).existed <=> disk[c.path] # None
             /\ Rec(c).after = c.source
  <2>1. c.path \in Path /\ c.source \in Content /\ Len(backup) + 1 \in 1 .. MaxInstalls
    BY PathFacts
  <2> QED BY <2>1 DEF Record
<1> HIDE DEF Rec
<1>4. saved \in Seq(Record) /\ DOMAIN saved = DOMAIN copies
  <2>1. \A i \in 1 .. Len(copies) : Rec(copies[i]) \in Record
    BY <1>1, <1>3
  <2> QED BY <1>1, <1>2, <2>1
<1>5. \A i \in DOMAIN copies :
                  /\ saved[i].path = copies[i].path /\ saved[i].backup = Len(backup) + 1
                  /\ saved[i].existed <=> disk[copies[i].path] # None
                  /\ saved[i].after = copies[i].source
  BY <1>1, <1>2, <1>3
<1> HIDE DEF saved
<1>6. PathsOf(saved) = PathsOf(copies) /\ Distinct(saved)
  BY <1>4, <1>5 DEF PathsOf, Distinct
<1> QED BY <1>4, <1>5, <1>6 DEF saved

LEMMA InstallKeeps == ASSUME IInv, NEW v \in Version, Install(v) PROVE IInv'
<1> DEFINE copies == Copies(v)
           saved == Saved(copies)
           ours == PathsOf(copies)
           fs == Records(saved)
           m == disk["manifest"]
           last == [path |-> "state", source |-> [tab |-> "state", files |-> fs]]
<1>1. /\ pc = "idle" /\ Len(backup) < MaxInstalls
      /\ pending' = [p \in Path |-> IF p \in ours THEN None ELSE pending[p]]
      /\ backup' = Append(backup, [p \in ours |-> disk[p]])
      /\ rollback' = saved /\ pc' = "copy" /\ todo' = Append(copies, last)
      /\ base' = disk /\ origin' = (IF Installed THEN origin ELSE disk)
      /\ UNCHANGED <<disk, mods, faults>>
  BY DEF Install, Go
<1>2. /\ Folder(disk) /\ Folder(pending) /\ Folder(origin) /\ faults \in Nat
      /\ Len(backup) \in 0 .. MaxInstalls - 1 /\ Len(backup) \in Nat /\ MaxInstalls \in Nat
      /\ m.pkgs \in Nat /\ origin["manifest"].pkgs \in Nat /\ m.pkgs <= Len(backup) /\ m \in Content
  BY <1>1, PathFacts, PkgsNat DEF IInv, Types, Pkgs
<1>3. /\ copies \in Seq([path : File, source : Content]) /\ Distinct(copies)
      /\ ours = GameFile \cup (IF m.tab = v THEN {} ELSE {FrameFile[m.pkgs]})
      /\ \A i \in DOMAIN copies : copies[i].source.tab = v
      /\ \A i \in DOMAIN copies : copies[i].path = "manifest" => copies[i].source = Merged(v, m)
      /\ \A i \in DOMAIN copies : copies[i].path \notin GameFile =>
           \E j \in DOMAIN copies : i < j /\ copies[j].path = "manifest"
  <2>1. m.pkgs < MaxInstalls
    BY <1>2
  <2> QED BY <1>2, <2>1, CopiesFacts, Zenon
<1> HIDE DEF copies
<1>4. /\ saved \in Seq(Record) /\ Distinct(saved) /\ DOMAIN saved = DOMAIN copies
      /\ PathsOf(saved) = ours
      /\ \A i \in DOMAIN copies :
           /\ saved[i].path = copies[i].path /\ saved[i].backup = Len(backup) + 1
           /\ saved[i].existed <=> disk[copies[i].path] # None
           /\ saved[i].after = copies[i].source
  BY <1>2, <1>3, SavedFacts
<1> HIDE DEF saved
<1>5. OldFiles \in Seq(Record) /\ Distinct(OldFiles)
  BY EmptySeq DEF OldFiles, Installed, IInv, Types, StateContent, Distinct
<1>6. /\ fs \in Seq(Record) /\ Distinct(fs) /\ PathsOf(fs) = ours \cup PathsOf(OldFiles)
      /\ \A i \in DOMAIN fs :
           \/ \E k \in DOMAIN OldFiles : fs[i] = OldFiles[k]
           \/ \E j \in DOMAIN saved :
                /\ fs[i].path = saved[j].path /\ fs[i].after = saved[j].after
                /\ \/ saved[j].path \notin PathsOf(OldFiles) /\ fs[i] = saved[j]
                   \/ \E k \in DOMAIN OldFiles :
                        /\ OldFiles[k].path = saved[j].path /\ fs[i].existed = OldFiles[k].existed
                        /\ fs[i].backup = OldFiles[k].backup
  BY <1>4, <1>5, RecordsFacts
<1> HIDE DEF fs
<1>7. ours \subseteq File /\ "state" \notin ours /\ GameFile \subseteq ours
      /\ ours \subseteq GameFile \cup {FrameFile[m.pkgs]}
  BY <1>2, <1>3, PathFacts
\* The new backup, after the old ones.
<1>8. /\ IsSeq(backup') /\ Len(backup') = Len(backup) + 1
      /\ \A b \in 1 .. Len(backup) : backup'[b] = backup[b]
      /\ \A p \in ours : p \in DOMAIN backup'[Len(backup')] /\ backup'[Len(backup')][p] = disk[p]
  <2> DEFINE new == [p \in ours |-> disk[p]]
             S == {backup[i] : i \in DOMAIN backup} \cup {new}
  <2>1. backup \in Seq(S) /\ new \in S
    BY SeqMonotonic DEF IInv, Types, IsSeq
  <2> HIDE DEF S, new
  <2>2. /\ backup' \in Seq(S) /\ Len(backup') = Len(backup) + 1
        /\ \A b \in 1 .. Len(backup) : backup'[b] = backup[b]
        /\ backup'[Len(backup) + 1] = new
    BY <2>1, <1>1, AppendProperties DEF new
  <2>3. IsSeq(backup')
    BY <2>2, SeqIsSeq
  <2>4. \A p \in ours : p \in DOMAIN new /\ new[p] = disk[p]
    BY DEF new
  <2> QED BY <2>2, <2>3, <2>4
\* The copies, and after them the state file.
<1>9. /\ IsSeq(todo') /\ Len(todo') = Len(copies) + 1 /\ Len(copies) \in Nat
      /\ DOMAIN copies = 1 .. Len(copies) /\ DOMAIN todo' = 1 .. Len(todo')
      /\ \A i \in DOMAIN copies : todo'[i] = copies[i] /\ copies[i].path \in ours /\ copies[i].source \in Content
      /\ todo'[Len(todo')] = last
  <2> DEFINE T == [path : File, source : Content] \cup {last}
  <2>1. copies \in Seq(T) /\ last \in T
    BY <1>3, SeqMonotonic
  <2>2. DOMAIN copies = 1 .. Len(copies) /\ Len(copies) \in Nat
        /\ \A i \in DOMAIN copies : copies[i] \in [path : File, source : Content]
    BY <1>3, SeqDomain, Zenon
  <2> HIDE DEF T, last
  <2>3. /\ todo' \in Seq(T) /\ Len(todo') = Len(copies) + 1 /\ DOMAIN todo' = 1 .. Len(todo')
        /\ \A i \in 1 .. Len(copies) : todo'[i] = copies[i]
        /\ todo'[Len(copies) + 1] = last
    BY <2>1, <1>1, AppendProperties, LenProperties
  <2>4. IsSeq(todo')
    BY <2>3, SeqIsSeq
  <2>5. \A i \in DOMAIN copies : copies[i].path \in ours /\ copies[i].source \in Content
    BY <2>2 DEF PathsOf
  <2> QED BY <2>2, <2>3, <2>4, <2>5
<1>10. /\ Folder(pending') /\ pending'["state"] = pending["state"]
       /\ \A p \in ours : pending'[p] = None
       /\ \A p \in Path : pending'[p] = pending[p] \/ pending'[p] = None
  BY <1>1, <1>2, <1>7, PathFacts, ContentFacts DEF Folder
<1>11. Types'
  <2>1. \A i \in DOMAIN todo' : todo'[i].path \in Path
    <3>1. ASSUME NEW i \in DOMAIN todo' PROVE i \in DOMAIN copies \/ i = Len(todo')
      BY <1>9
    <3>2. last.path \in Path
      BY PathFacts
    <3> HIDE DEF last
    <3> QED BY <3>1, <3>2, <1>7, <1>9, PathFacts
  <2> HIDE DEF last
  <2> QED BY <1>1, <1>2, <1>4, <1>8, <1>9, <1>10, <2>1 DEF IInv, Types
\* The records lead back to the originals, which are those of the old ones or
\* the folder as it is.
<1>12. \A i \in DOMAIN fs : LeadsBack(fs[i], backup', origin', faults)
  <2>1. ASSUME NEW j \in DOMAIN saved, disk[saved[j].path] = origin'[saved[j].path] \/ Exempt(saved[j].path, origin', faults)
        PROVE  LeadsBack(saved[j], backup', origin', faults)
    <3>1. saved[j].path \in ours /\ saved[j].path \in File /\ disk[saved[j].path] \in Content
      BY <1>2, <1>4, <1>7 DEF PathsOf, Folder
    <3>2. saved[j].backup = Len(backup') /\ saved[j].backup \in 1 .. Len(backup') /\ saved[j].after.tab \in Version
      BY <1>2, <1>3, <1>4, <1>8
    <3>3. Original(saved[j], backup') = disk[saved[j].path]
      BY <1>4, <1>8, <3>1, <3>2 DEF Original
    <3> QED BY <2>1, <3>1, <3>2, <3>3 DEF LeadsBack
  <2>2. CASE Installed
    <3>1. /\ SoundFiles(OldFiles, backup, origin, faults) /\ Covered(disk, OldFiles, origin, faults)
          /\ origin' = origin
      BY <1>1, <2>2 DEF IInv, State, OldFiles
    <3>2. SoundFiles(OldFiles, backup', origin, faults)
      <4>1. Len(backup) <= Len(backup') /\ Len(backup') \in Nat
        BY <1>2, <1>8
      <4> QED BY <3>1, <4>1, <1>2, <1>8, MoreBackups, Zenon
    <3>3. ASSUME NEW i \in DOMAIN fs PROVE LeadsBack(fs[i], backup', origin, faults)
      <4>1. CASE \E k \in DOMAIN OldFiles : fs[i] = OldFiles[k]
        BY <4>1, <3>2 DEF SoundFiles
      <4>2. ASSUME NEW j \in DOMAIN saved, fs[i] = saved[j], saved[j].path \notin PathsOf(OldFiles)
            PROVE  LeadsBack(fs[i], backup', origin, faults)
        <5>1. saved[j].path \in File
          BY <1>4, <1>7 DEF PathsOf
        <5> QED BY <5>1, <4>2, <3>1, <2>1 DEF Covered
      <4>3. ASSUME NEW j \in DOMAIN saved, NEW k \in DOMAIN OldFiles,
                   fs[i].path = saved[j].path, fs[i].after = saved[j].after, OldFiles[k].path = saved[j].path,
                   fs[i].existed = OldFiles[k].existed, fs[i].backup = OldFiles[k].backup
            PROVE  LeadsBack(fs[i], backup', origin, faults)
        <5>1. LeadsBack(OldFiles[k], backup', origin, faults)
          BY <3>2 DEF SoundFiles
        <5>2. Original(fs[i], backup') = Original(OldFiles[k], backup')
          BY <4>3 DEF Original
        <5>3. saved[j].after.tab \in Version
          BY <1>3, <1>4
        <5> QED BY <4>3, <5>1, <5>2, <5>3 DEF LeadsBack
      <4> QED BY <1>6, <4>1, <4>2, <4>3
    <3> QED BY <3>1, <3>3
  <2>3. CASE ~Installed
    <3>1. DOMAIN OldFiles = {} /\ origin' = disk
      BY <1>1, <2>3 DEF OldFiles
    <3>2. ASSUME NEW i \in DOMAIN fs PROVE \E j \in DOMAIN saved : fs[i] = saved[j]
      BY <1>6, <3>1
    <3> QED BY <2>1, <3>1, <3>2
  <2> QED BY <2>2, <2>3
<1>13. SoundFiles(fs, backup', origin', faults)
  BY <1>6, <1>7, <1>12 DEF SoundFiles
<1>14. Covered(disk, fs, origin', faults) /\ (Installed => Covered(disk, OldFiles, origin', faults))
  <2>1. CASE Installed
    BY <1>1, <1>6, <2>1 DEF IInv, State, OldFiles, Covered
  <2>2. CASE ~Installed
    BY <1>1, <2>2 DEF Covered
  <2> QED BY <2>1, <2>2
<1>15. ASSUME NEW k \in DOMAIN saved PROVE Saves(saved[k], backup', disk, saved)
  <2>1. saved[k].path \in ours /\ saved[k].path = copies[k].path /\ k \in DOMAIN copies
    BY <1>4 DEF PathsOf
  <2>2. ASSUME saved[k].path = "manifest"
        PROVE  /\ m.pkgs <= saved[k].after.pkgs /\ saved[k].after.pkgs <= Len(backup')
               /\ \A n \in DOMAIN FrameFile : n < saved[k].after.pkgs => n < m.pkgs \/ FrameFile[n] \in PathsOf(saved)
    <3>1. saved[k].after = Merged(v, m)
      BY <1>3, <1>4, <2>1, <2>2
    <3>2. CASE m.tab = v
      BY <3>1, <3>2, <1>2, <1>8 DEF Merged
    <3>3. CASE m.tab # v
      <4>1. Merged(v, m).pkgs = m.pkgs + 1
        BY <1>2, <3>3 DEF Merged, Content
      <4>2. FrameFile[m.pkgs] \in PathsOf(saved)
        BY <1>3, <1>4, <3>3
      <4>3. \A n \in DOMAIN FrameFile : n \in Nat
        BY PathFacts
      <4> QED BY <3>1, <4>1, <4>2, <4>3, <1>2, <1>8
    <3> QED BY <3>2, <3>3
  <2>3. /\ saved[k].path \in GameFile \cup {FrameFile[m.pkgs]}
        /\ saved[k].backup = Len(backup') /\ saved[k].path \in DOMAIN backup'[Len(backup')]
        /\ backup'[Len(backup')][saved[k].path] = disk[saved[k].path]
        /\ saved[k].existed <=> disk[saved[k].path] # None
        /\ saved[k].after.tab \in Version
    BY <2>1, <1>3, <1>4, <1>7, <1>8
  <2> QED BY <2>2, <2>3 DEF Saves
<1>16. Pkgs'
  BY <1>1, <1>2, <1>8 DEF IInv, Pkgs, Installed
<1>17. State'
  <2>1. ASSUME Installed PROVE SoundFiles(disk["state"].files, backup', origin', faults)
    <3>1. SoundFiles(disk["state"].files, backup, origin, faults) /\ origin' = origin
      BY <1>1, <2>1 DEF IInv, State
    <3>2. Len(backup) <= Len(backup') /\ Len(backup') \in Nat
      BY <1>2, <1>8
    <3> QED BY <3>1, <3>2, <1>2, <1>8, MoreBackups, Zenon
  <2> QED BY <1>1, <2>1 DEF State, Installed
<1>18. Base'
  <2>1. Installed => GameFile \subseteq PathsOf(disk["state"].files) /\ origin["manifest"].pkgs <= m.pkgs
    BY DEF IInv, State, SoundFiles, Pkgs
  <2>2. Installed => OldFiles = disk["state"].files /\ origin' = origin
    BY <1>1 DEF OldFiles
  <2>3. ~Installed => origin' = disk
    BY <1>1
  <2>4. m.pkgs < Len(backup')
    BY <1>2, <1>8
  <2> QED BY <1>1, <1>4, <1>7, <1>14, <1>15, <2>1, <2>2, <2>3, <2>4 DEF Base, Installed
<1>19. /\ last.path = "state" /\ last.source.tab = "state" /\ last.source.files = fs
  OBVIOUS
<1>20. StateContent(last.source)
  BY <1>6, <1>19 DEF StateContent
<1> HIDE DEF last
<1>21. AtTheEnd'
  <2>1. todo' # << >> /\ pc' = "copy"
    BY <1>1, <1>9, EmptySeq
  <2>2. /\ SoundFiles(last.source.files, backup', origin', faults')
        /\ PathsOf(rollback') \subseteq PathsOf(last.source.files)
        /\ Covered(base', last.source.files, origin', faults')
    BY <1>1, <1>4, <1>6, <1>13, <1>14, <1>19
  <2>3. todo'[Len(todo')].source = last.source
    BY <1>9
  <2> QED BY <2>1, <2>2, <2>3, <1>20 DEF AtTheEnd, Recording
<1>22. Forward'
  <2>1. \A i \in DOMAIN todo' : i \in DOMAIN copies \/ i = Len(todo')
    BY <1>9
  <2>2. ASSUME NEW i \in DOMAIN copies
        PROVE  /\ i \in DOMAIN todo' /\ i # Len(todo') /\ todo'[i] = copies[i] /\ copies[i].path # "state"
               /\ todo'[i].path \in ours /\ saved[i].path = todo'[i].path /\ saved[i].after = todo'[i].source
    BY <1>4, <1>7, <1>9
  <2>3. \A i \in DOMAIN todo' : todo'[i].path = "state" <=> i = Len(todo')
    BY <2>1, <2>2, <1>9, <1>19
  <2>4. Distinct(todo')
    BY <2>1, <2>2, <2>3, <1>3 DEF Distinct
  <2>5. \A i \in DOMAIN todo' : i # Len(todo') =>
         \E k \in DOMAIN saved : saved[k].path = todo'[i].path /\ saved[k].after = todo'[i].source
    BY <2>1, <2>2, <1>4
  <2>6. \A i \in DOMAIN todo' : todo'[i].path # "state" => pending'[todo'[i].path] = None
    BY <2>1, <2>2, <2>3, <1>10
  <2>7. \A k \in DOMAIN saved : saved[k].path \in PathsOf(todo')
    BY <2>2, <1>4 DEF PathsOf
  <2>8. ASSUME NEW i \in DOMAIN todo', todo'[i].path \notin GameFile \cup {"state"}
        PROVE  \E j \in DOMAIN todo' : i < j /\ todo'[j].path = "manifest"
    <3>1. i \in DOMAIN copies /\ todo'[i] = copies[i]
      BY <2>1, <2>2, <2>3, <2>8
    <3>2. PICK j \in DOMAIN copies : i < j /\ copies[j].path = "manifest"
      BY <3>1, <2>8, <1>3
    <3> QED BY <3>2, <2>2
  <2>9. pc' = "copy" /\ rollback' = saved /\ disk' = base'
    BY <1>1
  <2> QED BY <2>3, <2>4, <2>5, <2>6, <2>7, <2>8, <2>9 DEF Forward
<1>23. Backward' /\ Restoring'
  BY <1>1 DEF Backward, Restoring
<1>24. Clean'
  <2>1. faults = 0 => \A p \in Path : pending'[p] = None
    BY <1>1, <1>10 DEF IInv, Clean
  <2> QED BY <1>1, <2>1 DEF IInv, Clean
<1> QED BY <1>11, <1>16, <1>17, <1>18, <1>21, <1>22, <1>23, <1>24 DEF IInv

LEMMA InstallRefusedByLeftoverKeeps ==
  ASSUME IInv, NEW v \in Version, InstallRefusedByLeftover(v) PROVE IInv'
<1>1. /\ pc = "idle" /\ UNCHANGED <<disk, backup, pc, todo, rollback, base, origin, mods, faults>>
      /\ \E before : pending' = [p \in Path |-> IF p \in before THEN None ELSE pending[p]]
  BY DEF InstallRefusedByLeftover, job
<1>2. /\ Folder(pending') /\ (pending'["state"] = pending["state"] \/ pending'["state"] = None)
      /\ \A p \in Path : pending'[p] = pending[p] \/ pending'[p] = None
  BY <1>1, PathFacts, ContentFacts DEF IInv, Types, Folder
<1>3. Types' /\ Pkgs' /\ State'
  BY <1>1, <1>2 DEF IInv, Types, Pkgs, State, Installed
<1>4. Base' /\ Forward' /\ AtTheEnd' /\ Backward' /\ Restoring'
  BY <1>1 DEF Base, Forward, AtTheEnd, Backward, Restoring, Installing
<1>5. Clean'
  BY <1>1, <1>2 DEF IInv, Clean, Installed, Unmodified
<1> QED BY <1>3, <1>4, <1>5 DEF IInv

-----------------------------------------------------------------------------
LEMMA InitKeeps == ASSUME Init PROVE IInv
<1>1. Folder(disk) /\ Folder(pending) /\ disk["state"] = None /\ pending["state"] = None
  BY PathFacts, ContentFacts DEF Init, Folder
<1>2. /\ pc = "idle" /\ todo = << >> /\ rollback = << >> /\ backup = << >> /\ base = disk /\ origin = disk
      /\ mods = 0 /\ faults = 0 /\ \A p \in Path : pending[p] = None
  BY DEF Init
<1>3. IsSeq(<< >>) /\ rollback \in Seq(Record) /\ Len(backup) = 0
  BY <1>2, EmptySeq, SeqIsSeq
<1>4. Types
  BY <1>1, <1>2, <1>3, InstallerAssumption, PathFacts DEF Types
<1>5. disk["script"] = Plain("stock") /\ disk["manifest"] = Plain("stock")
  BY PathFacts DEF Init, File
<1>6. Pkgs /\ State
  BY <1>1, <1>2, <1>3, <1>5, ContentFacts DEF Pkgs, State, Installed
<1>7. Base /\ Forward /\ AtTheEnd /\ Backward /\ Restoring
  BY <1>2 DEF Base, Forward, AtTheEnd, Backward, Restoring, Installing
<1>8. Clean
  BY <1>1, <1>2, <1>5, ContentFacts DEF Clean, Installed
<1> QED BY <1>4, <1>6, <1>7, <1>8 DEF IInv

LEMMA NextKeeps == ASSUME IInv, [Next]_vars PROVE IInv'
<1>1. CASE UNCHANGED vars
  BY <1>1 DEF vars, job, IInv, Types, Pkgs, State, Base, Forward, AtTheEnd, Backward, Restoring, Clean,
              Installed, Installing, Unmodified, Recording
<1> QED
  BY <1>1, InstallKeeps, InstallRefusedByLeftoverKeeps, CopyKeeps, SwapKeeps, FinishKeeps, UndoSkipKeeps,
     UndoPendingKeeps, UndoCopyKeeps, UndoSwapKeeps, UndoRemoveKeeps, UndoEndsKeeps, RestoreKeeps,
     RestoreRefusedKeeps, RestoreCopyKeeps, RestoreSwapKeeps, RestoreRemoveKeeps, RestoreEndsKeeps,
     CrashKeeps, ModifyKeeps DEF Next

\* The invariant of Install.ps1: what the state file, the backups and the
\* files that are still to be copied say of each other at every step.
THEOREM Invariance == Spec => []IInv
<1>1. Init => IInv
  BY InitKeeps
<1>2. IInv /\ [Next]_vars => IInv'
  BY NextKeeps
<1> QED BY <1>1, <1>2, PTL DEF Spec

\* The types of the installer's files and of its loops.
THEOREM TypeCorrect == Spec => []TypeOK
<1>1. IInv => TypeOK
  <2>1. Types => \A p \in Path \ {"state"} : {disk[p], pending[p], base[p], origin[p]} \subseteq Content
    BY DEF Types, Folder, File
  <2>2. Types => \A f \in {disk["state"], pending["state"]} :
          f \in {None, Torn} \/ (f.files \in Seq(Record) /\ Distinct(f.files))
    BY DEF Types, StateContent
  <2> QED BY <2>1, <2>2 DEF IInv, Types, TypeOK, Distinct
<1> QED BY <1>1, Invariance, PTL

\* Restore is exact (Install.ps1 36-52, 113-124): however many installs and
\* upgrades there were and whatever failed in them, every file is again what it
\* was before the first, but for package files the original manifest does not
\* name.
THEOREM RestoreStaysExact == Spec => []RestoreIsExact
<1>1. IInv => RestoreIsExact
  BY DEF IInv, Restoring, RestoreIsExact, PathsOf, Exempt, Leftover, File
<1> QED BY <1>1, Invariance, PTL

\* A rollback that gets to its end leaves the folder as the install found it
\* (131-144).
THEOREM RollbackStaysExact == Spec => []RollbackIsExact
<1>1. IInv => RollbackIsExact
  <2> SUFFICES ASSUME IInv, pc = "undo", todo = << >> PROVE disk = base
    BY DEF RollbackIsExact
  <2>1. \A p \in Path : disk[p] = base[p]
    BY PathFacts DEF IInv, Backward
  <2> QED BY <2>1 DEF IInv, Types, Folder
<1> QED BY <1>1, Invariance, PTL

\* The manifest never names a package file that is not there yet (86-90, 126).
THEOREM PackagesComeFirst == Spec => []ManifestHasPackages
<1>1. IInv => ManifestHasPackages
  <2> SUFFICES ASSUME IInv, pc \in {"copy", "swap"}, Whole(base),
                      NEW n \in DOMAIN FrameFile, n < disk["manifest"].pkgs
               PROVE  disk[FrameFile[n]] # None
    BY DEF ManifestHasPackages, Whole
  <2> DEFINE p == FrameFile[n]
  <2>1. p \in File /\ p \notin GameFile /\ p # "state" /\ "manifest" \in GameFile
    BY PathFacts
  <2>2. n < base["manifest"].pkgs => base[p] # None
    BY DEF Whole
  <2>3. PICK k \in DOMAIN rollback : rollback[k].path = "manifest"
    BY PathFacts DEF IInv, Base, Installing, PathsOf
  <2>4. ASSUME NEW l \in DOMAIN rollback, rollback[l].path = p, p \notin PathsOf(todo) PROVE disk[p] # None
    <3>1. disk[p] = rollback[l].after /\ rollback[l].after.tab \in Version
      BY <2>4 DEF IInv, Forward, Base, Installing, Saves
    <3> QED BY <3>1, ContentFacts
  <2>5. ASSUME n < base["manifest"].pkgs PROVE disk[p] # None
    <3>1. CASE p \in PathsOf(todo) \/ p \notin PathsOf(rollback)
      BY <3>1, <2>1, <2>2, <2>5 DEF IInv, Forward, PathsOf
    <3>2. CASE p \notin PathsOf(todo) /\ p \in PathsOf(rollback)
      BY <3>2, <2>4 DEF PathsOf
    <3> QED BY <3>1, <3>2
  <2>6. CASE "manifest" \in PathsOf(todo)
    <3>1. disk["manifest"] = base["manifest"]
      BY <2>6 DEF IInv, Forward, PathsOf
    <3> QED BY <3>1, <2>5
  <2>7. CASE "manifest" \notin PathsOf(todo)
    <3>1. disk["manifest"] = rollback[k].after
      BY <2>3, <2>7 DEF IInv, Forward
    <3>2. n < base["manifest"].pkgs \/ p \in PathsOf(rollback)
      BY <2>3, <3>1 DEF IInv, Base, Installing, Saves
    <3>3. p \notin PathsOf(todo)
      BY <2>1, <2>7 DEF IInv, Forward, PathsOf
    <3> QED BY <2>4, <2>5, <3>2, <3>3 DEF PathsOf
  <2> QED BY <2>6, <2>7
<1> QED BY <1>1, Invariance, PTL

\* A step of a running script that changes a file of the game's or of another
\* tool's finds a copy of it in a backup directory (41, 64-66, 91, 110).
THEOREM NothingIsLost == Spec => NothingLost
<1> DEFINE Safe == pc # "idle" =>
             \A p \in Path : disk'[p] # disk[p] /\ Theirs(disk[p]) =>
               \E b \in DOMAIN backup : p \in DOMAIN backup[b] /\ backup[b][p] = disk[p]
<1>1. IInv /\ [Next]_vars => [Safe]_vars
  <2> SUFFICES ASSUME IInv, Next, pc # "idle", NEW p \in Path, disk'[p] # disk[p], Theirs(disk[p])
               PROVE  \E b \in DOMAIN backup : p \in DOMAIN backup[b] /\ backup[b][p] = disk[p]
    OBVIOUS
  <2>1. disk[p].tab \notin Version /\ disk[p].tab # "none" /\ disk[p].tab # "state"
    BY InstallerAssumption DEF Theirs
  <2>2. p # "state"
    BY <2>1, ContentFacts DEF IInv, Types, StateContent
  <2>3. disk = [q \in Path |-> disk[q]]
    BY DEF IInv, Types, Folder
  <2>4. CASE Swap
    <3>1. todo # << >> /\ pc = "swap"
      BY <2>4 DEF Swap, IInv, Forward
    <3>2. p = Head(todo).path
      BY <2>3, <2>4 DEF Swap, ReplaceTarget
    <3>3. disk[p] = base[p]
      BY <3>1, <3>2, CopyHead DEF IInv, Forward
    <3>4. PICK k \in DOMAIN rollback : rollback[k].path = p /\ Saves(rollback[k], backup, base, rollback)
      BY <2>2, <3>1, <3>2, CopyHead
    <3>5. p \in DOMAIN backup[Len(backup)] /\ backup[Len(backup)][p] = disk[p]
      BY <3>3, <3>4 DEF Saves
    <3>6. Len(backup) \in DOMAIN backup
      <4>1. base["manifest"].pkgs < Len(backup) /\ base["manifest"].pkgs \in Nat
        BY <3>1, PkgsNat DEF IInv, Base, Installing, Types
      <4>2. DOMAIN backup = 1 .. Len(backup) /\ Len(backup) \in Nat
        BY DEF IInv, Types, IsSeq
      <4> QED BY <4>1, <4>2
    <3> QED BY <3>5, <3>6
  <2>5. ASSUME pc \in {"undo", "undoSwap"} PROVE disk[p] = base[p]
    <3>1. ASSUME NEW i \in DOMAIN todo PROVE todo[i].after.tab \in Version
      BY <2>5 DEF IInv, Backward, Base, Installing, Saves
    <3> QED BY <2>1, <2>2, <2>5, <3>1, PathFacts DEF IInv, Backward
  <2>6. ASSUME pc \in {"restore", "restoreSwap"}, todo # << >> PROVE p # Head(todo).path
    BY <2>1, <2>6, RestoreHead DEF LeadsBack
  <2>7. CASE UndoSwap
    <3>1. todo # << >> /\ pc = "undoSwap" /\ pending[todo[1].path] = base[todo[1].path]
      BY <2>7 DEF UndoSwap, IInv, Backward
    <3>2. disk'[p] = base[p]
      BY <2>3, <2>7, <3>1, UndoHead DEF UndoSwap, ReplaceTarget
    <3> QED BY <2>5, <3>1, <3>2
  <2>8. CASE UndoRemove
    <3>1. pc = "undo" /\ todo # << >> /\ ~Head(todo).existed /\ disk' = [disk EXCEPT ![Head(todo).path] = None]
      BY <2>8 DEF UndoRemove
    <3>2. disk'[p] = base[p]
      BY <2>3, <3>1, UndoHead
    <3> QED BY <2>5, <3>1, <3>2
  <2>9. CASE RestoreSwap
    <3>1. pc = "restoreSwap" /\ todo # << >>
      BY <2>9 DEF RestoreSwap, IInv, Restoring
    <3> QED BY <3>1, <2>3, <2>6, <2>9 DEF RestoreSwap, ReplaceTarget
  <2>10. CASE RestoreRemove
    BY <2>3, <2>6, <2>10 DEF RestoreRemove
  <2>11. CASE RestoreEnds
    BY <2>2, <2>3, <2>11 DEF RestoreEnds
  <2>12. CASE UNCHANGED disk
    BY <2>12
  <2>13. \/ Swap \/ UndoSwap \/ UndoRemove \/ RestoreSwap \/ RestoreRemove \/ RestoreEnds \/ UNCHANGED disk
    BY DEF Next, vars, job, Install, InstallRefusedByLeftover, Copy, Finish, UndoSkip, UndoPending, UndoCopy,
           UndoEnds, Restore, RestoreRefused, RestoreCopy, Crash, Modify
  <2> QED BY <2>4, <2>7, <2>8, <2>9, <2>10, <2>11, <2>12, <2>13
<1> QED BY <1>1, Invariance, PTL DEF Spec, NothingLost

-----------------------------------------------------------------------------
\* The version being published is one of the versions.
Upgrading ==
  /\ upgrade \in [version : Version \cup {"none"}, next : {"none", "Restore", "Install"}]
  /\ upgrade.next # "none" => upgrade.version \in Version

\* Between two of its actions nobody but the published installer works.
Between ==
  pc = "idle" /\ mods = 0 /\ faults = 0 =>
    /\ upgrade.next = "Restore" => Installed
    /\ upgrade.next = "Install" => ~Installed

\* InstallMusic.ps1 does nothing with the files that Install.ps1 cannot do.
LEMMA PublishedStep == ASSUME Upgrading, [PublishedNext]_publishedVars PROVE [Next]_vars
<1>1. CASE UNCHANGED publishedVars
  BY <1>1 DEF publishedVars
<1>2. CASE PublishInstall \/ PublishRestore \/ PublishRefused
  BY <1>2 DEF PublishInstall, PublishRestore, PublishRefused, Upgrading, Next, RestoreRefused
<1>3. CASE (\E v \in Version : Publish(v)) \/ Restored \/ ScriptStep \/ Direct \/ (Modify /\ UNCHANGED upgrade)
  BY <1>3 DEF Publish, Restored, ScriptStep, Direct, Next
<1> QED BY <1>1, <1>2, <1>3 DEF PublishedNext

LEMMA UpgradingStep == ASSUME Upgrading, [PublishedNext]_publishedVars PROVE Upgrading'
<1>1. CASE UNCHANGED upgrade
  BY <1>1 DEF Upgrading
<1>2. CASE upgrade' = NoUpgrade
  BY <1>2 DEF Upgrading, NoUpgrade
<1>3. CASE \E v \in Version : upgrade' = [version |-> v, next |-> FirstAction]
  BY <1>3, InstallerAssumption DEF Upgrading, FirstAction
<1>4. CASE upgrade # NoUpgrade /\ upgrade' = [upgrade EXCEPT !.next = "Install"]
  BY <1>4 DEF Upgrading, NoUpgrade
<1> QED
  BY <1>1, <1>2, <1>3, <1>4 DEF PublishedNext, publishedVars, Publish, PublishRestore, PublishInstall,
     PublishRefused, Restored, ScriptStep, Direct

\* Every step of InstallMusic.ps1 is a step of Install.ps1 or none of its own
\* (publish_installer.py 89-123): what is proved of Install.ps1 is true of both.
THEOREM PublishedIsInstaller == PublishedSpec => Spec /\ []Upgrading
<1>1. PublishedInit => Init /\ Upgrading
  BY DEF PublishedInit, Upgrading, NoUpgrade
<1>2. Upgrading /\ [PublishedNext]_publishedVars => [Next]_vars /\ Upgrading'
  BY PublishedStep, UpgradingStep
<1> QED BY <1>1, <1>2, PTL DEF PublishedSpec, Spec

LEMMA BetweenStep ==
  ASSUME IInv, Upgrading, Between, [PublishedNext]_publishedVars PROVE Between'
<1> SUFFICES ASSUME pc' = "idle", mods' = 0, faults' = 0
             PROVE  /\ upgrade'.next = "Restore" => Installed'
                    /\ upgrade'.next = "Install" => ~Installed'
  BY DEF Between
<1>1. CASE UNCHANGED publishedVars
  BY <1>1 DEF publishedVars, vars, job, Between, Installed
<1>2. CASE \E v \in Version : Publish(v)
  BY <1>2 DEF Publish, FirstAction, Installed, vars
<1>3. CASE PublishRestore \/ PublishInstall
  BY <1>3 DEF PublishRestore, PublishInstall, Restore, Install, Go
<1>4. CASE PublishRefused \/ ScriptStep
  BY <1>4 DEF PublishRefused, ScriptStep, NoUpgrade
<1>5. CASE Restored
  <2>1. disk'["state"] = None
    BY <1>5, PathFacts DEF Restored, RestoreEnds, IInv, Types, Folder
  <2>2. upgrade' = NoUpgrade \/ upgrade' = [upgrade EXCEPT !.next = "Install"]
    BY <1>5 DEF Restored
  <2>3. upgrade'.next # "Restore"
    BY <2>2 DEF NoUpgrade, Upgrading
  <2> QED BY <2>1, <2>3 DEF Installed
<1>6. CASE Direct
  BY <1>6 DEF Direct, NoUpgrade
<1>7. CASE Modify
  BY <1>7 DEF Modify, IInv, Types
<1> QED BY <1>1, <1>2, <1>3, <1>4, <1>5, <1>6, <1>7 DEF PublishedNext

\* A published upgrade is refused at neither of its actions unless somebody
\* else has changed a file (publish_installer.py 123).
THEOREM UpgradeIsNotRefused == PublishedSpec => []UpgradeGoesThrough
<1>1. PublishedInit => Between
  BY DEF PublishedInit, NoUpgrade, Between
<1>2. IInv /\ Upgrading /\ Between /\ [PublishedNext]_publishedVars => Between'
  BY BetweenStep
<1>3. IInv /\ Upgrading /\ Between => UpgradeGoesThrough
  <2> SUFFICES ASSUME IInv, Upgrading, Between, pc = "idle", mods = 0, faults = 0
               PROVE  /\ upgrade.next = "Restore" => RestoreAccepts
                      /\ upgrade.next = "Install" => Supported(upgrade.version)
    BY DEF UpgradeGoesThrough
  <2>1. upgrade.next = "Restore" => RestoreAccepts
    BY DEF IInv, Clean, Between, RestoreAccepts
  <2>2. ASSUME upgrade.next = "Install" PROVE Supported(upgrade.version)
    BY <2>2 DEF IInv, Clean, Between, Supported, Verified, Mergeable
  <2> QED BY <2>1, <2>2
<1> QED BY <1>1, <1>2, <1>3, PublishedIsInstaller, Invariance, PTL DEF PublishedSpec

-----------------------------------------------------------------------------
(* The merger *)

CONSTANT Hash   \* the contents there are

Frame == [pkg : Nat, offset : Nat]

\* Every entry is in the frame table, and leads to its content in a package
\* the manifest counts.
SoundTables(t, files) ==
    /\ t.pkgs \in Nat /\ t.frames \in Seq(Frame)
    /\ \A r \in DOMAIN t.entry :
          /\ t.entry[r].loc \in 0 .. Len(t.frames) - 1
          /\ t.frames[t.entry[r].loc + 1].pkg < t.pkgs
          /\ Read(t, files, r) = t.entry[r].hash

\* The same inside the loop, where the new package is still being filled.
Sound(w, files) ==
    /\ w.pkg \in Nat /\ w.frames \in Seq(Frame) /\ w.data \in Seq(Hash)
    /\ \A r \in DOMAIN w.entry :
          /\ w.entry[r].loc \in 0 .. Len(w.frames) - 1
          /\ LET f == w.frames[w.entry[r].loc + 1]
             IN \/ /\ f.pkg = w.pkg /\ f.offset < Len(w.data)
                   /\ w.data[f.offset + 1] = w.entry[r].hash
                \/ /\ f.pkg < w.pkg
                   /\ files[f.pkg][f.offset + 1] = w.entry[r].hash

\* What the loop holds, field by field.
Loop(w) == DOMAIN w = {"entry", "frames", "pkg", "data", "changes", "refused"}

\* The loop begins with what the manifest has.
THEOREM BeginSound ==
    ASSUME NEW t, NEW files, SoundTables(t, files)
    PROVE  Sound(Begin(t), files) /\ Loop(Begin(t))
<1>1. /\ Begin(t).entry = t.entry /\ Begin(t).frames = t.frames
      /\ Begin(t).pkg = t.pkgs /\ Begin(t).data = <<>>
  BY DEF Begin
<1> QED BY <1>1 DEF Sound, SoundTables, Loop, Begin, Read

\* A resource that is refused leaves everything as it is but the verdict.
LEMMA RefusedKeeps ==
    ASSUME NEW w, NEW item, NEW files, Loop(w), Sound(w, files),
           w.refused \/ ~(Same(w, item) \/ Existing(w, item) \in item.baselines)
    PROVE  Sound(Place(w, item), files) /\ Loop(Place(w, item)) /\ Place(w, item).entry = w.entry
           /\ Place(w, item).frames = w.frames
<1> DEFINE v == Place(w, item)
<1>1. v = [w EXCEPT !.refused = TRUE]
  BY DEF Place
<1>2. /\ v.entry = w.entry /\ v.frames = w.frames /\ v.pkg = w.pkg /\ v.data = w.data
      /\ DOMAIN v = DOMAIN w
  BY <1>1 DEF Loop
<1> HIDE DEF v
<1>3. Sound(v, files) /\ Loop(v)
  BY <1>2 DEF Sound, Loop
<1> QED BY <1>2, <1>3 DEF v

\* A round of the loop keeps the tables sound, also for a resource the patch
\* has named before, and the entries and frames of all other resources.
THEOREM PlaceSound ==
    ASSUME NEW w, NEW item, NEW files, Loop(w), Sound(w, files), item.hash \in Hash
    PROVE  /\ Sound(Place(w, item), files) /\ Loop(Place(w, item))
           /\ \A r \in DOMAIN w.entry \ {item.res} :
                 /\ r \in DOMAIN Place(w, item).entry
                 /\ Place(w, item).entry[r] = w.entry[r]
                 /\ Place(w, item).frames[w.entry[r].loc + 1] = w.frames[w.entry[r].loc + 1]
<1> DEFINE v == Place(w, item)
           frame == [pkg |-> w.pkg, offset |-> Len(w.data)]
<1>1. CASE w.refused \/ ~(Same(w, item) \/ Existing(w, item) \in item.baselines)
  BY <1>1, RefusedKeeps
<1>2. CASE ~w.refused /\ (Same(w, item) \/ Existing(w, item) \in item.baselines)
  <2>1. /\ v.entry = [r \in DOMAIN w.entry \cup {item.res} |->
                        IF r = item.res THEN [hash |-> item.hash, loc |-> Len(w.frames)]
                        ELSE w.entry[r]]
        /\ v.frames = Append(w.frames, frame)
        /\ v.data = Append(w.data, item.hash)
        /\ v.pkg = w.pkg /\ DOMAIN v = DOMAIN w
    BY <1>2 DEF Place, Loop
  <2> HIDE DEF v
  <2>2. frame \in Frame /\ w.frames \in Seq(Frame) /\ w.data \in Seq(Hash)
    BY DEF Sound, Frame
  <2>3. /\ v.frames \in Seq(Frame) /\ v.data \in Seq(Hash)
        /\ Len(v.frames) = Len(w.frames) + 1 /\ Len(v.data) = Len(w.data) + 1
        /\ \A n \in 1 .. Len(w.frames) : v.frames[n] = w.frames[n]
        /\ \A n \in 1 .. Len(w.data) : v.data[n] = w.data[n]
        /\ v.frames[Len(w.frames) + 1] = frame
        /\ v.data[Len(w.data) + 1] = item.hash
    BY <2>1, <2>2
  <2>4. \A r \in DOMAIN w.entry \ {item.res} :
           /\ r \in DOMAIN v.entry /\ v.entry[r] = w.entry[r]
           /\ w.entry[r].loc \in 0 .. Len(w.frames) - 1
           /\ v.frames[w.entry[r].loc + 1] = w.frames[w.entry[r].loc + 1]
    BY <2>1, <2>2, <2>3 DEF Sound
  <2>5. \A r \in DOMAIN v.entry :
          /\ v.entry[r].loc \in 0 .. Len(v.frames) - 1
          /\ LET f == v.frames[v.entry[r].loc + 1]
             IN \/ /\ f.pkg = v.pkg /\ f.offset < Len(v.data)
                   /\ v.data[f.offset + 1] = v.entry[r].hash
                \/ /\ f.pkg < v.pkg
                   /\ files[f.pkg][f.offset + 1] = v.entry[r].hash
    <3> TAKE r \in DOMAIN v.entry
    <3>1. CASE r = item.res
      <4>1. v.entry[r] = [hash |-> item.hash, loc |-> Len(w.frames)]
        BY <2>1, <3>1
      <4>2. v.entry[r].loc = Len(w.frames) /\ v.entry[r].hash = item.hash
        BY <4>1
      <4>3. Len(w.frames) \in Nat /\ Len(w.data) \in Nat
        BY <2>2
      <4>4. v.frames[v.entry[r].loc + 1] = frame
        BY <2>3, <4>2
      <4>5. frame.pkg = v.pkg /\ frame.offset = Len(w.data)
        BY <2>1
      <4> HIDE DEF frame
      <4>6. v.entry[r].loc \in 0 .. Len(v.frames) - 1
        BY <2>3, <4>2, <4>3
      <4>7. frame.offset < Len(v.data) /\ v.data[frame.offset + 1] = v.entry[r].hash
        BY <2>3, <4>2, <4>3, <4>5
      <4> QED BY <4>4, <4>5, <4>6, <4>7
    <3>2. CASE r # item.res
      <4>1. r \in DOMAIN w.entry /\ v.entry[r] = w.entry[r]
        BY <2>1, <3>2
      <4>2. v.frames[v.entry[r].loc + 1] = w.frames[w.entry[r].loc + 1]
        BY <2>4, <3>2, <4>1
      <4>3. w.entry[r].loc \in 0 .. Len(w.frames) - 1
        BY <4>1 DEF Sound
      <4>4. w.frames[w.entry[r].loc + 1] \in Frame
        BY <2>2, <4>3
      <4>5. v.entry[r].loc \in 0 .. Len(v.frames) - 1
        BY <2>2, <2>3, <4>1, <4>3
      <4> DEFINE f == w.frames[w.entry[r].loc + 1]
      <4>6. \/ /\ f.pkg = w.pkg /\ f.offset < Len(w.data)
               /\ w.data[f.offset + 1] = w.entry[r].hash
            \/ /\ f.pkg < w.pkg
               /\ files[f.pkg][f.offset + 1] = w.entry[r].hash
        BY <4>1 DEF Sound
      <4>7. f.offset \in Nat
        BY <4>4 DEF Frame
      <4> HIDE DEF f
      <4>8. f.offset < Len(w.data) =>
              f.offset < Len(v.data) /\ v.data[f.offset + 1] = w.data[f.offset + 1]
        BY <2>2, <2>3, <4>7
      <4> QED BY <2>1, <4>1, <4>2, <4>5, <4>6, <4>8 DEF f
    <3> QED BY <3>1, <3>2
  <2>6. Sound(v, files)
    BY <2>1, <2>3, <2>5 DEF Sound
  <2>7. Loop(v)
    BY <2>1 DEF Loop
  <2> QED BY <2>4, <2>6, <2>7 DEF v
<1> QED BY <1>1, <1>2

\* Written out, with the package beside it: whatever a file of that name held
\* before, the new tables are sound.
THEOREM MergeSound ==
    ASSUME NEW w, NEW files, Loop(w), Sound(w, files), DOMAIN files \subseteq Nat,
           \A n \in 0 .. w.pkg - 1 : n \in DOMAIN files
    PROVE  SoundTables(WithPackage(w),
                       [n \in DOMAIN files \cup {w.pkg} |-> IF n = w.pkg THEN w.data ELSE files[n]])
<1> DEFINE t == WithPackage(w)
           frame == [pkg |-> w.pkg, offset |-> Len(w.data)]
           after == [n \in DOMAIN files \cup {w.pkg} |-> IF n = w.pkg THEN w.data ELSE files[n]]
<1>1. /\ t.entry = w.entry /\ t.frames = Append(w.frames, frame) /\ t.pkgs = w.pkg + 1
  BY DEF WithPackage
<1> HIDE DEF t
<1>2. /\ frame \in Frame /\ w.frames \in Seq(Frame) /\ w.data \in Seq(Hash) /\ w.pkg \in Nat
  BY DEF Sound, Frame
<1>3. /\ t.frames \in Seq(Frame) /\ Len(t.frames) = Len(w.frames) + 1
      /\ \A n \in 1 .. Len(w.frames) : t.frames[n] = w.frames[n]
  BY <1>1, <1>2
<1>4. after[w.pkg] = w.data /\ \A n \in 0 .. w.pkg - 1 : after[n] = files[n]
  BY <1>2
<1> HIDE DEF after
<1>5. ASSUME NEW r \in DOMAIN t.entry
      PROVE  /\ t.entry[r].loc \in 0 .. Len(t.frames) - 1
             /\ t.frames[t.entry[r].loc + 1].pkg < t.pkgs
             /\ Read(t, after, r) = t.entry[r].hash
  <2> DEFINE f == w.frames[w.entry[r].loc + 1]
  <2>1. w.entry[r].loc \in 0 .. Len(w.frames) - 1
    BY <1>1, <1>5 DEF Sound
  <2>2. f \in Frame
    BY <1>2, <2>1
  <2>3. t.frames[t.entry[r].loc + 1] = f
    BY <1>1, <1>3, <2>1
  <2>4. \/ /\ f.pkg = w.pkg /\ f.offset < Len(w.data)
           /\ w.data[f.offset + 1] = w.entry[r].hash
        \/ /\ f.pkg < w.pkg
           /\ files[f.pkg][f.offset + 1] = w.entry[r].hash
    BY <1>1, <1>5 DEF Sound
  <2>5. t.entry[r].loc \in 0 .. Len(t.frames) - 1
    BY <1>1, <1>2, <1>3, <2>1
  <2> HIDE DEF f
  <2>6. f.pkg \in Nat
    BY <2>2 DEF Frame
  <2>7. f.pkg < t.pkgs
    BY <1>1, <1>2, <2>4, <2>6
  <2>8. after[f.pkg][f.offset + 1] = w.entry[r].hash
    BY <1>2, <1>4, <2>4, <2>6
  <2> QED BY <1>1, <2>3, <2>5, <2>7, <2>8 DEF Read
<1>6. SoundTables(t, after)
  BY <1>1, <1>2, <1>3, <1>5 DEF SoundTables
<1> QED BY <1>6 DEF t, after

\* Placed once, a resource is found the same: merging a patch twice changes
\* nothing the second time.
THEOREM PlacedIsSame ==
    ASSUME NEW w, NEW item, Loop(w), ~w.refused,
           Same(w, item) \/ Existing(w, item) \in item.baselines
    PROVE  Same(Place(w, item), item)
<1>1. Place(w, item).entry = [r \in DOMAIN w.entry \cup {item.res} |->
                        IF r = item.res THEN [hash |-> item.hash, loc |-> Len(w.frames)]
                        ELSE w.entry[r]]
  BY DEF Place, Loop
<1> QED BY <1>1 DEF Same
\* Of any numbers one is the least; the inductions below are by the first
\* round that would go wrong.
LEMMA Least ==
    ASSUME NEW S, S \subseteq Nat, S # {}
    PROVE  \E n \in S : \A m \in S : n <= m
<1> DEFINE Below == OpToRel(<, Nat)
<1>1. IsWellFoundedOn(Below, Nat)
  BY NatLessThanWellFounded, Zenon
<1>2. \A m, n \in Nat : m < n => <<m, n>> \in Below
  BY DEF OpToRel
<1> HIDE DEF Below
<1>3. PICK n \in S : \A m \in S : <<m, n>> \notin Below
  BY <1>1, WFMin
<1>4. ASSUME NEW m \in S PROVE n <= m
  <2>1. m \in Nat /\ n \in Nat /\ ~(m < n)
    BY <1>2, <1>3
  <2> QED BY <2>1
<1> QED BY <1>4

\* Induction, for a set of numbers.
LEMMA UpTo ==
    ASSUME NEW S, NEW k \in Nat, 0 \in S, \A n \in 1 .. k : n - 1 \in S => n \in S
    PROVE  0 .. k \subseteq S
<1> DEFINE bad == {n \in 0 .. k : n \notin S}
<1> SUFFICES ASSUME bad # {} PROVE FALSE
  OBVIOUS
<1>1. PICK n \in bad : \A m \in bad : n <= m
  <2>1. bad \subseteq Nat
    OBVIOUS
  <2> HIDE DEF bad
  <2> QED BY <2>1, Least, Zenon
<1>2. n \in 1 .. k /\ n \notin S
  BY <1>1
<1>3. n - 1 \in 0 .. k /\ ~(n <= n - 1)
  BY <1>2
<1>4. n - 1 \in S
  BY <1>1, <1>3
<1> QED BY <1>2, <1>4

\* There is a value of the loop's variables after each number of resources.
LEMMA RoundsAre ==
    ASSUME NEW t, NEW patch, Len(patch) \in Nat
    PROVE  /\ Rounds(t, patch)[0] = Begin(t)
           /\ \A n \in 1 .. Len(patch) : Rounds(t, patch)[n] = Place(Rounds(t, patch)[n - 1], patch[n])
<1> DEFINE Good(w, k) == w = [n \in 0 .. k |-> IF n = 0 THEN Begin(t) ELSE Place(w[n - 1], patch[n])]
           good == {k \in 0 .. Len(patch) : \E w : Good(w, k)}
<1>1. 0 \in good
  <2>1. Good([n \in 0 .. 0 |-> Begin(t)], 0)
    OBVIOUS
  <2>2. 0 \in 0 .. Len(patch)
    OBVIOUS
  <2> HIDE DEF Good
  <2>3. \E w : Good(w, 0)
    BY <2>1
  <2> QED BY <2>2, <2>3
<1>2. ASSUME NEW k \in 1 .. Len(patch), k - 1 \in good PROVE k \in good
  <2>1. PICK w : Good(w, k - 1)
    BY <1>2
  <2> DEFINE v == [n \in 0 .. k |-> IF n = k THEN Place(w[k - 1], patch[k]) ELSE w[n]]
  <2>2. ASSUME NEW n \in 0 .. k
        PROVE  v[n] = IF n = 0 THEN Begin(t) ELSE Place(v[n - 1], patch[n])
    <3>1. CASE n = k
      <4>1. n # 0 /\ n - 1 \in 0 .. k /\ n - 1 # k
        BY <3>1
      <4>2. v[n - 1] = w[k - 1] /\ v[n] = Place(w[k - 1], patch[k])
        BY <3>1, <4>1
      <4> QED BY <3>1, <4>1, <4>2
    <3>2. CASE n # k
      <4>1. n \in 0 .. k - 1
        BY <3>2
      <4>2. v[n] = w[n]
        BY <3>2
      <4>3. w[n] = IF n = 0 THEN Begin(t) ELSE Place(w[n - 1], patch[n])
        BY <2>1, <4>1
      <4>4. n # 0 => n - 1 \in 0 .. k /\ n - 1 # k
        BY <4>1
      <4> QED BY <4>2, <4>3, <4>4
    <3> QED BY <3>1, <3>2
  <2>3. v = [n \in 0 .. k |-> v[n]]
    OBVIOUS
  <2> HIDE DEF v
  <2>4. Good(v, k)
    BY <2>2, <2>3
  <2> QED BY <2>4
<1> HIDE DEF good
<1>3. 0 .. Len(patch) \subseteq good
  BY <1>1, <1>2, UpTo
<1>4. \E w : Good(w, Len(patch))
  BY <1>3 DEF good
<1>5. Rounds(t, patch) = CHOOSE w : Good(w, Len(patch))
  BY DEF Rounds
<1>6. Good(Rounds(t, patch), Len(patch))
  BY <1>4, <1>5
<1> QED BY <1>6

\* What a round does to the loop's variables.
LEMMA PlaceIs ==
    ASSUME NEW w, NEW item, Loop(w)
    PROVE  /\ Place(w, item).pkg = w.pkg
           /\ w.refused => Place(w, item).refused
           /\ ~Place(w, item).refused =>
                 /\ ~w.refused
                 /\ Same(w, item) \/ Existing(w, item) \in item.baselines
                 /\ Place(w, item).entry = [r \in DOMAIN w.entry \cup {item.res} |->
                        IF r = item.res THEN [hash |-> item.hash, loc |-> Len(w.frames)]
                        ELSE w.entry[r]]
                 /\ Same(w, item) => Place(w, item).changes = w.changes
<1>1. CASE w.refused \/ ~(Same(w, item) \/ Existing(w, item) \in item.baselines)
  BY <1>1 DEF Place, Loop
<1>2. CASE ~w.refused /\ (Same(w, item) \/ Existing(w, item) \in item.baselines)
  <2>1. Place(w, item) = [w EXCEPT
            !.entry = [r \in DOMAIN w.entry \cup {item.res} |->
                         IF r = item.res THEN [hash |-> item.hash, loc |-> Len(w.frames)]
                         ELSE w.entry[r]],
            !.frames = Append(@, [pkg |-> w.pkg, offset |-> Len(w.data)]),
            !.data = Append(@, item.hash),
            !.changes = IF Same(w, item) THEN @ ELSE @ + 1]
    BY <1>2 DEF Place
  <2> QED BY <1>2, <2>1 DEF Loop
<1> QED BY <1>1, <1>2

\* A patch the merger can read.
IsPatch(patch) == Len(patch) \in Nat /\ \A i \in 1 .. Len(patch) : patch[i].hash \in Hash

Named(patch, n) == {patch[i].res : i \in 1 .. n}

\* The tables with their entries for all but some resources unchanged.
Keeps(w, t, named) ==
    \A r \in DOMAIN t.entry \ named :
        /\ r \in DOMAIN w.entry /\ w.entry[r] = t.entry[r]
        /\ w.frames[t.entry[r].loc + 1] = t.frames[t.entry[r].loc + 1]

\* All rounds of the loop, by induction over them.
LEMMA RoundsSound ==
    ASSUME NEW t, NEW patch, NEW files, SoundTables(t, files), IsPatch(patch)
    PROVE  \A n \in 0 .. Len(patch) :
              /\ Loop(Rounds(t, patch)[n]) /\ Sound(Rounds(t, patch)[n], files)
              /\ Rounds(t, patch)[n].pkg = t.pkgs
              /\ Keeps(Rounds(t, patch)[n], t, Named(patch, n))
<1> DEFINE w == Rounds(t, patch)
           Holds(n) == /\ Loop(w[n]) /\ Sound(w[n], files) /\ w[n].pkg = t.pkgs
                       /\ Keeps(w[n], t, Named(patch, n))
           good == {n \in 0 .. Len(patch) : Holds(n)}
<1>1. Len(patch) \in Nat
  BY DEF IsPatch
<1>2. w[0] = Begin(t) /\ \A n \in 1 .. Len(patch) : w[n] = Place(w[n - 1], patch[n])
  BY <1>1, RoundsAre
<1> HIDE DEF w
<1>3. 0 \in good
  <2>1. Sound(w[0], files) /\ Loop(w[0])
    BY <1>2, BeginSound
  <2>2. w[0].pkg = t.pkgs /\ w[0].entry = t.entry /\ w[0].frames = t.frames
    BY <1>2 DEF Begin
  <2>3. Keeps(w[0], t, Named(patch, 0))
    BY <2>2 DEF Keeps
  <2> QED BY <1>1, <2>1, <2>2, <2>3
<1>4. ASSUME NEW n \in 1 .. Len(patch), n - 1 \in good PROVE n \in good
  <2> DEFINE v == w[n - 1]
             item == patch[n]
  <2>1. /\ Loop(v) /\ Sound(v, files) /\ v.pkg = t.pkgs /\ Keeps(v, t, Named(patch, n - 1))
        /\ w[n] = Place(v, item) /\ item.hash \in Hash
    BY <1>2, <1>4 DEF IsPatch
  <2>2. /\ Sound(w[n], files) /\ Loop(w[n])
        /\ \A r \in DOMAIN v.entry \ {item.res} :
              /\ r \in DOMAIN w[n].entry
              /\ w[n].entry[r] = v.entry[r]
              /\ w[n].frames[v.entry[r].loc + 1] = v.frames[v.entry[r].loc + 1]
    <3> HIDE DEF v, item
    <3>1. /\ Sound(Place(v, item), files) /\ Loop(Place(v, item))
          /\ \A r \in DOMAIN v.entry \ {item.res} :
                 /\ r \in DOMAIN Place(v, item).entry
                 /\ Place(v, item).entry[r] = v.entry[r]
                 /\ Place(v, item).frames[v.entry[r].loc + 1] = v.frames[v.entry[r].loc + 1]
      BY <2>1, PlaceSound, Zenon
    <3> QED BY <2>1, <3>1
  <2>3. w[n].pkg = t.pkgs
    <3> HIDE DEF v, item
    <3>1. Place(v, item).pkg = v.pkg
      BY <2>1, PlaceIs, Zenon
    <3> QED BY <2>1, <3>1
  <2>4. Named(patch, n) = Named(patch, n - 1) \cup {item.res}
    <3>1. 1 .. n = (1 .. n - 1) \cup {n}
      BY <1>1
    <3> QED BY <3>1 DEF Named
  <2>5. Keeps(w[n], t, Named(patch, n))
    <3> SUFFICES ASSUME NEW r \in DOMAIN t.entry \ Named(patch, n)
                 PROVE  /\ r \in DOMAIN w[n].entry /\ w[n].entry[r] = t.entry[r]
                        /\ w[n].frames[t.entry[r].loc + 1] = t.frames[t.entry[r].loc + 1]
      BY DEF Keeps
    <3>1. /\ r \in DOMAIN v.entry /\ v.entry[r] = t.entry[r]
          /\ v.frames[t.entry[r].loc + 1] = t.frames[t.entry[r].loc + 1]
      BY <2>1, <2>4 DEF Keeps
    <3> QED BY <2>2, <2>4, <3>1
  <2> QED BY <2>1, <2>2, <2>3, <2>5
<1> HIDE DEF good
<1>5. 0 .. Len(patch) \subseteq good
  BY <1>1, <1>3, <1>4, UpTo
<1> QED BY <1>5 DEF good, w

\* A refusal stays: a merge that ends without one had none.
LEMMA NoneRefused ==
    ASSUME NEW t, NEW patch, NEW files, SoundTables(t, files), IsPatch(patch),
           ~Rounds(t, patch)[Len(patch)].refused
    PROVE  \A n \in 0 .. Len(patch) : ~Rounds(t, patch)[n].refused
<1> DEFINE w == Rounds(t, patch)
           good == {k \in 0 .. Len(patch) : ~w[Len(patch) - k].refused}
<1>1. Len(patch) \in Nat
  BY DEF IsPatch
<1>2. \A n \in 1 .. Len(patch) : w[n] = Place(w[n - 1], patch[n]) /\ Loop(w[n - 1])
  BY <1>1, RoundsAre, RoundsSound
<1>3. ~w[Len(patch)].refused
  OBVIOUS
<1> HIDE DEF w
<1>4. 0 \in good
  BY <1>1, <1>3
<1>5. ASSUME NEW k \in 1 .. Len(patch), k - 1 \in good PROVE k \in good
  <2> DEFINE n == Len(patch) - k + 1
  <2>1. n \in 1 .. Len(patch) /\ n - 1 = Len(patch) - k /\ Len(patch) - (k - 1) = n
    BY <1>1
  <2>2. ~w[n].refused
    BY <1>5, <2>1
  <2> HIDE DEF n
  <2>3. ~w[n - 1].refused
    <3> DEFINE v == w[n - 1]
               item == patch[n]
    <3>1. w[n] = Place(v, item) /\ Loop(v)
      BY <1>2, <2>1
    <3> HIDE DEF v, item
    <3>2. v.refused => Place(v, item).refused
      BY <3>1, PlaceIs, Zenon
    <3>3. ~v.refused
      BY <2>2, <3>1, <3>2, Zenon
    <3> QED BY <3>3 DEF v
  <2> QED BY <2>1, <2>3
<1> HIDE DEF good
<1>6. 0 .. Len(patch) \subseteq good
  BY <1>1, <1>4, <1>5, UpTo
<1>7. ASSUME NEW n \in 0 .. Len(patch) PROVE ~w[n].refused
  <2>1. Len(patch) - n \in good /\ Len(patch) - (Len(patch) - n) = n
    BY <1>1, <1>6
  <2> QED BY <2>1 DEF good
<1> QED BY <1>7 DEF w

\* The package files with one more of them written.
WithFile(files, n, data) ==
    [k \in DOMAIN files \cup {n} |-> IF k = n THEN data ELSE files[k]]

\* What a merge that is not refused and not empty returns.
LEMMA MergedIs ==
    ASSUME NEW t, NEW patch, Merge(t, patch).result = "merged"
    PROVE  LET w == Rounds(t, patch)[Len(patch)]
           IN  /\ ~w.refused /\ Merge(t, patch).tables = WithPackage(w)
               /\ Merge(t, patch).package = w.data
<1> DEFINE w == Rounds(t, patch)[Len(patch)]
<1>1. Merge(t, patch) = CASE w.refused -> [result |-> "refused"]
         [] ~w.refused /\ w.changes = 0 -> [result |-> "unchanged"]
         [] OTHER -> [result |-> "merged", tables |-> WithPackage(w), package |-> w.data]
  BY DEF Merge
<1> HIDE DEF w
<1>2. CASE w.refused
  <2>1. Merge(t, patch) = [result |-> "refused"]
    BY <1>1, <1>2
  <2> QED BY <2>1
<1>3. CASE ~w.refused /\ w.changes = 0
  <2>1. Merge(t, patch) = [result |-> "unchanged"]
    BY <1>1, <1>3
  <2> QED BY <2>1
<1>4. CASE ~w.refused /\ w.changes # 0
  <2>1. Merge(t, patch) = [result |-> "merged", tables |-> WithPackage(w), package |-> w.data]
    BY <1>1, <1>4
  <2> QED BY <1>4, <2>1 DEF w
<1> QED BY <1>2, <1>3, <1>4

\* A merge as a whole: from sound tables it makes sound ones, with the package
\* it adds beside those there are, and it leaves alone where every resource
\* the patch does not name lies.
THEOREM MergeStaysSound ==
    ASSUME NEW t, NEW patch, NEW files, SoundTables(t, files), IsPatch(patch),
           DOMAIN files \subseteq Nat, \A n \in 0 .. t.pkgs - 1 : n \in DOMAIN files,
           Merge(t, patch).result = "merged"
    PROVE  /\ SoundTables(Merge(t, patch).tables, WithFile(files, t.pkgs, Merge(t, patch).package))
           /\ Keeps(Merge(t, patch).tables, t, Named(patch, Len(patch)))
<1> DEFINE w == Rounds(t, patch)[Len(patch)]
<1>1. Len(patch) \in 0 .. Len(patch)
  BY DEF IsPatch
<1>2. /\ Loop(w) /\ Sound(w, files) /\ w.pkg = t.pkgs
      /\ Keeps(w, t, Named(patch, Len(patch)))
  BY <1>1, RoundsSound
<1>3. Merge(t, patch).tables = WithPackage(w) /\ Merge(t, patch).package = w.data
  BY MergedIs
<1> HIDE DEF w
<1>4. \A n \in 0 .. w.pkg - 1 : n \in DOMAIN files
  BY <1>2
<1>5. SoundTables(WithPackage(w), WithFile(files, w.pkg, w.data))
  <2>1. SoundTables(WithPackage(w),
                    [n \in DOMAIN files \cup {w.pkg} |-> IF n = w.pkg THEN w.data ELSE files[n]])
    BY <1>2, <1>4, MergeSound
  <2> QED BY <2>1 DEF WithFile
<1>6. Keeps(WithPackage(w), t, Named(patch, Len(patch)))
  <2> DEFINE frame == [pkg |-> w.pkg, offset |-> Len(w.data)]
  <2>1. WithPackage(w).entry = w.entry /\ WithPackage(w).frames = Append(w.frames, frame)
    BY DEF WithPackage
  <2>2. frame \in Frame /\ w.frames \in Seq(Frame)
    BY <1>2 DEF Sound, Frame
  <2> HIDE DEF frame
  <2>3. \A n \in 1 .. Len(w.frames) : Append(w.frames, frame)[n] = w.frames[n]
    BY <2>2
  <2>4. \A r \in DOMAIN w.entry : w.entry[r].loc \in 0 .. Len(w.frames) - 1
    BY <1>2 DEF Sound
  <2>5. \A r \in DOMAIN w.entry : w.entry[r].loc + 1 \in 1 .. Len(w.frames)
    <3>1. Len(w.frames) \in Nat
      BY <2>2
    <3> QED BY <2>4, <3>1
  <2> QED BY <1>2, <2>1, <2>3, <2>5 DEF Keeps
<1> QED BY <1>2, <1>3, <1>5, <1>6

\* What the patch wants of a resource after n of its items: the last counts.
Wanted(patch, n, r, h) ==
    \E i \in 1 .. n : /\ patch[i].res = r /\ patch[i].hash = h
                      /\ \A j \in i + 1 .. n : patch[j].res # r

\* After a merge every resource of the patch has the hash the patch has for it
\* last; with MergeStaysSound, it is found with that content.
THEOREM MergeHasPatch ==
    ASSUME NEW t, NEW patch, NEW files, SoundTables(t, files), IsPatch(patch),
           Merge(t, patch).result = "merged"
    PROVE  \A r \in Named(patch, Len(patch)) :
              /\ r \in DOMAIN Merge(t, patch).tables.entry
              /\ Wanted(patch, Len(patch), r, Merge(t, patch).tables.entry[r].hash)
<1> DEFINE w == Rounds(t, patch)
           good == {n \in 0 .. Len(patch) : \A r \in Named(patch, n) :
                       r \in DOMAIN w[n].entry /\ Wanted(patch, n, r, w[n].entry[r].hash)}
<1>1. Len(patch) \in Nat /\ ~w[Len(patch)].refused
  BY MergedIs DEF IsPatch
<1>2. \A n \in 1 .. Len(patch) : w[n] = Place(w[n - 1], patch[n]) /\ Loop(w[n - 1])
  BY <1>1, RoundsAre, RoundsSound
<1>3. \A n \in 0 .. Len(patch) : ~w[n].refused
  BY <1>1, NoneRefused
<1>4. Merge(t, patch).tables.entry = w[Len(patch)].entry
  <2>1. Merge(t, patch).tables = WithPackage(w[Len(patch)])
    BY MergedIs
  <2>2. WithPackage(w[Len(patch)]).entry = w[Len(patch)].entry
    BY DEF WithPackage
  <2> QED BY <2>1, <2>2
<1> HIDE DEF w
<1>5. 0 \in good
  BY <1>1 DEF Named
<1>6. ASSUME NEW n \in 1 .. Len(patch), n - 1 \in good PROVE n \in good
  <2> DEFINE v == w[n - 1]
             item == patch[n]
  <2>1. w[n] = Place(v, item) /\ Loop(v) /\ ~w[n].refused
    BY <1>2, <1>3
  <2>2. w[n].entry = [r \in DOMAIN v.entry \cup {item.res} |->
                        IF r = item.res THEN [hash |-> item.hash, loc |-> Len(v.frames)]
                        ELSE v.entry[r]]
    <3> HIDE DEF v, item
    <3>1. ~Place(v, item).refused
      BY <2>1
    <3>2. Place(v, item).entry = [r \in DOMAIN v.entry \cup {item.res} |->
                        IF r = item.res THEN [hash |-> item.hash, loc |-> Len(v.frames)]
                        ELSE v.entry[r]]
      BY <2>1, <3>1, PlaceIs, Zenon
    <3> QED BY <2>1, <3>2
  <2>3. ASSUME NEW r \in Named(patch, n)
        PROVE  r \in DOMAIN w[n].entry /\ Wanted(patch, n, r, w[n].entry[r].hash)
    <3>1. CASE r = item.res
      <4>1. r \in DOMAIN w[n].entry /\ w[n].entry[r] = [hash |-> item.hash, loc |-> Len(v.frames)]
        BY <2>2, <3>1
      <4>2. n \in 1 .. n /\ \A j \in n + 1 .. n : patch[j].res # r
        OBVIOUS
      <4> QED BY <3>1, <4>1, <4>2 DEF Wanted
    <3>2. CASE r # item.res
      <4>1. r \in Named(patch, n - 1)
        <5>1. 1 .. n = (1 .. n - 1) \cup {n}
          BY <1>1
        <5> QED BY <2>3, <3>2, <5>1 DEF Named
      <4>2. r \in DOMAIN v.entry /\ Wanted(patch, n - 1, r, v.entry[r].hash)
        BY <1>6, <4>1
      <4>3. r \in DOMAIN w[n].entry /\ w[n].entry[r] = v.entry[r]
        BY <2>2, <3>2, <4>2
      <4>4. PICK i \in 1 .. n - 1 : /\ patch[i].res = r /\ patch[i].hash = v.entry[r].hash
                                    /\ \A j \in i + 1 .. n - 1 : patch[j].res # r
        BY <4>2 DEF Wanted
      <4>5. i \in 1 .. n /\ \A j \in i + 1 .. n : j = n \/ j \in i + 1 .. n - 1
        BY <1>1
      <4>6. \A j \in i + 1 .. n : patch[j].res # r
        BY <3>2, <4>4, <4>5
      <4> QED BY <4>3, <4>4, <4>5, <4>6 DEF Wanted
    <3> QED BY <3>1, <3>2
  <2> QED BY <2>3
<1> HIDE DEF good
<1>7. 0 .. Len(patch) \subseteq good
  BY <1>1, <1>5, <1>6, UpTo
<1>8. \A r \in Named(patch, Len(patch)) :
         /\ r \in DOMAIN w[Len(patch)].entry
         /\ Wanted(patch, Len(patch), r, w[Len(patch)].entry[r].hash)
  BY <1>1, <1>7 DEF good
<1> QED BY <1>4, <1>8

\* Tables that have all a patch wants are left as they are.
LEMMA NothingToDo ==
    ASSUME NEW t, NEW patch, NEW files, SoundTables(t, files), IsPatch(patch),
           \A i \in 1 .. Len(patch) : Same(t, patch[i])
    PROVE  Merge(t, patch).result = "unchanged"
<1> DEFINE w == Rounds(t, patch)
           Holds(n) == /\ ~w[n].refused /\ w[n].changes = 0
                       /\ \A i \in 1 .. Len(patch) : Same(w[n], patch[i])
           good == {n \in 0 .. Len(patch) : Holds(n)}
<1>1. Len(patch) \in Nat
  BY DEF IsPatch
<1>2. w[0] = Begin(t) /\ \A n \in 1 .. Len(patch) : w[n] = Place(w[n - 1], patch[n]) /\ Loop(w[n - 1])
  BY <1>1, RoundsAre, RoundsSound
<1> HIDE DEF w
<1>3. 0 \in good
  <2>1. ~w[0].refused /\ w[0].changes = 0 /\ w[0].entry = t.entry
    BY <1>2 DEF Begin
  <2> QED BY <1>1, <2>1 DEF Same
<1>4. ASSUME NEW n \in 1 .. Len(patch), n - 1 \in good PROVE n \in good
  <2> DEFINE v == w[n - 1]
             item == patch[n]
  <2>1. /\ w[n] = Place(v, item) /\ Loop(v) /\ ~v.refused /\ v.changes = 0
        /\ Same(v, item) /\ \A i \in 1 .. Len(patch) : Same(v, patch[i])
    BY <1>2, <1>4
  <2> HIDE DEF v, item
  <2>2. Place(v, item) = [v EXCEPT
            !.entry = [r \in DOMAIN v.entry \cup {item.res} |->
                         IF r = item.res THEN [hash |-> item.hash, loc |-> Len(v.frames)]
                         ELSE v.entry[r]],
            !.frames = Append(@, [pkg |-> v.pkg, offset |-> Len(v.data)]),
            !.data = Append(@, item.hash),
            !.changes = IF Same(v, item) THEN @ ELSE @ + 1]
    BY <2>1 DEF Place
  <2>3. /\ ~w[n].refused /\ w[n].changes = 0
        /\ w[n].entry = [r \in DOMAIN v.entry \cup {item.res} |->
                         IF r = item.res THEN [hash |-> item.hash, loc |-> Len(v.frames)]
                         ELSE v.entry[r]]
    BY <2>1, <2>2 DEF Loop
  <2>4. \A r \in DOMAIN v.entry : r \in DOMAIN w[n].entry /\ w[n].entry[r].hash = v.entry[r].hash
    BY <2>1, <2>3 DEF Same
  <2>5. \A i \in 1 .. Len(patch) : Same(w[n], patch[i])
    BY <2>1, <2>4 DEF Same
  <2> QED BY <2>3, <2>5
<1> HIDE DEF good
<1>5. 0 .. Len(patch) \subseteq good
  BY <1>1, <1>3, <1>4, UpTo
<1>6. ~w[Len(patch)].refused /\ w[Len(patch)].changes = 0
  BY <1>1, <1>5 DEF good
<1>7. Merge(t, patch) = [result |-> "unchanged"]
  BY <1>6 DEF Merge, w
<1> QED BY <1>7

\* Merging again what has been merged changes nothing: a patch that names each
\* of its resources once is recognised as a whole.
THEOREM MergeOnce ==
    ASSUME NEW t, NEW patch, NEW files, SoundTables(t, files), IsPatch(patch),
           DOMAIN files \subseteq Nat, \A n \in 0 .. t.pkgs - 1 : n \in DOMAIN files,
           \A i, j \in 1 .. Len(patch) : patch[i].res = patch[j].res => i = j,
           Merge(t, patch).result = "merged"
    PROVE  Merge(Merge(t, patch).tables, patch).result = "unchanged"
<1> DEFINE m == Merge(t, patch).tables
           after == WithFile(files, t.pkgs, Merge(t, patch).package)
<1>1. SoundTables(m, after)
  BY MergeStaysSound
<1>2. \A r \in Named(patch, Len(patch)) :
         r \in DOMAIN m.entry /\ Wanted(patch, Len(patch), r, m.entry[r].hash)
  BY MergeHasPatch
<1> HIDE DEF m, after
<1>3. ASSUME NEW i \in 1 .. Len(patch) PROVE Same(m, patch[i])
  <2>1. patch[i].res \in Named(patch, Len(patch))
    BY DEF Named
  <2>2. patch[i].res \in DOMAIN m.entry
    BY <1>2, <2>1
  <2>3. PICK k \in 1 .. Len(patch) : /\ patch[k].res = patch[i].res
                                     /\ patch[k].hash = m.entry[patch[i].res].hash
    BY <1>2, <2>1 DEF Wanted
  <2>4. k = i
    BY <2>3
  <2> QED BY <2>2, <2>3, <2>4 DEF Same
<1>4. Merge(m, patch).result = "unchanged"
  BY <1>1, <1>3, NothingToDo
<1> QED BY <1>4 DEF m
====
