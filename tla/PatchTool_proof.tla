---- MODULE PatchTool_proof ----
(***************************************************************************)
(* The patch tool: its backup is the stock manifest, an install leaves     *)
(* what verify looked at as it should be, and everything if the patch was  *)
(* built from the manifest the game has, and an uninstall gives back the   *)
(* game as delivered; for all resources, patches, folders, samples and     *)
(* numbers of builds and interruptions.                                    *)
(***************************************************************************)
EXTENDS PatchTool, WellFoundedInduction, TLAPS

Stages == {"done", "backup", "packages", "manifest", "restore", "unlink"}
Installing == {"backup", "packages", "manifest"}

IsFunction(f) == f = [x \in DOMAIN f |-> f[x]]

\* What a file that holds a manifest may be.
ManifestFile(f) == f \in {None, Torn} \/ IsManifest(f)

\* And one that holds a list of items.
ItemsFile(f) == f \in {None, Torn} \/ \E k \in Nat : DOMAIN f = 1 .. k

\* What a built or bundled folder holds: never the package of the game.
IsFolder(f) ==
    /\ DOMAIN f = {"packages", "manifest", "items"}
    /\ IsFunction(f.packages) /\ DOMAIN f.packages \subseteq Nat \ {0}
    /\ ManifestFile(f.manifest) /\ ItemsFile(f.items)

Types ==
    /\ manifest = Torn \/ IsManifest(manifest)
    /\ outs = [o \in Outs |-> outs[o]]
    /\ \A o \in Outs : outs[o] = None \/ IsFolder(outs[o])
    /\ faults \in Nat
    /\ ended \in {"none", "raised", "install", "uninstall"}

\* The package the game came with is never touched.
GameInv ==
    /\ IsFunction(packages) /\ DOMAIN packages \subseteq Nat
    /\ 0 \in DOMAIN packages /\ packages[0] = StockPackage

\* Where a command is and what it has made sure of by then: it is in its backup
\* step only while the game's manifest is the delivered one, and past it only
\* with a backup.
StageInv ==
    /\ DOMAIN command = DOMAIN Idle
    /\ command.stage \in Stages
    /\ command.half \in BOOLEAN
    /\ command.stage = "backup" =>
          /\ manifest = StockManifest
          /\ backup = IF command.half THEN Torn ELSE None
    /\ command.stage \in {"packages", "manifest", "restore", "unlink"} => backup # None
    /\ command.stage # "done" => ended = "none"

\* An install knows its folder and what of it is still to be copied; the rest
\* has arrived.
InstallInv ==
    command.stage \in Installing =>
        LET from == outs[command.out]
        IN /\ command.out \in Outs /\ from # None
           /\ command.todo \subseteq DOMAIN from.packages
           /\ command.stage = "backup" => command.todo = DOMAIN from.packages
           /\ command.stage = "packages" /\ command.half =>
                 command.now \in command.todo /\ command.now \in DOMAIN packages
           /\ command.stage = "manifest" => command.todo = {} /\ from.manifest # None
           /\ \A p \in DOMAIN from.packages \ command.todo :
                 p \in DOMAIN packages /\ packages[p] = from.packages[p]

\* What was promised of a resource is found where the folder comes before the
\* game, however much of it has been copied.
Found(m, files, promise) ==
    \A r \in Resources : promise[r] # Torn => Lookup(m, files, r) = promise[r]

PromiseInv ==
    command.stage \in Installing /\ expected # None =>
        Found(outs[command.out].manifest, Seen(command.out), expected)

\* Past its restore step an uninstall has the delivered manifest, and removes
\* all packages but the delivered one.
UnlinkInv ==
    command.stage = "unlink" =>
        /\ manifest = StockManifest
        /\ 0 \notin command.todo /\ DOMAIN packages \ {0} \subseteq command.todo

IInv == /\ Types /\ GameInv /\ BackupIsStock /\ StageInv /\ InstallInv /\ PromiseInv
        /\ UnlinkInv /\ VerifiedInstallIsExact /\ UninstallIsExact

----------------------------------------------------------------------------
(* Facts about the operators of the model *)

\* Of any numbers one is the least.
LEMMA Least ==
    ASSUME NEW S, S \subseteq Nat, S # {}
    PROVE  \E n \in S : \A m \in S : n <= m
<1> DEFINE Below == OpToRel(<, Nat)
<1>1. IsWellFoundedOn(Below, Nat)
  BY NatLessThanWellFounded, Zenon
<1>2. \A m, n \in Nat : m < n => <<m, n>> \in Below
  BY DEF OpToRel
<1> HIDE DEF Below
<1>3. PICK n \in S : \A m \in S : <<m, n>> \notin Below
  BY <1>1, WFMin
<1>4. ASSUME NEW m \in S PROVE n <= m
  <2>1. m \in Nat /\ n \in Nat /\ ~(m < n)
    BY <1>2, <1>3
  <2> QED BY <2>1
<1> QED BY <1>4

\* Of some items of a patch one is the last.
LEMMA Latest ==
    ASSUME NEW k \in Nat, NEW S \in SUBSET (1 .. k), S # {}
    PROVE  \E i \in S : \A j \in S : j <= i
<1> DEFINE rest == {k - i : i \in S}
<1>1. rest \subseteq Nat /\ rest # {}
  <2>1. \A i \in S : i \in 1 .. k /\ k - i \in Nat
    OBVIOUS
  <2> QED BY <2>1
<1>2. \E n \in rest : \A m \in rest : n <= m
  <2> HIDE DEF rest
  <2> QED BY <1>1, Least, Zenon
<1>3. PICK i \in S : \A m \in rest : k - i <= m
  BY <1>2
<1>4. ASSUME NEW j \in S PROVE j <= i
  <2>1. k - i <= k - j
    BY <1>3
  <2> QED BY <2>1
<1> QED BY <1>4

\* A sequence of some things is one of more things.
LEMMA Wider ==
    ASSUME NEW S, NEW T, S \subseteq T, NEW s \in Seq(S)
    PROVE  s \in Seq(T)
<1>1. Len(s) \in Nat /\ s \in [1 .. Len(s) -> S]
  OBVIOUS
<1>2. s \in [1 .. Len(s) -> T]
  BY <1>1
<1> QED BY <1>1, <1>2

\* One sequence after another.
LEMMA Joined ==
    ASSUME NEW S, NEW s \in Seq(S), NEW t \in Seq(S)
    PROVE  s \o t \in Seq(S) /\ Len(s \o t) = Len(s) + Len(t)
OBVIOUS

\* Files written over a folder.
LEMMA OverIs ==
    ASSUME NEW f, NEW g
    PROVE  /\ IsFunction(Over(f, g)) /\ DOMAIN Over(f, g) = DOMAIN f \cup DOMAIN g
           /\ \A p \in DOMAIN f : Over(f, g)[p] = f[p]
           /\ \A p \in DOMAIN g \ DOMAIN f : Over(f, g)[p] = g[p]
BY DEF Over, IsFunction

\* The delivered manifest is one.
LEMMA StockIsManifest == IsManifest(StockManifest)
<1> DEFINE frames == [i \in DOMAIN StockOrder |-> [pkg |-> 0, at |-> i]]
           end == [pkg |-> 0, at |-> 0]
           Frame == [pkg : 0 .. 0, at : Nat]
<1>1. Len(StockOrder) \in Nat /\ DOMAIN StockOrder = 1 .. Len(StockOrder)
  BY StockAssumption
<1>2. frames \in Seq(Frame) /\ Len(frames) = Len(StockOrder) /\ end \in Frame
      /\ \A i \in 1 .. Len(StockOrder) : frames[i].at = i
  BY <1>1
<1>3. /\ StockManifest.n = 1 /\ StockManifest.C = Append(frames, end)
      /\ StockManifest.A = [r \in StockResources |-> CHOOSE i \in DOMAIN StockOrder : StockOrder[i] = r]
  BY DEF StockManifest
<1> HIDE DEF frames, end
<1>4. /\ Append(frames, end) \in Seq(Frame)
      /\ DOMAIN Append(frames, end) = 1 .. Len(StockOrder) + 1
      /\ \A i \in 1 .. Len(StockOrder) : Append(frames, end)[i] = frames[i]
  BY <1>1, <1>2
<1>5. ASSUME NEW r \in StockResources
      PROVE  StockManifest.A[r] \in 1 .. Len(StockOrder)
  <2>1. \E i \in DOMAIN StockOrder : StockOrder[i] = r
    BY DEF StockResources
  <2> QED BY <1>1, <1>3, <2>1
<1>6. \A r \in StockResources :
         /\ StockManifest.A[r] \in DOMAIN StockManifest.C
         /\ StockManifest.C[StockManifest.A[r]].at > 0
  <2> TAKE r \in StockResources
  <2> DEFINE i == StockManifest.A[r]
  <2>1. i \in 1 .. Len(StockOrder)
    BY <1>5
  <2> HIDE DEF i
  <2>2. i \in 1 .. Len(StockOrder) + 1 /\ Append(frames, end)[i].at = i /\ i > 0
    BY <1>1, <1>2, <1>4, <2>1
  <2> QED BY <1>3, <1>4, <2>2 DEF i
<1>7. DOMAIN StockManifest.A = StockResources
  BY <1>3
<1>8. StockManifest.C \in Seq([pkg : 0 .. StockManifest.n - 1, at : Nat]) /\ StockManifest.n \in Nat \ {0}
  BY <1>3, <1>4
<1> QED BY <1>6, <1>7, <1>8 DEF IsManifest, Resources

\* What build() reads from a patch.
LEMMA LoadedIs ==
    ASSUME NEW patch \in Patches
    PROVE  /\ Len(patch) \in Nat /\ DOMAIN Loaded(patch) = 1 .. Len(patch)
           /\ \A i \in 1 .. Len(patch) : Loaded(patch)[i].res \in Resources
BY PatchesAssumption DEF Loaded

\* The table of frames that build() writes.
LEMMA BuiltFrames ==
    ASSUME NEW m, IsManifest(m), NEW items, NEW k \in Nat, DOMAIN items = 1 .. k
    PROVE  /\ Built(m, items).C \in Seq([pkg : 0 .. m.n, at : Nat])
           /\ Len(m.C) \in Nat /\ DOMAIN m.C = 1 .. Len(m.C)
           /\ DOMAIN Built(m, items).C = 1 .. Len(m.C) + k + 1
           /\ \A i \in 1 .. Len(m.C) : Built(m, items).C[i] = m.C[i]
           /\ \A i \in 1 .. k : Built(m, items).C[Len(m.C) + i] = [pkg |-> m.n, at |-> i]
<1> DEFINE Frame == [pkg : 0 .. m.n, at : Nat]
           frames == [i \in DOMAIN items |-> [pkg |-> m.n, at |-> i]]
           end == <<[pkg |-> m.n, at |-> 0]>>
<1>1. m.n \in Nat /\ m.C \in Seq([pkg : 0 .. m.n - 1, at : Nat])
  BY DEF IsManifest
<1>2. [pkg : 0 .. m.n - 1, at : Nat] \subseteq Frame
  BY <1>1
<1>3. m.C \in Seq(Frame)
  <2> DEFINE Low == [pkg : 0 .. m.n - 1, at : Nat]
  <2>1. m.C \in Seq(Low) /\ Low \subseteq Frame
    BY <1>1, <1>2
  <2> HIDE DEF Low, Frame
  <2> QED BY <2>1, Wider
<1>4. frames \in Seq(Frame) /\ Len(frames) = k
  BY <1>1
<1>5. end \in Seq(Frame) /\ Len(end) = 1
  BY <1>1
<1>6. Built(m, items).C = m.C \o frames \o end
  BY DEF Built
<1>7. \A i \in 1 .. k : frames[i] = [pkg |-> m.n, at |-> i]
  OBVIOUS
<1> HIDE DEF frames, end, Frame
<1>8. m.C \o frames \in Seq(Frame) /\ Len(m.C \o frames) = Len(m.C) + k
  BY <1>3, <1>4
<1>9. Built(m, items).C \in Seq(Frame) /\ Len(Built(m, items).C) = Len(m.C) + k + 1
  <2> DEFINE front == m.C \o frames
  <2>1. front \in Seq(Frame) /\ Len(front) = Len(m.C) + k
    BY <1>8
  <2> HIDE DEF front
  <2>2. front \o end \in Seq(Frame) /\ Len(front \o end) = Len(m.C) + k + 1
    <3>1. Len(m.C) \in Nat
      BY <1>3
    <3>2. front \o end \in Seq(Frame) /\ Len(front \o end) = Len(front) + Len(end)
      BY <1>5, <2>1, Joined, Zenon
    <3> QED BY <1>5, <2>1, <3>1, <3>2
  <2> QED BY <1>6, <2>2 DEF front
<1>10. \A i \in 1 .. Len(m.C) + k : Built(m, items).C[i] = (m.C \o frames)[i]
  BY <1>5, <1>6, <1>8
<1>11. \A i \in 1 .. Len(m.C) : (m.C \o frames)[i] = m.C[i]
  BY <1>3, <1>4
<1>12. \A i \in 1 .. k : (m.C \o frames)[Len(m.C) + i] = frames[i]
  BY <1>3, <1>4
<1>13. Len(m.C) \in Nat /\ DOMAIN m.C = 1 .. Len(m.C)
  BY <1>3
<1>14. DOMAIN Built(m, items).C = 1 .. Len(m.C) + k + 1
  BY <1>9
<1>15. \A i \in 1 .. k : Len(m.C) + i \in 1 .. Len(m.C) + k
  BY <1>13
<1>16. \A i \in 1 .. Len(m.C) : i \in 1 .. Len(m.C) + k
  BY <1>13
<1> QED BY <1>7, <1>9, <1>10, <1>11, <1>12, <1>13, <1>14, <1>15, <1>16 DEF Frame

\* The resources a patch names.
Named(items, k) == {items[i].res : i \in 1 .. k}

\* The table of entries that build() writes.
LEMMA BuiltEntries ==
    ASSUME NEW m, IsManifest(m), NEW items, NEW k \in Nat, DOMAIN items = 1 .. k
    PROVE  /\ DOMAIN Built(m, items).A = DOMAIN m.A \cup Named(items, k)
           /\ \A r \in DOMAIN m.A \ Named(items, k) : Built(m, items).A[r] = m.A[r]
           /\ \A r \in Named(items, k) :
                 \E i \in 1 .. k : /\ Built(m, items).A[r] = Len(m.C) + i /\ items[i].res = r
                                   /\ \A j \in 1 .. k : items[j].res = r => j <= i
<1> DEFINE named == Named(items, k)
           Of(r) == {i \in 1 .. k : items[i].res = r}
           Pick(r) == CHOOSE i \in Of(r) : \A j \in Of(r) : j <= i
<1>1. Built(m, items).A = [r \in DOMAIN m.A \cup named |-> IF r \in named THEN Len(m.C) + Pick(r) ELSE m.A[r]]
  BY DEF Built, Named
<1>2. ASSUME NEW r \in named
      PROVE  /\ Pick(r) \in 1 .. k /\ items[Pick(r)].res = r
             /\ \A j \in 1 .. k : items[j].res = r => j <= Pick(r)
  <2>1. Of(r) # {} /\ Of(r) \in SUBSET (1 .. k)
    BY DEF Named
  <2>2. \E i \in Of(r) : \A j \in Of(r) : j <= i
    <3> HIDE DEF Of
    <3> QED BY <2>1, Latest, Zenon
  <2>3. Pick(r) \in Of(r) /\ \A j \in Of(r) : j <= Pick(r)
    <3> HIDE DEF Of
    <3> QED BY <2>2
  <2> QED BY <2>3
<1> HIDE DEF Pick
<1> QED BY <1>1, <1>2

\* What build() writes is a manifest.
LEMMA BuiltIsManifest ==
    ASSUME NEW m, IsManifest(m), NEW items, NEW k \in Nat, DOMAIN items = 1 .. k,
           \A i \in 1 .. k : items[i].res \in Resources
    PROVE  IsManifest(Built(m, items))
<1> DEFINE b == Built(m, items)
           named == Named(items, k)
<1>1. b.n = m.n + 1 /\ m.n \in Nat
  BY DEF Built, IsManifest
<1>2. /\ b.C \in Seq([pkg : 0 .. m.n, at : Nat])
      /\ Len(m.C) \in Nat /\ DOMAIN m.C = 1 .. Len(m.C)
      /\ DOMAIN b.C = 1 .. Len(m.C) + k + 1
      /\ \A i \in 1 .. Len(m.C) : b.C[i] = m.C[i]
      /\ \A i \in 1 .. k : b.C[Len(m.C) + i] = [pkg |-> m.n, at |-> i]
  BY BuiltFrames
<1>3. /\ DOMAIN b.A = DOMAIN m.A \cup named
      /\ \A r \in DOMAIN m.A \ named : b.A[r] = m.A[r]
      /\ \A r \in named : \E i \in 1 .. k : b.A[r] = Len(m.C) + i
  <2>1. /\ DOMAIN b.A = DOMAIN m.A \cup named
        /\ \A r \in DOMAIN m.A \ named : b.A[r] = m.A[r]
        /\ \A r \in named :
              \E i \in 1 .. k : /\ b.A[r] = Len(m.C) + i /\ items[i].res = r
                                /\ \A j \in 1 .. k : items[j].res = r => j <= i
    BY BuiltEntries DEF b
  <2> QED BY <2>1
<1> HIDE DEF b
<1>4. \A r \in DOMAIN m.A : m.A[r] \in DOMAIN m.C /\ m.C[m.A[r]].at > 0
  BY DEF IsManifest
<1>5. ASSUME NEW r \in DOMAIN b.A PROVE b.A[r] \in DOMAIN b.C /\ b.C[b.A[r]].at > 0
  <2>1. CASE r \in named
    <3>1. PICK i \in 1 .. k : b.A[r] = Len(m.C) + i
      BY <1>3, <2>1
    <3>2. Len(m.C) + i \in 1 .. Len(m.C) + k + 1
      BY <1>2
    <3>3. b.C[Len(m.C) + i].at = i
      <4>1. b.C[Len(m.C) + i] = [pkg |-> m.n, at |-> i]
        BY <1>2
      <4> QED BY <4>1
    <3> QED BY <1>2, <3>1, <3>2, <3>3
  <2>2. CASE r \notin named
    <3>1. r \in DOMAIN m.A /\ b.A[r] = m.A[r]
      BY <1>3, <1>5, <2>2
    <3>2. m.A[r] \in 1 .. Len(m.C) + k + 1
      BY <1>2, <1>4, <3>1
    <3> QED BY <1>2, <1>4, <3>1, <3>2
  <2> QED BY <2>1, <2>2
<1>6. DOMAIN b.A \subseteq Resources
  BY <1>3 DEF IsManifest, Named
<1>7. b.C \in Seq([pkg : 0 .. b.n - 1, at : Nat]) /\ b.n \in Nat \ {0}
  <2>1. b.n - 1 = m.n /\ b.n \in Nat \ {0}
    BY <1>1
  <2> QED BY <1>2, <2>1
<1>8. IsManifest(b)
  BY <1>5, <1>6, <1>7 DEF IsManifest
<1> QED BY <1>8 DEF b

----------------------------------------------------------------------------
(* Every step keeps the invariant *)

\* Nothing is backed up and nothing runs at first.
LEMMA InitInv == Init => IInv
<1> SUFFICES ASSUME Init PROVE IInv
  OBVIOUS
<1>1. /\ manifest = StockManifest /\ backup = None /\ faults = 0
      /\ command = Idle /\ ended = "none" /\ expected = None
      /\ packages = [p \in {0} |-> StockPackage] /\ outs = [o \in Outs |-> None]
  BY DEF Init
<1>2. IsManifest(manifest)
  BY <1>1, StockIsManifest
<1> HIDE DEF StockManifest, StockPackage
<1>3. Types /\ GameInv
  BY <1>1, <1>2 DEF Types, GameInv, IsFunction
<1>4. BackupIsStock /\ StageInv
  BY <1>1, FilesAssumption DEF BackupIsStock, StageInv, Stages, Idle
<1>5. InstallInv /\ PromiseInv /\ UnlinkInv
  BY <1>1 DEF InstallInv, PromiseInv, UnlinkInv, Installing, Idle
<1> QED BY <1>1, <1>3, <1>4, <1>5 DEF IInv, VerifiedInstallIsExact, UninstallIsExact

\* What a command finds in an output folder, or makes of none.
LEMMA FolderIs ==
    ASSUME Types, NEW o \in Outs
    PROVE  IsFolder(Folder(o))
<1>1. CASE outs[o] = None
  BY <1>1 DEF Folder, IsFolder, IsFunction, ManifestFile, ItemsFile
<1>2. CASE outs[o] # None
  BY <1>2 DEF Folder, Types
<1> QED BY <1>1, <1>2

\* build() and bundle() touch no file of the game.
LEMMA WriteKeeps ==
    ASSUME IInv, command = Idle, NEW o \in Outs, NEW whole, NEW parts, Write(o, whole, parts),
           IsFolder(whole), \A part \in parts : IsFolder(part)
    PROVE  IInv'
<1>1. /\ UNCHANGED <<manifest, backup, packages, command>>
      /\ faults' \in {faults, faults + 1} /\ ended' = "none" /\ expected' = None
      /\ \E f : IsFolder(f) /\ outs' = [outs EXCEPT ![o] = f]
  BY DEF Write
<1>2. PICK f : IsFolder(f) /\ outs' = [outs EXCEPT ![o] = f]
  BY <1>1
<1>3. faults' \in Nat /\ (faults > 0 => faults' > 0)
  BY <1>1 DEF IInv, Types
<1>4. /\ outs' = [q \in Outs |-> outs'[q]]
      /\ \A q \in Outs : outs'[q] = None \/ IsFolder(outs'[q])
  BY <1>2 DEF IInv, Types
<1>5. Types'
  BY <1>1, <1>3, <1>4 DEF IInv, Types
<1>6. command.stage = "done" /\ command'.stage = "done"
  BY <1>1 DEF Idle
<1>7. BackupIsStock' /\ StageInv' /\ GameInv'
  BY <1>1, <1>3, <1>6 DEF IInv, BackupIsStock, StageInv, GameInv
<1> QED BY <1>1, <1>5, <1>6, <1>7 DEF IInv, InstallInv, PromiseInv, UnlinkInv, Installing,
                                      VerifiedInstallIsExact, UninstallIsExact

\* A folder with packages written into it, its manifest or its items replaced.
LEMMA PackagesReplaced ==
    ASSUME NEW f, IsFolder(f), NEW ps, DOMAIN ps \subseteq Nat \ {0}
    PROVE  IsFolder([f EXCEPT !.packages = Over(ps, @)])
<1> DEFINE over == Over(ps, f.packages)
           g == [f EXCEPT !.packages = over]
<1>1. IsFunction(over) /\ DOMAIN over = DOMAIN ps \cup DOMAIN f.packages
  BY OverIs
<1>2. DOMAIN over \subseteq Nat \ {0}
  BY <1>1 DEF IsFolder
<1> HIDE DEF over
<1>3. DOMAIN g = DOMAIN f /\ g.packages = over /\ g.manifest = f.manifest /\ g.items = f.items
  BY DEF IsFolder
<1>4. IsFolder(g)
  BY <1>1, <1>2, <1>3 DEF IsFolder
<1> QED BY <1>4 DEF over

LEMMA ManifestReplaced ==
    ASSUME NEW f, IsFolder(f), NEW m, ManifestFile(m)
    PROVE  IsFolder([f EXCEPT !.manifest = m])
<1> DEFINE g == [f EXCEPT !.manifest = m]
<1>1. DOMAIN g = DOMAIN f /\ g.packages = f.packages /\ g.manifest = m /\ g.items = f.items
  BY DEF IsFolder
<1> QED BY <1>1 DEF IsFolder

LEMMA ItemsReplaced ==
    ASSUME NEW f, IsFolder(f), NEW items, ItemsFile(items)
    PROVE  IsFolder([f EXCEPT !.items = items])
<1> DEFINE g == [f EXCEPT !.items = items]
<1>1. DOMAIN g = DOMAIN f /\ g.packages = f.packages /\ g.manifest = f.manifest /\ g.items = items
  BY DEF IsFolder
<1> QED BY <1>1 DEF IsFolder

LEMMA BuildKeeps ==
    ASSUME IInv, NEW o \in Outs, NEW patch \in Patches, Build(o, patch)
    PROVE  IInv'
<1> DEFINE items == Loaded(patch)
           new == NewPackage(manifest, items)
           old == Folder(o)
           begun == [old EXCEPT !.packages = Over([p \in DOMAIN new |-> Torn], @)]
           packed == [old EXCEPT !.packages = Over(new, @)]
           torn == [packed EXCEPT !.manifest = Torn]
           named == [packed EXCEPT !.manifest = Built(manifest, items)]
           half == [named EXCEPT !.items = Torn]
           whole == [named EXCEPT !.items = items]
           parts == {old, begun, packed, torn, named, half}
<1>1. command = Idle /\ manifest # Torn /\ Write(o, whole, parts)
  BY DEF Build
<1>2. IsManifest(manifest) /\ IsFolder(old)
  BY <1>1, FolderIs DEF IInv, Types
<1>3. ManifestFile(Built(manifest, items)) /\ ManifestFile(Torn)
  <2> HIDE DEF items
  <2>1. Len(patch) \in Nat /\ DOMAIN items = 1 .. Len(patch)
        /\ \A i \in 1 .. Len(patch) : items[i].res \in Resources
    BY LoadedIs DEF items
  <2>2. IsManifest(Built(manifest, items))
    BY <1>2, <2>1, BuiltIsManifest
  <2> QED BY <2>2 DEF ManifestFile
<1>4. DOMAIN new \subseteq Nat \ {0}
  BY <1>2 DEF NewPackage, IsManifest
<1>9. ItemsFile(items) /\ ItemsFile(Torn)
  BY LoadedIs DEF ItemsFile
<1> HIDE DEF items, new, old
<1>5. IsFolder(begun) /\ IsFolder(packed)
  <2>1. DOMAIN [p \in DOMAIN new |-> Torn] \subseteq Nat \ {0}
    BY <1>4
  <2> QED BY <1>2, <1>4, <2>1, PackagesReplaced
<1> HIDE DEF begun, packed
<1>6. IsFolder(torn) /\ IsFolder(named)
  BY <1>3, <1>5, ManifestReplaced
<1> HIDE DEF torn, named
<1>7. IsFolder(half) /\ IsFolder(whole)
  BY <1>6, <1>9, ItemsReplaced
<1> HIDE DEF half, whole
<1>8. \A part \in parts : IsFolder(part)
  BY <1>2, <1>5, <1>6, <1>7
<1> HIDE DEF parts
<1> QED BY <1>1, <1>7, <1>8, WriteKeeps

LEMMA BundleKeeps ==
    ASSUME IInv, NEW o \in Outs, NEW d \in Outs, Bundle(o, d)
    PROVE  IInv'
<1> DEFINE from == DOMAIN outs[o].packages
           items == outs[o].items
           all == Bundled(o, d, from)
           half == [all EXCEPT !.items = Torn]
           full == [all EXCEPT !.items = items]
           begun == [Folder(d) EXCEPT !.manifest = Torn]
           parts == {Folder(d), begun}
                \cup {Bundled(o, d, ps) : ps \in SUBSET from}
                \cup {BundledHalf(o, d, ps, p) : ps \in SUBSET from, p \in from}
                \cup (IF items = None THEN {} ELSE {half})
<1>1. /\ command = Idle /\ outs[o] # None
      /\ Write(d, IF items = None THEN all ELSE full, parts)
  BY DEF Bundle
<1>2. IsFolder(outs[o]) /\ IsFolder(Folder(d))
  BY <1>1, FolderIs DEF IInv, Types
<1>3. ManifestFile(outs[o].manifest) /\ ManifestFile(Torn) /\ from \subseteq Nat \ {0}
  BY <1>2 DEF IsFolder, ManifestFile
<1>4. ASSUME NEW ps \in SUBSET from PROVE IsFolder(Bundled(o, d, ps))
  <2> DEFINE named == [Folder(d) EXCEPT !.manifest = outs[o].manifest]
             copied == [p \in ps |-> outs[o].packages[p]]
  <2>1. IsFolder(named)
    BY <1>2, <1>3, ManifestReplaced
  <2>2. DOMAIN copied \subseteq Nat \ {0}
    BY <1>3
  <2>3. Bundled(o, d, ps) = [named EXCEPT !.packages = Over(copied, @)]
    BY <1>2 DEF Bundled, IsFolder
  <2> HIDE DEF named, copied
  <2> QED BY <2>1, <2>2, <2>3, PackagesReplaced
<1>5. ASSUME NEW ps \in SUBSET from, NEW p \in from PROVE IsFolder(BundledHalf(o, d, ps, p))
  <2> DEFINE one == [q \in {p} |-> Torn]
  <2>1. DOMAIN one \subseteq Nat \ {0}
    BY <1>3
  <2> HIDE DEF one
  <2>2. IsFolder([Bundled(o, d, ps) EXCEPT !.packages = Over(one, @)])
    BY <1>4, <2>1, PackagesReplaced
  <2> QED BY <2>2 DEF BundledHalf, one
<1>6. IsFolder(all)
  BY <1>4
<1> HIDE DEF all
<1>7. IsFolder(half) /\ IsFolder(full)
  <2>1. ItemsFile(items) /\ ItemsFile(Torn)
    BY <1>2 DEF IsFolder, ItemsFile
  <2> QED BY <1>6, <2>1, ItemsReplaced
<1>8. IsFolder(begun)
  BY <1>2, <1>3, ManifestReplaced
<1> HIDE DEF half, full, begun
<1>9. \A part \in parts : IsFolder(part)
  BY <1>2, <1>4, <1>5, <1>7, <1>8
<1>10. IsFolder(IF items = None THEN all ELSE full)
  BY <1>6, <1>7
<1> HIDE DEF parts
<1> QED BY <1>1, <1>9, <1>10, WriteKeeps

\* What build() writes, read over the game it was built from: a resource that
\* the patch does not name has what it had.
LEMMA BuildSparesOthers ==
    ASSUME NEW m, IsManifest(m), NEW files,
           NEW items, NEW k \in Nat, DOMAIN items = 1 .. k, NEW r, r \notin Named(items, k)
    PROVE  Lookup(Built(m, items), Over(NewPackage(m, items), files), r) = Lookup(m, files, r)
<1> DEFINE b == Built(m, items)
           new == NewPackage(m, items)
           over == Over(new, files)
           named == Named(items, k)
<1> SUFFICES Lookup(b, over, r) = Lookup(m, files, r)
  OBVIOUS
<1>1. m.n \in Nat /\ \A q \in DOMAIN m.A : m.A[q] \in DOMAIN m.C /\ m.C[m.A[q]].pkg < m.n
  <2>1. m.n \in Nat /\ \A q \in DOMAIN m.A : m.A[q] \in DOMAIN m.C
    BY DEF IsManifest
  <2>2. \A f \in DOMAIN m.C : m.C[f] \in [pkg : 0 .. m.n - 1, at : Nat]
    <3> DEFINE Frame == [pkg : 0 .. m.n - 1, at : Nat]
    <3>1. m.C \in Seq(Frame)
      BY DEF IsManifest
    <3> HIDE DEF Frame
    <3>2. \A f \in DOMAIN m.C : m.C[f] \in Frame
      BY <3>1
    <3> QED BY <3>2 DEF Frame
  <2> QED BY <2>1, <2>2
<1>2. /\ b.C \in Seq([pkg : 0 .. m.n, at : Nat])
      /\ Len(m.C) \in Nat /\ DOMAIN m.C = 1 .. Len(m.C)
      /\ DOMAIN b.C = 1 .. Len(m.C) + k + 1
      /\ \A i \in 1 .. Len(m.C) : b.C[i] = m.C[i]
      /\ \A i \in 1 .. k : b.C[Len(m.C) + i] = [pkg |-> m.n, at |-> i]
  BY BuiltFrames
<1>3. /\ DOMAIN b.A = DOMAIN m.A \cup named
      /\ \A q \in DOMAIN m.A \ named : b.A[q] = m.A[q]
  BY BuiltEntries DEF b
<1>4. DOMAIN new = {m.n}
  BY DEF NewPackage
<1> HIDE DEF b, new
<1>5. /\ DOMAIN over = {m.n} \cup DOMAIN files
      /\ \A p \in DOMAIN files \ {m.n} : over[p] = files[p]
  <2>1. /\ DOMAIN over = DOMAIN new \cup DOMAIN files
        /\ \A p \in DOMAIN new : over[p] = new[p]
        /\ \A p \in DOMAIN files \ DOMAIN new : over[p] = files[p]
    BY OverIs, Zenon
  <2> QED BY <1>4, <2>1
<1> HIDE DEF over
<1>6. CASE r \in DOMAIN m.A
  <2> DEFINE f == m.C[m.A[r]]
  <2>1. r \in DOMAIN b.A /\ b.C[b.A[r]] = f
    BY <1>1, <1>2, <1>3, <1>6
  <2>2. f.pkg # m.n
    BY <1>1, <1>6
  <2> HIDE DEF f
  <2>3. (f.pkg \in DOMAIN over) = (f.pkg \in DOMAIN files)
        /\ (f.pkg \in DOMAIN files => over[f.pkg] = files[f.pkg])
    BY <1>5, <2>2
  <2>4. Lookup(b, over, r) = IF f.pkg \in DOMAIN over /\ over[f.pkg] # Torn
                   THEN IF f.at \in DOMAIN over[f.pkg] THEN over[f.pkg][f.at] ELSE Torn
                   ELSE Torn
    BY <2>1 DEF Lookup
  <2>5. Lookup(m, files, r) = IF f.pkg \in DOMAIN files /\ files[f.pkg] # Torn
                              THEN IF f.at \in DOMAIN files[f.pkg] THEN files[f.pkg][f.at] ELSE Torn
                              ELSE Torn
    BY <1>6 DEF Lookup, f
  <2> QED BY <2>3, <2>4, <2>5
<1>7. CASE r \notin DOMAIN m.A
  <2>1. r \notin DOMAIN b.A
    BY <1>3, <1>7
  <2> QED BY <1>7, <2>1 DEF Lookup
<1> QED BY <1>6, <1>7

\* What a patch that verifies promises is found behind its folder.
LEMMA PromiseIsFound ==
    ASSUME Types, manifest # Torn, NEW o \in Outs, outs[o] # None, NEW sample, Verify(o, sample)
    PROVE  Found(outs[o].manifest, Seen(o), Promise(o, sample))
<1> DEFINE items == outs[o].items
           Look(r) == Lookup(outs[o].manifest, Seen(o), r)
           Stock(r) == Lookup(manifest, packages, r)
           promise == Promise(o, sample)
<1> SUFFICES ASSUME NEW r \in Resources, promise[r] # Torn
             PROVE  Look(r) = promise[r]
  BY DEF Found
<1>1. promise[r] = IF Mine(o, r) # {} THEN items[CHOOSE i \in Mine(o, r) : TRUE].data
                   ELSE IF r \in sample \/ (Fresh(o) /\ r \in DOMAIN manifest.A) THEN Stock(r) ELSE Torn
  BY DEF Promise
<1>2. \A i \in DOMAIN items : Look(items[i].res) = items[i].data
  BY DEF Verify
<1>3. \A q \in sample : Mine(o, q) = {} => Stock(q) = Look(q)
  BY DEF Verify
<1>4. ASSUME Fresh(o), Mine(o, r) = {} PROVE Look(r) = Stock(r)
  <2>1. IsFolder(outs[o]) /\ IsManifest(manifest) /\ items \notin {None, Torn}
    BY DEF Types, Verify
  <2>2. PICK k \in Nat : DOMAIN items = 1 .. k
    BY <2>1 DEF IsFolder, ItemsFile
  <2>3. r \notin Named(items, k)
    BY <1>4, <2>2 DEF Mine, Named
  <2>4. Look(r) = Lookup(Built(manifest, items), Over(NewPackage(manifest, items), packages), r)
    BY <1>4 DEF Fresh, Seen
  <2> HIDE DEF items, Look
  <2>5. Lookup(Built(manifest, items), Over(NewPackage(manifest, items), packages), r) = Stock(r)
    BY <2>1, <2>2, <2>3, BuildSparesOthers
  <2> QED BY <2>4, <2>5
<1> HIDE DEF Look, Stock, promise
<1>5. CASE Mine(o, r) # {}
  <2> DEFINE i == CHOOSE i \in Mine(o, r) : TRUE
  <2>1. i \in Mine(o, r)
    BY <1>5
  <2> HIDE DEF i
  <2>2. i \in DOMAIN items /\ items[i].res = r
    BY <2>1 DEF Mine
  <2>3. promise[r] = items[i].data
    BY <1>1, <1>5 DEF i
  <2> QED BY <1>2, <2>2, <2>3
<1>6. CASE Mine(o, r) = {}
  BY <1>1, <1>3, <1>4, <1>6
<1> QED BY <1>5, <1>6

\* Behind a folder it does not matter which of the folder's packages the game
\* has; and when it has them all, the folder is not needed.
LEMMA OverAgain ==
    ASSUME NEW f, NEW old, NEW new, DOMAIN old \subseteq DOMAIN new,
           DOMAIN new \subseteq DOMAIN f \cup DOMAIN old,
           \A p \in DOMAIN old \ DOMAIN f : new[p] = old[p]
    PROVE  Over(f, new) = Over(f, old)
<1>1. DOMAIN f \cup DOMAIN new = DOMAIN f \cup DOMAIN old
  OBVIOUS
<1>2. \A p \in DOMAIN f \cup DOMAIN new :
         (IF p \in DOMAIN f THEN f[p] ELSE new[p]) = (IF p \in DOMAIN f THEN f[p] ELSE old[p])
  OBVIOUS
<1> QED BY <1>1, <1>2 DEF Over

LEMMA OverAll ==
    ASSUME NEW f, NEW g, IsFunction(g), \A p \in DOMAIN f : p \in DOMAIN g /\ g[p] = f[p]
    PROVE  Over(f, g) = g
<1>1. DOMAIN f \cup DOMAIN g = DOMAIN g
  OBVIOUS
<1>2. Over(f, g) = [p \in DOMAIN g |-> g[p]]
  BY <1>1 DEF Over
<1> QED BY <1>2 DEF IsFunction

LEMMA InstallBegins ==
    ASSUME IInv, NEW o \in Outs, Install(o)
    PROVE  IInv'
<1>1. /\ command = Idle /\ outs[o] # None /\ ended' = "none"
      /\ UNCHANGED <<manifest, backup, packages, outs, faults>>
      /\ \/ expected' = None
         \/ manifest # Torn /\ \E sample \in Samples : Verify(o, sample) /\ expected' = Promise(o, sample)
  BY DEF Install
<1>2. /\ DOMAIN command' = DOMAIN Idle /\ command'.out = o /\ command'.half = FALSE
      /\ command'.todo = DOMAIN outs[o].packages
      /\ command'.stage = IF backup = None THEN "backup" ELSE "packages"
  BY DEF Install, NoBackup, Idle
<1>3. Types' /\ GameInv'
  BY <1>1 DEF IInv, Types, GameInv
<1>4. BackupIsStock' /\ StageInv'
  <2>1. command.stage = "done"
    BY <1>1 DEF Idle
  <2> QED BY <1>1, <1>2, <2>1 DEF IInv, BackupIsStock, StageInv, Stages
<1>5. InstallInv' /\ UnlinkInv'
  BY <1>1, <1>2 DEF InstallInv, UnlinkInv, Installing
<1>6. PromiseInv'
  <2>1. Seen(o)' = Seen(o)
    BY <1>1 DEF Seen
  <2>2. ASSUME expected' # None PROVE Found(outs[o].manifest, Seen(o), expected')
    <3>1. manifest # Torn /\ \E sample : Verify(o, sample) /\ expected' = Promise(o, sample)
      BY <1>1, <2>2
    <3> QED BY <1>1, <3>1, PromiseIsFound DEF IInv
  <2> QED BY <1>1, <1>2, <2>1, <2>2 DEF PromiseInv
<1> QED BY <1>1, <1>3, <1>4, <1>5, <1>6 DEF IInv, VerifiedInstallIsExact, UninstallIsExact

LEMMA BackupKeeps ==
    ASSUME IInv, Backup
    PROVE  IInv'
<1>1. /\ command.stage = "backup"
      /\ UNCHANGED <<manifest, packages, outs, ended, expected, faults>>
      /\ \/ ~command.half /\ backup' = Torn /\ command' = [command EXCEPT !.half = TRUE]
         \/ /\ command.half /\ backup' = manifest
            /\ command' = [command EXCEPT !.half = FALSE, !.stage = "packages"]
  BY DEF Backup, Half, Then
<1>2. /\ DOMAIN command' = DOMAIN Idle /\ command'.out = command.out
      /\ command'.todo = command.todo /\ command'.half \in BOOLEAN
      /\ command'.stage = "packages" => ~command'.half
      /\ \/ command'.stage = "backup" /\ command'.half /\ backup' = Torn
         \/ command'.stage = "packages" /\ backup' = manifest
  BY <1>1 DEF IInv, StageInv, Idle
<1>3. manifest = StockManifest /\ ended = "none"
  BY <1>1 DEF IInv, StageInv
<1> HIDE DEF StockManifest
<1>4. Types' /\ GameInv'
  BY <1>1 DEF IInv, Types, GameInv
<1>5. BackupIsStock' /\ StageInv'
  BY <1>1, <1>2, <1>3, FilesAssumption DEF IInv, BackupIsStock, StageInv, Stages
<1>6. InstallInv' /\ UnlinkInv'
  BY <1>1, <1>2 DEF IInv, InstallInv, UnlinkInv, Installing
<1>7. PromiseInv'
  <2>1. Seen(command.out)' = Seen(command.out)
    BY <1>1, <1>2 DEF Seen
  <2> QED BY <1>1, <1>2, <2>1 DEF IInv, PromiseInv, Installing
<1> QED BY <1>1, <1>3, <1>4, <1>5, <1>6, <1>7 DEF IInv, VerifiedInstallIsExact, UninstallIsExact

\* One package of an install is copied, its target cut to nothing at first.
LEMMA CopyPackageKeeps ==
    ASSUME IInv, CopyPackage
    PROVE  IInv'
<1> DEFINE from == outs[command.out].packages
           begins == /\ ~command.half
                     /\ \E p \in command.todo :
                           /\ packages' = Over([q \in {p} |-> Torn], packages)
                           /\ command' = [command EXCEPT !.half = TRUE, !.now = p]
           ends == /\ command.half
                   /\ packages' = [packages EXCEPT ![command.now] = from[command.now]]
                   /\ command' = [command EXCEPT !.half = FALSE, !.now = None, !.todo = @ \ {command.now}]
<1>1. /\ command.stage = "packages" /\ (begins \/ ends)
      /\ UNCHANGED <<manifest, backup, outs, ended, expected, faults>>
  BY DEF CopyPackage
<1>2. /\ command.out \in Outs /\ outs[command.out] # None /\ command.todo \subseteq DOMAIN from
      /\ command.half => command.now \in command.todo /\ command.now \in DOMAIN packages
      /\ \A p \in DOMAIN from \ command.todo : p \in DOMAIN packages /\ packages[p] = from[p]
  BY <1>1 DEF IInv, InstallInv, Installing
<1>3. DOMAIN from \subseteq Nat \ {0}
  BY <1>2 DEF IInv, Types, IsFolder
<1>4. ended = "none" /\ DOMAIN command = DOMAIN Idle
  BY <1>1 DEF IInv, StageInv
<1>5. IsFunction(packages) /\ DOMAIN packages \subseteq Nat /\ 0 \in DOMAIN packages
      /\ packages[0] = StockPackage
  BY DEF IInv, GameInv
\* What the step does, in either half.
<1>6. /\ DOMAIN command' = DOMAIN Idle /\ command'.stage = "packages" /\ command'.out = command.out
      /\ command'.half \in BOOLEAN /\ command'.todo \subseteq command.todo
      /\ command'.half => command'.now \in command'.todo /\ command'.now \in DOMAIN packages'
      /\ IsFunction(packages')
      /\ DOMAIN packages \subseteq DOMAIN packages'
      /\ DOMAIN packages' \subseteq DOMAIN from \cup DOMAIN packages
      /\ \A p \in DOMAIN packages \ DOMAIN from : packages'[p] = packages[p]
      /\ \A p \in DOMAIN from \ command'.todo : p \in DOMAIN packages' /\ packages'[p] = from[p]
  <2>1. CASE begins
    <3>1. PICK p \in command.todo :
             /\ packages' = Over([q \in {p} |-> Torn], packages)
             /\ command' = [command EXCEPT !.half = TRUE, !.now = p]
      BY <2>1
    <3> DEFINE one == [q \in {p} |-> Torn]
    <3>2. /\ DOMAIN command' = DOMAIN Idle /\ command'.stage = "packages"
          /\ command'.out = command.out /\ command'.half = TRUE
          /\ command'.todo = command.todo /\ command'.now = p
      BY <1>1, <1>4, <3>1 DEF Idle
    <3>3. DOMAIN one = {p} /\ packages' = Over(one, packages)
      BY <3>1
    <3> HIDE DEF one
    <3>4. /\ IsFunction(packages') /\ DOMAIN packages' = {p} \cup DOMAIN packages
          /\ \A q \in DOMAIN packages \ {p} : packages'[q] = packages[q]
      <4>1. /\ IsFunction(Over(one, packages))
            /\ DOMAIN Over(one, packages) = DOMAIN one \cup DOMAIN packages
            /\ \A q \in DOMAIN packages \ DOMAIN one : Over(one, packages)[q] = packages[q]
        BY OverIs, Zenon
      <4> QED BY <3>3, <4>1
    <3> HIDE DEF from
    <3> QED BY <1>2, <3>2, <3>4
  <2>2. CASE ends
    <3> DEFINE p == command.now
    <3>1. p \in command.todo /\ p \in DOMAIN from
      BY <1>2, <2>2
    <3>2. /\ DOMAIN command' = DOMAIN Idle /\ command'.stage = "packages"
          /\ command'.out = command.out /\ command'.half = FALSE
          /\ command'.todo = command.todo \ {p}
      BY <1>1, <1>4, <2>2 DEF Idle
    <3>3. packages' = [packages EXCEPT ![p] = from[p]] /\ p \in DOMAIN packages
      BY <1>2, <2>2
    <3> HIDE DEF p, from
    <3>4. /\ DOMAIN packages' = DOMAIN packages /\ packages'[p] = from[p]
          /\ \A q \in DOMAIN packages \ {p} : packages'[q] = packages[q]
      BY <3>3
    <3>5. IsFunction(packages')
      BY <3>3 DEF IsFunction
    <3>6. \A q \in DOMAIN from \ command'.todo : q \in DOMAIN packages' /\ packages'[q] = from[q]
      <4> TAKE q \in DOMAIN from \ command'.todo
      <4>1. CASE q = p
        BY <3>3, <3>4, <4>1
      <4>2. CASE q # p
        <5>1. q \notin command.todo
          BY <3>2, <4>2
        <5> QED BY <1>2, <3>4, <4>2, <5>1
      <4> QED BY <4>1, <4>2
    <3>7. \A q \in DOMAIN packages \ DOMAIN from : packages'[q] = packages[q]
      BY <3>1, <3>4
    <3> QED BY <3>2, <3>4, <3>5, <3>6, <3>7
  <2> QED BY <1>1, <2>1, <2>2
<1> HIDE DEF begins, ends
<1>7. outs'[command'.out] = outs[command.out]
  BY <1>1, <1>6
<1>8. Over(from, packages') = Over(from, packages)
  <2> HIDE DEF from
  <2> QED BY <1>6, OverAgain
<1>9. Types'
  BY <1>1 DEF IInv, Types
<1>10. GameInv'
  <2>1. 0 \notin DOMAIN from /\ DOMAIN from \subseteq Nat
    BY <1>3
  <2> HIDE DEF from
  <2> QED BY <1>5, <1>6, <2>1 DEF GameInv
<1>11. BackupIsStock' /\ StageInv'
  BY <1>1, <1>4, <1>6 DEF IInv, BackupIsStock, StageInv, Stages
<1>12. InstallInv'
  <2>1. command'.todo \subseteq DOMAIN from
    BY <1>2, <1>6
  <2> QED BY <1>1, <1>2, <1>6, <1>7, <2>1 DEF InstallInv
<1>13. PromiseInv'
  <2>1. Seen(command.out) = Over(from, packages)
    BY DEF Seen
  <2>2. expected # None => Found(outs[command.out].manifest, Seen(command.out), expected)
    BY <1>1 DEF IInv, PromiseInv, Installing
  <2>3. expected # None => Found(outs[command.out].manifest, Over(from, packages'), expected)
    BY <1>8, <2>1, <2>2
  <2> QED BY <1>1, <1>7, <2>3 DEF PromiseInv, Seen
<1> QED BY <1>1, <1>4, <1>6, <1>9, <1>10, <1>11, <1>12, <1>13
        DEF IInv, UnlinkInv, VerifiedInstallIsExact, UninstallIsExact

\* The manifest comes last, when all packages are there.
LEMMA CopyManifestKeeps ==
    ASSUME IInv, CopyManifest
    PROVE  IInv'
<1> DEFINE from == outs[command.out]
<1>1. /\ command.stage = "packages" /\ ~command.half /\ command.todo = {}
      /\ UNCHANGED <<backup, packages, outs, expected, faults>>
      /\ \/ command' = Idle /\ ended' = "raised" /\ UNCHANGED manifest
         \/ /\ from.manifest # None /\ manifest' = Torn /\ UNCHANGED ended
            /\ command' = [command EXCEPT !.half = FALSE, !.stage = "manifest"]
  BY DEF CopyManifest, Finish, Then
<1>2. ended = "none" /\ backup # None /\ DOMAIN command = DOMAIN Idle
  BY <1>1 DEF IInv, StageInv
<1>3. GameInv' /\ BackupIsStock'
  <2>1. manifest' = manifest \/ backup # None
    BY <1>2
  <2>2. command'.stage # "backup"
    <3>1. command' = Idle => command'.stage # "backup"
      BY DEF Idle
    <3>2. command' = [command EXCEPT !.half = FALSE, !.stage = "manifest"] => command'.stage # "backup"
      BY <1>2 DEF Idle
    <3> QED BY <1>1, <3>1, <3>2
  <2> QED BY <1>1, <1>2, <2>1 DEF IInv, GameInv, BackupIsStock
<1>4. CASE command' = Idle /\ ended' = "raised" /\ UNCHANGED manifest
  <2>1. Types' /\ StageInv'
    BY <1>1, <1>4 DEF IInv, Types, StageInv, Stages, Idle
  <2>2. InstallInv' /\ PromiseInv' /\ UnlinkInv'
    BY <1>4 DEF InstallInv, PromiseInv, UnlinkInv, Installing, Idle
  <2> QED BY <1>3, <1>4, <2>1, <2>2 DEF IInv, VerifiedInstallIsExact, UninstallIsExact
<1>5. CASE /\ from.manifest # None /\ manifest' = Torn /\ UNCHANGED ended
           /\ command' = [command EXCEPT !.half = FALSE, !.stage = "manifest"]
  <2>1. /\ DOMAIN command' = DOMAIN Idle /\ command'.stage = "manifest" /\ command'.half = FALSE
        /\ command'.out = command.out /\ command'.todo = {}
    BY <1>1, <1>2, <1>5 DEF Idle
  <2>2. Types' /\ StageInv'
    BY <1>1, <1>2, <1>5, <2>1 DEF IInv, Types, StageInv, Stages
  <2>3. InstallInv' /\ UnlinkInv'
    <3>1. /\ command.out \in Outs /\ from # None
          /\ \A p \in DOMAIN from.packages : p \in DOMAIN packages /\ packages[p] = from.packages[p]
      BY <1>1 DEF IInv, InstallInv, Installing
    <3> QED BY <1>1, <1>5, <2>1, <3>1 DEF InstallInv, UnlinkInv
  <2>4. PromiseInv'
    <3>1. Seen(command.out)' = Seen(command.out)
      BY <1>1, <2>1 DEF Seen
    <3> QED BY <1>1, <2>1, <3>1 DEF IInv, PromiseInv, Installing
  <2> QED BY <1>2, <1>3, <1>5, <2>2, <2>3, <2>4 DEF IInv, VerifiedInstallIsExact, UninstallIsExact
<1> QED BY <1>1, <1>4, <1>5

\* The manifest is there: what was promised is now found without the folder.
LEMMA FillManifestKeeps ==
    ASSUME IInv, FillManifest
    PROVE  IInv'
<1> DEFINE from == outs[command.out]
<1>1. /\ command.stage = "manifest" /\ manifest' = from.manifest
      /\ command' = Idle /\ ended' = "install"
      /\ UNCHANGED <<backup, packages, outs, expected, faults>>
  BY DEF FillManifest, Finish
<1>2. backup # None
  BY <1>1 DEF IInv, StageInv
<1>3. /\ command.out \in Outs /\ from # None /\ from.manifest # None
      /\ \A p \in DOMAIN from.packages : p \in DOMAIN packages /\ packages[p] = from.packages[p]
  BY <1>1 DEF IInv, InstallInv, Installing
<1>4. Types'
  <2>1. from.manifest = Torn \/ IsManifest(from.manifest)
    BY <1>3 DEF IInv, Types, IsFolder, ManifestFile
  <2> QED BY <1>1, <2>1 DEF IInv, Types
<1>5. GameInv' /\ BackupIsStock' /\ StageInv'
  BY <1>1, <1>2 DEF IInv, GameInv, BackupIsStock, StageInv, Stages, Idle
<1>6. InstallInv' /\ PromiseInv' /\ UnlinkInv'
  BY <1>1 DEF InstallInv, PromiseInv, UnlinkInv, Installing, Idle
<1>7. VerifiedInstallIsExact'
  <2> SUFFICES ASSUME expected # None PROVE Found(from.manifest, packages, expected)
    BY <1>1 DEF VerifiedInstallIsExact, Found
  <2>1. Found(from.manifest, Over(from.packages, packages), expected)
    BY <1>1 DEF IInv, PromiseInv, Installing, Seen
  <2>2. Over(from.packages, packages) = packages
    <3> DEFINE files == from.packages
    <3>1. IsFunction(packages) /\ \A p \in DOMAIN files : p \in DOMAIN packages /\ packages[p] = files[p]
      BY <1>3 DEF IInv, GameInv
    <3> HIDE DEF files
    <3>2. Over(files, packages) = packages
      BY <3>1, OverAll
    <3> QED BY <3>2 DEF files
  <2> QED BY <2>1, <2>2
<1> QED BY <1>1, <1>4, <1>5, <1>6, <1>7 DEF IInv, UninstallIsExact

LEMMA UninstallBegins ==
    ASSUME IInv, Uninstall
    PROVE  IInv'
<1>1. /\ command = Idle /\ backup # None /\ ended' = "none" /\ expected' = None
      /\ UNCHANGED <<manifest, backup, packages, outs, faults>>
      /\ DOMAIN command' = DOMAIN Idle /\ command'.stage = "restore" /\ command'.half = FALSE
  BY DEF Uninstall, Idle
<1>2. Types' /\ GameInv'
  BY <1>1 DEF IInv, Types, GameInv
<1>3. BackupIsStock' /\ StageInv'
  BY <1>1 DEF IInv, BackupIsStock, StageInv, Stages, Idle
<1>4. InstallInv' /\ PromiseInv' /\ UnlinkInv'
  BY <1>1 DEF InstallInv, PromiseInv, UnlinkInv, Installing
<1> QED BY <1>1, <1>2, <1>3, <1>4 DEF IInv, VerifiedInstallIsExact, UninstallIsExact

\* The backup goes over the manifest; it names the delivered package only.
LEMMA RestoreKeeps ==
    ASSUME IInv, Restore
    PROVE  IInv'
<1>1. /\ command.stage = "restore"
      /\ UNCHANGED <<backup, packages, outs, expected, faults>>
      /\ \/ manifest' = Torn /\ command' = [command EXCEPT !.half = TRUE] /\ UNCHANGED ended
         \/ manifest' = Torn /\ command' = Idle /\ ended' = "raised"
         \/ /\ backup # Torn /\ manifest' = backup /\ UNCHANGED ended
            /\ command' = [command EXCEPT !.half = FALSE, !.stage = "unlink", !.todo = Added]
  BY DEF Restore, Half, Finish
<1>2. ended = "none" /\ backup # None /\ DOMAIN command = DOMAIN Idle /\ backup \in {None, Torn, StockManifest}
  BY <1>1 DEF IInv, StageInv, BackupIsStock
<1>3. IsManifest(StockManifest) /\ StockManifest.n = 1
  BY StockIsManifest DEF StockManifest
<1> HIDE DEF StockManifest
<1>4. Types' /\ GameInv'
  BY <1>1, <1>2, <1>3 DEF IInv, Types, GameInv
<1>5. /\ DOMAIN command' = DOMAIN Idle /\ command'.half \in BOOLEAN
      /\ command'.stage \in {"restore", "done", "unlink"}
      /\ command'.stage # "done" => ended' = "none"
      /\ command'.stage = "unlink" => manifest' = StockManifest /\ backup = StockManifest /\ command'.todo = Added
  <2>1. DOMAIN Idle = {"out", "stage", "half", "now", "todo"}
    BY DEF Idle
  <2>2. CASE command' = Idle
    BY <1>1, <2>2 DEF Idle
  <2>3. CASE command' = [command EXCEPT !.half = TRUE] /\ UNCHANGED ended
    BY <1>1, <1>2, <2>1, <2>3
  <2>4. CASE /\ backup # Torn /\ manifest' = backup /\ UNCHANGED ended
             /\ command' = [command EXCEPT !.half = FALSE, !.stage = "unlink", !.todo = Added]
    BY <1>1, <1>2, <2>1, <2>4
  <2> QED BY <1>1, <2>2, <2>3, <2>4
<1>6. BackupIsStock' /\ StageInv'
  BY <1>1, <1>2, <1>5 DEF IInv, BackupIsStock, StageInv, Stages
<1>7. InstallInv' /\ PromiseInv'
  BY <1>5 DEF InstallInv, PromiseInv, Installing
<1>8. UnlinkInv'
  <2> SUFFICES ASSUME command'.stage = "unlink"
               PROVE  0 \notin command'.todo /\ DOMAIN packages \ {0} \subseteq command'.todo
    BY <1>1, <1>5 DEF UnlinkInv
  <2>1. command'.todo = {p \in DOMAIN packages : p >= 1}
    BY <1>3, <1>5 DEF Added
  <2> QED BY <2>1 DEF IInv, GameInv
<1>9. ended' \in {"none", "raised"}
  BY <1>1, <1>2
<1> QED BY <1>4, <1>6, <1>7, <1>8, <1>9 DEF IInv, VerifiedInstallIsExact, UninstallIsExact

\* The added packages go, one by one; when none is left the game is as delivered.
LEMMA UnlinkKeeps ==
    ASSUME IInv, Unlink
    PROVE  IInv'
<1>1. /\ command.stage = "unlink"
      /\ UNCHANGED <<manifest, backup, outs, expected, faults>>
      /\ \/ \E p \in command.todo :
              /\ packages' = [q \in DOMAIN packages \ {p} |-> packages[q]]
              /\ command' = [command EXCEPT !.todo = @ \ {p}]
              /\ UNCHANGED ended
         \/ /\ command.todo = {} /\ command' = Idle /\ ended' = "uninstall" /\ UNCHANGED packages
  BY DEF Unlink, Finish
<1>2. /\ ended = "none" /\ backup # None /\ DOMAIN command = DOMAIN Idle /\ command.half \in BOOLEAN
      /\ manifest = StockManifest
      /\ 0 \notin command.todo /\ DOMAIN packages \ {0} \subseteq command.todo
  BY <1>1 DEF IInv, StageInv, UnlinkInv
<1>3. /\ packages = [p \in DOMAIN packages |-> packages[p]] /\ DOMAIN packages \subseteq Nat
      /\ 0 \in DOMAIN packages /\ packages[0] = StockPackage
  BY DEF IInv, GameInv, IsFunction
<1> HIDE DEF StockManifest, StockPackage
<1>4. Types' /\ BackupIsStock'
  BY <1>1, <1>2 DEF IInv, Types, BackupIsStock
<1>5. CASE \E p \in command.todo :
              /\ packages' = [q \in DOMAIN packages \ {p} |-> packages[q]]
              /\ command' = [command EXCEPT !.todo = @ \ {p}]
              /\ UNCHANGED ended
  <2>1. PICK p \in command.todo :
              /\ packages' = [q \in DOMAIN packages \ {p} |-> packages[q]]
              /\ command' = [command EXCEPT !.todo = @ \ {p}]
              /\ UNCHANGED ended
    BY <1>5
  <2>2. /\ DOMAIN command' = DOMAIN Idle /\ command'.stage = "unlink" /\ command'.half = command.half
        /\ command'.todo = command.todo \ {p}
    BY <1>1, <1>2, <2>1 DEF Idle
  <2>3. GameInv'
    BY <1>2, <1>3, <2>1 DEF GameInv, IsFunction
  <2>4. StageInv'
    BY <1>1, <1>2, <2>1, <2>2 DEF IInv, StageInv, Stages
  <2>5. InstallInv' /\ PromiseInv'
    BY <2>2 DEF InstallInv, PromiseInv, Installing
  <2>6. UnlinkInv'
    BY <1>1, <1>2, <2>1, <2>2 DEF UnlinkInv
  <2> QED BY <1>2, <1>4, <2>1, <2>3, <2>4, <2>5, <2>6 DEF IInv, VerifiedInstallIsExact, UninstallIsExact
<1>6. CASE command.todo = {} /\ command' = Idle /\ ended' = "uninstall" /\ UNCHANGED packages
  <2>1. DOMAIN packages = {0}
    BY <1>2, <1>3, <1>6
  <2>2. packages = [p \in {0} |-> StockPackage]
    BY <1>3, <2>1
  <2>3. GameInv' /\ StageInv'
    BY <1>1, <1>6 DEF IInv, GameInv, IsFunction, StageInv, Stages, Idle
  <2>4. InstallInv' /\ PromiseInv' /\ UnlinkInv'
    BY <1>6 DEF InstallInv, PromiseInv, UnlinkInv, Installing, Idle
  <2> QED BY <1>1, <1>2, <1>4, <1>6, <2>2, <2>3, <2>4 DEF IInv, VerifiedInstallIsExact, UninstallIsExact
<1> QED BY <1>1, <1>5, <1>6

\* A command that stops leaves files behind, but none the next one is misled by.
LEMMA InterruptKeeps ==
    ASSUME IInv, Interrupt
    PROVE  IInv'
<1>1. /\ command' = Idle /\ ended' = "raised" /\ faults' = faults + 1
      /\ UNCHANGED <<manifest, backup, packages, outs, expected>>
  BY DEF Interrupt, Finish
<1>2. faults \in Nat /\ faults + 1 > 0
  BY DEF IInv, Types
<1>3. Types' /\ GameInv' /\ BackupIsStock' /\ StageInv'
  BY <1>1, <1>2 DEF IInv, Types, GameInv, BackupIsStock, StageInv, Stages, Idle
<1>4. InstallInv' /\ PromiseInv' /\ UnlinkInv'
  BY <1>1 DEF InstallInv, PromiseInv, UnlinkInv, Installing, Idle
<1> QED BY <1>1, <1>3, <1>4 DEF IInv, VerifiedInstallIsExact, UninstallIsExact

LEMMA StutterKeeps ==
    ASSUME IInv, UNCHANGED vars
    PROVE  IInv'
<1>1. UNCHANGED <<manifest, backup, packages, outs, command, ended, expected, faults>>
  BY DEF vars
<1>2. PromiseInv'
  <2>1. Seen(command.out)' = Seen(command.out)
    BY <1>1 DEF Seen
  <2> QED BY <1>1, <2>1 DEF IInv, PromiseInv
<1>3. Types' /\ GameInv' /\ BackupIsStock'
  BY <1>1 DEF IInv, Types, GameInv, BackupIsStock
<1>4. StageInv' /\ InstallInv' /\ UnlinkInv'
  BY <1>1 DEF IInv, StageInv, InstallInv, UnlinkInv
<1> QED BY <1>1, <1>2, <1>3, <1>4 DEF IInv, VerifiedInstallIsExact, UninstallIsExact

----------------------------------------------------------------------------
(* The theorems *)

\* Whatever is built, bundled, installed, uninstalled and interrupted, in any
\* order, the invariant holds.
THEOREM Invariance == Spec => []IInv
<1>1. IInv /\ [Next]_vars => IInv'
  <2> SUFFICES ASSUME IInv, [Next]_vars PROVE IInv'
    OBVIOUS
  <2>1. ASSUME NEW o \in Outs, NEW patch \in Patches, Build(o, patch) PROVE IInv'
    BY <2>1, BuildKeeps
  <2>2. ASSUME NEW o \in Outs, NEW d \in Outs, Bundle(o, d) PROVE IInv'
    BY <2>2, BundleKeeps
  <2>3. ASSUME NEW o \in Outs, Install(o) PROVE IInv'
    BY <2>3, InstallBegins
  <2>4. CASE Backup
    BY <2>4, BackupKeeps
  <2>5. CASE CopyPackage
    BY <2>5, CopyPackageKeeps
  <2>6. CASE CopyManifest
    BY <2>6, CopyManifestKeeps
  <2>7. CASE FillManifest
    BY <2>7, FillManifestKeeps
  <2>8. CASE Uninstall
    BY <2>8, UninstallBegins
  <2>9. CASE Restore
    BY <2>9, RestoreKeeps
  <2>10. CASE Unlink
    BY <2>10, UnlinkKeeps
  <2>11. CASE Interrupt
    BY <2>11, InterruptKeeps
  <2>12. CASE UNCHANGED vars
    BY <2>12, StutterKeeps
  <2> QED BY <2>1, <2>2, <2>3, <2>4, <2>5, <2>6, <2>7, <2>8, <2>9, <2>10, <2>11, <2>12 DEF Next
<1> QED BY <1>1, InitInv, PTL DEF Spec

\* Every whole manifest, the game's, its backup's and those of the folders,
\* names frames it has and counts the packages they lie in.
THEOREM TypeCorrect == Spec => []TypeOK
<1>1. IInv => TypeOK
  <2> SUFFICES ASSUME IInv PROVE TypeOK
    OBVIOUS
  <2>1. backup \in {None, Torn} \/ IsManifest(backup)
    BY StockIsManifest DEF IInv, BackupIsStock
  <2>2. \A o \in Outs : outs[o] = None \/ outs[o].manifest \in {None, Torn} \/ IsManifest(outs[o].manifest)
    BY DEF IInv, Types, IsFolder, ManifestFile
  <2>3. /\ manifest = Torn \/ IsManifest(manifest)
        /\ command.stage \in Stages
        /\ ended \in {"none", "raised", "install", "uninstall"}
    BY DEF IInv, Types, StageInv
  <2> QED BY <2>1, <2>2, <2>3 DEF TypeOK, Stages
<1> QED BY <1>1, Invariance, PTL

\* The backup an uninstall relies on is the manifest as delivered, or half of
\* it after an interruption.
THEOREM BackupStaysStock == Spec => []BackupIsStock
<1>1. IInv => BackupIsStock
  BY DEF IInv
<1> QED BY <1>1, Invariance, PTL

\* After the install of a patch that has passed verify(), its resources have its
\* contents and those in the sample are as they were; all others are as they were
\* too if the patch was built from the manifest that the game had.
THEOREM InstallStaysExact == Spec => []VerifiedInstallIsExact
<1>1. IInv => VerifiedInstallIsExact
  BY DEF IInv
<1> QED BY <1>1, Invariance, PTL

\* An uninstall that ends without an error leaves the game as delivered.
THEOREM UninstallStaysExact == Spec => []UninstallIsExact
<1>1. IInv => UninstallIsExact
  BY DEF IInv
<1> QED BY <1>1, Invariance, PTL

\* What build() writes, read by Manifest.get() over the game it was built from:
\* every resource of the patch has the contents of its last item, and every
\* other resource what it had, whatever the game had been patched with before.
THEOREM BuildIsExact ==
    ASSUME NEW m, IsManifest(m), NEW files,
           NEW items, NEW k \in Nat, DOMAIN items = 1 .. k,
           NewPackage(m, items)[m.n] # Torn
    PROVE  LET after(r) == Lookup(Built(m, items), Over(NewPackage(m, items), files), r)
           IN /\ \A i \in 1 .. k :
                    (\A j \in 1 .. k : items[j].res = items[i].res => j <= i)
                    => after(items[i].res) = items[i].data
              /\ \A r : r \notin Named(items, k) => after(r) = Lookup(m, files, r)
<1> DEFINE b == Built(m, items)
           new == NewPackage(m, items)
           over == Over(new, files)
           named == Named(items, k)
           after(r) == Lookup(b, over, r)
<1>1. m.n \in Nat /\ \A r \in DOMAIN m.A : m.A[r] \in DOMAIN m.C /\ m.C[m.A[r]].pkg < m.n
  <2>1. m.n \in Nat /\ \A r \in DOMAIN m.A : m.A[r] \in DOMAIN m.C
    BY DEF IsManifest
  <2>2. \A f \in DOMAIN m.C : m.C[f] \in [pkg : 0 .. m.n - 1, at : Nat]
    <3> DEFINE Frame == [pkg : 0 .. m.n - 1, at : Nat]
    <3>1. m.C \in Seq(Frame)
      BY DEF IsManifest
    <3> HIDE DEF Frame
    <3>2. \A f \in DOMAIN m.C : m.C[f] \in Frame
      BY <3>1
    <3> QED BY <3>2 DEF Frame
  <2> QED BY <2>1, <2>2
<1>2. /\ b.C \in Seq([pkg : 0 .. m.n, at : Nat])
      /\ Len(m.C) \in Nat /\ DOMAIN m.C = 1 .. Len(m.C)
      /\ DOMAIN b.C = 1 .. Len(m.C) + k + 1
      /\ \A i \in 1 .. Len(m.C) : b.C[i] = m.C[i]
      /\ \A i \in 1 .. k : b.C[Len(m.C) + i] = [pkg |-> m.n, at |-> i]
  BY BuiltFrames
<1>3. /\ DOMAIN b.A = DOMAIN m.A \cup named
      /\ \A r \in DOMAIN m.A \ named : b.A[r] = m.A[r]
      /\ \A r \in named : \E i \in 1 .. k : /\ b.A[r] = Len(m.C) + i /\ items[i].res = r
                                            /\ \A j \in 1 .. k : items[j].res = r => j <= i
  BY BuiltEntries DEF b
<1>4. /\ DOMAIN new = {m.n} /\ new[m.n] # Torn /\ DOMAIN new[m.n] = 1 .. k
      /\ \A i \in 1 .. k : new[m.n][i] = items[i].data
  BY DEF NewPackage
<1> HIDE DEF b, new
<1>5. /\ DOMAIN over = {m.n} \cup DOMAIN files /\ over[m.n] = new[m.n]
      /\ \A p \in DOMAIN files \ {m.n} : over[p] = files[p]
  <2>1. /\ DOMAIN over = DOMAIN new \cup DOMAIN files
        /\ \A p \in DOMAIN new : over[p] = new[p]
        /\ \A p \in DOMAIN files \ DOMAIN new : over[p] = files[p]
    BY OverIs, Zenon
  <2> QED BY <1>4, <2>1
<1> HIDE DEF over
<1>6. ASSUME NEW i \in 1 .. k, \A j \in 1 .. k : items[j].res = items[i].res => j <= i
      PROVE  after(items[i].res) = items[i].data
  <2>1. items[i].res \in named
    BY DEF Named
  <2>2. PICK l \in 1 .. k : /\ b.A[items[i].res] = Len(m.C) + l /\ items[l].res = items[i].res
                            /\ \A j \in 1 .. k : items[j].res = items[i].res => j <= l
    BY <1>3, <2>1
  <2>3. l = i
    <3>1. l <= i /\ i <= l
      BY <1>6, <2>2
    <3> QED BY <3>1
  <2>4. b.C[b.A[items[i].res]] = [pkg |-> m.n, at |-> i] /\ items[i].res \in DOMAIN b.A
    BY <1>2, <1>3, <2>1, <2>2, <2>3
  <2>5. m.n \in DOMAIN over /\ over[m.n] # Torn /\ i \in DOMAIN over[m.n] /\ over[m.n][i] = items[i].data
    BY <1>4, <1>5
  <2> QED BY <2>4, <2>5 DEF Lookup
<1>7. \A r : r \notin named => after(r) = Lookup(m, files, r)
  BY BuildSparesOthers DEF over, b, new
<1> QED BY <1>6, <1>7 DEF over, b, new
====
