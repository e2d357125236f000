---- MODULE PatchTool ----
(***************************************************************************)
(* echovr_patch.py: build writes a manifest and one new package into an    *)
(* output folder, from whatever manifest the game has at that moment;      *)
(* bundle copies such a folder; patches may copy resources of the game;    *)
(* verify looks up the patched resources and a sample of the others;       *)
(* install and uninstall copy files in and out of the game, and may be     *)
(* interrupted between any two steps, also in the middle of one copy.      *)
(*                                                                         *)
(* A package is the sequence of its frames' contents.  A manifest is the   *)
(* number of packages, the frame of each resource (A) and where each frame *)
(* lies (C, with one end marker per package).  The hashes in B, alignment  *)
(* and compression are left out; data is a value, the data of a stock      *)
(* resource as delivered is the resource's own name.                       *)
(***************************************************************************)
EXTENDS Integers, Sequences, FiniteSets

CONSTANTS StockOrder,  \* the resources of the game as delivered, a sequence
          NewResources,
          Patches,     \* what build may be asked for: sequences of items, each
                       \* with its data, or the resource it is a copy of
          Outs,        \* output folders, of build or of bundle
          SampleSize,  \* 40 entries of the game's manifest, of thousands
          None, Torn,  \* no such file; a file whose copy was interrupted
          MaxBuilds,   \* bound: builds and bundles
          MaxFaults    \* bound: interrupted commands

StockResources == {StockOrder[i] : i \in DOMAIN StockOrder}
Resources == StockResources \cup NewResources

ASSUME StockAssumption ==
    /\ Len(StockOrder) \in Nat /\ DOMAIN StockOrder = 1 .. Len(StockOrder)
    /\ \A i, j \in DOMAIN StockOrder : StockOrder[i] = StockOrder[j] => i = j
    /\ StockResources \cap NewResources = {}
ASSUME PatchesAssumption ==
    \A patch \in Patches : /\ Len(patch) \in Nat /\ DOMAIN patch = 1 .. Len(patch)
                           /\ \A i \in DOMAIN patch : patch[i].res \in Resources
ASSUME BoundsAssumption == {SampleSize, MaxBuilds, MaxFaults} \subseteq Nat

VARIABLES manifest, backup, packages,  \* files of the game
          outs,                        \* the output folders
          command,                     \* the command that is running
          ended,                       \* history: how the last command ended
          expected,                    \* history: what a verified patch promises
          builds, faults

vars == <<manifest, backup, packages, outs, command, ended, expected, builds, faults>>

----------------------------------------------------------------------------
(* The game as delivered: one package, one frame per resource. *)

StockPackage == StockOrder
StockManifest ==
    [n |-> 1,
     A |-> [r \in StockResources |-> CHOOSE i \in DOMAIN StockOrder : StockOrder[i] = r],
     C |-> Append([i \in DOMAIN StockOrder |-> [pkg |-> 0, at |-> i]], [pkg |-> 0, at |-> 0])]

ASSUME FilesAssumption == None # Torn /\ StockManifest \notin {None, Torn}

Idle == [out |-> None, stage |-> "done", half |-> FALSE, now |-> None, todo |-> {}]

Init == /\ manifest = StockManifest /\ backup = None /\ packages = [p \in {0} |-> StockPackage]
        /\ outs = [o \in Outs |-> None]
        /\ command = Idle /\ ended = "none" /\ expected = None
        /\ builds = 0 /\ faults = 0

\* Package files written over those in a folder.
Over(files, folder) ==
    [p \in DOMAIN files \cup DOMAIN folder |-> IF p \in DOMAIN files THEN files[p] ELSE folder[p]]

\* Manifest.get(): the bytes of a resource, Torn if they cannot be had.
Lookup(m, files, r) ==
    IF r \notin DOMAIN m.A THEN None
    ELSE LET f == m.C[m.A[r]]
         IN IF f.pkg \in DOMAIN files /\ files[f.pkg] # Torn
            THEN IF f.at \in DOMAIN files[f.pkg] THEN files[f.pkg][f.at] ELSE Torn
            ELSE Torn

----------------------------------------------------------------------------
(* build *)

\* Bug variant of Built: the new package is not counted.
BuiltUncounted(m, patch) ==
    LET named == {patch[i].res : i \in DOMAIN patch}
        Of(r) == {i \in DOMAIN patch : patch[i].res = r}
    IN [n |-> m.n,
        A |-> [r \in DOMAIN m.A \cup named |->
                 IF r \in named THEN Len(m.C) + CHOOSE i \in Of(r) : \A j \in Of(r) : j <= i
                 ELSE m.A[r]],
        C |-> m.C \o [i \in DOMAIN patch |-> [pkg |-> m.n, at |-> i]] \o <<[pkg |-> m.n, at |-> 0]>>]

\* Patcher.build(): one frame per item, the item's entry overridden or added;
\* of two items for one resource the later one counts.
Built(m, patch) ==
    LET named == {patch[i].res : i \in DOMAIN patch}
        Of(r) == {i \in DOMAIN patch : patch[i].res = r}
    IN [n |-> m.n + 1,
        A |-> [r \in DOMAIN m.A \cup named |->
                 IF r \in named THEN Len(m.C) + CHOOSE i \in Of(r) : \A j \in Of(r) : j <= i
                 ELSE m.A[r]],
        C |-> m.C \o [i \in DOMAIN patch |-> [pkg |-> m.n, at |-> i]] \o <<[pkg |-> m.n, at |-> 0]>>]

NewPackage(m, items) == [p \in {m.n} |-> [i \in DOMAIN items |-> items[i].data]]

\* load_json(): a copy takes the data the game has when the patch is built.
Loaded(patch) ==
    [i \in DOMAIN patch |->
        [res |-> patch[i].res,
         data |-> IF patch[i].from = None THEN patch[i].data ELSE Lookup(manifest, packages, patch[i].from)]]

\* A folder has what was in it before.
Folder(o) == IF outs[o] = None THEN [packages |-> <<>>, manifest |-> None, items |-> None] ELSE outs[o]

\* The folder is written file by file: as a whole, or, interrupted, in part.
Write(o, whole, parts) ==
    /\ builds < MaxBuilds /\ builds' = builds + 1
    /\ \/ outs' = [outs EXCEPT ![o] = whole] /\ UNCHANGED faults
       \/ /\ faults < MaxFaults /\ faults' = faults + 1
          /\ \E part \in parts : outs' = [outs EXCEPT ![o] = part]
    /\ ended' = "none" /\ expected' = None
    /\ UNCHANGED <<manifest, backup, packages, command>>

\* First the package, then the manifest, then patch_items.json.
Build(o, patch) ==
    LET items == Loaded(patch)
        new == NewPackage(manifest, items)
        begun == [Folder(o) EXCEPT !.packages = Over([p \in DOMAIN new |-> Torn], @)]
        packed == [Folder(o) EXCEPT !.packages = Over(new, @)]
        named == [packed EXCEPT !.manifest = Built(manifest, items)]
    IN /\ command = Idle /\ manifest # Torn
       /\ \A i \in DOMAIN items : items[i].data \notin {None, Torn}
       /\ Write(o, [named EXCEPT !.items = items],
                {Folder(o), begun, packed, [packed EXCEPT !.manifest = Torn],
                 named, [named EXCEPT !.items = Torn]})

\* The folder d after bundle() has copied the manifest of o and some packages.
Bundled(o, d, ps) ==
    [Folder(d) EXCEPT !.manifest = outs[o].manifest,
                      !.packages = Over([p \in ps |-> outs[o].packages[p]], @)]

\* The same in the middle of a further package.
BundledHalf(o, d, ps, p) == [Bundled(o, d, ps) EXCEPT !.packages = Over([q \in {p} |-> Torn], @)]

\* bundle(): the manifest first, then the packages in any order, then
\* patch_items.json if there is one; beside them go the templates of the
\* PowerShell scripts.
Bundle(o, d) ==
    LET from == DOMAIN outs[o].packages
        all == Bundled(o, d, from)
        items == outs[o].items
    IN /\ command = Idle /\ d # o /\ outs[o] # None /\ outs[o].manifest # None
       /\ Write(d, IF items = None THEN all ELSE [all EXCEPT !.items = items],
                {Folder(d), [Folder(d) EXCEPT !.manifest = Torn]}
                \cup {Bundled(o, d, ps) : ps \in SUBSET from}
                \cup {BundledHalf(o, d, ps, p) : ps \in SUBSET from, p \in from}
                \cup (IF items = None THEN {} ELSE {[all EXCEPT !.items = Torn]}))

----------------------------------------------------------------------------
(* verify *)

\* Bug variant of Seen: the packages of the game come first.
SeenInGame(o) == Over(packages, outs[o].packages)

\* Packages as verify() finds them: in the folder, else in the game.
Seen(o) == Over(outs[o].packages, packages)

\* random.sample(stock.A, 40): the seed is fixed, the entries are not.
Samples == {sample \in SUBSET DOMAIN manifest.A : Cardinality(sample) = SampleSize}

Mine(o, r) == {i \in DOMAIN outs[o].items : outs[o].items[i].res = r}

\* verify(): every item, and of the game's other resources those in the sample.
Verify(o, sample) ==
    /\ {outs[o].manifest, outs[o].items} \cap {None, Torn} = {}
    /\ \A i \in DOMAIN outs[o].items :
          Lookup(outs[o].manifest, Seen(o), outs[o].items[i].res) = outs[o].items[i].data
    /\ \A r \in sample :
          Mine(o, r) = {} => Lookup(manifest, packages, r) = Lookup(outs[o].manifest, Seen(o), r)

\* The folder is what build() makes of the manifest that the game has now.
Fresh(o) == /\ outs[o].manifest = Built(manifest, outs[o].items)
            /\ outs[o].packages = NewPackage(manifest, outs[o].items)

\* What a patch that verifies promises: of its own resources their contents, of
\* those in the sample that they stay, and of all the others the same if it is
\* fresh. Of the rest (Torn) nothing: a patch that was built before another one
\* was installed passes, unless the sample hits it, and takes the other back.
Promise(o, sample) ==
    [r \in Resources |->
        IF Mine(o, r) # {} THEN outs[o].items[CHOOSE i \in Mine(o, r) : TRUE].data
        ELSE IF r \in sample \/ (Fresh(o) /\ r \in DOMAIN manifest.A)
        THEN Lookup(manifest, packages, r) ELSE Torn]

----------------------------------------------------------------------------
(* install *)

\* Bug variant of NoBackup: the manifest of the moment is backed up each time.
BackupEachTime == TRUE

\* install(): only a missing backup is made.
NoBackup == backup = None

\* verify may have been run before; nothing asks for it.
Install(o) ==
    /\ command = Idle /\ outs[o] # None
    /\ command' = [out |-> o, half |-> FALSE, now |-> None, todo |-> DOMAIN outs[o].packages,
                   stage |-> IF NoBackup THEN "backup" ELSE "packages"]
    /\ \/ expected' = None
       \/ /\ manifest # Torn
          /\ \E sample \in Samples : Verify(o, sample) /\ expected' = Promise(o, sample)
    /\ ended' = "none"
    /\ UNCHANGED <<manifest, backup, packages, outs, builds, faults>>

\* shutil.copy2: the target is cut to nothing, then filled.
Half == command' = [command EXCEPT !.half = TRUE]
Then(stage) == command' = [command EXCEPT !.half = FALSE, !.stage = stage]
Finish(how) == command' = Idle /\ ended' = how

Backup ==
    /\ command.stage = "backup"
    /\ \/ ~command.half /\ backup' = Torn /\ Half
       \/ command.half /\ backup' = manifest /\ Then("packages")
    /\ UNCHANGED <<manifest, packages, outs, ended, expected, builds, faults>>

\* The packages of the folder, all of them, in any order.
CopyPackage ==
    /\ command.stage = "packages"
    /\ \/ /\ ~command.half
          /\ \E p \in command.todo :
                /\ packages' = Over([q \in {p} |-> Torn], packages)
                /\ command' = [command EXCEPT !.half = TRUE, !.now = p]
       \/ /\ command.half
          /\ packages' = [packages EXCEPT ![command.now] = outs[command.out].packages[command.now]]
          /\ command' = [command EXCEPT !.half = FALSE, !.now = None, !.todo = @ \ {command.now}]
    /\ UNCHANGED <<manifest, backup, outs, ended, expected, builds, faults>>

\* The manifest last; a folder whose build was interrupted may have none.
CopyManifest ==
    /\ command.stage = "packages" /\ ~command.half /\ command.todo = {}
    /\ IF outs[command.out].manifest = None
       THEN Finish("raised") /\ UNCHANGED manifest
       ELSE manifest' = Torn /\ Then("manifest") /\ UNCHANGED ended
    /\ UNCHANGED <<backup, packages, outs, expected, builds, faults>>

FillManifest ==
    /\ command.stage = "manifest"
    /\ manifest' = outs[command.out].manifest
    /\ Finish("install")
    /\ UNCHANGED <<backup, packages, outs, expected, builds, faults>>

----------------------------------------------------------------------------
(* uninstall *)

Uninstall ==
    /\ command = Idle /\ backup # None
    /\ command' = [Idle EXCEPT !.stage = "restore"]
    /\ ended' = "none" /\ expected' = None
    /\ UNCHANGED <<manifest, backup, packages, outs, builds, faults>>

\* Bug variant of Added: the first package of a patch is taken for stock.
AddedLater == {p \in DOMAIN packages : p > backup.n}

\* The packages the backed-up manifest does not know.
Added == {p \in DOMAIN packages : p >= backup.n}

\* The backup goes over the manifest before it is parsed.
Restore ==
    /\ command.stage = "restore"
    /\ \/ /\ ~command.half
          /\ manifest' = Torn /\ Half /\ UNCHANGED ended
       \/ /\ command.half
          /\ manifest' = backup
          /\ IF backup = Torn
             THEN Finish("raised")
             ELSE command' = [command EXCEPT !.half = FALSE, !.stage = "unlink", !.todo = Added]
                  /\ UNCHANGED ended
    /\ UNCHANGED <<backup, packages, outs, expected, builds, faults>>

Unlink ==
    /\ command.stage = "unlink"
    /\ \/ \E p \in command.todo :
             /\ packages' = [q \in DOMAIN packages \ {p} |-> packages[q]]
             /\ command' = [command EXCEPT !.todo = @ \ {p}]
             /\ UNCHANGED ended
       \/ command.todo = {} /\ Finish("uninstall") /\ UNCHANGED packages
    /\ UNCHANGED <<manifest, backup, outs, expected, builds, faults>>

\* The user or the machine stops a command, or a file is in use.
Interrupt ==
    /\ command # Idle /\ faults < MaxFaults
    /\ faults' = faults + 1
    /\ Finish("raised")
    /\ UNCHANGED <<manifest, backup, packages, outs, expected, builds>>

Next == \/ \E o \in Outs, patch \in Patches : Build(o, patch)
        \/ \E o, d \in Outs : Bundle(o, d)
        \/ \E o \in Outs : Install(o)
        \/ Backup \/ CopyPackage \/ CopyManifest \/ FillManifest
        \/ Uninstall \/ Restore \/ Unlink
        \/ Interrupt

Spec == Init /\ [][Next]_vars

----------------------------------------------------------------------------
(* Properties *)

IsManifest(m) ==
    /\ m.n \in Nat \ {0}
    /\ m.C \in Seq([pkg : 0 .. m.n - 1, at : Nat])
    /\ DOMAIN m.A \subseteq Resources
    /\ \A r \in DOMAIN m.A : m.A[r] \in DOMAIN m.C /\ m.C[m.A[r]].at > 0

\* Every manifest there is, whole, names frames it has and packages it counts.
TypeOK ==
    /\ manifest = Torn \/ IsManifest(manifest)
    /\ backup \in {None, Torn} \/ IsManifest(backup)
    /\ \A o \in Outs : outs[o] = None \/ outs[o].manifest \in {None, Torn} \/ IsManifest(outs[o].manifest)
    /\ command.stage \in {"done", "backup", "packages", "manifest", "restore", "unlink"}
    /\ ended \in {"none", "raised", "install", "uninstall"}

\* What install() calls the "stock manifest" it backs up (echovr_patch.py:220)
\* is that: no chain of installs over one another, of builds from a patched game
\* or of interrupted commands makes the backup anything but the manifest as
\* delivered, or half of it after an interruption, and the game's manifest is
\* never overwritten without one.
BackupIsStock ==
    /\ backup \in {None, Torn, StockManifest}
    /\ backup = Torn => faults > 0 \/ command.stage = "backup"
    /\ backup = None => manifest = StockManifest

\* A patch that passes verify (echovr_patch.py:153) and is installed by an
\* install that ends, also one begun again after others were interrupted: its
\* resources have its contents, and each resource that verify looked at has what
\* it had, also if the patch was built long ago, over another patch, or into a
\* used folder. If it was built from the manifest that the game has now, every
\* other resource has what it had, looked at or not.
VerifiedInstallIsExact ==
    ended = "install" /\ expected # None =>
        \A r \in Resources : expected[r] # Torn => Lookup(manifest, packages, r) = expected[r]

\* echovr_patch.py:8 "restore the backed-up manifest, remove added pkg": an
\* uninstall that ends without an error leaves the game as delivered.
UninstallIsExact ==
    ended = "uninstall" => manifest = StockManifest /\ packages = [p \in {0} |-> StockPackage]
====
