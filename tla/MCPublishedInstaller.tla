---- MODULE MCPublishedInstaller ----
(* Two versions of which the second accepts the first; and the merger's     *)
(* tables against what the installer's model says of them.                  *)
EXTENDS PublishedInstaller, ManifestTables, SequencesExt
MCVersion == {"v1", "v2"}
MCAccepts == {<<"v2", "v1">>}
MCFrameFile == [n \in 0 .. MaxInstalls |-> "package" \o ToString(n)]

\* A package overrides one resource of the tablet and adds one; the game has
\* another resource besides.
Delivered == [entry |-> [root |-> [hash |-> "stock root", loc |-> 0],
                         other |-> [hash |-> "other", loc |-> 1]],
              frames |-> <<[pkg |-> 0, offset |-> 0], [pkg |-> 0, offset |-> 1], [pkg |-> 0, offset |-> 2]>>,
              pkgs |-> 1]

Patch(v) ==
    LET Item(r, stock) == [res |-> r, hash |-> v \o " " \o r,
                           baselines |-> {stock} \cup {w \o " " \o r : w \in {u \in Version : <<v, u>> \in Accepts}}]
    IN <<Item("root", "stock root"), Item("tab", Absent)>>

\* The game's manifest and packages, and the manifest as Installer has it.
Fresh == [tables |-> Delivered, files |-> 0 :> <<"stock root", "other">>,
          manifest |-> Plain("stock"), result |-> "none", expected |-> "none"]

\* Another tool changes a tablet resource, or a version is merged.
Change(g, who) ==
    IF who = "mod"
    THEN [g EXCEPT !.tables.entry = [@ EXCEPT !["root"].hash = "mod root"],
                   !.files = [p \in DOMAIN @ |-> [i \in DOMAIN @[p] |->
                       LET at == g.tables.frames[g.tables.entry["root"].loc + 1]
                       IN IF at.pkg = p /\ at.offset + 1 = i THEN "mod root" ELSE @[p][i]]],
                   !.manifest.tab = "mod"]
    ELSE LET m == Merge(g.tables, Patch(who))
             after == IF m.result = "merged"
                      THEN [g EXCEPT !.tables = m.tables, !.files = @ @@ (g.tables.pkgs :> m.package)] ELSE g
         IN [after EXCEPT !.result = m.result,
                          !.expected = CASE ~Mergeable(who, g.manifest) -> "refused"
                                         [] who = g.manifest.tab -> "unchanged"
                                         [] OTHER -> "merged",
                          !.manifest = IF Mergeable(who, g.manifest) THEN Merged(who, g.manifest) ELSE @]

\* After any four changes the merger has done what Installer says, and every
\* entry, touched or not, leads to the content with its hash.
ASSUME \A n \in 0 .. 4 : \A changes \in [1 .. n -> MCVersion \cup {"mod"}] :
    LET g == FoldLeft(Change, Fresh, changes)
    IN /\ g.result = g.expected
       /\ g.tables.pkgs = g.manifest.pkgs + 1
       /\ \A r \in DOMAIN g.tables.entry : Read(g.tables, g.files, r) = g.tables.entry[r].hash
       /\ g.tables.entry["other"] = Delivered.entry["other"]
====
