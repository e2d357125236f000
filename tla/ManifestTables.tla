---- MODULE ManifestTables ----
(***************************************************************************)
(* manifest_merge.cpp: a tablet.patch merged into the tables of the game's *)
(* manifest.  An entry (A and B) has the hash of its content and its index *)
(* in the frame table (C); a frame lies in a package at an offset, which   *)
(* is here the number of contents before it.  A content is its own hash,   *)
(* Absent the hash of an entry that is not there.  Container and lengths   *)
(* that do not parse are left out, and entries are a function: the merger  *)
(* looks them up by their name and sorts them at the end.                  *)
(***************************************************************************)
EXTENDS Naturals, Sequences

CONSTANT Absent

\* The loop's variables before the first resource.
Begin(tables) ==
    [entry |-> tables.entry, frames |-> tables.frames, pkg |-> tables.pkgs,
     data |-> <<>>, changes |-> 0, refused |-> FALSE]

Same(w, item) == item.res \in DOMAIN w.entry /\ w.entry[item.res].hash = item.hash

Existing(w, item) == IF item.res \in DOMAIN w.entry THEN w.entry[item.res].hash ELSE Absent

\* One resource of the patch: also one that is there already gets a new frame,
\* in case another one changes.
Place(w, item) ==
    IF w.refused \/ ~(Same(w, item) \/ Existing(w, item) \in item.baselines)
    THEN [w EXCEPT !.refused = TRUE]
    ELSE [w EXCEPT
            !.entry = [r \in DOMAIN w.entry \cup {item.res} |->
                         IF r = item.res THEN [hash |-> item.hash, loc |-> Len(w.frames)]
                         ELSE w.entry[r]],
            !.frames = Append(@, [pkg |-> w.pkg, offset |-> Len(w.data)]),
            !.data = Append(@, item.hash),
            !.changes = IF Same(w, item) THEN @ ELSE @ + 1]

\* The manifest with its new package counted, and an end marker for it.
WithPackage(w) ==
    [entry |-> w.entry, frames |-> Append(w.frames, [pkg |-> w.pkg, offset |-> Len(w.data)]),
     pkgs |-> w.pkg + 1]

\* The loop's variables after each number of resources.
Rounds(tables, patch) ==
    LET w[n \in 0 .. Len(patch)] == IF n = 0 THEN Begin(tables) ELSE Place(w[n - 1], patch[n])
    IN w

\* The patch as a whole: refused, or the manifest with the package it adds;
\* a patch that changes nothing leaves the manifest as it is and adds none.
Merge(tables, patch) ==
    LET w == Rounds(tables, patch)[Len(patch)]
    IN CASE w.refused -> [result |-> "refused"]
         [] ~w.refused /\ w.changes = 0 -> [result |-> "unchanged"]
         [] OTHER -> [result |-> "merged", tables |-> WithPackage(w), package |-> w.data]

\* What the engine finds for a resource in the package files.
Read(tables, files, r) ==
    LET frame == tables.frames[tables.entry[r].loc + 1] IN files[frame.pkg][frame.offset + 1]
====
