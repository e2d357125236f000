---- MODULE TabletPages ----
(***************************************************************************)
(* How runtime.cpp adds pages to the stock hand tablet.  Hooks on canvas   *)
(* load and unload, on the button component's update and on event dispatch *)
(* keep one Context per gamespace: the page shown, the canvases found, the *)
(* buttons masked.  The game decides when canvases and buttons come and go *)
(* and when a hook runs; every hook holds the runtime's lock, so each      *)
(* locked region is a step.  The Doom page is compiled out                 *)
(* (DOOM_ENABLED = false): its button stays masked and its page is never   *)
(* chosen.                                                                 *)
(***************************************************************************)
EXTENDS Integers, FiniteSets

CONSTANTS
    Gamespaces,
    Keys,          \* what is touched: <<gamespace, actor, component>>
    Canvases,      \* records [gs, kind, id]
    Buttons,       \* records [gs, name, id]; a button made again has a new id
    Null

Kinds == {"root", "nav", "tools", "stock", "music"}
Overlaid == {"root", "stock"}         \* the kinds render() hides stock content of
Components == {"TAB", "MUSIC_TAB", "QUESTION", "GOALIE", "DISC", "music", "content", "stock"}

ASSUME CanvasesAssumption == \A p \in Canvases : p.gs \in Gamespaces /\ p.kind \in Kinds
ASSUME ButtonsAssumption == \A b \in Buttons : b.gs \in Gamespaces /\ b.name \in Components
ASSUME KeysAssumption == \A key \in Keys : key[1] \in Gamespaces /\ key[3] \in Components
ASSUME NullAssumption == Null \notin Canvases

VARIABLES
    page,       \* per gamespace: "Stock", "Tools" or "Music"
    view,       \* per gamespace and kind: canvas, and its saved look, if any
    masked,     \* per gamespace: handles this runtime has disabled
    canvases,   \* canvases the runtime knows
    pending,    \* recognised, but their component system is not there yet
    held,       \* <<gamespace, actor, component>> pressed and not released
    fault, heartbeat,
    loaded,     \* the game's canvases
    look,       \* per canvas: is it as the game left it, or hidden by us
    live, bit,  \* the game's buttons, and who set disable bit 0x8000 of each
    down        \* history: components whose PRESS was not followed by RELEASE

ours == <<page, view, masked, canvases, pending, held, fault, heartbeat>>
game == <<loaded, look, live, bit, down>>
vars == <<page, view, masked, canvases, pending, held, fault, heartbeat, loaded, look, live, bit, down>>

NoView == [p |-> Null, was |-> "unsaved"]

Init == /\ page = [g \in Gamespaces |-> "Stock"]
        /\ view = [g \in Gamespaces |-> [k \in Kinds |-> NoView]]
        /\ masked = [g \in Gamespaces |-> {}]
        /\ canvases = {} /\ pending = {} /\ held = {}
        /\ fault = FALSE /\ heartbeat = FALSE
        /\ loaded = {} /\ look = [p \in Canvases |-> "own"]
        /\ live = {} /\ bit = [b \in Buttons |-> "clear"]
        /\ down = {}

----------------------------------------------------------------------------
(* Canvases *)

\* remember(): the views once the canvases of `new` are filed. It goes on with
\* the canvas linked at p+0x378 (runtime.cpp:116), which is left out: that one
\* has been loaded in a step of its own, and filing it twice is the same.
Filed(new) == [g \in Gamespaces |-> [k \in Kinds |->
    IF \E p \in new : p.gs = g /\ p.kind = k
    THEN [NoView EXCEPT !.p = CHOOSE p \in new : p.gs = g /\ p.kind = k]
    ELSE view[g][k]]]

\* loaded(), once the original has succeeded: the canvas is filed, or kept
\* for a retry while its component system is missing.
Load(p) ==
    /\ p \notin loaded
    /\ loaded' = loaded \cup {p}
    /\ \/ /\ canvases' = canvases \cup {p}
          /\ view' = Filed({p})
          /\ UNCHANGED pending
       \/ /\ pending' = pending \cup {p}
          /\ UNCHANGED <<canvases, view>>
    /\ UNCHANGED <<page, masked, held, fault, heartbeat, look, live, bit, down>>

\* Bug variants of Unload: a canvas that was still to be filed is kept, what
\* is held is kept.
UnloadKeepsPending(p) ==
    /\ p \in loaded
    /\ loaded' = loaded \ {p} /\ canvases' = canvases \ {p}
    /\ look' = [look EXCEPT ![p] = "own"]
    /\ UNCHANGED <<view, page, held, heartbeat, pending, masked, fault, live, bit, down>>

UnloadKeepsHeld(p) ==
    /\ p \in loaded
    /\ loaded' = loaded \ {p} /\ pending' = pending \ {p} /\ canvases' = canvases \ {p}
    /\ IF p \in canvases /\ view[p.gs][p.kind].p = p
       THEN view' = [view EXCEPT ![p.gs][p.kind] = NoView]
       ELSE UNCHANGED view
    /\ IF p \in canvases /\ p.kind = "root"
       THEN page' = [page EXCEPT ![p.gs] = "Stock"] /\ heartbeat' = FALSE
       ELSE UNCHANGED <<page, heartbeat>>
    /\ look' = [look EXCEPT ![p] = "own"]
    /\ UNCHANGED <<held, masked, fault, live, bit, down>>

\* unload(): forget the canvas before the original frees it.  Losing a root
\* closes its gamespace's page, and drops what is held in every gamespace.
Unload(p) ==
    /\ p \in loaded
    /\ loaded' = loaded \ {p}
    /\ pending' = pending \ {p}
    /\ canvases' = canvases \ {p}
    /\ IF p \in canvases /\ view[p.gs][p.kind].p = p
       THEN view' = [view EXCEPT ![p.gs][p.kind] = NoView]
       ELSE UNCHANGED view
    /\ IF p \in canvases /\ p.kind = "root"
       THEN page' = [page EXCEPT ![p.gs] = "Stock"] /\ held' = {} /\ heartbeat' = FALSE
       ELSE UNCHANGED <<page, held, heartbeat>>
    /\ look' = [look EXCEPT ![p] = "own"]
    /\ UNCHANGED <<masked, fault, live, bit, down>>

----------------------------------------------------------------------------
(* The button hook: remember what was pending, gate() and render(), run the
   original, then gate() and render() again *)

\* Bug variant of Hide: a fault changes nothing.
HideDespiteFault(b, v) ==
    CASE b.name = "music"              -> page[b.gs] # "Music"
      [] b.name \in {"GOALIE", "DISC"} -> page[b.gs] # "Tools"
      [] b.name = "content"            -> page[b.gs] # "Stock"
      [] OTHER                         -> b.name # "stock"

\* gate(): a button that must not react, with the views v.
Hide(b, v) ==
    \/ b.name = "QUESTION"
    \/ /\ ~fault
       /\ CASE b.name = "music"              -> page[b.gs] # "Music"
            [] b.name \in {"GOALIE", "DISC"} -> page[b.gs] # "Tools"
            [] b.name = "content"            -> page[b.gs] # "Stock"
            [] b.name = "TAB"       -> \E k \in {"root", "nav", "tools"} : v[b.gs][k].p = Null
            [] b.name = "MUSIC_TAB" -> \E k \in {"root", "nav", "music"} : v[b.gs][k].p = Null

\* Stock navigation buttons are not gated.
Gated(g) == {b \in live : b.gs = g /\ b.name # "stock"}

\* The pass over the pool disables, enables and forgets; it stops with fail()
\* at a button whose disable bit somebody else has set, having treated an
\* arbitrary part of the others.
Gate(g, v) ==
    LET kept == masked[g] \cap Gated(g)
        toHide == {b \in Gated(g) \ kept : Hide(b, v)}
        toShow == {b \in kept : ~Hide(b, v)}
        owned == {b \in toHide : bit[b] # "clear"}
        Treat(hidden, shown) ==
            /\ bit' = [b \in Buttons |-> IF b \in hidden THEN "ours"
                                         ELSE IF b \in shown THEN "clear" ELSE bit[b]]
            /\ masked' = [masked EXCEPT ![g] = (kept \cup hidden) \ shown]
    IN \/ owned = {} /\ Treat(toHide, toShow) /\ UNCHANGED fault
       \/ /\ owned # {}
          /\ \E hidden \in SUBSET (toHide \ owned), shown \in SUBSET toShow : Treat(hidden, shown)
          /\ fault' = TRUE

\* Bug variant of GateRefuses: the list is dropped, the buttons stay disabled.
GateRefusesAndForgets ==
    fault' = TRUE /\ masked' = [g \in Gamespaces |-> {}] /\ UNCHANGED bit

\* The pool does not look as expected: fail() before anything is treated.
GateRefuses == fault' = TRUE /\ UNCHANGED <<bit, masked>>

\* Bug variant of Render: what is there is saved again on every frame.
RenderSavesAgain(g, v) ==
    LET active == page[g] # "Stock" /\ ~fault'
        Shown(k) == k \in Overlaid /\ v[g][k].p # Null /\ active
    IN /\ view' = [v EXCEPT ![g] = [k \in Kinds |->
                     IF Shown(k) THEN [v[g][k] EXCEPT !.was = look[v[g][k].p]]
                     ELSE v[g][k]]]
       /\ look' = [p \in Canvases |->
            IF p.gs = g /\ Shown(p.kind) /\ v[g][p.kind].p = p THEN "hidden" ELSE look[p]]
       /\ UNCHANGED heartbeat

\* render(): hide the stock content of this gamespace while a page of ours is
\* open, keeping what it looked like, and put it back when none is.
Render(g, v) ==
    LET active == page[g] # "Stock" /\ ~fault'
        Rendered(k) == k \in Overlaid /\ v[g][k].p # Null /\ (active \/ v[g][k].was # "unsaved")
        Overlay(w) == [w EXCEPT !.was = IF ~active THEN "unsaved"
                                        ELSE IF @ = "unsaved" THEN look[w.p] ELSE @]
    IN /\ view' = [v EXCEPT ![g] = [k \in Kinds |-> IF Rendered(k) THEN Overlay(v[g][k]) ELSE v[g][k]]]
       /\ look' = [p \in Canvases |->
            IF p.gs = g /\ Rendered(p.kind) /\ v[g][p.kind].p = p
            THEN IF active THEN "hidden" ELSE v[g][p.kind].was
            ELSE look[p]]
       /\ heartbeat' = (heartbeat \/ (active /\ page[g] = "Music" /\ v[g]["music"].p # Null))

UpdateFrame == UNCHANGED <<page, held, loaded, live, down>>

\* Before the original update; the pending canvases are tried again first.
BeforeUpdate(g) ==
    \E attached \in SUBSET pending :
        /\ Cardinality({<<p.gs, p.kind>> : p \in attached}) = Cardinality(attached)
        /\ canvases' = canvases \cup attached
        /\ pending' = pending \ attached
        /\ Gate(g, Filed(attached))
        /\ Render(g, Filed(attached))
        /\ UpdateFrame

\* After it: the original may have changed the pool in between.
AfterUpdate(g) ==
    /\ Gate(g, view)
    /\ Render(g, view)
    /\ UpdateFrame /\ UNCHANGED <<canvases, pending>>

RefusedUpdate(g) ==
    /\ GateRefuses
    /\ Render(g, view)
    /\ UpdateFrame /\ UNCHANGED <<canvases, pending>>

----------------------------------------------------------------------------
(* Dispatch of a component event *)

\* Bug variants of Choose: the page gets the name of its button; leaving the
\* Music page for Tools does not stop the heartbeat.
ChooseByName(g, component) == page' = [page EXCEPT ![g] = component] /\ UNCHANGED heartbeat

ChooseWithoutBlur(g, component) ==
    /\ page' = [page EXCEPT ![g] = CASE component = "TAB"       -> "Tools"
                                     [] component = "MUSIC_TAB" -> "Music"
                                     [] component = "stock"     -> "Stock"
                                     [] OTHER                   -> @]
    /\ UNCHANGED heartbeat

\* What a first press on a component does to the pages.
Choose(g, component) ==
    CASE component = "stock"     -> page' = [page EXCEPT ![g] = "Stock"] /\ heartbeat' = FALSE
      [] component = "TAB"       -> page' = [page EXCEPT ![g] = "Tools"] /\ heartbeat' = FALSE
      [] component = "MUSIC_TAB" -> page' = [page EXCEPT ![g] = "Music"] /\ UNCHANGED heartbeat
      [] OTHER                   -> UNCHANGED <<page, heartbeat>>

\* The events of content buttons are not looked at.
Ours == Components \ {"content"}

Press(key) ==
    LET g == key[1]  component == key[3]
    IN /\ down' = down \cup {key}
       /\ IF ~fault /\ component \in Ours /\ view[g]["root"].p # Null /\ key \notin held
          THEN held' = held \cup {key} /\ Choose(g, component)
          ELSE UNCHANGED <<held, page, heartbeat>>
       /\ UNCHANGED <<view, masked, canvases, pending, fault, loaded, look, live, bit>>

LetGo(key) ==
    LET g == key[1]  component == key[3]
    IN /\ down' = down \ {key}
       /\ IF ~fault /\ component \in Ours /\ view[g]["root"].p # Null
          THEN held' = held \ {key} ELSE UNCHANGED held
       /\ UNCHANGED <<page, heartbeat, view, masked, canvases, pending, fault, loaded, look, live, bit>>

----------------------------------------------------------------------------
(* The game's buttons *)

\* A button appears, perhaps with disable bit 0x8000 already in use.
MakeButton(b) ==
    /\ b \notin live
    /\ b \notin masked[b.gs]
    /\ live' = live \cup {b}
    /\ \E owner \in {"clear", "other"} : bit' = [bit EXCEPT ![b] = owner]
    /\ UNCHANGED ours /\ UNCHANGED <<loaded, look, down>>

\* A button goes; its handle is not used again.
DropButton(b) ==
    /\ b \in live
    /\ live' = live \ {b}
    /\ bit' = [bit EXCEPT ![b] = "clear"]
    /\ UNCHANGED ours /\ UNCHANGED <<loaded, look, down>>

Next == \/ \E p \in Canvases : Load(p)
        \/ \E p \in Canvases : Unload(p)
        \/ \E g \in Gamespaces : BeforeUpdate(g)
        \/ \E g \in Gamespaces : AfterUpdate(g)
        \/ \E g \in Gamespaces : RefusedUpdate(g)
        \/ \E key \in Keys : Press(key)
        \/ \E key \in Keys : LetGo(key)
        \/ \E b \in Buttons : MakeButton(b)
        \/ \E b \in Buttons : DropButton(b)

\* Echo updates the button component of every gamespace again and again, and
\* the pool is not malformed for ever.
Fairness == \A g \in Gamespaces : WF_vars(AfterUpdate(g))
Spec == Init /\ [][Next]_vars /\ Fairness

----------------------------------------------------------------------------
(* Properties *)

TypeOK ==
    /\ page \in [Gamespaces -> {"Stock", "Tools", "Music"}]
    /\ \A g \in Gamespaces, k \in Kinds :
          view[g][k] \in [p : Canvases \cup {Null}, was : {"unsaved", "own", "hidden"}]
    /\ \A g \in Gamespaces : masked[g] \subseteq Buttons
    /\ canvases \subseteq Canvases /\ pending \subseteq Canvases
    /\ held \subseteq Keys /\ down \subseteq Keys
    /\ fault \in BOOLEAN /\ heartbeat \in BOOLEAN
    /\ loaded \subseteq Canvases /\ live \subseteq Buttons
    /\ look \in [Canvases -> {"own", "hidden"}]
    /\ bit \in [Buttons -> {"clear", "ours", "other"}]

\* render() and gate() never reach a canvas the game has freed: every view,
\* and every canvas kept for a retry, is loaded.
NoDanglingCanvas ==
    /\ pending \cup canvases \subseteq loaded
    /\ pending \cap canvases = {}
    /\ \A g \in Gamespaces, k \in Kinds :
          LET p == view[g][k].p IN p # Null => p \in canvases /\ p.gs = g /\ p.kind = k

\* The runtime's list of masked buttons and the engine's disable bits agree,
\* for every button that exists: none stays disabled without being listed
\* (and so never enabled again), none is enabled that was not disabled here.
MaskMatchesBit ==
    \A g \in Gamespaces :
        masked[g] \cap live = {b \in live : b.gs = g /\ bit[b] = "ours"}

\* TabletMusic/README.md: switching to another page stops the heartbeat, so
\* the worker is only kept busy while some tablet that is there shows the
\* Music page. Losing the root must close its page and take the beat with it.
HeartbeatMeansMusic ==
    heartbeat => \E g \in Gamespaces : page[g] = "Music" /\ view[g]["root"].p # Null

\* A press that finds its key in `held` is ignored, so nothing may stay there
\* after its release: neither a lost root nor a page change leaves one behind.
HeldIsDown == ~fault => held \subseteq down

\* Stock content that is hidden can be put back: its view still remembers it
\* as hidden by us, with its own look, unless another canvas took the view.
HiddenIsRemembered ==
    \A p \in loaded :
        look[p] = "hidden" =>
            \/ view[p.gs][p.kind] = [p |-> p, was |-> "own"]
            \/ view[p.gs][p.kind].p # p

\* After a fault the stock tablet comes back: every button this runtime has
\* disabled is enabled again, but for the Doom button, unless that one is
\* itself the button whose bit somebody else owns.
FaultFreesButtons ==
    fault ~> \/ \A b \in live : bit[b] = "ours" => b.name = "QUESTION"
             \/ \E b \in live : b.name = "QUESTION" /\ bit[b] = "other"
====
