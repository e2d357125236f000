---- MODULE TabletPages_proof ----
(***************************************************************************)
(* The safety of the tablet pages for any tablets, canvases, buttons and   *)
(* keys.  The invariant ties the four books the runtime keeps to the game: *)
(* the views to the canvases that are loaded, what each view remembers to  *)
(* what is hidden, the masked buttons to the engine's disable bits, and    *)
(* the page, the heartbeat and the held keys to the presence of a root.    *)
(***************************************************************************)
EXTENDS TabletPages, TLAPS

Views == [p : Canvases \cup {Null}, was : {"unsaved", "own", "hidden"}]

\* Each view holds a known canvas of its own place, or none, and remembers
\* the game's look of it.
ViewsSound(v, known) ==
    /\ v \in [Gamespaces -> [Kinds -> Views]]
    /\ \A g \in Gamespaces, k \in Kinds :
          /\ v[g][k].was # "hidden"
          /\ v[g][k].p # Null => v[g][k].p \in known /\ v[g][k].p.gs = g /\ v[g][k].p.kind = k

\* What is hidden is known, and its view, while it has one, says so.
LooksSound(v, known, looks) ==
    \A p \in Canvases : looks[p] = "hidden" =>
        p \in known /\ (v[p.gs][p.kind].p = p => v[p.gs][p.kind].was = "own")

Types ==
    /\ page \in [Gamespaces -> {"Stock", "Tools", "Music"}]
    /\ masked \in [Gamespaces -> SUBSET Buttons]
    /\ canvases \subseteq Canvases /\ pending \subseteq Canvases
    /\ held \subseteq Keys /\ down \subseteq Keys
    /\ fault \in BOOLEAN /\ heartbeat \in BOOLEAN
    /\ loaded \subseteq Canvases /\ live \subseteq Buttons
    /\ look \in [Canvases -> {"own", "hidden"}]
    /\ bit \in [Buttons -> {"clear", "ours", "other"}]

CanvasInv ==
    /\ pending \cup canvases \subseteq loaded /\ pending \cap canvases = {}
    /\ ViewsSound(view, canvases)
    /\ LooksSound(view, canvases, look)

\* gate() never lists a stock button, nor one of another tablet.
MaskInv ==
    /\ MaskMatchesBit
    /\ \A g \in Gamespaces : \A b \in masked[g] : b.gs = g /\ b.name # "stock"

\* A page of ours is open only on a tablet that is there, ...
PageInv ==
    /\ \A g \in Gamespaces : page[g] # "Stock" => view[g]["root"].p # Null
    /\ HeartbeatMeansMusic

\* ... and a key is held only there, so its release is seen.
HeldInv ==
    /\ \A key \in held : key[3] \in Ours /\ view[key[1]]["root"].p # Null
    /\ HeldIsDown

IInv == Types /\ CanvasInv /\ MaskInv /\ PageInv /\ HeldInv

----------------------------------------------------------------------------
(* What the hooks are made of *)

\* remember() files loaded canvases where they belong and disturbs no other
\* view: one that had a canvas still has one.
LEMMA FiledSound ==
    ASSUME IInv, NEW new \in SUBSET (Canvases \ canvases)
    PROVE  /\ ViewsSound(Filed(new), canvases \cup new)
           /\ LooksSound(Filed(new), canvases \cup new, look)
           /\ \A g \in Gamespaces, k \in Kinds :
                 view[g][k].p # Null => Filed(new)[g][k].p # Null
<1> DEFINE v == Filed(new)
<1>1. \A g \in Gamespaces, k \in Kinds :
         /\ v[g][k] \in Views
         /\ \/ \E q \in new : /\ q.gs = g /\ q.kind = k
                              /\ v[g][k].p = q /\ v[g][k].was = "unsaved"
            \/ v[g][k].p = view[g][k].p /\ v[g][k].was = view[g][k].was
  <2> SUFFICES ASSUME NEW g \in Gamespaces, NEW k \in Kinds
               PROVE  /\ v[g][k] \in Views
                      /\ \/ \E q \in new : /\ q.gs = g /\ q.kind = k
                              /\ v[g][k].p = q /\ v[g][k].was = "unsaved"
                         \/ v[g][k].p = view[g][k].p /\ v[g][k].was = view[g][k].was
      OBVIOUS
  <2> DEFINE q == CHOOSE p \in new : p.gs = g /\ p.kind = k
  <2>1. CASE \E p \in new : p.gs = g /\ p.kind = k
    <3>1. q \in new /\ q.gs = g /\ q.kind = k
        BY <2>1
    <3>2. v[g][k] = [NoView EXCEPT !.p = q]
        BY <2>1 DEF Filed
    <3> HIDE DEF q, v
    <3>3. [NoView EXCEPT !.p = q] = [p |-> q, was |-> "unsaved"]
        BY DEF NoView
    <3>4. v[g][k] = [p |-> q, was |-> "unsaved"]
        BY <3>2, <3>3
    <3>5. v[g][k] \in Views
        BY <3>1, <3>4 DEF Views
    <3>6. v[g][k].p = q /\ v[g][k].was = "unsaved"
        BY <3>4
    <3> QED BY <3>1, <3>5, <3>6
  <2>2. CASE ~\E p \in new : p.gs = g /\ p.kind = k
    <3>1. v[g][k] = view[g][k]
        BY <2>2 DEF Filed
    <3>2. view[g][k] \in Views
        BY DEF IInv, CanvasInv, ViewsSound
    <3> HIDE DEF v
    <3> QED BY <3>1, <3>2
  <2> QED BY <2>1, <2>2
<1>3. Null \notin new
    BY NullAssumption
<1>5. v \in [Gamespaces -> [Kinds -> Views]]
  <2>1. v = [g \in Gamespaces |-> [k \in Kinds |-> v[g][k]]]
      BY DEF Filed
  <2> HIDE DEF v
  <2> QED BY <2>1, <1>1
<1> HIDE DEF v
<1>6. \A g \in Gamespaces, k \in Kinds :
         /\ v[g][k].was # "hidden"
         /\ v[g][k].p # Null => /\ v[g][k].p \in canvases \cup new
                                /\ v[g][k].p.gs = g /\ v[g][k].p.kind = k
    BY <1>1 DEF IInv, CanvasInv, ViewsSound
<1>7. LooksSound(v, canvases \cup new, look)
  <2> SUFFICES ASSUME NEW p \in Canvases, look[p] = "hidden"
               PROVE  p \in canvases /\ (v[p.gs][p.kind].p = p => v[p.gs][p.kind].was = "own")
      BY DEF LooksSound
  <2>1. p \in canvases /\ (view[p.gs][p.kind].p = p => view[p.gs][p.kind].was = "own")
      BY DEF IInv, CanvasInv, LooksSound
  <2> QED BY <2>1, <1>1, CanvasesAssumption
<1>8. \A g \in Gamespaces, k \in Kinds : view[g][k].p # Null => v[g][k].p # Null
    BY <1>1, <1>3
<1> QED BY <1>5, <1>6, <1>7, <1>8 DEF ViewsSound, v

\* gate() keeps the list and the bits in step, whether or not it fails.
LEMMA GateKeeps ==
    ASSUME IInv, NEW g \in Gamespaces, NEW v, Gate(g, v) \/ GateRefuses, live' = live
    PROVE  /\ MaskInv'
           /\ masked' \in [Gamespaces -> SUBSET Buttons]
           /\ bit' \in [Buttons -> {"clear", "ours", "other"}]
           /\ fault' \in BOOLEAN /\ (fault => fault')
<1>1. CASE GateRefuses
    BY <1>1 DEF GateRefuses, IInv, Types, MaskInv, MaskMatchesBit
<1>2. CASE Gate(g, v)
  <2> DEFINE kept == masked[g] \cap Gated(g)
             toHide == {b \in Gated(g) \ kept : Hide(b, v)}
             toShow == {b \in kept : ~Hide(b, v)}
             owned == {b \in toHide : bit[b] # "clear"}
  <2>1. PICK hidden \in SUBSET (toHide \ owned), shown \in SUBSET toShow :
           /\ bit' = [b \in Buttons |-> IF b \in hidden THEN "ours"
                                        ELSE IF b \in shown THEN "clear" ELSE bit[b]]
           /\ masked' = [masked EXCEPT ![g] = (kept \cup hidden) \ shown]
           /\ fault' \in BOOLEAN /\ (fault => fault')
    <3> DEFINE Treat(hidden, shown) ==
           /\ bit' = [b \in Buttons |-> IF b \in hidden THEN "ours"
                                        ELSE IF b \in shown THEN "clear" ELSE bit[b]]
           /\ masked' = [masked EXCEPT ![g] = (kept \cup hidden) \ shown]
    <3>1. \/ owned = {} /\ Treat(toHide, toShow) /\ UNCHANGED fault
          \/ /\ \E hidden \in SUBSET (toHide \ owned), shown \in SUBSET toShow : Treat(hidden, shown)
             /\ fault' = TRUE
        BY <1>2 DEF Gate
    <3> HIDE DEF kept, toHide, toShow, owned
    <3>2. CASE owned = {} /\ Treat(toHide, toShow) /\ UNCHANGED fault
      <4>1. toHide \in SUBSET (toHide \ owned) /\ toShow \in SUBSET toShow
          BY <3>2
      <4>2. fault' \in BOOLEAN /\ (fault => fault')
          BY <3>2 DEF IInv, Types
      <4> QED BY <3>2, <4>1, <4>2
    <3>3. CASE /\ \E hidden \in SUBSET (toHide \ owned), shown \in SUBSET toShow : Treat(hidden, shown)
               /\ fault' = TRUE
        BY <3>3
    <3> QED BY <3>1, <3>2, <3>3
  <2>2. \A b \in Gated(g) : b \in live /\ b \in Buttons /\ b.gs = g /\ b.name # "stock"
      BY DEF Gated, IInv, Types
  <2>3. \A b \in live : b.gs = g /\ b.name # "stock" => b \in Gated(g)
      BY DEF Gated
  <2>4. hidden \subseteq Gated(g) /\ shown \subseteq kept /\ hidden \cap kept = {}
      BY <2>1
  <2> HIDE DEF toHide, toShow, owned
  <2>5. masked[g] \subseteq Buttons /\ masked \in [Gamespaces -> SUBSET Buttons]
      BY DEF IInv, Types
  <2>6. masked' \in [Gamespaces -> SUBSET Buttons]
      BY <2>1, <2>2, <2>4, <2>5
  <2>7. bit' \in [Buttons -> {"clear", "ours", "other"}]
      BY <2>1 DEF IInv, Types
  <2>8. \A h \in Gamespaces : \A b \in masked'[h] : b.gs = h /\ b.name # "stock"
      BY <2>1, <2>2, <2>4, <2>5 DEF IInv, MaskInv
  <2>9. \A h \in Gamespaces :
           masked'[h] \cap live = {b \in live : b.gs = h /\ bit'[b] = "ours"}
    <3> SUFFICES ASSUME NEW h \in Gamespaces, NEW b \in live
                 PROVE  b \in masked'[h] <=> b.gs = h /\ bit'[b] = "ours"
        OBVIOUS
    <3>1. b \in Buttons
        BY DEF IInv, Types
    <3>2. b \in masked[h] <=> b.gs = h /\ bit[b] = "ours"
        BY DEF IInv, MaskInv, MaskMatchesBit
    <3>3. b \in masked[h] => b.gs = h /\ b.name # "stock"
        BY DEF IInv, MaskInv
    <3>4. CASE h = g
      <4>1. b \in masked'[h] <=> (b \in kept \cup hidden) /\ b \notin shown
          BY <3>4, <2>1, <2>5
      <4>2. b \in kept <=> b \in masked[h]
          BY <3>4, <3>3, <2>3
      <4> QED BY <4>1, <4>2, <3>1, <3>2, <3>4, <2>1, <2>2, <2>4
    <3>5. CASE h # g
      <4>1. masked'[h] = masked[h]
          BY <3>5, <2>1, <2>5
      <4>2. b.gs = h => bit'[b] = bit[b]
          BY <3>5, <3>1, <2>1, <2>2, <2>4
      <4> QED BY <4>1, <4>2, <3>2
    <3> QED BY <3>4, <3>5
  <2> QED BY <2>1, <2>6, <2>7, <2>8, <2>9 DEF MaskInv, MaskMatchesBit
<1> QED BY <1>1, <1>2

\* render() saves a look only when nothing is saved, and then it is the game's
\* own: whatever it hides can be put back.
LEMMA RenderKeeps ==
    ASSUME IInv, NEW g \in Gamespaces, NEW v, NEW known \in SUBSET Canvases,
           ViewsSound(v, known), LooksSound(v, known, look), Render(g, v)
    PROVE  /\ ViewsSound(view', known) /\ LooksSound(view', known, look')
           /\ look' \in [Canvases -> {"own", "hidden"}]
           /\ \A h \in Gamespaces, k \in Kinds : view'[h][k].p = v[h][k].p
           /\ heartbeat' \in BOOLEAN
           /\ heartbeat' => heartbeat \/ page[g] = "Music"
<1> DEFINE active == page[g] # "Stock" /\ ~fault'
           Rendered(k) == k \in Overlaid /\ v[g][k].p # Null /\ (active \/ v[g][k].was # "unsaved")
           Overlay(w) == [w EXCEPT !.was = IF ~active THEN "unsaved"
                                           ELSE IF @ = "unsaved" THEN look[w.p] ELSE @]
           Saved == IF active THEN "own" ELSE "unsaved"
<1>1. /\ view' = [v EXCEPT ![g] = [k \in Kinds |->
                    IF Rendered(k) THEN Overlay(v[g][k]) ELSE v[g][k]]]
      /\ look' = [p \in Canvases |->
            IF p.gs = g /\ Rendered(p.kind) /\ v[g][p.kind].p = p
            THEN IF active THEN "hidden" ELSE v[g][p.kind].was
            ELSE look[p]]
      /\ heartbeat' = (heartbeat \/ (active /\ page[g] = "Music" /\ v[g]["music"].p # Null))
    BY DEF Render
<1>2. \A h \in Gamespaces, k \in Kinds :
         /\ v[h][k] \in Views /\ v[h][k].was # "hidden"
         /\ v[h][k].p # Null => v[h][k].p \in known /\ v[h][k].p.gs = h /\ v[h][k].p.kind = k
    BY DEF ViewsSound
<1>3. \A k \in Kinds : v[g][k].p # Null /\ v[g][k].was = "unsaved" => look[v[g][k].p] = "own"
  <2> SUFFICES ASSUME NEW k \in Kinds, v[g][k].p # Null, v[g][k].was = "unsaved"
               PROVE  look[v[g][k].p] = "own"
      OBVIOUS
  <2>1. v[g][k].p \in Canvases /\ v[g][k].p.gs = g /\ v[g][k].p.kind = k
      BY <1>2
  <2>2. look[v[g][k].p] # "hidden"
      BY <2>1 DEF LooksSound
  <2> QED BY <2>1, <2>2 DEF IInv, Types
<1>4. \A k \in Kinds : Rendered(k) =>
         Overlay(v[g][k]) = [p |-> v[g][k].p, was |-> Saved]
    BY <1>2, <1>3 DEF Views
<1>5. \A h \in Gamespaces, k \in Kinds :
         /\ view'[h][k] \in Views
         /\ view'[h][k].p = v[h][k].p
         /\ view'[h][k].was = IF h = g /\ Rendered(k) THEN Saved ELSE v[h][k].was
  <2> SUFFICES ASSUME NEW h \in Gamespaces, NEW k \in Kinds
               PROVE  /\ view'[h][k] \in Views
                      /\ view'[h][k].p = v[h][k].p
                      /\ view'[h][k].was = IF h = g /\ Rendered(k) THEN Saved ELSE v[h][k].was
      OBVIOUS
  <2>1. v \in [Gamespaces -> [Kinds -> Views]]
      BY DEF ViewsSound
  <2>2. Saved \in {"unsaved", "own"}
      OBVIOUS
  <2> HIDE DEF Rendered, Overlay, Saved
  <2>3. CASE h = g /\ Rendered(k)
    <3>1. view'[h][k] = Overlay(v[g][k])
        BY <2>3, <2>1, <1>1
    <3>2. view'[h][k] = [p |-> v[h][k].p, was |-> Saved]
        BY <3>1, <2>3, <1>4
    <3>3. view'[h][k] \in Views
        BY <3>2, <2>1, <2>2 DEF Views
    <3> QED BY <3>2, <3>3, <2>3
  <2>4. CASE ~(h = g /\ Rendered(k))
    <3>1. view'[h][k] = v[h][k]
        BY <2>4, <2>1, <1>1
    <3> QED BY <3>1, <2>4, <2>1
  <2> QED BY <2>3, <2>4
<1>6. view' \in [Gamespaces -> [Kinds -> Views]]
  <2>1. view' = [h \in Gamespaces |-> [k \in Kinds |-> view'[h][k]]]
    <3>1. v \in [Gamespaces -> [Kinds -> Views]]
        BY DEF ViewsSound
    <3> HIDE DEF Rendered, Overlay, active
    <3> QED BY <3>1, <1>1
  <2> QED BY <2>1, <1>5
<1>7. \A p \in Canvases : p.gs \in Gamespaces /\ p.kind \in Kinds
    BY CanvasesAssumption
<1>8. look' \in [Canvases -> {"own", "hidden"}]
  <2> SUFFICES ASSUME NEW p \in Canvases
               PROVE  (IF p.gs = g /\ Rendered(p.kind) /\ v[g][p.kind].p = p
                       THEN IF active THEN "hidden" ELSE v[g][p.kind].was
                       ELSE look[p]) \in {"own", "hidden"}
      BY <1>1
  <2>1. look[p] \in {"own", "hidden"} /\ p.kind \in Kinds
      BY <1>7 DEF IInv, Types
  <2>2. Rendered(p.kind) /\ ~active => v[g][p.kind].was = "own"
      BY <1>2, <2>1 DEF Views
  <2> HIDE DEF Rendered, active
  <2> QED BY <2>1, <2>2
<1> HIDE DEF Rendered, Overlay
<1>9. ViewsSound(view', known)
    BY <1>2, <1>5, <1>6 DEF ViewsSound
<1>10. LooksSound(view', known, look')
  <2> SUFFICES ASSUME NEW p \in Canvases, look'[p] = "hidden"
               PROVE  p \in known /\ (view'[p.gs][p.kind].p = p => view'[p.gs][p.kind].was = "own")
      BY DEF LooksSound
  <2>1. CASE p.gs = g /\ Rendered(p.kind) /\ v[g][p.kind].p = p
    <3>1. active
        BY <2>1, <1>1, <1>2, <1>7
    <3>2. p \in known
        BY <2>1, <1>2, <1>7 DEF Rendered
    <3> QED BY <2>1, <3>1, <3>2, <1>5, <1>7
  <2>2. CASE ~(p.gs = g /\ Rendered(p.kind) /\ v[g][p.kind].p = p)
    <3>1. look[p] = "hidden"
        BY <2>2, <1>1
    <3>2. p \in known /\ (v[p.gs][p.kind].p = p => v[p.gs][p.kind].was = "own")
        BY <3>1 DEF LooksSound
    <3> QED BY <2>2, <3>2, <1>5, <1>7
  <2> QED BY <2>1, <2>2
<1>11. \A h \in Gamespaces, k \in Kinds : view'[h][k].p = v[h][k].p
    BY <1>5
<1> QED BY <1>1, <1>8, <1>9, <1>10, <1>11 DEF IInv, Types

\* A button update keeps what depends on pages and roots: roots stay.
LEMMA UpdateKeeps ==
    ASSUME IInv, NEW g \in Gamespaces, NEW v,
           \A h \in Gamespaces, k \in Kinds : view[h][k].p # Null => v[h][k].p # Null,
           \A h \in Gamespaces, k \in Kinds : view'[h][k].p = v[h][k].p,
           heartbeat' => heartbeat \/ page[g] = "Music",
           fault => fault', UpdateFrame
    PROVE  PageInv' /\ HeldInv'
<1> USE DEF UpdateFrame
<1>1. \A h \in Gamespaces : view[h]["root"].p # Null => view'[h]["root"].p # Null
    BY DEF Kinds
<1>2. \A h \in Gamespaces : page'[h] # "Stock" => view'[h]["root"].p # Null
    BY <1>1 DEF IInv, PageInv
<1>3. HeartbeatMeansMusic'
    BY <1>1, <1>2 DEF IInv, PageInv, HeartbeatMeansMusic
<1>4. HeldIsDown'
    BY DEF IInv, HeldInv, HeldIsDown
<1>5. \A key \in held' : key[3] \in Ours /\ view'[key[1]]["root"].p # Null
    BY <1>1, KeysAssumption DEF IInv, HeldInv, Types
<1> QED BY <1>2, <1>3, <1>4, <1>5 DEF PageInv, HeldInv

----------------------------------------------------------------------------
(* The steps *)

\* At first nothing is known, hidden, masked or held.
LEMMA InitInv == Init => IInv
<1> SUFFICES ASSUME Init PROVE IInv
    OBVIOUS
<1> USE DEF Init
<1>1. Types
    BY DEF Types
<1>2. CanvasInv
  <2>1. NoView \in Views /\ NoView.p = Null /\ NoView.was = "unsaved"
      BY DEF NoView, Views
  <2>2. ViewsSound(view, {})
      BY <2>1 DEF ViewsSound
  <2>3. LooksSound(view, {}, look)
      BY DEF LooksSound
  <2> QED BY <2>2, <2>3 DEF CanvasInv
<1>3. MaskInv
    BY DEF MaskInv, MaskMatchesBit
<1>4. PageInv /\ HeldInv
    BY DEF PageInv, HeartbeatMeansMusic, HeldInv, HeldIsDown
<1> QED BY <1>1, <1>2, <1>3, <1>4 DEF IInv

\* A canvas is loaded: it is filed or it waits; no root disappears.
LEMMA LoadKeeps ==
    ASSUME IInv, NEW p \in Canvases, Load(p)
    PROVE  IInv'
<1>1. /\ p \notin loaded /\ loaded' = loaded \cup {p}
      /\ UNCHANGED <<page, masked, held, fault, heartbeat, look, live, bit, down>>
    BY DEF Load
<1>2. p \notin canvases /\ p \notin pending
    BY <1>1 DEF IInv, CanvasInv
<1>3. /\ canvases' \cup pending' \subseteq loaded' /\ pending' \cap canvases' = {}
      /\ canvases' \subseteq Canvases /\ pending' \subseteq Canvases
      /\ ViewsSound(view', canvases') /\ LooksSound(view', canvases', look)
      /\ \A g \in Gamespaces, k \in Kinds : view[g][k].p # Null => view'[g][k].p # Null
  <2>1. CASE canvases' = canvases \cup {p} /\ view' = Filed({p}) /\ UNCHANGED pending
    <3>1. {p} \in SUBSET (Canvases \ canvases)
        BY <1>2
    <3>2. /\ ViewsSound(Filed({p}), canvases \cup {p})
          /\ LooksSound(Filed({p}), canvases \cup {p}, look)
          /\ \A g \in Gamespaces, k \in Kinds :
                view[g][k].p # Null => Filed({p})[g][k].p # Null
        BY <3>1, FiledSound
    <3>3. canvases \cup pending \subseteq loaded /\ pending \cap canvases = {}
          /\ canvases \subseteq Canvases /\ pending \subseteq Canvases
        BY DEF IInv, CanvasInv, Types
    <3> QED BY <2>1, <1>1, <1>2, <3>2, <3>3
  <2>2. CASE pending' = pending \cup {p} /\ UNCHANGED <<canvases, view>>
      BY <2>2, <1>1, <1>2 DEF IInv, CanvasInv, Types
  <2> QED BY <2>1, <2>2 DEF Load
<1>4. \A g \in Gamespaces : view[g]["root"].p # Null => view'[g]["root"].p # Null
    BY <1>3 DEF Kinds
<1>5. Types'
    BY <1>1, <1>3 DEF IInv, Types
<1>6. CanvasInv'
    BY <1>1, <1>3 DEF CanvasInv
<1>7. MaskInv'
    BY <1>1 DEF IInv, MaskInv, MaskMatchesBit
<1>8. PageInv'
    BY <1>1, <1>4 DEF IInv, PageInv, HeartbeatMeansMusic
<1>9. HeldInv'
    BY <1>1, <1>4, KeysAssumption DEF IInv, HeldInv, HeldIsDown, Types
<1> QED BY <1>5, <1>6, <1>7, <1>8, <1>9 DEF IInv

\* A canvas is unloaded: only its own view is emptied, and a root takes the
\* page, the heartbeat and every held key with it.
LEMMA UnloadKeeps ==
    ASSUME IInv, NEW p \in Canvases, Unload(p)
    PROVE  IInv'
<1>1. /\ loaded' = loaded \ {p} /\ pending' = pending \ {p} /\ canvases' = canvases \ {p}
      /\ look' = [look EXCEPT ![p] = "own"]
      /\ UNCHANGED <<masked, fault, live, bit, down>>
    BY DEF Unload
<1>2. view \in [Gamespaces -> [Kinds -> Views]] /\ p.gs \in Gamespaces /\ p.kind \in Kinds
    BY CanvasesAssumption DEF IInv, CanvasInv, ViewsSound
<1>3. NoView \in Views /\ NoView.p = Null /\ NoView.was = "unsaved"
    BY DEF NoView, Views
<1>4. /\ view' \in [Gamespaces -> [Kinds -> Views]]
      /\ \A g \in Gamespaces, k \in Kinds :
            IF g = p.gs /\ k = p.kind /\ p \in canvases /\ view[g][k].p = p
            THEN view'[g][k] = NoView ELSE view'[g][k] = view[g][k]
  <2>1. CASE p \in canvases /\ view[p.gs][p.kind].p = p
    <3>1. view' = [view EXCEPT ![p.gs][p.kind] = NoView]
        BY <2>1 DEF Unload
    <3> HIDE DEF NoView
    <3> QED BY <2>1, <3>1, <1>2, <1>3
  <2>2. CASE ~(p \in canvases /\ view[p.gs][p.kind].p = p)
    <3>1. view' = view
        BY <2>2 DEF Unload
    <3> QED BY <2>2, <3>1, <1>2
  <2> QED BY <2>1, <2>2
<1>5. \A g \in Gamespaces, k \in Kinds :
         /\ view'[g][k].p \in {Null, view[g][k].p} /\ view'[g][k].p # p
         /\ view'[g][k].was \in {"unsaved", view[g][k].was}
         /\ view[g][k].p # p => /\ view'[g][k].p = view[g][k].p
                                /\ view'[g][k].was = view[g][k].was
  <2> SUFFICES ASSUME NEW g \in Gamespaces, NEW k \in Kinds
               PROVE  /\ view'[g][k].p \in {Null, view[g][k].p} /\ view'[g][k].p # p
                      /\ view'[g][k].was \in {"unsaved", view[g][k].was}
                      /\ view[g][k].p # p => /\ view'[g][k].p = view[g][k].p
                                             /\ view'[g][k].was = view[g][k].was
      OBVIOUS
  <2>1. view[g][k].p = p => p \in canvases /\ p.gs = g /\ p.kind = k
      BY NullAssumption DEF IInv, CanvasInv, ViewsSound
  <2>2. p # Null
      BY NullAssumption
  <2> QED BY <1>3, <1>4, <2>1, <2>2
<1>6. IF p \in canvases /\ p.kind = "root"
      THEN page' = [page EXCEPT ![p.gs] = "Stock"] /\ held' = {} /\ heartbeat' = FALSE
      ELSE UNCHANGED <<page, held, heartbeat>>
    BY DEF Unload
<1>7. Types'
  <2>1. look' \in [Canvases -> {"own", "hidden"}]
      BY <1>1 DEF IInv, Types
  <2>2. page' \in [Gamespaces -> {"Stock", "Tools", "Music"}] /\ held' \subseteq Keys
        /\ heartbeat' \in BOOLEAN
      BY <1>2, <1>6 DEF IInv, Types
  <2> QED BY <1>1, <2>1, <2>2 DEF IInv, Types
<1>8. CanvasInv'
  <2>1. pending' \cup canvases' \subseteq loaded' /\ pending' \cap canvases' = {}
      BY <1>1 DEF IInv, CanvasInv
  <2>2. ViewsSound(view', canvases')
    <3>1. \A g \in Gamespaces, k \in Kinds :
             /\ view[g][k].was # "hidden"
             /\ view[g][k].p # Null => /\ view[g][k].p \in canvases
                                       /\ view[g][k].p.gs = g /\ view[g][k].p.kind = k
        BY DEF IInv, CanvasInv, ViewsSound
    <3>2. \A g \in Gamespaces, k \in Kinds :
             /\ view'[g][k].was # "hidden"
             /\ view'[g][k].p # Null => /\ view'[g][k].p \in canvases'
                                        /\ view'[g][k].p.gs = g /\ view'[g][k].p.kind = k
        BY <3>1, <1>1, <1>5
    <3> QED BY <3>2, <1>4 DEF ViewsSound
  <2>3. LooksSound(view', canvases', look')
    <3> SUFFICES ASSUME NEW q \in Canvases, look'[q] = "hidden"
                 PROVE  q \in canvases' /\ (view'[q.gs][q.kind].p = q => view'[q.gs][q.kind].was = "own")
        BY DEF LooksSound
    <3>1. q # p /\ look[q] = "hidden"
        BY <1>1 DEF IInv, Types
    <3>2. q \in canvases /\ (view[q.gs][q.kind].p = q => view[q.gs][q.kind].was = "own")
        BY <3>1 DEF IInv, CanvasInv, LooksSound
    <3>3. q.gs \in Gamespaces /\ q.kind \in Kinds /\ q # Null
        BY CanvasesAssumption, NullAssumption
    <3> QED BY <3>1, <3>2, <3>3, <1>1, <1>5
  <2> QED BY <2>1, <2>2, <2>3 DEF CanvasInv
<1>9. MaskInv'
    BY <1>1 DEF IInv, MaskInv, MaskMatchesBit
<1>10. PageInv' /\ HeldInv'
  <2>1. CASE p \in canvases /\ p.kind = "root"
    <3>1. \A g \in Gamespaces : page'[g] # "Stock" => page[g] # "Stock" /\ g # p.gs
        BY <2>1, <1>6 DEF IInv, Types
    <3>2. \A g \in Gamespaces : view[g]["root"].p = p => g = p.gs
        BY NullAssumption DEF IInv, CanvasInv, ViewsSound, Kinds
    <3>3. \A g \in Gamespaces : page'[g] # "Stock" => view'[g]["root"].p # Null
        BY <3>1, <3>2, <1>5 DEF IInv, PageInv, Kinds
    <3> QED BY <2>1, <1>6, <3>3 DEF PageInv, HeldInv, HeartbeatMeansMusic, HeldIsDown
  <2>2. CASE ~(p \in canvases /\ p.kind = "root")
    <3>1. UNCHANGED <<page, held, heartbeat>>
        BY <2>2, <1>6
    <3>2. \A g \in Gamespaces : view[g]["root"].p # p
      <4> SUFFICES ASSUME NEW g \in Gamespaces, view[g]["root"].p = p PROVE FALSE
          OBVIOUS
      <4>1. "root" \in Kinds /\ p # Null
          BY NullAssumption DEF Kinds
      <4> QED BY <4>1, <2>2 DEF IInv, CanvasInv, ViewsSound
    <3>3. \A g \in Gamespaces : view'[g]["root"].p = view[g]["root"].p
        BY <3>2, <1>5 DEF Kinds
    <3>4. PageInv'
        BY <3>1, <3>3 DEF IInv, PageInv, HeartbeatMeansMusic
    <3>5. HeldInv'
        BY <3>1, <3>3, <1>1, KeysAssumption DEF IInv, HeldInv, HeldIsDown, Types
    <3> QED BY <3>4, <3>5
  <2> QED BY <2>1, <2>2
<1> QED BY <1>7, <1>8, <1>9, <1>10 DEF IInv

\* A button update, with the canvases of `attached` filed first.
LEMMA ButtonUpdateKeeps ==
    ASSUME IInv, NEW g \in Gamespaces, NEW v, NEW attached \in SUBSET pending,
           ViewsSound(v, canvases \cup attached), LooksSound(v, canvases \cup attached, look),
           \A h \in Gamespaces, k \in Kinds : view[h][k].p # Null => v[h][k].p # Null,
           canvases' = canvases \cup attached, pending' = pending \ attached,
           Gate(g, v) \/ GateRefuses, Render(g, v), UpdateFrame
    PROVE  IInv'
<1>1. UNCHANGED <<page, held, loaded, live, down>>
    BY DEF UpdateFrame
<1>2. canvases \cup attached \subseteq loaded /\ loaded \subseteq Canvases
    BY DEF IInv, CanvasInv, Types
<1>3. /\ MaskInv'
      /\ masked' \in [Gamespaces -> SUBSET Buttons]
      /\ bit' \in [Buttons -> {"clear", "ours", "other"}]
      /\ fault' \in BOOLEAN /\ (fault => fault')
    BY <1>1, GateKeeps
<1>4. /\ ViewsSound(view', canvases') /\ LooksSound(view', canvases', look')
      /\ look' \in [Canvases -> {"own", "hidden"}]
      /\ \A h \in Gamespaces, k \in Kinds : view'[h][k].p = v[h][k].p
      /\ heartbeat' \in BOOLEAN
      /\ heartbeat' => heartbeat \/ page[g] = "Music"
  <2>1. canvases \cup attached \in SUBSET Canvases
      BY <1>2
  <2> QED BY <2>1, RenderKeeps
<1>5. PageInv' /\ HeldInv'
    BY <1>3, <1>4, UpdateKeeps
<1>6. CanvasInv'
    BY <1>1, <1>2, <1>4 DEF IInv, CanvasInv
<1>7. Types'
    BY <1>1, <1>2, <1>3, <1>4 DEF IInv, Types
<1> QED BY <1>3, <1>5, <1>6, <1>7 DEF IInv

LEMMA UpdatesKeep ==
    ASSUME IInv, NEW g \in Gamespaces, BeforeUpdate(g) \/ AfterUpdate(g) \/ RefusedUpdate(g)
    PROVE  IInv'
<1>1. CASE BeforeUpdate(g)
  <2>1. PICK attached \in SUBSET pending :
           /\ canvases' = canvases \cup attached /\ pending' = pending \ attached
           /\ Gate(g, Filed(attached)) /\ Render(g, Filed(attached)) /\ UpdateFrame
      BY <1>1 DEF BeforeUpdate
  <2>2. attached \in SUBSET (Canvases \ canvases)
      BY DEF IInv, CanvasInv, Types
  <2>3. /\ ViewsSound(Filed(attached), canvases \cup attached)
        /\ LooksSound(Filed(attached), canvases \cup attached, look)
        /\ \A h \in Gamespaces, k \in Kinds :
              view[h][k].p # Null => Filed(attached)[h][k].p # Null
      BY <2>2, FiledSound
  <2> QED BY <2>1, <2>3, ButtonUpdateKeeps
<1>2. CASE AfterUpdate(g) \/ RefusedUpdate(g)
  <2>1. /\ Gate(g, view) \/ GateRefuses
        /\ Render(g, view) /\ UpdateFrame /\ canvases' = canvases /\ pending' = pending
      BY <1>2 DEF AfterUpdate, RefusedUpdate
  <2>2. /\ {} \in SUBSET pending
        /\ canvases' = canvases \cup {} /\ pending' = pending \ {}
      BY <2>1
  <2>3. canvases \cup {} = canvases
      OBVIOUS
  <2>4. /\ ViewsSound(view, canvases \cup {}) /\ LooksSound(view, canvases \cup {}, look)
        /\ \A h \in Gamespaces, k \in Kinds : view[h][k].p # Null => view[h][k].p # Null
      BY <2>3 DEF IInv, CanvasInv
  <2> QED BY <2>1, <2>2, <2>4, ButtonUpdateKeeps
<1> QED BY <1>1, <1>2

\* A press holds its key and may change the page, a release gives it up; both
\* only on a tablet with a root.
LEMMA DispatchKeeps ==
    ASSUME IInv, NEW key \in Keys, Press(key) \/ LetGo(key)
    PROVE  IInv'
<1>1. UNCHANGED <<view, masked, canvases, pending, fault, loaded, look, live, bit>>
    BY DEF Press, LetGo
<1>2. key[1] \in Gamespaces
    BY KeysAssumption
<1>3. MaskInv' /\ CanvasInv'
    BY <1>1 DEF IInv, MaskInv, MaskMatchesBit, CanvasInv
<1>4. CASE Press(key)
  <2> DEFINE g == key[1]
  <2>1. CASE ~fault /\ key[3] \in Ours /\ view[g]["root"].p # Null /\ key \notin held
    <3>1. held' = held \cup {key} /\ down' = down \cup {key} /\ Choose(g, key[3])
        BY <1>4, <2>1 DEF Press
    <3>2. /\ page' \in [Gamespaces -> {"Stock", "Tools", "Music"}]
          /\ heartbeat' \in BOOLEAN
          /\ \A h \in Gamespaces : h # g => page'[h] = page[h]
          /\ heartbeat' => heartbeat /\ (page' = page \/ page'[g] = "Music")
      <4>1. page \in [Gamespaces -> {"Stock", "Tools", "Music"}] /\ heartbeat \in BOOLEAN
          BY DEF IInv, Types
      <4>2. \/ page' = [page EXCEPT ![g] = "Stock"] /\ heartbeat' = FALSE
            \/ page' = [page EXCEPT ![g] = "Tools"] /\ heartbeat' = FALSE
            \/ page' = [page EXCEPT ![g] = "Music"] /\ UNCHANGED heartbeat
            \/ UNCHANGED <<page, heartbeat>>
        <5>1. CASE key[3] = "stock"
            BY <3>1, <5>1 DEF Choose
        <5>2. CASE key[3] = "TAB"
            BY <3>1, <5>2 DEF Choose
        <5>3. CASE key[3] = "MUSIC_TAB"
            BY <3>1, <5>3 DEF Choose
        <5>4. CASE key[3] \notin {"stock", "TAB", "MUSIC_TAB"}
            BY <3>1, <5>4 DEF Choose
        <5> QED BY <5>1, <5>2, <5>3, <5>4
      <4>3. ASSUME NEW name \in {"Stock", "Tools", "Music"}, page' = [page EXCEPT ![g] = name]
            PROVE  /\ page' \in [Gamespaces -> {"Stock", "Tools", "Music"}]
                   /\ page'[g] = name /\ \A h \in Gamespaces : h # g => page'[h] = page[h]
          BY <4>1, <4>3, <1>2
      <4>4. CASE page' = [page EXCEPT ![g] = "Stock"] /\ heartbeat' = FALSE
          BY <4>3, <4>4
      <4>5. CASE page' = [page EXCEPT ![g] = "Tools"] /\ heartbeat' = FALSE
          BY <4>3, <4>5
      <4>6. CASE page' = [page EXCEPT ![g] = "Music"] /\ UNCHANGED heartbeat
          BY <4>1, <4>3, <4>6
      <4>7. CASE UNCHANGED <<page, heartbeat>>
          BY <4>1, <4>7
      <4> QED BY <4>2, <4>4, <4>5, <4>6, <4>7
    <3>3. \A h \in Gamespaces : page'[h] # "Stock" => view[h]["root"].p # Null
        BY <3>2, <2>1 DEF IInv, PageInv
    <3>4. HeartbeatMeansMusic'
        BY <3>2, <3>3, <2>1, <1>1, <1>2 DEF IInv, PageInv, HeartbeatMeansMusic
    <3>5. HeldInv'
        BY <3>1, <2>1, <1>1 DEF IInv, HeldInv, HeldIsDown
    <3>6. Types'
        BY <3>1, <3>2, <1>1 DEF IInv, Types
    <3> QED BY <3>3, <3>4, <3>5, <3>6, <1>1, <1>3 DEF IInv, PageInv
  <2>2. CASE ~(~fault /\ key[3] \in Ours /\ view[g]["root"].p # Null /\ key \notin held)
    <3>1. UNCHANGED <<held, page, heartbeat>> /\ down' = down \cup {key}
        BY <1>4, <2>2 DEF Press
    <3>2. PageInv' /\ HeldInv' /\ Types'
        BY <3>1, <1>1
        DEF IInv, PageInv, HeartbeatMeansMusic, HeldInv, HeldIsDown, Types
    <3> QED BY <3>2, <1>3 DEF IInv
  <2> QED BY <2>1, <2>2
<1>5. CASE LetGo(key)
  <2>1. down' = down \ {key} /\ UNCHANGED <<page, heartbeat>>
      BY <1>5 DEF LetGo
  <2>2. held' \subseteq held /\ (~fault => key \notin held')
    <3>1. CASE ~fault /\ key[3] \in Ours /\ view[key[1]]["root"].p # Null
        BY <3>1, <1>5 DEF LetGo
    <3>2. CASE ~(~fault /\ key[3] \in Ours /\ view[key[1]]["root"].p # Null)
      <4>1. held' = held
          BY <3>2, <1>5 DEF LetGo
      <4> QED BY <4>1, <3>2 DEF IInv, HeldInv
    <3> QED BY <3>1, <3>2
  <2>3. HeldInv' /\ PageInv' /\ Types'
    <3>1. HeldInv'
        BY <2>1, <2>2, <1>1 DEF IInv, HeldInv, HeldIsDown
    <3>2. PageInv' /\ Types'
        BY <2>1, <2>2, <1>1 DEF IInv, PageInv, HeartbeatMeansMusic, Types
    <3> QED BY <3>1, <3>2
  <2> QED BY <2>3, <1>3 DEF IInv
<1> QED BY <1>4, <1>5

\* Buttons come with a bit that is not ours, and go with theirs.
LEMMA ButtonsKeep ==
    ASSUME IInv, NEW b \in Buttons, MakeButton(b) \/ DropButton(b)
    PROVE  IInv'
<1>1. UNCHANGED <<page, view, masked, canvases, pending, held, fault, heartbeat, loaded, look, down>>
    BY DEF MakeButton, DropButton, ours
<1>2. CanvasInv' /\ PageInv' /\ HeldInv'
    BY <1>1 DEF IInv, CanvasInv, PageInv, HeartbeatMeansMusic, HeldInv, HeldIsDown
<1>3. CASE MakeButton(b)
  <2>1. PICK owner \in {"clear", "other"} : bit' = [bit EXCEPT ![b] = owner]
      BY <1>3 DEF MakeButton
  <2>2. b \notin masked[b.gs] /\ live' = live \cup {b}
      BY <1>3 DEF MakeButton
  <2>3. Types'
      BY <1>1, <2>1, <2>2 DEF IInv, Types
  <2>4. MaskInv'
      BY <1>1, <2>1, <2>2, ButtonsAssumption DEF IInv, MaskInv, MaskMatchesBit, Types
  <2> QED BY <1>2, <2>3, <2>4 DEF IInv
<1>4. CASE DropButton(b)
  <2>1. live' = live \ {b} /\ bit' = [bit EXCEPT ![b] = "clear"]
      BY <1>4 DEF DropButton
  <2>2. Types' /\ MaskInv'
      BY <1>1, <2>1 DEF IInv, MaskInv, MaskMatchesBit, Types
  <2> QED BY <1>2, <2>2 DEF IInv
<1> QED BY <1>3, <1>4

----------------------------------------------------------------------------
(* The theorems *)

\* The inductive invariant of the tablet pages.
THEOREM Invariance == Spec => []IInv
<1>1. Init => IInv
    BY InitInv
<1>2. IInv /\ [Next]_vars => IInv'
  <2> SUFFICES ASSUME IInv, [Next]_vars PROVE IInv'
      OBVIOUS
  <2>1. ASSUME NEW p \in Canvases, Load(p) PROVE IInv'
      BY <2>1, LoadKeeps
  <2>2. ASSUME NEW p \in Canvases, Unload(p) PROVE IInv'
      BY <2>2, UnloadKeeps
  <2>3. ASSUME NEW g \in Gamespaces, BeforeUpdate(g) \/ AfterUpdate(g) \/ RefusedUpdate(g)
        PROVE  IInv'
      BY <2>3, UpdatesKeep
  <2>4. ASSUME NEW key \in Keys, Press(key) \/ LetGo(key) PROVE IInv'
      BY <2>4, DispatchKeeps
  <2>5. ASSUME NEW b \in Buttons, MakeButton(b) \/ DropButton(b) PROVE IInv'
      BY <2>5, ButtonsKeep
  <2>6. CASE UNCHANGED vars
      BY <2>6 DEF vars, IInv, Types, CanvasInv, MaskInv, MaskMatchesBit, PageInv,
                  HeartbeatMeansMusic, HeldInv, HeldIsDown
  <2> QED BY <2>1, <2>2, <2>3, <2>4, <2>5, <2>6 DEF Next
<1> QED BY <1>1, <1>2, PTL DEF Spec

\* The types of pages, views, buttons and keys.
THEOREM TypeCorrect == Spec => []TypeOK
<1>1. IInv => TypeOK
  <2> SUFFICES ASSUME IInv PROVE TypeOK
      OBVIOUS
  <2>1. \A g \in Gamespaces, k \in Kinds : view[g][k] \in Views
      BY DEF IInv, CanvasInv, ViewsSound
  <2>2. \A g \in Gamespaces : masked[g] \subseteq Buttons
      BY DEF IInv, Types
  <2> QED BY <2>1, <2>2 DEF TypeOK, IInv, Types, Views
<1> QED BY <1>1, Invariance, PTL

\* No view and no canvas kept for a retry outlives the game's canvas.
THEOREM CanvasesAreLoaded == Spec => []NoDanglingCanvas
<1>1. IInv => NoDanglingCanvas
    BY DEF IInv, CanvasInv, ViewsSound, NoDanglingCanvas
<1> QED BY <1>1, Invariance, PTL

\* The list of masked buttons and the engine's disable bits agree.
THEOREM MasksMatchBits == Spec => []MaskMatchesBit
<1>1. IInv => MaskMatchesBit
    BY DEF IInv, MaskInv
<1> QED BY <1>1, Invariance, PTL

\* The music worker is kept busy only for a Music page on a tablet that is there.
THEOREM BeatsOnlyForMusic == Spec => []HeartbeatMeansMusic
<1>1. IInv => HeartbeatMeansMusic
    BY DEF IInv, PageInv
<1> QED BY <1>1, Invariance, PTL

\* Nothing stays held after its release.
THEOREM NothingStuck == Spec => []HeldIsDown
<1>1. IInv => HeldIsDown
    BY DEF IInv, HeldInv
<1> QED BY <1>1, Invariance, PTL

\* Hidden stock content can be put back as the game left it.
THEOREM HiddenComesBack == Spec => []HiddenIsRemembered
<1>1. IInv => HiddenIsRemembered
  <2> SUFFICES ASSUME IInv, NEW p \in loaded, look[p] = "hidden", view[p.gs][p.kind].p = p
               PROVE  view[p.gs][p.kind] = [p |-> p, was |-> "own"]
      BY DEF HiddenIsRemembered
  <2>1. p \in Canvases
      BY DEF IInv, Types
  <2>2. view[p.gs][p.kind].was = "own"
      BY <2>1 DEF IInv, CanvasInv, LooksSound
  <2>3. view[p.gs][p.kind] \in Views
      BY <2>1, CanvasesAssumption DEF IInv, CanvasInv, ViewsSound
  <2> QED BY <2>2, <2>3 DEF Views
<1> QED BY <1>1, Invariance, PTL
====
