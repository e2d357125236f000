---- MODULE DoomLink ----
(***************************************************************************)
(* The Doom page: the client in the game (client.h, with the render hooks  *)
(* of runtime.cpp that drive it) and DoomWorker, over one shared mapping.  *)
(* The page sends held keys and a heartbeat, the worker sends frames under *)
(* a named mutex.                                                          *)
(*                                                                         *)
(* The client is on two threads of the game.  Handlers, of touches, of     *)
(* button updates and of canvases, run under the runtime's lock; the       *)
(* render hooks take no lock (runtime.cpp:510-535), so that a page may     *)
(* open or close in the middle of a draw.                                  *)
(*                                                                         *)
(* The heartbeat is `fresh`: written less than 200 ms ago.  A picture is   *)
(* two halves, copied one after the other; its value is the worker it came *)
(* from and one bit that alternates from frame to frame.                   *)
(***************************************************************************)
EXTENDS Integers, Sequences

CONSTANTS KeyCount,      \* DK_COUNT
          QueueSize,     \* 64 entries of the worker's event queue
          MaxWorkers     \* bound: workers started over one run of the game

ASSUME KeyCountAssumption == KeyCount \in Nat \ {0}
ASSUME QueueSizeAssumption == QueueSize \in Nat \ {0}
ASSUME MaxWorkersAssumption == MaxWorkers \in Nat \ {0}

Keys == 0 .. KeyCount - 1

VARIABLES keys, fresh, counted, pixels,   \* the shared block; counted: frames > 0
          mutex,                          \* owner, recursion depth, left by a dead owner
          page, selected, hpc,            \* Context.page is Doom; doomSelected; the
                                          \* place of the handler
          cpc, picture, haveFrame,        \* the renderer's place, the client's pixels
          wpc, focus, oldKeys, queue,     \* the worker's place, `focus`, its queue
          workers,                        \* workers started so far
          down,                           \* keys the engine believes to be down
          dropped, orphaned,              \* history: the keys whose last event was
                                          \* dropped; a worker died owning the mutex
          overtaken                       \* history: start() fell into the draw under
                                          \* way, or into the one that copied the picture
shared == <<keys, fresh, counted, pixels>>
handler == <<page, selected, hpc>>
renderer == <<cpc, picture, haveFrame, overtaken>>
client == <<handler, renderer>>
worker == <<wpc, focus, oldKeys, queue, workers, down, dropped>>
vars == <<keys, fresh, counted, pixels, mutex, page, selected, hpc, cpc, picture, haveFrame,
          wpc, focus, oldKeys, queue, workers, down, dropped, orphaned, overtaken>>

FreeMutex == [owner |-> "none", depth |-> 0, left |-> FALSE]
Outcomes == {"object", "abandoned", "timeout"}
Blank == [top |-> 0, bottom |-> 0]

\* WaitForSingleObject on a mutex: recursive for its owner, abandoned when the
\* last owner died with it, a timeout while the other side has it.
Wait(p, outcome) ==
    CASE outcome = "object" ->
           /\ mutex.owner = p \/ (mutex.owner = "none" /\ ~mutex.left)
           /\ mutex' = [mutex EXCEPT !.owner = p, !.depth = @ + 1]
      [] outcome = "abandoned" ->
           /\ mutex.owner = "none" /\ mutex.left
           /\ mutex' = [owner |-> p, depth |-> 1, left |-> FALSE]
      [] outcome = "timeout" ->
           /\ mutex.owner \notin {p, "none"}
           /\ UNCHANGED mutex

Release == mutex' = IF mutex.depth = 1 THEN FreeMutex ELSE [mutex EXCEPT !.depth = @ - 1]

Alive == wpc # "dead"

\* The renderer is between its look for a frame and the end of the copy.
Inside == cpc \in {"top", "bottom", "release"}
Copying == cpc = "try" \/ Inside

Init == /\ keys = {} /\ fresh = FALSE /\ counted = FALSE /\ pixels = Blank
        /\ mutex = FreeMutex
        /\ page = FALSE /\ selected = FALSE /\ hpc = "idle"
        /\ cpc = "idle" /\ picture = Blank /\ haveFrame = FALSE
        /\ wpc = "dead" /\ focus = FALSE /\ oldKeys = {} /\ queue = <<>> /\ workers = 0
        /\ down = {} /\ dropped = {} /\ orphaned = FALSE /\ overtaken = "none"

----------------------------------------------------------------------------
(* The client's handlers, one at a time under the runtime's lock *)

\* A press on ? (dispatch(), start()): the page opens in any case; a worker
\* that still runs goes on, otherwise the block is reset to start a new one.
OpenPage ==
    /\ hpc = "idle"
    /\ page' = TRUE
    /\ \/ UNCHANGED <<keys, counted, hpc>>
       \/ ~Alive /\ keys' = {} /\ counted' = FALSE /\ hpc' = "launch"
    /\ UNCHANGED <<fresh, pixels, mutex, selected, renderer, worker, orphaned>>

\* The rest of start(): the picture is forgotten (Blank stands for pixels that
\* nobody looks at before they are copied again); the new worker may fail to
\* start. A draw that has found a frame before the reset goes on.
Launch ==
    /\ hpc = "launch"
    /\ hpc' = "idle"
    /\ haveFrame' = FALSE /\ picture' = IF Inside THEN picture ELSE Blank
    /\ overtaken' = IF Copying THEN "draw" ELSE "none"
    /\ \/ UNCHANGED worker
       \/ /\ workers < MaxWorkers
          /\ wpc' = "input" /\ workers' = workers + 1
          /\ focus' = FALSE /\ oldKeys' = {} /\ queue' = <<>> /\ down' = {} /\ dropped' = {}
    /\ UNCHANGED <<mutex, page, selected, cpc, orphaned>>
    /\ UNCHANGED shared

\* Another tab is pressed, or the root canvas goes and takes doomSelected with
\* it: blur() lets go of the keys, then takes back the heartbeat.
ClosePage ==
    /\ hpc = "idle"
    /\ page' = FALSE
    /\ selected' \in {selected, FALSE}
    /\ keys' = {}
    /\ hpc' = "blur"
    /\ UNCHANGED <<fresh, counted, pixels, mutex, renderer, worker, orphaned>>

Blur ==
    /\ hpc = "blur"
    /\ fresh' = FALSE
    /\ hpc' = "idle"
    /\ UNCHANGED <<keys, counted, pixels, mutex, page, selected, renderer, worker, orphaned>>

\* A touch on one of the eight controls: presses count on the Doom page only.
Key(k, press) ==
    /\ hpc = "idle"
    /\ press => page
    /\ keys' = IF press THEN keys \cup {k} ELSE keys \ {k}
    /\ UNCHANGED <<fresh, counted, pixels, mutex, client, worker, orphaned>>

\* render(), at the next button update: only now the renderer learns which
\* page is open.
Select ==
    /\ hpc = "idle" /\ selected # page
    /\ selected' = page
    /\ UNCHANGED <<mutex, page, hpc, renderer, orphaned>>
    /\ UNCHANGED shared /\ UNCHANGED worker

----------------------------------------------------------------------------
(* The client's render hooks, one draw after the other *)

BeginDraw ==
    /\ cpc = "idle" /\ selected
    /\ cpc' = "look"
    /\ UNCHANGED <<mutex, handler, picture, haveFrame, orphaned, overtaken>>
    /\ UNCHANGED shared /\ UNCHANGED worker

\* geometry(): is there a frame?
LookForFrame ==
    /\ cpc = "look"
    /\ cpc' = IF counted THEN "try" ELSE "check"
    /\ UNCHANGED <<mutex, handler, picture, haveFrame, orphaned, overtaken>>
    /\ UNCHANGED shared /\ UNCHANGED worker

TryFrame(outcome) ==
    /\ cpc = "try"
    /\ Wait("client", outcome)
    /\ \/ outcome = "object" /\ cpc' = "top" /\ UNCHANGED overtaken
       \/ /\ outcome # "object" /\ cpc' = "check"
          /\ overtaken' = IF overtaken = "draw" THEN "none" ELSE overtaken
    /\ UNCHANGED <<handler, picture, haveFrame, orphaned>>
    /\ UNCHANGED shared /\ UNCHANGED worker

CopyTopIn ==
    /\ cpc = "top"
    /\ picture' = [picture EXCEPT !.top = pixels.top]
    /\ cpc' = "bottom"
    /\ UNCHANGED <<mutex, handler, haveFrame, orphaned, overtaken>>
    /\ UNCHANGED shared /\ UNCHANGED worker

CopyBottomIn ==
    /\ cpc = "bottom"
    /\ picture' = [picture EXCEPT !.bottom = pixels.bottom]
    /\ cpc' = "release"
    /\ UNCHANGED <<mutex, handler, haveFrame, orphaned, overtaken>>
    /\ UNCHANGED shared /\ UNCHANGED worker

Copied == /\ haveFrame' = TRUE
          /\ overtaken' = IF overtaken = "draw" THEN "picture" ELSE "none"
          /\ cpc' = "check"

\* Bug variant of ReleaseFrame: the mutex is kept.
ReleaseFrameForgotten ==
    /\ cpc = "release"
    /\ Copied
    /\ UNCHANGED <<mutex, handler, picture, orphaned>>
    /\ UNCHANGED shared /\ UNCHANGED worker

ReleaseFrame ==
    /\ cpc = "release"
    /\ Release
    /\ Copied
    /\ UNCHANGED <<handler, picture, orphaned>>
    /\ UNCHANGED shared /\ UNCHANGED worker

\* elementsRender() looks whether the page is still selected, then beats:
\* shown(), also after blur() as long as it has not been told.
CheckSelected ==
    /\ cpc = "check"
    /\ cpc' = IF selected THEN "beat" ELSE "idle"
    /\ UNCHANGED <<mutex, handler, picture, haveFrame, orphaned, overtaken>>
    /\ UNCHANGED shared /\ UNCHANGED worker

Beat ==
    /\ cpc = "beat"
    /\ fresh' = TRUE
    /\ cpc' = "idle"
    /\ UNCHANGED <<keys, counted, pixels, mutex, handler, picture, haveFrame, worker, orphaned, overtaken>>

\* 200 ms pass without a beat: the page is hidden, or the game hitches.
Expire ==
    /\ fresh
    /\ fresh' = FALSE
    /\ UNCHANGED <<keys, counted, pixels, mutex, client, worker, orphaned>>

----------------------------------------------------------------------------
(* The worker *)

\* Bug variant of Report: releases are not reported.
ReportPressesOnly(q, old, new, k) ==
    IF k \in old \/ k \notin new \/ Len(q) >= QueueSize THEN q
    ELSE Append(q, [key |-> k, press |-> TRUE])

\* Bug variant of Report: one event too many fits.
ReportOneMore(q, old, new, k) ==
    IF (k \in old) = (k \in new) \/ Len(q) > QueueSize THEN q
    ELSE Append(q, [key |-> k, press |-> k \in new])

\* A round of sampleKeys(): an event for a changed key, if there is room.
Report(q, old, new, k) ==
    IF (k \in old) = (k \in new) \/ Len(q) >= QueueSize THEN q
    ELSE Append(q, [key |-> k, press |-> k \in new])

\* The queue before the loop and after each of its rounds.
Rounds(q, old, new) ==
    LET r[n \in 0 .. KeyCount] == IF n = 0 THEN q ELSE Report(r[n - 1], old, new, n - 1)
    IN r

\* sampleKeys() with what it found: the keys are remembered although an event
\* may have been dropped. The next event of the key makes up for it.
Remember(new) ==
    /\ oldKeys' = new
    /\ dropped' = {k \in Keys : IF (k \in oldKeys) = (k \in new) THEN k \in dropped
                                ELSE Len(Rounds(queue, oldKeys, new)[k]) >= QueueSize}
Waiting(new) == Rounds(queue, oldKeys, new)[KeyCount]

\* What sampleKeys(focus) finds: nothing without focus, else the held controls
\* and, while Echo's window is in front, any keys of the keyboard.
Held == IF focus THEN {keys \cup board : board \in SUBSET Keys} ELSE {{}}

\* focused(): at the top of main()'s loop and in every DG_GetKey(); what it says
\* is the argument of the next sampleKeys() and of no other.
ReadFocus ==
    /\ wpc \in {"loop", "input"}
    /\ focus' = fresh
    /\ wpc' = IF wpc = "loop" THEN "sample" ELSE "get"
    /\ UNCHANGED <<mutex, oldKeys, queue, workers, down, dropped, orphaned>>
    /\ UNCHANGED shared /\ UNCHANGED client

Sample ==
    /\ wpc = "sample"
    /\ \E new \in Held : Remember(new) /\ queue' = Waiting(new)
    /\ wpc' = "check" /\ focus' = FALSE
    /\ UNCHANGED <<mutex, workers, down, orphaned>>
    /\ UNCHANGED shared /\ UNCHANGED client

\* Bug variant of CheckFocus: no pause at all.
CheckFocusNever ==
    /\ wpc = "check"
    /\ wpc' = "input"
    /\ UNCHANGED <<mutex, focus, oldKeys, queue, workers, down, dropped, orphaned>>
    /\ UNCHANGED shared /\ UNCHANGED client

CheckFocus ==
    /\ wpc = "check"
    /\ wpc' = IF fresh THEN "input" ELSE "pause"
    /\ UNCHANGED <<mutex, focus, oldKeys, queue, workers, down, dropped, orphaned>>
    /\ UNCHANGED shared /\ UNCHANGED client

\* The first round of the pause; later rounds find nothing to release.
Pause ==
    /\ wpc = "pause"
    /\ Remember({}) /\ queue' = Waiting({})
    /\ wpc' = "paused"
    /\ UNCHANGED <<mutex, focus, workers, down, orphaned>>
    /\ UNCHANGED shared /\ UNCHANGED client

Resume ==
    /\ wpc = "paused" /\ fresh
    /\ wpc' = "input"
    /\ UNCHANGED <<mutex, focus, oldKeys, queue, workers, down, dropped, orphaned>>
    /\ UNCHANGED shared /\ UNCHANGED client

\* DG_GetKey() within the engine's I_GetEvent(): sample, then take one event;
\* the engine asks for more after a press and stops after a release, so that a
\* tick may leave events in the queue.
GetKey ==
    /\ wpc = "get"
    /\ \E new \in Held :
          /\ Remember(new)
          /\ \/ Waiting(new) = <<>> /\ queue' = <<>> /\ wpc' = "lock" /\ UNCHANGED down
             \/ /\ Waiting(new) # <<>>
                /\ queue' = Tail(Waiting(new))
                /\ LET e == Head(Waiting(new))
                   IN \/ e.press /\ down' = down \cup {e.key} /\ wpc' = "input"
                      \/ ~e.press /\ down' = down \ {e.key} /\ wpc' = "lock"
    /\ focus' = FALSE
    /\ UNCHANGED <<mutex, workers, orphaned>>
    /\ UNCHANGED shared /\ UNCHANGED client

\* Bug variant of LockFrame: the picture is copied after a timeout too.
LockFrameIgnoringTimeout(outcome) ==
    /\ wpc = "lock"
    /\ Wait("worker", outcome)
    /\ wpc' = "top"
    /\ UNCHANGED <<focus, oldKeys, queue, workers, down, dropped, orphaned>>
    /\ UNCHANGED shared /\ UNCHANGED client

\* DG_DrawFrame(): the frame is skipped unless the wait gives the mutex.
LockFrame(outcome) ==
    /\ wpc = "lock"
    /\ Wait("worker", outcome)
    /\ wpc' = IF outcome = "object" THEN "top" ELSE "loop"
    /\ UNCHANGED <<focus, oldKeys, queue, workers, down, dropped, orphaned>>
    /\ UNCHANGED shared /\ UNCHANGED client

NextPicture == IF pixels.bottom = 2 * workers THEN 2 * workers + 1 ELSE 2 * workers

CopyTopOut ==
    /\ wpc = "top"
    /\ pixels' = [pixels EXCEPT !.top = NextPicture]
    /\ wpc' = "bottom"
    /\ UNCHANGED <<keys, fresh, counted, mutex, client, focus, oldKeys, queue, workers, down, dropped, orphaned>>

CopyBottomOut ==
    /\ wpc = "bottom"
    /\ pixels' = [pixels EXCEPT !.bottom = pixels.top]
    /\ wpc' = "count"
    /\ UNCHANGED <<keys, fresh, counted, mutex, client, focus, oldKeys, queue, workers, down, dropped, orphaned>>

CountFrame ==
    /\ wpc = "count"
    /\ counted' = TRUE
    /\ wpc' = "release"
    /\ UNCHANGED <<keys, fresh, pixels, mutex, client, focus, oldKeys, queue, workers, down, dropped, orphaned>>

ReleaseWorker ==
    /\ wpc = "release"
    /\ Release
    /\ wpc' = "loop"
    /\ UNCHANGED <<focus, oldKeys, queue, workers, down, dropped, orphaned>>
    /\ UNCHANGED shared /\ UNCHANGED client

\* Doom quits through exit(), or the process is ended wherever it is.
Die ==
    /\ Alive
    /\ wpc' = "dead" /\ focus' = FALSE /\ oldKeys' = {} /\ queue' = <<>> /\ down' = {}
    /\ dropped' = {}
    /\ IF mutex.owner = "worker"
       THEN mutex' = [FreeMutex EXCEPT !.left = TRUE] /\ orphaned' = TRUE
       ELSE UNCHANGED <<mutex, orphaned>>
    /\ UNCHANGED workers /\ UNCHANGED shared /\ UNCHANGED client

----------------------------------------------------------------------------

\* The rest of a handler and of a draw that have begun.
HandlerGoesOn == Blur \/ Launch
DrawGoesOn == \/ LookForFrame \/ CopyTopIn \/ CopyBottomIn \/ ReleaseFrame \/ CheckSelected \/ Beat
              \/ \E o \in Outcomes : TryFrame(o)

WorkerStep == \/ ReadFocus \/ Sample \/ CheckFocus \/ Pause \/ Resume \/ GetKey
              \/ \E o \in Outcomes : LockFrame(o)
              \/ CopyTopOut \/ CopyBottomOut \/ CountFrame \/ ReleaseWorker

Next == \/ OpenPage \/ ClosePage \/ \E k \in Keys, press \in BOOLEAN : Key(k, press)
        \/ Select \/ HandlerGoesOn \/ BeginDraw \/ DrawGoesOn \/ Expire \/ WorkerStep \/ Die

\* The tablet is updated and drawn on every frame of the game, the worker's
\* loop runs while its process lives, and time passes; a paused worker looks
\* every 20 ms for a heartbeat that stays for 200 ms.
Fairness == /\ WF_vars(HandlerGoesOn) /\ SF_vars(Select)
            /\ WF_vars(DrawGoesOn) /\ SF_vars(BeginDraw)
            /\ WF_vars(WorkerStep) /\ SF_vars(Resume) /\ WF_vars(Expire)
Spec == Init /\ [][Next]_vars /\ Fairness

----------------------------------------------------------------------------
(* Properties *)

TypeOK ==
    /\ {keys, oldKeys, down, dropped} \subseteq SUBSET Keys
    /\ {fresh, counted, page, selected, haveFrame, focus, orphaned} \subseteq BOOLEAN
    /\ pixels \in [{"top", "bottom"} -> 0 .. 2 * MaxWorkers + 1]
    /\ picture \in [{"top", "bottom"} -> 0 .. 2 * MaxWorkers + 1]
    /\ mutex.depth \in 0 .. 2 /\ (mutex.owner = "none" <=> mutex.depth = 0)
    /\ mutex.left => orphaned
    /\ Len(queue) <= QueueSize
    /\ workers \in 0 .. MaxWorkers
    /\ hpc \in {"idle", "launch", "blur"}
    /\ cpc \in {"idle", "look", "try", "top", "bottom", "release", "check", "beat"}
    /\ overtaken \in {"none", "draw", "picture"}
    /\ wpc \in {"dead", "loop", "sample", "check", "pause", "paused", "input", "get",
                "lock", "top", "bottom", "count", "release"}

\* What the engine, with the keys d down, will believe to be down once it has
\* taken every event: of each key what its last event says.
After(d, events) ==
    {k \in Keys : \/ \E i \in DOMAIN events : /\ events[i] = [key |-> k, press |-> TRUE]
                                              /\ \A j \in DOMAIN events : events[j].key = k => j <= i
                  \/ k \in d /\ \A i \in DOMAIN events : events[i].key # k}

\* The engine's idea of the keys is the sampled one, delayed by the queue: no
\* press is doubled and no release lost, except for the last event of a key if
\* the queue had no room for it; and, TabletDoom/README.md:30, "Switching to
\* another tablet page pauses Doom and releases held input": a pause has queued
\* the release of every key that was down before anything that may be pressed
\* later.
KeysFollow ==
    \A k \in Keys \ dropped :
        /\ k \in After(down, queue) <=> k \in oldKeys
        /\ wpc = "paused" => k \notin After(down, queue)

\* A picture is never made of two frames, and it is the current worker's: of a
\* worker that is gone only if start() fell between a draw's look for a frame
\* (client.h:60) and the end of its copy (62), which nothing excludes, and then
\* until the next copy.
PictureWhole ==
    ~orphaned /\ haveFrame /\ ~Inside =>
        /\ picture.top = picture.bottom
        /\ overtaken # "picture" => picture.top \in {2 * workers, 2 * workers + 1}

\* test_client.cpp:21 asserts that no frames come after blur(): the worker
\* comes to rest although it may have read the heartbeat just before, and
\* although the page may be drawn once more after blur().
ClosedPauses == (Alive /\ ~page) ~> (page \/ wpc \in {"paused", "dead"})

\* While frames() is 0 the page says "STARTING DOOM..." (runtime.cpp:190); an
\* open page with a live worker does not say so for ever.
PageStarts == (Alive /\ page) ~> (~page \/ ~Alive \/ counted \/ orphaned)

\* The same line tells the player "DOOM STOPPED | PRESS ? TO RESTART", and
\* start() takes a fresh worker after an old one has died, however it died.
RestartStarts == (Alive /\ page) ~> (~page \/ ~Alive \/ counted)
====
