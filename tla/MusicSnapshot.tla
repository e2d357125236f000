---- MODULE MusicSnapshot ----
(***************************************************************************)
(* What the Music page shows: MusicWorker polls Windows' media sessions    *)
(* and publishes text under a named mutex and numbers one by one; the      *)
(* tablet copies them into a cached snapshot on every frame it draws,      *)
(* taking the mutex only when the update counter has moved.                *)
(*                                                                         *)
(* Text is the number of the poll that produced it, in two halves (title,  *)
(* and artist with source) because it is copied with several memcpy.  The  *)
(* worker may die at any step, also inside the critical section: Windows   *)
(* then hands the mutex to the next waiter with WAIT_ABANDONED, which      *)
(* neither side's code treats as having acquired it.                       *)
(***************************************************************************)
EXTENDS Integers, Sequences, SequencesExt, TLC

CONSTANTS Readings,   \* what one look at Windows' media sessions may return
          MaxPolls    \* bound: polls over all sessions of the worker

\* The numbers in the order poll() writes them and snapshot() reads them; the
\* worker writes the session count before the text.
WriteOrder == <<"playback", "position", "duration", "volume">>
ReadOrder == <<"playback", "position", "duration", "volume", "sessions">>
Fields == ToSet(ReadOrder)

\* start() stores these; poll() publishes them when there is no player.
NoReading == [sessions |-> 0, playback |-> 0, position |-> -1, duration |-> -1, volume |-> -1]
NoText == [title |-> 0, artist |-> 0]

\* poll() clamps the position into the track before publishing either.
ASSUME ReadingsAssumption ==
    \A r \in Readings : /\ DOMAIN r = Fields
                        /\ r.duration < 0 \/ (0 <= r.position /\ r.position <= r.duration)
ASSUME MaxPollsAssumption == MaxPolls \in Nat

VARIABLES text, num, updates,   \* the shared block
          mutex,                \* owner, recursion depth, left by a dead owner
          wpc, reading,         \* the worker's place, what it has gathered
          next,                 \* index of the next number, per process
          cpc, seen, cached,    \* the client's place, `updated`, its snapshot
          polls,                \* history: polls begun so far
          base,                 \* history: polls begun before this start()
          published,            \* history: newest text published at each count
          orphaned              \* history: a worker died owning the mutex

block == <<text, num, updates>>
history == <<polls, base, published, orphaned>>
vars == <<text, num, updates, mutex, wpc, reading, next, cpc, seen, cached, polls, base, published, orphaned>>

FreeMutex == [owner |-> "none", depth |-> 0, left |-> FALSE]
Outcomes == {"object", "abandoned", "timeout"}

\* WaitForSingleObject on a mutex: recursive for its owner, abandoned when the
\* last owner died with it; a timed wait on a busy mutex ends in a timeout.
Wait(p, outcome) ==
    CASE outcome = "object" ->
           /\ mutex.owner = p \/ (mutex.owner = "none" /\ ~mutex.left)
           /\ mutex' = [mutex EXCEPT !.owner = p, !.depth = @ + 1]
      [] outcome = "abandoned" ->
           /\ mutex.owner = "none" /\ mutex.left
           /\ mutex' = [owner |-> p, depth |-> 1, left |-> FALSE]
      [] outcome = "timeout" ->
           /\ mutex.owner \notin {p, "none"}
           /\ UNCHANGED mutex

\* Bug variant of Release: one level too few is given back.
ReleaseForgotten == UNCHANGED mutex

\* Bug variant of Release: the depth goes down but the owner stays.
ReleaseKeepsOwner == mutex' = [mutex EXCEPT !.depth = @ - 1]
Release == mutex' = IF mutex.depth = 1 THEN FreeMutex ELSE [mutex EXCEPT !.depth = @ - 1]

EmptySnapshot ==
    [f \in Fields \cup {"title", "artist", "updates"} |-> IF f \in Fields THEN NoReading[f] ELSE 0]

Init == /\ text = NoText /\ num = NoReading /\ updates = 0
        /\ mutex = FreeMutex
        /\ wpc = "dead" /\ reading = NoReading
        /\ next = [worker |-> 1, client |-> 1]
        /\ cpc = "idle" /\ seen = 0 /\ cached = EmptySnapshot
        /\ polls = 0 /\ base = 0 /\ published = <<>> /\ orphaned = FALSE

----------------------------------------------------------------------------
(* The worker: poll() *)

\* Sessions are listed and one is picked; its count goes out at once.
Gather(r) ==
    /\ wpc = "gather"
    /\ polls < MaxPolls
    /\ polls' = polls + 1
    /\ reading' = r
    /\ num' = [num EXCEPT !.sessions = r.sessions]
    /\ wpc' = "lock"
    /\ UNCHANGED <<text, updates, mutex, next, cpc, seen, cached, base, published, orphaned>>

\* apply(): between two polls a volume command writes the new level at once, -1
\* when the player has no audio session.
SetVolume(level) ==
    /\ wpc = "gather"
    /\ num' = [num EXCEPT !.volume = level]
    /\ UNCHANGED <<text, updates, mutex, wpc, reading, next, cpc, seen, cached>> /\ UNCHANGED history

\* Bug variant of LockText: the text is copied after a timeout too.
LockTextIgnoringTimeout(outcome) ==
    /\ wpc = "lock"
    /\ Wait("worker", outcome)
    /\ wpc' = "title"
    /\ next' = [next EXCEPT !.worker = 1]
    /\ UNCHANGED <<reading, cpc, seen, cached>> /\ UNCHANGED block /\ UNCHANGED history

\* publishText(): gives up silently unless the wait returned WAIT_OBJECT_0.
LockText(outcome) ==
    /\ wpc = "lock"
    /\ Wait("worker", outcome)
    /\ wpc' = IF outcome = "object" THEN "title" ELSE "numbers"
    /\ next' = [next EXCEPT !.worker = 1]
    /\ UNCHANGED <<reading, cpc, seen, cached>> /\ UNCHANGED block /\ UNCHANGED history

CopyTitleOut ==
    /\ wpc = "title"
    /\ text' = [text EXCEPT !.title = polls]
    /\ wpc' = "artist"
    /\ UNCHANGED <<num, updates, mutex, reading, next, cpc, seen, cached>> /\ UNCHANGED history

CopyArtistOut ==
    /\ wpc = "artist"
    /\ text' = [text EXCEPT !.artist = polls]
    /\ wpc' = "release"
    /\ UNCHANGED <<num, updates, mutex, reading, next, cpc, seen, cached>> /\ UNCHANGED history

ReleaseText ==
    /\ wpc = "release"
    /\ Release
    /\ wpc' = "numbers"
    /\ UNCHANGED <<reading, next, cpc, seen, cached>> /\ UNCHANGED block /\ UNCHANGED history

PublishNumber ==
    /\ wpc = "numbers"
    /\ LET f == WriteOrder[next.worker] IN num' = [num EXCEPT ![f] = reading[f]]
    /\ next' = [next EXCEPT !.worker = @ + 1]
    /\ wpc' = IF next.worker = Len(WriteOrder) THEN "count" ELSE "numbers"
    /\ UNCHANGED <<text, updates, mutex, reading, cpc, seen, cached>> /\ UNCHANGED history

Count ==
    /\ wpc = "count"
    /\ updates' = updates + 1
    /\ published' = Append(published, text.artist)
    /\ wpc' = "gather"
    /\ reading' = NoReading
    /\ next' = [next EXCEPT !.worker = 1]
    /\ UNCHANGED <<text, num, mutex, cpc, seen, cached, polls, base, orphaned>>

\* The poll throws where it talks to Windows and main() swallows it: between
\* the text and the numbers (volumeControl) nothing is counted.
PollThrows ==
    /\ wpc = "lock" \/ (wpc = "numbers" /\ WriteOrder[next.worker] = "volume")
    /\ wpc' = "gather"
    /\ reading' = NoReading
    /\ next' = [next EXCEPT !.worker = 1]
    /\ UNCHANGED <<mutex, cpc, seen, cached>> /\ UNCHANGED block /\ UNCHANGED history

Die ==
    /\ wpc # "dead"
    /\ wpc' = "dead" /\ reading' = NoReading
    /\ next' = [next EXCEPT !.worker = 1]
    /\ IF mutex.owner = "worker"
       THEN mutex' = [FreeMutex EXCEPT !.left = TRUE] /\ orphaned' = TRUE
       ELSE UNCHANGED <<mutex, orphaned>>
    /\ UNCHANGED <<cpc, seen, cached, polls, base, published>> /\ UNCHANGED block

----------------------------------------------------------------------------
(* The client *)

\* start() with no live worker: counters, numbers and the cached snapshot are
\* reset; the text and the mutex stay as the last worker left them.
Start ==
    /\ cpc = "idle" /\ wpc = "dead"
    /\ num' = NoReading /\ updates' = 0
    /\ cached' = EmptySnapshot
    /\ base' = polls /\ published' = <<>>
    /\ wpc' \in {"gather", "dead"}
    /\ UNCHANGED <<text, mutex, reading, next, cpc, seen, polls, orphaned>>

\* snapshot(): the mutex is tried only when the counter has moved.
BeginSnapshot ==
    /\ cpc = "idle"
    /\ seen' = updates
    /\ cpc' = IF updates # cached.updates THEN "try" ELSE "numbers"
    /\ next' = [next EXCEPT !.client = 1]
    /\ UNCHANGED <<mutex, wpc, reading, cached>> /\ UNCHANGED block /\ UNCHANGED history

\* Bug variant of TryText: the counter is filed although the text was not read.
TryTextFilesAnyway(outcome) ==
    /\ cpc = "try"
    /\ Wait("client", outcome)
    /\ cpc' = IF outcome = "object" THEN "title" ELSE "numbers"
    /\ cached' = [cached EXCEPT !.updates = seen]
    /\ UNCHANGED <<wpc, reading, next, seen>> /\ UNCHANGED block /\ UNCHANGED history

\* A wait of zero milliseconds.
TryText(outcome) ==
    /\ cpc = "try"
    /\ Wait("client", outcome)
    /\ cpc' = IF outcome = "object" THEN "title" ELSE "numbers"
    /\ UNCHANGED <<wpc, reading, next, seen, cached>> /\ UNCHANGED block /\ UNCHANGED history

CopyTitleIn ==
    /\ cpc = "title"
    /\ cached' = [cached EXCEPT !.title = text.title]
    /\ cpc' = "artist"
    /\ UNCHANGED <<mutex, wpc, reading, next, seen>> /\ UNCHANGED block /\ UNCHANGED history

CopyArtistIn ==
    /\ cpc = "artist"
    /\ cached' = [cached EXCEPT !.artist = text.artist]
    /\ cpc' = "release"
    /\ UNCHANGED <<mutex, wpc, reading, next, seen>> /\ UNCHANGED block /\ UNCHANGED history

ReleaseAndFile ==
    /\ cpc = "release"
    /\ Release
    /\ cached' = [cached EXCEPT !.updates = seen]
    /\ cpc' = "numbers"
    /\ UNCHANGED <<wpc, reading, next, seen>> /\ UNCHANGED block /\ UNCHANGED history

ReadNumber ==
    /\ cpc = "numbers"
    /\ LET f == ReadOrder[next.client] IN cached' = [cached EXCEPT ![f] = num[f]]
    /\ IF next.client = Len(ReadOrder)
       THEN cpc' = "idle" /\ next' = [next EXCEPT !.client = 1] /\ seen' = 0
       ELSE cpc' = "numbers" /\ next' = [next EXCEPT !.client = @ + 1] /\ UNCHANGED seen
    /\ UNCHANGED <<mutex, wpc, reading>> /\ UNCHANGED block /\ UNCHANGED history

----------------------------------------------------------------------------

\* The steps a live worker cannot refrain from: its loop has no exit while
\* Echo lives, and Windows' media calls are taken to return.
WorkerStep ==
    \/ \E r \in Readings : Gather(r)
    \/ \E o \in Outcomes : LockText(o)
    \/ CopyTitleOut
    \/ CopyArtistOut
    \/ ReleaseText
    \/ PublishNumber
    \/ Count

ClientStep ==
    \/ BeginSnapshot
    \/ \E o \in Outcomes : TryText(o)
    \/ CopyTitleIn
    \/ CopyArtistIn
    \/ ReleaseAndFile
    \/ ReadNumber

Levels == {r.volume : r \in Readings}
Next == WorkerStep \/ ClientStep \/ PollThrows \/ Die \/ Start \/ \E level \in Levels : SetVolume(level)

\* The page is drawn on every frame while it is open, and the worker's loop
\* runs while its process lives.
Fairness == WF_vars(WorkerStep) /\ WF_vars(ClientStep)
Spec == Init /\ [][Next]_vars /\ Fairness

----------------------------------------------------------------------------
(* Properties *)

WorkerPlaces == {"dead", "gather", "lock", "title", "artist", "release", "numbers", "count"}
ClientPlaces == {"idle", "try", "title", "artist", "release", "numbers"}
ClientInside == cpc \in {"title", "artist", "release"}

TypeOK ==
    /\ text \in [{"title", "artist"} -> 0 .. MaxPolls]
    /\ DOMAIN num = Fields
    /\ updates \in 0 .. MaxPolls /\ seen \in 0 .. MaxPolls
    /\ mutex \in [owner : {"none", "worker", "client"}, depth : 0 .. 2, left : BOOLEAN]
    /\ mutex.owner = "none" <=> mutex.depth = 0
    /\ wpc \in WorkerPlaces /\ cpc \in ClientPlaces
    /\ next.worker \in DOMAIN WriteOrder \cup {Len(WriteOrder) + 1} /\ next.client \in DOMAIN ReadOrder
    /\ Len(published) = updates

\* Title and artist on the page always come from one poll, as shared.h:25
\* ("guarded by the -text mutex") intends; a worker that died inside the
\* critical section voids it.
TextWhole == ~orphaned /\ ~ClientInside => cached.title = cached.artist

\* The text filed under counter u is at least as new as the newest text
\* published when the counter reached u: reading the counter before taking
\* the mutex may show newer text under an old counter, never the reverse.
\* start() leaves the dead worker's text in the block, yet the page never shows
\* it once it reports the new worker as connected (updates > 0): the client
\* does not touch the mutex before the first poll is counted, so that poll's
\* publishText() cannot time out.
TextIsCurrent ==
    /\ ~ClientInside /\ cached.updates \in DOMAIN published =>
          cached.title >= published[cached.updates]
    /\ ~orphaned /\ cached.updates > 0 => cached.title > base

\* Text that a live worker has published and counted reaches the page.
LastPublished == IF published = <<>> THEN 0 ELSE Last(published)
TextCatchesUp ==
    \A s \in 1 .. MaxPolls :
        (wpc # "dead" /\ LastPublished = s) ~> (wpc = "dead" \/ orphaned \/ cached.title >= s)

\* client.h:34 calls the cache a "Snapshot of the worker's last poll", and
\* test_client.cpp:90 asserts that a known duration comes with a position
\* inside it.
ProgressInsideTrack ==
    cpc = "idle" =>
        cached.duration < 0 \/ (cached.position >= 0 /\ cached.position <= cached.duration)

\* The same claim for a session that outlives its worker's crash: once a live
\* worker has counted a poll, the page leaves "CONNECTING" (updates = 0).
PageConnects == (wpc # "dead" /\ updates > 0) ~> (wpc = "dead" \/ cached.updates > 0)
====
