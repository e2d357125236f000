---- MODULE DoomLink_proof ----
(***************************************************************************)
(* For any keys, queue and number of workers: the picture on the Doom page *)
(* is one frame, and unless start() fell into a draw the current worker's, *)
(* until a worker dies inside the critical section; and, with no such      *)
(* exception, every key the engine takes for pressed follows the sampled   *)
(* one unless its last event was dropped, and the mutex is owned at most   *)
(* twice over.                                                             *)
(***************************************************************************)
EXTENDS DoomLink, WellFoundedInduction, TLAPS

WorkerInside == wpc \in {"top", "bottom", "count", "release"}

\* The frames of the current worker.
Current == {2 * workers, 2 * workers + 1}

Types ==
    /\ workers \in Nat /\ orphaned \in BOOLEAN /\ overtaken \in {"none", "draw", "picture"}
    /\ pixels \in [top : Nat, bottom : Nat] /\ picture \in [top : Nat, bottom : Nat]
    /\ mutex \in [owner : {"none", "client", "worker"}, depth : 0 .. 1, left : BOOLEAN]

\* Nobody owns the mutex but who is inside, one level deep.
MutexInv ==
    /\ mutex.left = FALSE
    /\ mutex.owner = "none" <=> mutex.depth = 0
    /\ Inside <=> mutex.owner = "client"
    /\ WorkerInside <=> mutex.owner = "worker"

\* The block holds one frame unless one is being written; it is the current
\* worker's once that has been counted, and as long as a draw looks at it that
\* start() has not overtaken. No worker lives while start() resets the block.
PixelInv ==
    /\ wpc # "bottom" => pixels.top = pixels.bottom
    /\ wpc \in {"bottom", "count"} => pixels.top \in Current
    /\ counted \/ (Copying /\ overtaken # "draw") => pixels.top \in Current /\ pixels.bottom \in Current
    /\ hpc = "launch" => wpc = "dead" /\ ~counted

\* While the client copies, the block does not move.
CopyInv ==
    /\ cpc = "bottom" => picture.top = pixels.top
    /\ cpc = "release" => picture.top = pixels.top /\ picture.bottom = pixels.top
    /\ haveFrame /\ ~Inside => /\ picture.top = picture.bottom
                               /\ overtaken # "picture" => picture.top \in Current

Sound == Types /\ MutexInv /\ PixelInv /\ CopyInv
IInv == orphaned \in BOOLEAN /\ (~orphaned => Sound)

----------------------------------------------------------------------------

\* A wait by a process that is not inside takes the mutex or changes nothing.
LEMMA WaitGives ==
    ASSUME Types, MutexInv, NEW p \in {"client", "worker"}, NEW o \in Outcomes, Wait(p, o),
           p = "client" => ~Inside, p = "worker" => ~WorkerInside
    PROVE  /\ o # "abandoned"
           /\ o = "object" =>
                 /\ mutex.owner = "none"
                 /\ mutex' \in [owner : {"none", "client", "worker"}, depth : 0 .. 1, left : BOOLEAN]
                 /\ mutex'.owner = p /\ mutex'.depth = 1 /\ mutex'.left = FALSE
           /\ o = "timeout" => UNCHANGED mutex
<1>1. mutex.owner # p
    BY DEF MutexInv
<1>2. o # "abandoned"
    BY DEF Wait, MutexInv
<1>3. CASE o = "object"
  <2>1. mutex.owner = "none" /\ mutex' = [mutex EXCEPT !.owner = p, !.depth = @ + 1]
      BY <1>1, <1>3 DEF Wait
  <2>2. mutex.depth = 0 /\ mutex.left = FALSE
      BY <2>1 DEF MutexInv
  <2>3. mutex'.owner = p /\ mutex'.depth = 1 /\ mutex'.left = FALSE
      BY <2>1, <2>2 DEF Types
  <2>4. mutex' \in [owner : {"none", "client", "worker"}, depth : 0 .. 1, left : BOOLEAN]
    <3>1. mutex' = [owner |-> p, depth |-> mutex.depth + 1, left |-> mutex.left]
        BY <2>1 DEF Types
    <3>2. mutex.depth + 1 \in 0 .. 1 /\ mutex.left \in BOOLEAN
        BY <2>2 DEF Types
    <3> QED BY <3>1, <3>2
  <2> QED BY <1>3, <2>1, <2>3, <2>4
<1>4. CASE o = "timeout"
    BY <1>4 DEF Wait
<1> QED BY <1>2, <1>3, <1>4 DEF Outcomes

\* A release by the process inside frees the mutex.
LEMMA ReleaseGives ==
    ASSUME Types, MutexInv, Inside \/ WorkerInside, Release
    PROVE  mutex' = [owner |-> "none", depth |-> 0, left |-> FALSE]
<1>1. mutex.depth = 1
    BY DEF Types, MutexInv
<1> QED BY <1>1 DEF Release, FreeMutex

\* Opening the page: no worker lives if the block is reset.
LEMMA OpenKeeps ==
    ASSUME Sound, UNCHANGED orphaned, OpenPage
    PROVE  Sound'
<1>1. /\ UNCHANGED <<pixels, mutex, picture, haveFrame, cpc, overtaken, wpc, workers>>
      /\ \/ UNCHANGED <<counted, hpc>>
         \/ wpc = "dead" /\ counted' = FALSE
    BY DEF OpenPage, renderer, worker, Alive
<1>2. hpc # "launch"
    BY DEF OpenPage
<1> QED BY <1>1, <1>2 DEF Sound, Types, MutexInv, PixelInv, CopyInv, Inside, Copying, WorkerInside, Current

\* The rest of start(): nothing is counted or shown any more, a draw that has
\* found a frame is overtaken, and a new worker has frames of its own.
LEMMA LaunchKeeps ==
    ASSUME Sound, UNCHANGED orphaned, Launch
    PROVE  Sound'
<1>1. /\ UNCHANGED <<pixels, counted, mutex, cpc>> /\ hpc = "launch" /\ hpc' = "idle" /\ haveFrame' = FALSE
      /\ overtaken' = IF Copying THEN "draw" ELSE "none"
      /\ wpc' \in {wpc, "input"} /\ workers' \in {workers, workers + 1}
    BY DEF Launch, shared, worker
<1>2. wpc = "dead" /\ ~counted /\ ~WorkerInside /\ ~WorkerInside'
    BY <1>1 DEF Sound, PixelInv, WorkerInside
<1>3. picture' \in [top : Nat, bottom : Nat] /\ (Inside => picture' = picture)
    BY DEF Launch, Blank, Sound, Types
<1>4. (Inside' <=> Inside) /\ (Copying' <=> Copying)
    BY <1>1 DEF Inside, Copying
<1>5. Types' /\ MutexInv'
    BY <1>1, <1>2, <1>3, <1>4 DEF Sound, Types, MutexInv
<1>6. PixelInv'
    BY <1>1, <1>2, <1>4 DEF Sound, PixelInv
<1>7. CopyInv'
    BY <1>1, <1>3 DEF Sound, CopyInv, Inside
<1> QED BY <1>5, <1>6, <1>7 DEF Sound

\* The client's steps that leave block, mutex and picture alone.
LEMMA ClientKeeps ==
    ASSUME Sound, UNCHANGED orphaned,
           \/ ClosePage \/ Blur \/ Select \/ BeginDraw \/ LookForFrame \/ CheckSelected \/ Beat \/ Expire
           \/ \E k \in Keys, press \in BOOLEAN : Key(k, press)
    PROVE  Sound'
<1>1. UNCHANGED <<pixels, counted, mutex, picture, haveFrame, overtaken, wpc, workers>>
    BY DEF ClosePage, Blur, Select, BeginDraw, LookForFrame, CheckSelected, Beat, Expire, Key,
           shared, client, renderer, worker
<1>2. \/ cpc' = cpc
      \/ cpc \in {"idle", "look", "check", "beat"} /\ cpc' \in {"idle", "look", "check", "beat"}
      \/ cpc = "look" /\ cpc' = "try" /\ counted
    BY DEF ClosePage, Blur, Select, BeginDraw, LookForFrame, CheckSelected, Beat, Expire, Key,
           client, renderer
<1>3. hpc' = "launch" => hpc = "launch"
    BY DEF ClosePage, Blur, Select, BeginDraw, LookForFrame, CheckSelected, Beat, Expire, Key,
           client, handler
<1>4. (Inside' <=> Inside) /\ (Copying' => Copying \/ counted)
    BY <1>2 DEF Inside, Copying
<1>5. (cpc' = "bottom" <=> cpc = "bottom") /\ (cpc' = "release" <=> cpc = "release")
    BY <1>2
<1> QED BY <1>1, <1>3, <1>4, <1>5 DEF Sound, Types, MutexInv, PixelInv, CopyInv, WorkerInside, Current

\* The client copies a frame; the worker is outside all the while.
LEMMA CopyKeeps ==
    ASSUME Sound, UNCHANGED orphaned,
           \/ \E o \in Outcomes : TryFrame(o)
           \/ CopyTopIn \/ CopyBottomIn \/ ReleaseFrame
    PROVE  Sound'
<1>1. UNCHANGED <<pixels, counted, hpc, wpc, workers>>
    BY DEF TryFrame, CopyTopIn, CopyBottomIn, ReleaseFrame, shared, handler, worker
<1>2. ASSUME NEW o \in Outcomes, TryFrame(o) PROVE Sound'
  <2>1. /\ cpc = "try" /\ Wait("client", o) /\ UNCHANGED <<picture, haveFrame>>
        /\ cpc' = IF o = "object" THEN "top" ELSE "check"
        /\ overtaken' \in {"none", "picture", overtaken}
        /\ o = "object" => overtaken' = overtaken
        /\ overtaken' = "picture" <=> overtaken = "picture"
      BY <1>2 DEF TryFrame
  <2>2. /\ o # "abandoned"
        /\ o = "object" =>
              /\ mutex.owner = "none"
              /\ mutex' \in [owner : {"none", "client", "worker"}, depth : 0 .. 1, left : BOOLEAN]
              /\ mutex'.owner = "client" /\ mutex'.depth = 1 /\ mutex'.left = FALSE
        /\ o = "timeout" => UNCHANGED mutex
      BY <2>1, WaitGives DEF Sound, Inside
  <2>3. CASE o = "object"
      BY <1>1, <2>1, <2>2, <2>3
      DEF Sound, Types, MutexInv, PixelInv, CopyInv, Inside, Copying, WorkerInside, Current
  <2>4. CASE o = "timeout"
      BY <1>1, <2>1, <2>2, <2>4
      DEF Sound, Types, MutexInv, PixelInv, CopyInv, Inside, Copying, WorkerInside, Current
  <2> QED BY <2>2, <2>3, <2>4 DEF Outcomes
<1>3. CASE CopyTopIn
  <2>1. cpc = "top" /\ cpc' = "bottom" /\ UNCHANGED <<mutex, haveFrame, overtaken>>
        /\ picture' = [picture EXCEPT !.top = pixels.top]
      BY <1>3 DEF CopyTopIn
  <2>2. picture' \in [top : Nat, bottom : Nat] /\ picture'.top = pixels.top
      BY <2>1 DEF Sound, Types
  <2> QED BY <1>1, <2>1, <2>2
      DEF Sound, Types, MutexInv, PixelInv, CopyInv, Inside, Copying, WorkerInside, Current
<1>4. CASE CopyBottomIn
  <2>1. cpc = "bottom" /\ cpc' = "release" /\ UNCHANGED <<mutex, haveFrame, overtaken>>
        /\ picture' = [picture EXCEPT !.bottom = pixels.bottom]
      BY <1>4 DEF CopyBottomIn
  <2>2. picture' \in [top : Nat, bottom : Nat]
        /\ picture'.top = picture.top /\ picture'.bottom = pixels.bottom
      BY <2>1 DEF Sound, Types
  <2>3. wpc # "bottom"
      BY <2>1 DEF Sound, MutexInv, Inside, WorkerInside
  <2> QED BY <1>1, <2>1, <2>2, <2>3
      DEF Sound, Types, MutexInv, PixelInv, CopyInv, Inside, Copying, WorkerInside, Current
<1>5. CASE ReleaseFrame
  <2>1. cpc = "release" /\ cpc' = "check" /\ UNCHANGED picture /\ Release
        /\ overtaken' = IF overtaken = "draw" THEN "picture" ELSE "none"
      BY <1>5 DEF ReleaseFrame, Copied
  <2>2. mutex' = [owner |-> "none", depth |-> 0, left |-> FALSE]
      BY <2>1, ReleaseGives DEF Sound, Inside
  <2>3. ~WorkerInside
      BY <2>1 DEF Sound, MutexInv, Inside
  <2> QED BY <1>1, <2>1, <2>2, <2>3
      DEF Sound, Types, MutexInv, PixelInv, CopyInv, Inside, Copying, WorkerInside, Current
<1> QED BY <1>2, <1>3, <1>4, <1>5

\* The worker's steps that leave the block alone.
LEMMA WorkerKeeps ==
    ASSUME Sound, UNCHANGED orphaned,
           ReadFocus \/ Sample \/ CheckFocus \/ Pause \/ Resume \/ GetKey
    PROVE  Sound'
<1>1. UNCHANGED <<pixels, counted, mutex, hpc, picture, haveFrame, cpc, overtaken, workers>>
    BY DEF ReadFocus, Sample, CheckFocus, Pause, Resume, GetKey, shared, client, handler, renderer
<1>2. ~WorkerInside /\ ~WorkerInside' /\ wpc # "dead" /\ wpc \notin {"bottom", "count"}
      /\ wpc' \notin {"bottom", "count"}
    BY DEF ReadFocus, Sample, CheckFocus, Pause, Resume, GetKey, WorkerInside
<1> QED BY <1>1, <1>2 DEF Sound, Types, MutexInv, PixelInv, CopyInv, Inside, Copying, WorkerInside, Current

\* The worker writes a frame; the client is outside all the while.
LEMMA DrawKeeps ==
    ASSUME Sound, UNCHANGED orphaned,
           \/ \E o \in Outcomes : LockFrame(o)
           \/ CopyTopOut \/ CopyBottomOut \/ CountFrame \/ ReleaseWorker
    PROVE  Sound'
<1>1. UNCHANGED <<hpc, picture, haveFrame, cpc, overtaken, workers>> /\ wpc # "dead"
    BY DEF LockFrame, CopyTopOut, CopyBottomOut, CountFrame, ReleaseWorker, client, handler, renderer
<1>2. ASSUME NEW o \in Outcomes, LockFrame(o) PROVE Sound'
  <2>1. wpc = "lock" /\ Wait("worker", o) /\ UNCHANGED <<pixels, counted>>
        /\ wpc' = IF o = "object" THEN "top" ELSE "loop"
      BY <1>2 DEF LockFrame, shared
  <2>2. /\ o # "abandoned"
        /\ o = "object" =>
              /\ mutex.owner = "none"
              /\ mutex' \in [owner : {"none", "client", "worker"}, depth : 0 .. 1, left : BOOLEAN]
              /\ mutex'.owner = "worker" /\ mutex'.depth = 1 /\ mutex'.left = FALSE
        /\ o = "timeout" => UNCHANGED mutex
      BY <2>1, WaitGives DEF Sound, WorkerInside
  <2>3. CASE o = "object"
      BY <1>1, <2>1, <2>2, <2>3
      DEF Sound, Types, MutexInv, PixelInv, CopyInv, Inside, Copying, WorkerInside, Current
  <2>4. CASE o = "timeout"
      BY <1>1, <2>1, <2>2, <2>4
      DEF Sound, Types, MutexInv, PixelInv, CopyInv, Inside, Copying, WorkerInside, Current
  <2> QED BY <2>2, <2>3, <2>4 DEF Outcomes
<1>3. CASE CopyTopOut
  <2>1. wpc = "top" /\ wpc' = "bottom" /\ UNCHANGED <<mutex, counted>>
        /\ pixels' = [pixels EXCEPT !.top = NextPicture]
      BY <1>3 DEF CopyTopOut
  <2>2. NextPicture \in Current /\ NextPicture \in Nat
      BY DEF NextPicture, Current, Sound, Types
  <2>3. pixels' \in [top : Nat, bottom : Nat]
        /\ pixels'.top = NextPicture /\ pixels'.bottom = pixels.bottom
      BY <2>1, <2>2 DEF Sound, Types
  <2>4. ~Inside
      BY <2>1 DEF Sound, MutexInv, WorkerInside
  <2> QED BY <1>1, <2>1, <2>2, <2>3, <2>4
      DEF Sound, Types, MutexInv, PixelInv, CopyInv, Inside, Copying, WorkerInside, Current
<1>4. CASE CopyBottomOut
  <2>1. wpc = "bottom" /\ wpc' = "count" /\ UNCHANGED <<mutex, counted>>
        /\ pixels' = [pixels EXCEPT !.bottom = pixels.top]
      BY <1>4 DEF CopyBottomOut
  <2>2. pixels' \in [top : Nat, bottom : Nat]
        /\ pixels'.top = pixels.top /\ pixels'.bottom = pixels.top
      BY <2>1 DEF Sound, Types
  <2>3. ~Inside
      BY <2>1 DEF Sound, MutexInv, WorkerInside
  <2> QED BY <1>1, <2>1, <2>2, <2>3
      DEF Sound, Types, MutexInv, PixelInv, CopyInv, Inside, Copying, WorkerInside, Current
<1>5. CASE CountFrame
    BY <1>1, <1>5
    DEF CountFrame, Sound, Types, MutexInv, PixelInv, CopyInv, Inside, WorkerInside, Current
<1>6. CASE ReleaseWorker
  <2>1. wpc = "release" /\ wpc' = "loop" /\ UNCHANGED <<pixels, counted>> /\ Release
      BY <1>6 DEF ReleaseWorker, shared
  <2>2. mutex' = [owner |-> "none", depth |-> 0, left |-> FALSE]
      BY <2>1, ReleaseGives DEF Sound, WorkerInside
  <2>3. ~Inside
      BY <2>1 DEF Sound, MutexInv, WorkerInside
  <2> QED BY <1>1, <2>1, <2>2, <2>3
      DEF Sound, Types, MutexInv, PixelInv, CopyInv, Inside, Copying, WorkerInside, Current
<1> QED BY <1>2, <1>3, <1>4, <1>5, <1>6

\* A death that leaves no orphan is one outside the critical section.
LEMMA DeathKeeps ==
    ASSUME Sound, Die, ~orphaned, ~orphaned'
    PROVE  Sound'
<1>1. mutex.owner # "worker" /\ UNCHANGED <<mutex, orphaned>>
    BY DEF Die
<1>2. wpc' = "dead" /\ UNCHANGED <<pixels, counted, hpc, picture, haveFrame, cpc, overtaken, workers>>
    BY DEF Die, shared, client, handler, renderer
<1>3. ~WorkerInside /\ ~WorkerInside'
    BY <1>1, <1>2 DEF Sound, MutexInv, WorkerInside
<1> QED BY <1>1, <1>2, <1>3
    DEF Sound, Types, MutexInv, PixelInv, CopyInv, Inside, Copying, WorkerInside, Current

----------------------------------------------------------------------------

\* The inductive invariant of the Doom link's frames.
THEOREM Invariance == Spec => []IInv
<1>1. Init => IInv
  <2> SUFFICES ASSUME Init PROVE IInv
      OBVIOUS
  <2>1. Types /\ MutexInv
    <3>1. /\ mutex = [owner |-> "none", depth |-> 0, left |-> FALSE]
          /\ cpc = "idle" /\ wpc = "dead" /\ workers = 0 /\ orphaned = FALSE /\ overtaken = "none"
          /\ pixels = [top |-> 0, bottom |-> 0] /\ picture = [top |-> 0, bottom |-> 0]
        BY DEF Init, FreeMutex, Blank
    <3>2. mutex.owner = "none" /\ mutex.depth = 0 /\ mutex.left = FALSE
        BY <3>1
    <3>3. MutexInv
        BY <3>1, <3>2 DEF MutexInv, Inside, WorkerInside
    <3>4. mutex \in [owner : {"none", "client", "worker"}, depth : 0 .. 1, left : BOOLEAN]
        BY <3>1
    <3> QED BY <3>1, <3>3, <3>4 DEF Types
  <2>2. PixelInv /\ CopyInv
      BY DEF Init, Blank, PixelInv, CopyInv, Inside, Copying
  <2> QED BY <2>1, <2>2 DEF Init, IInv, Sound
<1>2. IInv /\ [Next]_vars => IInv'
  <2> SUFFICES ASSUME IInv, [Next]_vars PROVE IInv'
      OBVIOUS
  <2>1. CASE UNCHANGED vars
      BY <2>1 DEF vars, IInv, Sound, Types, MutexInv, PixelInv, CopyInv, Inside, Copying,
                  WorkerInside, Current
  <2>2. CASE Die
    <3>1. orphaned' \in BOOLEAN /\ (~orphaned' => ~orphaned)
        BY <2>2 DEF Die, IInv
    <3> QED BY <2>2, <3>1, DeathKeeps DEF IInv
  <2>3. CASE \/ OpenPage \/ ClosePage \/ \E k \in Keys, press \in BOOLEAN : Key(k, press)
             \/ Select \/ HandlerGoesOn \/ BeginDraw \/ DrawGoesOn \/ Expire \/ WorkerStep
    <3>1. UNCHANGED orphaned
        BY <2>3 DEF OpenPage, ClosePage, Key, Select, HandlerGoesOn, Blur, Launch, BeginDraw, DrawGoesOn,
              LookForFrame, TryFrame, CopyTopIn, CopyBottomIn, ReleaseFrame, CheckSelected, Beat, Expire,
              WorkerStep, ReadFocus, Sample, CheckFocus, Pause, Resume, GetKey, LockFrame, CopyTopOut,
              CopyBottomOut, CountFrame, ReleaseWorker
    <3>2. Sound => Sound'
        BY <2>3, <3>1, OpenKeeps, LaunchKeeps, ClientKeeps, CopyKeeps, WorkerKeeps, DrawKeeps
        DEF HandlerGoesOn, DrawGoesOn, WorkerStep
    <3> QED BY <3>1, <3>2 DEF IInv
  <2> QED BY <2>1, <2>2, <2>3 DEF Next
<1> QED BY <1>1, <1>2, PTL DEF Spec

\* A picture is never made of two frames, and of a worker that is gone only if
\* start() fell between a draw's look for a frame and the end of its copy.
THEOREM PictureStaysWhole == Spec => []PictureWhole
<1>1. IInv => PictureWhole
    BY DEF IInv, Sound, CopyInv, PictureWhole, Inside, Current
<1> QED BY <1>1, Invariance, PTL

----------------------------------------------------------------------------
(* The keys, and the types of everything, orphans or not *)

Event == [key : Keys, press : BOOLEAN]

Flags == /\ fresh \in BOOLEAN /\ counted \in BOOLEAN /\ page \in BOOLEAN /\ selected \in BOOLEAN
         /\ haveFrame \in BOOLEAN /\ focus \in BOOLEAN /\ orphaned \in BOOLEAN

Places ==
    /\ hpc \in {"idle", "launch", "blur"} /\ (hpc = "launch" => wpc = "dead")
    /\ cpc \in {"idle", "look", "try", "top", "bottom", "release", "check", "beat"}
    /\ overtaken \in {"none", "draw", "picture"}
    /\ wpc \in {"dead", "loop", "sample", "check", "pause", "paused", "input", "get",
                "lock", "top", "bottom", "count", "release"}

Pixels == [{"top", "bottom"} -> 0 .. 2 * MaxWorkers + 1]

Block == /\ workers \in 0 .. MaxWorkers
         /\ pixels \in Pixels /\ picture \in Pixels

\* Who is inside owns the mutex, and only inside is it owned twice over: a level
\* that was kept after an abandoned mutex is the only other one.
Levels ==
    /\ mutex \in [owner : {"none", "client", "worker"}, depth : 0 .. 2, left : BOOLEAN]
    /\ mutex.owner = "none" <=> mutex.depth = 0
    /\ mutex.left => orphaned /\ mutex.depth = 0
    /\ Inside => mutex.owner = "client"
    /\ WorkerInside => mutex.owner = "worker"
    /\ mutex.depth = 2 => \/ mutex.owner = "client" /\ Inside
                          \/ mutex.owner = "worker" /\ WorkerInside

\* The engine is behind the sampled keys by what is queued, save those whose
\* last event was dropped, and a paused worker has sampled none.
KeyInv ==
    /\ keys \subseteq Keys /\ oldKeys \subseteq Keys /\ down \subseteq Keys /\ dropped \subseteq Keys
    /\ queue \in Seq(Event) /\ Len(queue) <= QueueSize
    /\ \A k \in Keys \ dropped : k \in After(down, queue) <=> k \in oldKeys
    /\ wpc = "paused" => oldKeys = {}

LinkInv == Flags /\ Places /\ Block /\ Levels /\ KeyInv

\* Of any numbers one is the least.
LEMMA Least ==
    ASSUME NEW S, S \subseteq Nat, S # {}
    PROVE  \E n \in S : \A m \in S : n <= m
<1> DEFINE Below == OpToRel(<, Nat)
<1>1. IsWellFoundedOn(Below, Nat)
  BY NatLessThanWellFounded, Zenon
<1>2. \A m, n \in Nat : m < n => <<m, n>> \in Below
  BY DEF OpToRel
<1> HIDE DEF Below
<1>3. PICK n \in S : \A m \in S : <<m, n>> \notin Below
  BY <1>1, WFMin
<1>4. ASSUME NEW m \in S PROVE n <= m
  <2>1. m \in Nat /\ n \in Nat /\ ~(m < n)
    BY <1>2, <1>3
  <2> QED BY <2>1
<1> QED BY <1>4

\* Induction, for a set of numbers.
LEMMA UpTo ==
    ASSUME NEW S, NEW k \in Nat, 0 \in S, \A n \in 1 .. k : n - 1 \in S => n \in S
    PROVE  0 .. k \subseteq S
<1> DEFINE bad == {n \in 0 .. k : n \notin S}
<1> SUFFICES ASSUME bad # {} PROVE FALSE
  OBVIOUS
<1>1. PICK n \in bad : \A m \in bad : n <= m
  <2>1. bad \subseteq Nat
    OBVIOUS
  <2> HIDE DEF bad
  <2> QED BY <2>1, Least, Zenon
<1>2. n \in 1 .. k /\ n \notin S
  BY <1>1
<1>3. n - 1 \in 0 .. k /\ ~(n <= n - 1)
  BY <1>2
<1>4. n - 1 \in S
  BY <1>1, <1>3
<1> QED BY <1>2, <1>4

\* There is a queue after each round of sampleKeys().
LEMMA RoundsAre ==
    ASSUME NEW q, NEW old, NEW new
    PROVE  /\ Rounds(q, old, new)[0] = q
           /\ \A n \in 1 .. KeyCount :
                 Rounds(q, old, new)[n] = Report(Rounds(q, old, new)[n - 1], old, new, n - 1)
<1> DEFINE Good(r, k) == r = [n \in 0 .. k |-> IF n = 0 THEN q ELSE Report(r[n - 1], old, new, n - 1)]
           good == {k \in 0 .. KeyCount : \E r : Good(r, k)}
<1> USE KeyCountAssumption
<1>1. 0 \in good
  <2>1. Good([n \in 0 .. 0 |-> q], 0)
    OBVIOUS
  <2>2. 0 \in 0 .. KeyCount
    OBVIOUS
  <2> HIDE DEF Good
  <2>3. \E r : Good(r, 0)
    BY <2>1
  <2> QED BY <2>2, <2>3
<1>2. ASSUME NEW k \in 1 .. KeyCount, k - 1 \in good PROVE k \in good
  <2>1. PICK r : Good(r, k - 1)
    BY <1>2
  <2> DEFINE v == [n \in 0 .. k |-> IF n = k THEN Report(r[k - 1], old, new, k - 1) ELSE r[n]]
  <2>2. ASSUME NEW n \in 0 .. k
        PROVE  v[n] = IF n = 0 THEN q ELSE Report(v[n - 1], old, new, n - 1)
    <3>1. CASE n = k
      <4>1. n # 0 /\ n - 1 \in 0 .. k /\ n - 1 # k
        BY <3>1
      <4>2. v[n - 1] = r[k - 1] /\ v[n] = Report(r[k - 1], old, new, k - 1)
        BY <3>1, <4>1
      <4> QED BY <3>1, <4>1, <4>2
    <3>2. CASE n # k
      <4>1. n \in 0 .. k - 1
        BY <3>2
      <4>2. v[n] = r[n]
        BY <3>2
      <4>3. r[n] = IF n = 0 THEN q ELSE Report(r[n - 1], old, new, n - 1)
        BY <2>1, <4>1
      <4>4. n # 0 => n - 1 \in 0 .. k /\ n - 1 # k
        BY <4>1
      <4> QED BY <4>2, <4>3, <4>4
    <3> QED BY <3>1, <3>2
  <2>3. v = [n \in 0 .. k |-> v[n]]
    OBVIOUS
  <2> HIDE DEF v
  <2>4. Good(v, k)
    BY <2>2, <2>3
  <2> QED BY <2>4
<1> HIDE DEF good
<1>3. 0 .. KeyCount \subseteq good
  BY <1>1, <1>2, UpTo
<1>4. \E r : Good(r, KeyCount)
  BY <1>3 DEF good
<1>5. Rounds(q, old, new) = CHOOSE r : Good(r, KeyCount)
  BY DEF Rounds
<1>6. Good(Rounds(q, old, new), KeyCount)
  BY <1>4, <1>5
<1>7. \A n \in 0 .. KeyCount :
         Rounds(q, old, new)[n] = IF n = 0 THEN q ELSE Report(Rounds(q, old, new)[n - 1], old, new, n - 1)
  <2> DEFINE r == Rounds(q, old, new)
  <2>1. r = [n \in 0 .. KeyCount |-> IF n = 0 THEN q ELSE Report(r[n - 1], old, new, n - 1)]
    BY <1>6
  <2> HIDE DEF r
  <2>2. \A n \in 0 .. KeyCount : r[n] = IF n = 0 THEN q ELSE Report(r[n - 1], old, new, n - 1)
    BY <2>1
  <2> QED BY <2>2 DEF r
<1>8. \A n \in 1 .. KeyCount : n \in 0 .. KeyCount /\ n # 0
  OBVIOUS
<1>9. 0 \in 0 .. KeyCount
  OBVIOUS
<1> QED BY <1>7, <1>8, <1>9, Zenon

\* What the engine believes of one key after some events.
Believed(d, q, k) ==
    \/ \E i \in DOMAIN q : /\ q[i] = [key |-> k, press |-> TRUE]
                           /\ \A j \in DOMAIN q : q[j].key = k => j <= i
    \/ k \in d /\ \A i \in DOMAIN q : q[i].key # k

LEMMA AfterIs ==
    ASSUME NEW d, NEW q
    PROVE  After(d, q) \subseteq Keys /\ \A k \in Keys : k \in After(d, q) <=> Believed(d, q, k)
BY DEF After, Believed

\* One more event counts before all others.
LEMMA AfterAppend ==
    ASSUME NEW d, NEW q \in Seq(Event), NEW e \in Event
    PROVE  After(d, Append(q, e)) = IF e.press THEN After(d, q) \cup {e.key} ELSE After(d, q) \ {e.key}
<1> DEFINE p == Append(q, e)
           l == Len(q) + 1
<1>1. /\ Len(q) \in Nat /\ DOMAIN q = 1 .. Len(q) /\ DOMAIN p = 1 .. l
      /\ p[l] = e /\ \A i \in 1 .. Len(q) : p[i] = q[i]
  OBVIOUS
<1>2. e.key \in Keys /\ e.press \in BOOLEAN /\ e = [key |-> e.key, press |-> e.press]
  BY DEF Event
<1> HIDE DEF p
<1>3. ASSUME NEW k \in Keys, k # e.key PROVE Believed(d, p, k) <=> Believed(d, q, k)
  <2>1. p[l].key # k /\ p[l] # [key |-> k, press |-> TRUE]
    BY <1>1, <1>2, <1>3
  <2>2. \A i \in DOMAIN p : i \in DOMAIN q \/ i = l
    BY <1>1
  <2>3. \A i \in DOMAIN q : i \in DOMAIN p /\ p[i] = q[i]
    BY <1>1
  <2> HIDE DEF l
  <2> QED BY <2>1, <2>2, <2>3 DEF Believed
<1>4. Believed(d, p, e.key) <=> e.press
  <2>1. l \in DOMAIN p /\ p[l].key = e.key /\ \A j \in DOMAIN p : j <= l
    BY <1>1
  <2>2. ~e.press => ~Believed(d, p, e.key)
    <3>1. \A i \in DOMAIN p : l <= i => i = l
      BY <1>1
    <3>2. p[l] = [key |-> e.key, press |-> TRUE] => e.press
      BY <1>1, <1>2
    <3> QED BY <2>1, <3>1, <3>2 DEF Believed
  <2>3. e.press => Believed(d, p, e.key)
    <3>1. e.press => p[l] = [key |-> e.key, press |-> TRUE]
      BY <1>1, <1>2
    <3> QED BY <2>1, <3>1 DEF Believed
  <2> QED BY <2>2, <2>3
<1>5. \A k \in Keys : k \in After(d, p) <=> (IF k = e.key THEN e.press ELSE k \in After(d, q))
  BY <1>3, <1>4, AfterIs
<1>6. After(d, p) \subseteq Keys /\ After(d, q) \subseteq Keys
  BY AfterIs
<1>7. After(d, p) = IF e.press THEN After(d, q) \cup {e.key} ELSE After(d, q) \ {e.key}
  BY <1>2, <1>5, <1>6
<1> QED BY <1>7 DEF p

\* An event that is taken is one the engine has acted on.
LEMMA AfterTail ==
    ASSUME NEW d, NEW q \in Seq(Event), q # <<>>
    PROVE  LET e == Head(q)
           IN After(d, q) = After(IF e.press THEN d \cup {e.key} ELSE d \ {e.key}, Tail(q))
<1> DEFINE e == Head(q)
           t == Tail(q)
           f == IF e.press THEN d \cup {e.key} ELSE d \ {e.key}
<1>1. /\ Len(q) \in Nat \ {0} /\ DOMAIN q = 1 .. Len(q) /\ DOMAIN t = 1 .. Len(q) - 1
      /\ q[1] = e /\ \A i \in 1 .. Len(q) - 1 : t[i] = q[i + 1]
  OBVIOUS
<1>2. e \in Event /\ e.press \in BOOLEAN /\ e = [key |-> e.key, press |-> e.press]
  <2>1. e \in Event
    OBVIOUS
  <2> QED BY <2>1 DEF Event
<1> HIDE DEF e, t
<1>3. \A i \in 2 .. Len(q) : i - 1 \in 1 .. Len(q) - 1 /\ q[i] = t[i - 1]
  BY <1>1
<1>4. \A i \in 1 .. Len(q) - 1 : i + 1 \in 2 .. Len(q) /\ t[i] = q[i + 1] /\ i + 1 \in 1 .. Len(q)
  BY <1>1
<1>5. ASSUME NEW k \in Keys PROVE Believed(d, q, k) <=> Believed(f, t, k)
  <2>1. CASE \E i \in DOMAIN t : t[i].key = k
    <3>1. PICK i \in DOMAIN t : t[i].key = k
      BY <2>1
    <3>2. i + 1 \in DOMAIN q /\ q[i + 1].key = k /\ i + 1 > 1
      BY <1>1, <1>4, <3>1
    <3>3. ASSUME Believed(d, q, k) PROVE Believed(f, t, k)
      <4>1. PICK n \in DOMAIN q : /\ q[n] = [key |-> k, press |-> TRUE]
                                  /\ \A j \in DOMAIN q : q[j].key = k => j <= n
        BY <3>2, <3>3 DEF Believed
      <4>2. n \in 2 .. Len(q)
        BY <1>1, <3>1, <3>2, <4>1
      <4>3. n - 1 \in DOMAIN t /\ t[n - 1] = [key |-> k, press |-> TRUE]
        BY <1>1, <1>3, <4>1, <4>2
      <4>4. \A j \in DOMAIN t : t[j].key = k => j <= n - 1
        <5>1. \A j \in DOMAIN t : j + 1 \in DOMAIN q /\ t[j] = q[j + 1]
          BY <1>1, <1>4
        <5>2. \A j \in DOMAIN t : t[j].key = k => j + 1 <= n
          BY <4>1, <5>1
        <5> QED BY <1>1, <4>2, <5>2
      <4> QED BY <4>3, <4>4 DEF Believed
    <3>4. ASSUME Believed(f, t, k) PROVE Believed(d, q, k)
      <4>1. PICK n \in DOMAIN t : /\ t[n] = [key |-> k, press |-> TRUE]
                                  /\ \A j \in DOMAIN t : t[j].key = k => j <= n
        BY <3>1, <3>4 DEF Believed
      <4>2. n + 1 \in DOMAIN q /\ q[n + 1] = [key |-> k, press |-> TRUE]
        BY <1>1, <1>4, <4>1
      <4>3. \A j \in DOMAIN q : q[j].key = k => j <= n + 1
        <5>1. \A j \in 2 .. Len(q) : q[j].key = k => j - 1 <= n
          BY <1>1, <1>3, <4>1
        <5> QED BY <1>1, <4>1, <5>1
      <4> QED BY <4>2, <4>3 DEF Believed
    <3> QED BY <3>3, <3>4
  <2>2. CASE \A i \in DOMAIN t : t[i].key # k
    <3>1. Believed(f, t, k) <=> k \in f
      BY <2>2 DEF Believed
    <3>2. \A j \in DOMAIN q : q[j].key = k => j = 1
      BY <1>1, <1>3, <2>2
    <3>3. CASE e.key = k
      <4>1. 1 \in DOMAIN q /\ q[1].key = k /\ \A j \in DOMAIN q : q[j].key = k => j <= 1
        BY <1>1, <3>2, <3>3
      <4>2. Believed(d, q, k) <=> e.press
        <5>1. e.press => q[1] = [key |-> k, press |-> TRUE]
          BY <1>1, <1>2, <3>3
        <5>2. \A i \in DOMAIN q : q[i] = [key |-> k, press |-> TRUE] => i = 1 /\ e.press
          <6> TAKE i \in DOMAIN q
          <6> HAVE q[i] = [key |-> k, press |-> TRUE]
          <6>1. q[i].key = k
            OBVIOUS
          <6>2. i = 1
            BY <3>2, <6>1
          <6>3. e = [key |-> k, press |-> TRUE]
            BY <1>1, <6>2
          <6> QED BY <6>2, <6>3
        <5> QED BY <4>1, <5>1, <5>2 DEF Believed
      <4> QED BY <1>2, <3>1, <3>3, <4>2
    <3>4. CASE e.key # k
      <4>1. \A j \in DOMAIN q : q[j].key # k
        BY <1>1, <3>2, <3>4
      <4>2. \A i \in DOMAIN q : q[i] # [key |-> k, press |-> TRUE]
        BY <4>1
      <4>3. Believed(d, q, k) <=> k \in d
        BY <4>1, <4>2 DEF Believed
      <4> QED BY <1>2, <3>1, <3>4, <4>3
    <3> QED BY <3>3, <3>4
  <2> QED BY <2>1, <2>2
<1>6. After(d, q) = After(f, t)
  <2> HIDE DEF f
  <2>1. /\ After(d, q) \subseteq Keys /\ \A k \in Keys : k \in After(d, q) <=> Believed(d, q, k)
        /\ After(f, t) \subseteq Keys /\ \A k \in Keys : k \in After(f, t) <=> Believed(f, t, k)
    BY AfterIs, Zenon
  <2> QED BY <1>5, <2>1
<1> QED BY <1>6 DEF e, t

\* One round of sampleKeys(): the queue stays in its bounds, an event that finds
\* room makes the engine follow this key, and no other key is touched.
LEMMA ReportIs ==
    ASSUME NEW d, NEW q \in Seq(Event), Len(q) <= QueueSize, NEW old, NEW new, NEW k \in Keys
    PROVE  /\ Report(q, old, new, k) \in Seq(Event) /\ Len(Report(q, old, new, k)) <= QueueSize
           /\ \A m \in Keys :
                 m \in After(d, Report(q, old, new, k)) <=>
                    IF m = k /\ (k \in old) # (k \in new) /\ Len(q) < QueueSize
                    THEN m \in new ELSE m \in After(d, q)
<1> USE QueueSizeAssumption
<1>1. Len(q) \in Nat
  OBVIOUS
<1>2. CASE (k \in old) = (k \in new)
  BY <1>2 DEF Report
<1>3. CASE (k \in old) # (k \in new) /\ Len(q) >= QueueSize
  <2>1. Report(q, old, new, k) = q /\ ~(Len(q) < QueueSize)
    BY <1>1, <1>3 DEF Report
  <2> QED BY <1>3, <2>1
<1>4. CASE (k \in old) # (k \in new) /\ Len(q) < QueueSize
  <2> DEFINE e == [key |-> k, press |-> k \in new]
  <2>1. Report(q, old, new, k) = Append(q, e)
    BY <1>1, <1>4 DEF Report
  <2>2. e \in Event /\ e.key = k /\ (e.press <=> k \in new)
    <3>1. CASE k \in new
      <4>1. e = [key |-> k, press |-> TRUE]
        BY <3>1
      <4> QED BY <3>1, <4>1 DEF Event
    <3>2. CASE k \notin new
      <4>1. (k \in new) = FALSE
        BY <3>2
      <4>2. e = [key |-> k, press |-> FALSE]
        BY <4>1
      <4> QED BY <3>2, <4>2 DEF Event
    <3> QED BY <3>1, <3>2
  <2> HIDE DEF e
  <2>3. Append(q, e) \in Seq(Event) /\ Len(Append(q, e)) = Len(q) + 1
    BY <2>2
  <2>4. After(d, Append(q, e)) = IF e.press THEN After(d, q) \cup {e.key} ELSE After(d, q) \ {e.key}
    BY <2>2, AfterAppend
  <2>5. \A m \in Keys : m \in After(d, Append(q, e)) <=> IF m = k THEN m \in new ELSE m \in After(d, q)
    BY <2>2, <2>4
  <2> QED BY <1>1, <1>4, <2>1, <2>3, <2>5
<1> QED BY <1>1, <1>2, <1>3, <1>4

\* The whole of sampleKeys(): a key that changed is followed if its event found
\* room, and what the engine will believe of the others stays as it was.
LEMMA SampledKeys ==
    ASSUME NEW d, NEW q \in Seq(Event), Len(q) <= QueueSize, NEW old \in SUBSET Keys, NEW new \in SUBSET Keys
    PROVE  LET r == Rounds(q, old, new)
           IN /\ r[KeyCount] \in Seq(Event) /\ Len(r[KeyCount]) <= QueueSize
              /\ \A k \in Keys : (k \in old) # (k \in new) /\ ~(Len(r[k]) >= QueueSize)
                                => (k \in After(d, r[KeyCount]) <=> k \in new)
              /\ \A k \in Keys : (k \in old) = (k \in new)
                                => (k \in After(d, r[KeyCount]) <=> k \in After(d, q))
<1> USE KeyCountAssumption, QueueSizeAssumption
<1> DEFINE r == Rounds(q, old, new)
           Fits(k) == (k \in old) # (k \in new) /\ Len(r[k]) < QueueSize
           Bounded == {n \in 0 .. KeyCount : r[n] \in Seq(Event) /\ Len(r[n]) <= QueueSize}
           Follows == {n \in 0 .. KeyCount :
                         \A m \in Keys : m \in After(d, r[n]) <=>
                            IF m < n /\ Fits(m) THEN m \in new ELSE m \in After(d, q)}
<1>1. r[0] = q /\ \A n \in 1 .. KeyCount : r[n] = Report(r[n - 1], old, new, n - 1)
  BY RoundsAre
<1> HIDE DEF r
<1>2. 0 .. KeyCount \subseteq Bounded
  <2>1. 0 \in Bounded
    BY <1>1
  <2>2. ASSUME NEW n \in 1 .. KeyCount, n - 1 \in Bounded PROVE n \in Bounded
    <3>1. r[n - 1] \in Seq(Event) /\ Len(r[n - 1]) <= QueueSize /\ n - 1 \in Keys
      BY <2>2 DEF Keys
    <3>2. Report(r[n - 1], old, new, n - 1) \in Seq(Event)
          /\ Len(Report(r[n - 1], old, new, n - 1)) <= QueueSize
      BY <3>1, ReportIs
    <3> QED BY <1>1, <3>2
  <2> HIDE DEF Bounded
  <2> QED BY <2>1, <2>2, UpTo
<1>3. 0 .. KeyCount \subseteq Follows
  <2>1. 0 \in Follows
    <3>1. \A m \in Keys : ~(m < 0)
      BY DEF Keys
    <3> QED BY <1>1, <3>1
  <2>2. ASSUME NEW n \in 1 .. KeyCount, n - 1 \in Follows PROVE n \in Follows
    <3> DEFINE k == n - 1
    <3>1. k \in Keys /\ k \in 0 .. KeyCount
      BY DEF Keys
    <3>2. r[k] \in Seq(Event) /\ Len(r[k]) <= QueueSize
      BY <1>2, <3>1
    <3>3. \A m \in Keys : m \in After(d, r[k]) <=> IF m < k /\ Fits(m) THEN m \in new ELSE m \in After(d, q)
      BY <2>2
    <3>4. r[n] = Report(r[k], old, new, k)
      BY <1>1
    <3>5. \A m \in Keys : (m < n <=> m < k \/ m = k) /\ (m = k => ~(m < k))
      BY DEF Keys
    <3>6. \A m \in Keys : m \in After(d, r[n]) <=> IF m = k /\ Fits(k) THEN m \in new ELSE m \in After(d, r[k])
      <4>1. \A m \in Keys : m \in After(d, Report(r[k], old, new, k)) <=>
               IF m = k /\ (k \in old) # (k \in new) /\ Len(r[k]) < QueueSize
               THEN m \in new ELSE m \in After(d, r[k])
        BY <3>1, <3>2, ReportIs
      <4> HIDE DEF k
      <4> QED BY <3>4, <4>1
    <3> HIDE DEF k, Fits
    <3>7. \A m \in Keys : m \in After(d, r[n]) <=> IF m < n /\ Fits(m) THEN m \in new ELSE m \in After(d, q)
      BY <3>3, <3>5, <3>6
    <3> QED BY <3>7
  <2> HIDE DEF Follows
  <2> QED BY <2>1, <2>2, UpTo
<1>4. KeyCount \in 0 .. KeyCount /\ \A m \in Keys : m < KeyCount /\ m \in 0 .. KeyCount
  BY DEF Keys
<1>5. r[KeyCount] \in Seq(Event) /\ Len(r[KeyCount]) <= QueueSize
  BY <1>2, <1>4
<1>6. \A m \in Keys : m \in After(d, r[KeyCount]) <=> IF Fits(m) THEN m \in new ELSE m \in After(d, q)
  BY <1>3, <1>4
<1>7. \A m \in Keys : ~(Len(r[m]) >= QueueSize) => Len(r[m]) < QueueSize
  <2>1. \A m \in Keys : r[m] \in Seq(Event)
    BY <1>2, <1>4
  <2>2. \A m \in Keys : Len(r[m]) \in Nat
    BY <2>1
  <2> QED BY <2>2
<1> QED BY <1>5, <1>6, <1>7 DEF r

\* What sampleKeys() leaves behind, wherever it is called.
LEMMA SamplingKeeps ==
    ASSUME KeyInv, NEW new \in SUBSET Keys, Remember(new)
    PROVE  /\ oldKeys' \subseteq Keys /\ dropped' \subseteq Keys
           /\ Waiting(new) \in Seq(Event) /\ Len(Waiting(new)) <= QueueSize
           /\ \A k \in Keys \ dropped' : k \in After(down, Waiting(new)) <=> k \in oldKeys'
<1> DEFINE r == Rounds(queue, oldKeys, new)
<1>1. /\ r[KeyCount] \in Seq(Event) /\ Len(r[KeyCount]) <= QueueSize
      /\ \A k \in Keys : (k \in oldKeys) # (k \in new) /\ ~(Len(r[k]) >= QueueSize)
                        => (k \in After(down, r[KeyCount]) <=> k \in new)
      /\ \A k \in Keys : (k \in oldKeys) = (k \in new)
                        => (k \in After(down, r[KeyCount]) <=> k \in After(down, queue))
  BY SampledKeys DEF KeyInv
<1>2. \A k \in Keys \ dropped' : IF (k \in oldKeys) = (k \in new) THEN k \notin dropped
                               ELSE ~(Len(r[k]) >= QueueSize)
  BY DEF Remember
<1>3. Waiting(new) = r[KeyCount] /\ oldKeys' = new /\ dropped' \subseteq Keys
  BY DEF Waiting, Remember
<1> HIDE DEF r
<1>4. ASSUME NEW k \in Keys \ dropped' PROVE k \in After(down, r[KeyCount]) <=> k \in new
  <2>1. CASE (k \in oldKeys) = (k \in new)
    <3>1. k \in After(down, queue) <=> k \in oldKeys
      BY <1>2, <2>1 DEF KeyInv
    <3> QED BY <1>1, <2>1, <3>1
  <2>2. CASE (k \in oldKeys) # (k \in new)
    BY <1>1, <1>2, <2>2
  <2> QED BY <2>1, <2>2
<1> QED BY <1>1, <1>3, <1>4

\* What there is to sample.
LEMMA HeldKeys ==
    ASSUME KeyInv, NEW new \in Held
    PROVE  new \in SUBSET Keys
BY DEF Held, KeyInv

----------------------------------------------------------------------------
(* Every step keeps the types, the levels of the mutex and the keys *)

\* No picture is a picture; no events change nothing.
LEMMA BlankIs == Blank \in Pixels
<1>1. Blank = [i \in {"top", "bottom"} |-> 0] /\ 0 \in 0 .. 2 * MaxWorkers + 1
  BY MaxWorkersAssumption DEF Blank
<1> HIDE DEF Blank
<1> QED BY <1>1 DEF Pixels

LEMMA NothingAfter == <<>> \in Seq(Event) /\ Len(<<>>) = 0 /\ After({}, <<>>) = {}
<1>1. <<>> \in Seq(Event) /\ Len(<<>>) = 0 /\ DOMAIN <<>> = {}
  OBVIOUS
<1> QED BY <1>1 DEF After

LEMMA LinkInit == Init => LinkInv
<1> SUFFICES ASSUME Init PROVE LinkInv
  OBVIOUS
<1> USE KeyCountAssumption, QueueSizeAssumption, MaxWorkersAssumption
<1>1. Flags /\ Places
  BY DEF Init, Flags, Places
<1>2. Block
  BY BlankIs DEF Init, Block
<1>3. Levels
  BY DEF Init, Levels, FreeMutex, Inside, WorkerInside
<1>4. KeyInv
  BY NothingAfter DEF Init, KeyInv
<1> QED BY <1>1, <1>2, <1>3, <1>4 DEF LinkInv

\* A wait takes one more level, by a process that is inside after it.
LEMMA WaitLevels ==
    ASSUME Levels, NEW p \in {"client", "worker"}, NEW o \in Outcomes, Wait(p, o),
           p = "client" => ~Inside, p = "worker" => ~WorkerInside
    PROVE  /\ mutex' \in [owner : {"none", "client", "worker"}, depth : 0 .. 2, left : BOOLEAN]
           /\ mutex'.owner = "none" <=> mutex'.depth = 0
           /\ mutex'.left => orphaned /\ mutex'.depth = 0
           /\ mutex'.owner \in {p, mutex.owner}
           /\ mutex.owner \in {"none", p} \/ UNCHANGED mutex
           /\ o = "object" => mutex'.owner = p
           /\ o # "object" /\ mutex' # mutex => mutex'.depth = 1
<1>1. /\ mutex = [owner |-> mutex.owner, depth |-> mutex.depth, left |-> mutex.left]
      /\ mutex.owner \in {"none", "client", "worker"} /\ mutex.depth \in 0 .. 2 /\ mutex.left \in BOOLEAN
  BY DEF Levels
<1>2. CASE o = "object"
  <2>1. mutex' = [owner |-> p, depth |-> mutex.depth + 1, left |-> mutex.left]
        /\ (mutex.owner = p \/ (mutex.owner = "none" /\ ~mutex.left))
    BY <1>1, <1>2 DEF Wait
  <2>2. mutex.depth \in 0 .. 1
    <3>1. mutex.depth = 2 => mutex.owner # "none" /\ mutex.owner # p
      BY DEF Levels
    <3> QED BY <1>1, <2>1, <3>1
  <2>3. ~mutex.left
    BY <1>1, <2>1 DEF Levels
  <2> QED BY <1>1, <1>2, <2>1, <2>2, <2>3
<1>3. CASE o = "abandoned"
  <2>1. mutex' = [owner |-> p, depth |-> 1, left |-> FALSE] /\ mutex.owner = "none"
    BY <1>3 DEF Wait
  <2> QED BY <1>3, <2>1
<1>4. CASE o = "timeout"
  BY <1>1, <1>4 DEF Wait, Levels
<1> QED BY <1>2, <1>3, <1>4 DEF Outcomes

\* A release gives back the level of the one who is inside.
LEMMA ReleaseLevels ==
    ASSUME Levels, Inside \/ WorkerInside, Release
    PROVE  /\ mutex' \in [owner : {"none", "client", "worker"}, depth : 0 .. 2, left : BOOLEAN]
           /\ mutex'.owner = "none" <=> mutex'.depth = 0
           /\ ~mutex'.left /\ mutex'.depth # 2
<1>1. /\ mutex = [owner |-> mutex.owner, depth |-> mutex.depth, left |-> mutex.left]
      /\ mutex.owner \in {"client", "worker"} /\ mutex.depth \in 1 .. 2 /\ mutex.left = FALSE
  BY DEF Levels
<1>2. CASE mutex.depth = 1
  BY <1>2 DEF Release, FreeMutex
<1>3. CASE mutex.depth = 2
  <2>1. mutex' = [owner |-> mutex.owner, depth |-> 1, left |-> mutex.left]
    BY <1>1, <1>3 DEF Release
  <2>2. PICK p \in {"client", "worker"} : mutex' = [owner |-> p, depth |-> 1, left |-> FALSE]
    <3>1. mutex.owner \in {"client", "worker"} /\ mutex.left = FALSE
      BY <1>1
    <3> QED BY <2>1, <3>1
  <2> QED BY <2>2
<1> QED BY <1>1, <1>2, <1>3

\* Steps that leave the mutex alone and let nobody in or out.
LEMMA LevelsStay ==
    ASSUME Levels, UNCHANGED <<mutex, orphaned>>, Inside' <=> Inside, WorkerInside' <=> WorkerInside
    PROVE  Levels'
BY DEF Levels

\* Steps that do not sample.
LEMMA KeysStay ==
    ASSUME KeyInv, keys' \subseteq Keys, UNCHANGED <<oldKeys, queue, down, dropped>>,
           wpc' = "paused" => wpc = "paused"
    PROVE  KeyInv'
BY DEF KeyInv

\* A press on the page's button.
LEMMA OpenLinks ==
    ASSUME LinkInv, OpenPage
    PROVE  LinkInv'
<1>1. /\ UNCHANGED <<fresh, pixels, mutex, selected, cpc, picture, haveFrame, overtaken, orphaned>>
      /\ UNCHANGED <<wpc, focus, oldKeys, queue, workers, down, dropped>>
      /\ page' = TRUE /\ counted' \in {counted, FALSE} /\ keys' \in {keys, {}}
      /\ hpc' = hpc \/ (hpc' = "launch" /\ wpc = "dead")
  BY DEF OpenPage, renderer, worker, Alive
<1>2. Flags' /\ Places' /\ Block'
  <2>1. counted' \in BOOLEAN
    BY <1>1 DEF LinkInv, Flags
  <2>2. Flags'
    BY <1>1, <2>1 DEF LinkInv, Flags
  <2>3. Places'
    BY <1>1 DEF LinkInv, Places
  <2> QED BY <1>1, <2>2, <2>3 DEF LinkInv, Block
<1>3. Levels'
  BY <1>1, LevelsStay DEF LinkInv, Inside, WorkerInside
<1>4. KeyInv'
  <2>1. keys' \subseteq Keys
    BY <1>1 DEF LinkInv, KeyInv
  <2> QED BY <1>1, <2>1, KeysStay DEF LinkInv
<1> QED BY <1>2, <1>3, <1>4 DEF LinkInv

\* The rest of start(); a new worker knows of no keys.
LEMMA LaunchLinks ==
    ASSUME LinkInv, Launch
    PROVE  LinkInv'
<1> USE MaxWorkersAssumption, QueueSizeAssumption
<1>1. /\ UNCHANGED <<keys, fresh, counted, pixels, mutex, page, selected, cpc, orphaned>>
      /\ haveFrame' = FALSE /\ hpc' = "idle" /\ wpc = "dead" /\ picture' \in {picture, Blank} /\ overtaken' \in {"draw", "none"}
      /\ \/ UNCHANGED <<wpc, focus, oldKeys, queue, workers, down, dropped>>
         \/ /\ wpc' = "input" /\ workers < MaxWorkers /\ workers' = workers + 1
            /\ focus' = FALSE /\ oldKeys' = {} /\ queue' = <<>> /\ down' = {} /\ dropped' = {}
  BY DEF Launch, shared, worker, LinkInv, Places
<1>2. Flags' /\ Places'
  BY <1>1 DEF LinkInv, Flags, Places
<1>3. Block'
  BY <1>1, BlankIs DEF LinkInv, Block
<1>4. Levels'
  BY <1>1, LevelsStay DEF LinkInv, Inside, WorkerInside
<1>5. KeyInv'
  <2>1. CASE UNCHANGED <<wpc, focus, oldKeys, queue, workers, down, dropped>>
    BY <1>1, <2>1, KeysStay DEF LinkInv, KeyInv
  <2>2. CASE wpc' = "input" /\ oldKeys' = {} /\ queue' = <<>> /\ down' = {} /\ dropped' = {}
    BY <1>1, <2>2, NothingAfter DEF LinkInv, KeyInv
  <2> QED BY <1>1, <2>1, <2>2
<1> QED BY <1>2, <1>3, <1>4, <1>5 DEF LinkInv

\* The game's steps that do not touch the mutex.
LEMMA ClientLinks ==
    ASSUME LinkInv,
           \/ ClosePage \/ Blur \/ Select \/ BeginDraw \/ LookForFrame \/ CheckSelected \/ Beat \/ Expire
           \/ \E k \in Keys, press \in BOOLEAN : Key(k, press)
    PROVE  LinkInv'
<1> USE DEF ClosePage, Blur, Select, BeginDraw, LookForFrame, CheckSelected, Beat, Expire, Key,
            shared, client, handler, renderer, worker
<1>1. /\ UNCHANGED <<pixels, counted, mutex, picture, haveFrame, overtaken, orphaned>>
      /\ UNCHANGED <<wpc, focus, oldKeys, queue, workers, down, dropped>>
  OBVIOUS
<1>2. /\ fresh' \in BOOLEAN /\ page' \in BOOLEAN /\ selected' \in BOOLEAN
  BY DEF LinkInv, Flags
<1>3. /\ hpc' \in {hpc, "idle", "blur"}
      /\ \/ cpc' = cpc
         \/ cpc \in {"idle", "look", "check", "beat"} /\ cpc' \in {"idle", "look", "check", "beat", "try"}
  OBVIOUS
<1>4. keys' \subseteq Keys
  BY DEF LinkInv, KeyInv
<1>5. Flags' /\ Places' /\ Block'
  BY <1>1, <1>2, <1>3 DEF LinkInv, Flags, Places, Block
<1>6. Levels'
  BY <1>1, <1>3, LevelsStay DEF LinkInv, Inside, WorkerInside
<1>7. KeyInv'
  BY <1>1, <1>4, KeysStay DEF LinkInv
<1> QED BY <1>5, <1>6, <1>7 DEF LinkInv

\* The game copies a frame.
LEMMA CopyLinks ==
    ASSUME LinkInv, (\E o \in Outcomes : TryFrame(o)) \/ CopyTopIn \/ CopyBottomIn \/ ReleaseFrame
    PROVE  LinkInv'
<1>1. /\ UNCHANGED <<keys, fresh, counted, pixels, page, selected, hpc, orphaned>>
      /\ UNCHANGED <<wpc, focus, oldKeys, queue, workers, down, dropped>>
      /\ haveFrame' \in {haveFrame, TRUE} /\ overtaken' \in {overtaken, "none", "picture"}
  BY DEF TryFrame, CopyTopIn, CopyBottomIn, ReleaseFrame, Copied, shared, handler, worker
<1>2. /\ cpc \in {"try", "top", "bottom", "release"} /\ cpc' \in {"top", "bottom", "release", "check"}
      /\ picture' \in Pixels
  <2>1. picture \in Pixels /\ pixels \in Pixels
    BY DEF LinkInv, Block
  <2>2. pixels.top \in 0 .. 2 * MaxWorkers + 1 /\ pixels.bottom \in 0 .. 2 * MaxWorkers + 1
    BY <2>1 DEF Pixels
  <2> QED BY <2>1, <2>2 DEF TryFrame, CopyTopIn, CopyBottomIn, ReleaseFrame, Copied, Pixels
<1>3. Flags' /\ Places' /\ Block'
  <2>1. haveFrame' \in BOOLEAN
    BY <1>1 DEF LinkInv, Flags
  <2>2. Flags'
    BY <1>1, <2>1 DEF LinkInv, Flags
  <2> QED BY <1>1, <1>2, <2>2 DEF LinkInv, Places, Block
<1>4. KeyInv'
  BY <1>1, KeysStay DEF LinkInv, KeyInv
<1>5. Levels'
  <2>1. ASSUME NEW o \in Outcomes, TryFrame(o) PROVE Levels'
    <3>1. cpc = "try" /\ Wait("client", o) /\ cpc' = IF o = "object" THEN "top" ELSE "check"
      BY <2>1 DEF TryFrame
    <3>2. ~Inside
      BY <3>1 DEF Inside
    <3>3. /\ mutex' \in [owner : {"none", "client", "worker"}, depth : 0 .. 2, left : BOOLEAN]
          /\ mutex'.owner = "none" <=> mutex'.depth = 0
          /\ mutex'.left => orphaned /\ mutex'.depth = 0
          /\ mutex.owner \in {"none", "client"} \/ UNCHANGED mutex
          /\ o = "object" => mutex'.owner = "client"
          /\ o # "object" /\ mutex' # mutex => mutex'.depth = 1
      BY <3>1, <3>2, WaitLevels DEF LinkInv
    <3>4. WorkerInside => UNCHANGED mutex
      BY <3>3 DEF LinkInv, Levels
    <3>5. o = "object" <=> Inside'
      BY <3>1 DEF Inside
    <3> QED BY <1>1, <3>2, <3>3, <3>4, <3>5 DEF LinkInv, Levels, WorkerInside
  <2>2. CASE CopyTopIn \/ CopyBottomIn
    <3>1. UNCHANGED mutex /\ cpc \in {"top", "bottom"} /\ cpc' \in {"bottom", "release"}
      BY <2>2 DEF CopyTopIn, CopyBottomIn
    <3> QED BY <1>1, <3>1, LevelsStay DEF LinkInv, Inside, WorkerInside
  <2>3. CASE ReleaseFrame
    <3>1. cpc = "release" /\ cpc' = "check" /\ Release
      BY <2>3 DEF ReleaseFrame, Copied
    <3>2. Inside /\ ~Inside' /\ ~WorkerInside /\ ~WorkerInside'
      BY <1>1, <3>1 DEF Inside, WorkerInside, LinkInv, Levels
    <3>3. /\ mutex' \in [owner : {"none", "client", "worker"}, depth : 0 .. 2, left : BOOLEAN]
          /\ mutex'.owner = "none" <=> mutex'.depth = 0
          /\ ~mutex'.left /\ mutex'.depth # 2
      BY <3>1, <3>2, ReleaseLevels DEF LinkInv
    <3> QED BY <3>2, <3>3 DEF Levels
  <2> QED BY <2>1, <2>2, <2>3
<1> QED BY <1>3, <1>4, <1>5 DEF LinkInv

\* The worker's steps that neither sample nor touch the block or the mutex.
LEMMA WorkerLinks ==
    ASSUME LinkInv, ReadFocus \/ CheckFocus \/ Resume
    PROVE  LinkInv'
<1>1. /\ UNCHANGED <<keys, fresh, counted, pixels, mutex, orphaned>>
      /\ UNCHANGED <<page, selected, hpc, cpc, picture, haveFrame, overtaken>>
      /\ UNCHANGED <<oldKeys, queue, workers, down, dropped>>
      /\ focus' \in {focus, fresh}
  BY DEF ReadFocus, CheckFocus, Resume, shared, client, handler, renderer
<1>2. /\ wpc \in {"loop", "input", "check", "paused"}
      /\ wpc' \in {"sample", "get", "input", "pause"}
  BY DEF ReadFocus, CheckFocus, Resume
<1>3. Flags'
  <2>1. focus' \in BOOLEAN
    BY <1>1 DEF LinkInv, Flags
  <2> QED BY <1>1, <2>1 DEF LinkInv, Flags
<1>4. Places' /\ Block'
  BY <1>1, <1>2 DEF LinkInv, Places, Block
<1>5. Levels'
  BY <1>1, <1>2, LevelsStay DEF LinkInv, Inside, WorkerInside
<1>6. KeyInv'
  BY <1>1, <1>2, KeysStay DEF LinkInv, KeyInv
<1> QED BY <1>3, <1>4, <1>5, <1>6 DEF LinkInv

\* The worker samples; a pause finds no keys; an event goes to the engine.
LEMMA SampleLinks ==
    ASSUME LinkInv, Sample \/ Pause \/ GetKey
    PROVE  LinkInv'
<1>1. /\ UNCHANGED <<keys, fresh, counted, pixels, mutex, orphaned>>
      /\ UNCHANGED <<page, selected, hpc, cpc, picture, haveFrame, overtaken>>
      /\ focus' \in {focus, FALSE} /\ UNCHANGED workers
  BY DEF Sample, Pause, GetKey, shared, client, handler, renderer
<1>2. /\ wpc \in {"sample", "pause", "get"}
      /\ wpc' \in {"check", "paused", "lock", "input"}
  BY DEF Sample, Pause, GetKey
<1>3. Flags'
  <2>1. focus' \in BOOLEAN
    BY <1>1 DEF LinkInv, Flags
  <2> QED BY <1>1, <2>1 DEF LinkInv, Flags
<1>4. Places' /\ Block'
  BY <1>1, <1>2 DEF LinkInv, Places, Block
<1>5. Levels'
  BY <1>1, <1>2, LevelsStay DEF LinkInv, Inside, WorkerInside
<1>6. KeyInv /\ keys' \subseteq Keys
  BY <1>1 DEF LinkInv, KeyInv
<1>7. ASSUME NEW new \in SUBSET Keys, Remember(new), queue' = Waiting(new), UNCHANGED down,
             wpc' = "paused" => new = {}
      PROVE  KeyInv'
  <2>1. /\ oldKeys' \subseteq Keys /\ dropped' \subseteq Keys
        /\ Waiting(new) \in Seq(Event) /\ Len(Waiting(new)) <= QueueSize
        /\ \A k \in Keys \ dropped' : k \in After(down, Waiting(new)) <=> k \in oldKeys'
    BY <1>6, <1>7, SamplingKeeps
  <2>2. oldKeys' = new
    BY <1>7 DEF Remember
  <2> QED BY <1>6, <1>7, <2>1, <2>2 DEF KeyInv
<1>8. CASE Sample
  <2>1. PICK new \in Held : Remember(new) /\ queue' = Waiting(new)
    BY <1>8 DEF Sample
  <2>2. UNCHANGED down /\ wpc' # "paused" /\ new \in SUBSET Keys
    BY <1>6, <1>8, HeldKeys DEF Sample
  <2>3. KeyInv'
    BY <1>7, <2>1, <2>2
  <2> QED BY <1>3, <1>4, <1>5, <2>3 DEF LinkInv
<1>9. CASE Pause
  <2>1. Remember({}) /\ queue' = Waiting({}) /\ UNCHANGED down /\ {} \in SUBSET Keys
    BY <1>9 DEF Pause
  <2>2. KeyInv'
    BY <1>7, <2>1
  <2> QED BY <1>3, <1>4, <1>5, <2>2 DEF LinkInv
<1>10. CASE GetKey
  <2>1. PICK new \in Held :
          /\ Remember(new)
          /\ \/ Waiting(new) = <<>> /\ queue' = <<>> /\ UNCHANGED down
             \/ /\ Waiting(new) # <<>> /\ queue' = Tail(Waiting(new))
                /\ LET e == Head(Waiting(new))
                   IN \/ e.press /\ down' = down \cup {e.key}
                      \/ ~e.press /\ down' = down \ {e.key}
    BY <1>10 DEF GetKey
  <2>2. new \in SUBSET Keys /\ wpc' # "paused"
    BY <1>6, <1>10, HeldKeys DEF GetKey
  <2>3. CASE Waiting(new) = <<>> /\ queue' = <<>> /\ UNCHANGED down
    <3>1. KeyInv'
      BY <1>7, <2>1, <2>2, <2>3
    <3> QED BY <1>3, <1>4, <1>5, <3>1 DEF LinkInv
  <2>4. CASE /\ Waiting(new) # <<>> /\ queue' = Tail(Waiting(new))
             /\ LET e == Head(Waiting(new))
                IN \/ e.press /\ down' = down \cup {e.key}
                   \/ ~e.press /\ down' = down \ {e.key}
    <3> DEFINE q == Waiting(new)
               e == Head(q)
    <3>1. /\ oldKeys' \subseteq Keys /\ dropped' \subseteq Keys
          /\ q \in Seq(Event) /\ Len(q) <= QueueSize
          /\ \A k \in Keys \ dropped' : k \in After(down, q) <=> k \in oldKeys'
      BY <1>6, <2>1, <2>2, SamplingKeeps
    <3>2. q # <<>> /\ queue' = Tail(q) /\ down' = IF e.press THEN down \cup {e.key} ELSE down \ {e.key}
      BY <2>4
    <3> HIDE DEF q
    <3>3. /\ queue' \in Seq(Event) /\ e \in Event /\ Len(queue') <= QueueSize
      <4>1. Len(q) \in Nat \ {0} /\ Tail(q) \in Seq(Event) /\ Len(Tail(q)) = Len(q) - 1 /\ e \in Event
        BY <3>1, <3>2
      <4> QED BY <3>1, <3>2, <4>1, QueueSizeAssumption
    <3>4. down' \subseteq Keys
      <4>1. e.key \in Keys
        BY <3>3 DEF Event
      <4> QED BY <1>6, <3>2, <4>1 DEF KeyInv
    <3>5. After(down', queue') = After(down, q)
      BY <3>1, <3>2, AfterTail
    <3>6. KeyInv'
      BY <1>6, <2>2, <3>1, <3>3, <3>4, <3>5 DEF KeyInv
    <3> QED BY <1>3, <1>4, <1>5, <3>6 DEF LinkInv
  <2> QED BY <2>1, <2>3, <2>4
<1> QED BY <1>8, <1>9, <1>10

\* The worker draws a frame.
LEMMA DrawLinks ==
    ASSUME LinkInv,
           \/ \E o \in Outcomes : LockFrame(o)
           \/ CopyTopOut \/ CopyBottomOut \/ CountFrame \/ ReleaseWorker
    PROVE  LinkInv'
<1> USE MaxWorkersAssumption
<1>1. /\ UNCHANGED <<keys, fresh, page, selected, hpc, cpc, picture, haveFrame, overtaken, orphaned>>
      /\ UNCHANGED <<focus, oldKeys, queue, workers, down, dropped>>
      /\ counted' \in {counted, TRUE}
  BY DEF LockFrame, CopyTopOut, CopyBottomOut, CountFrame, ReleaseWorker, shared, client, handler, renderer
<1>2. /\ wpc \in {"lock", "top", "bottom", "count", "release"}
      /\ wpc' \in {"top", "bottom", "count", "release", "loop"}
  BY DEF LockFrame, CopyTopOut, CopyBottomOut, CountFrame, ReleaseWorker
<1>3. pixels' \in Pixels
  <2>1. pixels \in Pixels /\ workers \in 0 .. MaxWorkers
    BY DEF LinkInv, Block
  <2>2. NextPicture \in 0 .. 2 * MaxWorkers + 1
    BY <2>1 DEF NextPicture
  <2>3. pixels.top \in 0 .. 2 * MaxWorkers + 1
    BY <2>1 DEF Pixels
  <2> QED BY <2>1, <2>2, <2>3
          DEF LockFrame, CopyTopOut, CopyBottomOut, CountFrame, ReleaseWorker, shared, Pixels
<1>4. Flags' /\ Places' /\ Block'
  <2>1. counted' \in BOOLEAN
    BY <1>1 DEF LinkInv, Flags
  <2>2. Flags'
    BY <1>1, <2>1 DEF LinkInv, Flags
  <2> QED BY <1>1, <1>2, <1>3, <2>2 DEF LinkInv, Places, Block
<1>5. KeyInv'
  BY <1>1, <1>2, KeysStay DEF LinkInv, KeyInv
<1>6. Levels'
  <2>1. ASSUME NEW o \in Outcomes, LockFrame(o) PROVE Levels'
    <3>1. wpc = "lock" /\ Wait("worker", o) /\ wpc' = IF o = "object" THEN "top" ELSE "loop"
      BY <2>1 DEF LockFrame
    <3>2. ~WorkerInside
      BY <3>1 DEF WorkerInside
    <3>3. /\ mutex' \in [owner : {"none", "client", "worker"}, depth : 0 .. 2, left : BOOLEAN]
          /\ mutex'.owner = "none" <=> mutex'.depth = 0
          /\ mutex'.left => orphaned /\ mutex'.depth = 0
          /\ mutex.owner \in {"none", "worker"} \/ UNCHANGED mutex
          /\ o = "object" => mutex'.owner = "worker"
          /\ o # "object" /\ mutex' # mutex => mutex'.depth = 1
      BY <3>1, <3>2, WaitLevels DEF LinkInv
    <3>4. Inside => UNCHANGED mutex
      BY <3>3 DEF LinkInv, Levels
    <3>5. o = "object" <=> WorkerInside'
      BY <3>1 DEF WorkerInside
    <3> QED BY <1>1, <3>2, <3>3, <3>4, <3>5 DEF LinkInv, Levels, Inside
  <2>2. CASE CopyTopOut \/ CopyBottomOut \/ CountFrame
    <3>1. UNCHANGED mutex /\ wpc \in {"top", "bottom", "count"} /\ wpc' \in {"bottom", "count", "release"}
      BY <2>2 DEF CopyTopOut, CopyBottomOut, CountFrame
    <3> QED BY <1>1, <3>1, LevelsStay DEF LinkInv, Inside, WorkerInside
  <2>3. CASE ReleaseWorker
    <3>1. wpc = "release" /\ wpc' = "loop" /\ Release
      BY <2>3 DEF ReleaseWorker
    <3>2. WorkerInside /\ ~WorkerInside' /\ ~Inside /\ ~Inside'
      BY <1>1, <3>1 DEF Inside, WorkerInside, LinkInv, Levels
    <3>3. /\ mutex' \in [owner : {"none", "client", "worker"}, depth : 0 .. 2, left : BOOLEAN]
          /\ mutex'.owner = "none" <=> mutex'.depth = 0
          /\ ~mutex'.left /\ mutex'.depth # 2
      BY <3>1, <3>2, ReleaseLevels DEF LinkInv
    <3> QED BY <3>2, <3>3 DEF Levels
  <2> QED BY <2>1, <2>2, <2>3
<1> QED BY <1>4, <1>5, <1>6 DEF LinkInv

\* A worker dies wherever it is.
LEMMA DeathLinks ==
    ASSUME LinkInv, Die
    PROVE  LinkInv'
<1>1. /\ UNCHANGED <<keys, fresh, counted, pixels, page, selected, hpc, cpc, picture, haveFrame, overtaken, workers>>
      /\ wpc' = "dead" /\ focus' = FALSE /\ oldKeys' = {} /\ queue' = <<>> /\ down' = {} /\ dropped' = {}
      /\ \/ /\ mutex.owner = "worker" /\ mutex' = [owner |-> "none", depth |-> 0, left |-> TRUE]
            /\ orphaned' = TRUE
         \/ mutex.owner # "worker" /\ UNCHANGED <<mutex, orphaned>>
  BY DEF Die, FreeMutex, shared, client, handler, renderer
<1>2. Flags' /\ Places' /\ Block'
  <2>1. orphaned' \in BOOLEAN
    BY <1>1 DEF LinkInv, Flags
  <2> QED BY <1>1, <2>1 DEF LinkInv, Flags, Places, Block
<1>3. KeyInv'
  BY <1>1, NothingAfter, QueueSizeAssumption DEF LinkInv, KeyInv
<1>4. Levels'
  <2>1. ~WorkerInside' /\ (Inside' <=> Inside)
    BY <1>1 DEF Inside, WorkerInside
  <2>2. CASE mutex.owner = "worker"
    <3>1. mutex' = [owner |-> "none", depth |-> 0, left |-> TRUE] /\ orphaned' = TRUE
      BY <1>1, <2>2
    <3>2. ~Inside
      BY <2>2 DEF LinkInv, Levels
    <3> QED BY <2>1, <3>1, <3>2 DEF Levels
  <2>3. CASE mutex.owner # "worker"
    <3>1. UNCHANGED <<mutex, orphaned>> /\ ~WorkerInside
      BY <1>1, <2>3 DEF LinkInv, Levels
    <3> QED BY <2>1, <3>1, LevelsStay DEF LinkInv
  <2> QED BY <2>2, <2>3
<1> QED BY <1>2, <1>3, <1>4 DEF LinkInv

----------------------------------------------------------------------------

\* Types, levels of the mutex and keys, whoever dies and whatever is dropped.
THEOREM LinkInvariance == Spec => []LinkInv
<1>1. LinkInv /\ [Next]_vars => LinkInv'
  <2> SUFFICES ASSUME LinkInv, [Next]_vars PROVE LinkInv'
    OBVIOUS
  <2>1. CASE OpenPage \/ Launch
    BY <2>1, OpenLinks, LaunchLinks
  <2>2. CASE \/ ClosePage \/ Blur \/ Select \/ BeginDraw \/ LookForFrame \/ CheckSelected \/ Beat \/ Expire
             \/ \E k \in Keys, press \in BOOLEAN : Key(k, press)
    BY <2>2, ClientLinks
  <2>3. CASE (\E o \in Outcomes : TryFrame(o)) \/ CopyTopIn \/ CopyBottomIn \/ ReleaseFrame
    BY <2>3, CopyLinks
  <2>4. CASE ReadFocus \/ CheckFocus \/ Resume
    BY <2>4, WorkerLinks
  <2>5. CASE Sample \/ Pause \/ GetKey
    BY <2>5, SampleLinks
  <2>6. CASE \/ \E o \in Outcomes : LockFrame(o)
             \/ CopyTopOut \/ CopyBottomOut \/ CountFrame \/ ReleaseWorker
    BY <2>6, DrawLinks
  <2>7. CASE Die
    BY <2>7, DeathLinks
  <2>8. CASE UNCHANGED vars
    BY <2>8 DEF vars, LinkInv, Flags, Places, Block, Levels, KeyInv, Inside, WorkerInside
  <2> QED BY <2>1, <2>2, <2>3, <2>4, <2>5, <2>6, <2>7, <2>8 DEF Next, HandlerGoesOn, DrawGoesOn, WorkerStep
<1> QED BY <1>1, LinkInit, PTL DEF Spec

\* Types of both sides, at most two levels of the mutex, and a queue in its bounds.
THEOREM TypeCorrect == Spec => []TypeOK
<1>1. LinkInv => TypeOK
  <2> SUFFICES ASSUME LinkInv PROVE TypeOK
    OBVIOUS
  <2>1. /\ keys \subseteq Keys /\ oldKeys \subseteq Keys /\ down \subseteq Keys /\ dropped \subseteq Keys
        /\ Len(queue) <= QueueSize
    BY DEF LinkInv, KeyInv
  <2>2. {fresh, counted, page, selected, haveFrame, focus, orphaned} \subseteq BOOLEAN
    BY DEF LinkInv, Flags
  <2>3. workers \in 0 .. MaxWorkers /\ pixels \in Pixels /\ picture \in Pixels
    BY DEF LinkInv, Block
  <2>4. /\ mutex.depth \in 0 .. 2 /\ (mutex.owner = "none" <=> mutex.depth = 0)
        /\ mutex.left => orphaned
    BY DEF LinkInv, Levels
  <2>5. Places
    BY DEF LinkInv
  <2> QED BY <2>1, <2>2, <2>3, <2>4, <2>5 DEF TypeOK, Places, Pixels
<1> QED BY <1>1, LinkInvariance, PTL

\* Of every key whose last event found room, the engine will believe what was
\* sampled last, and none of them down once the worker pauses.
THEOREM KeysStayFollowed == Spec => []KeysFollow
<1>1. LinkInv => KeysFollow
  BY DEF LinkInv, KeyInv, KeysFollow
<1> QED BY <1>1, LinkInvariance, PTL
====
