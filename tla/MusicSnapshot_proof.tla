---- MODULE MusicSnapshot_proof ----
(***************************************************************************)
(* The text on the Music page is whole and current for every number of     *)
(* polls, players and worker deaths; and what the arithmetic of the pages  *)
(* guarantees for every number.                                            *)
(***************************************************************************)
EXTENDS MusicSnapshot, PageMath, WellFoundedInduction, TLAPS

WorkerInside == wpc \in {"title", "artist", "release"}
Busy == IF wpc \in {"dead", "gather"} THEN 0 ELSE 1

\* What TypeOK leaves open.
MoreTypes ==
    /\ polls \in 0 .. MaxPolls /\ base \in Nat /\ orphaned \in BOOLEAN
    /\ published \in Seq(Nat)
    /\ DOMAIN cached = DOMAIN EmptySnapshot
    /\ cached.title \in Nat /\ cached.artist \in Nat /\ cached.updates \in Nat
    /\ DOMAIN next = {"worker", "client"}
    /\ WorkerInside \/ wpc = "numbers" => next.worker \in DOMAIN WriteOrder

\* Every poll counted, and the one under way, was begun since start(); what the
\* client has read of the counter is not ahead of it.
CountsInv ==
    /\ base + updates + Busy <= polls
    /\ seen <= updates /\ cached.updates <= updates
    /\ cpc = "idle" => seen = 0
    /\ cpc = "try" \/ ClientInside => seen > 0

\* Who is inside owns the mutex.  Until a worker dies inside, only who is inside
\* does; after that a process may own it for good, one level deep.
MutexInv ==
    /\ WorkerInside => mutex.owner = "worker"
    /\ ClientInside => mutex.owner = "client"
    /\ wpc = "dead" => mutex.owner # "worker"
    /\ mutex.left => orphaned /\ mutex.owner = "none"
    /\ mutex.depth = 2 => WorkerInside \/ ClientInside
    /\ ~orphaned => /\ mutex.depth < 2
                    /\ mutex.owner = "worker" => WorkerInside
                    /\ mutex.owner = "client" => ClientInside

\* The title is copied before the artist, both of the poll under way; what was
\* published at a count is not newer than the block.
TextInv ==
    /\ text.artist <= text.title /\ text.title <= polls
    /\ wpc = "artist" => text.title = polls
    /\ wpc = "release" => text.title = polls /\ text.artist = polls
    /\ ~orphaned /\ wpc # "artist" => text.title = text.artist
    /\ \A i \in DOMAIN published : published[i] <= text.artist

\* While the client copies, the block does not move.
PageInv ==
    /\ cpc \in {"artist", "release"} => cached.title = text.title
    /\ cpc = "release" => cached.artist = text.artist

\* The first poll of a worker always finds the mutex free.
NewInv ==
    ~orphaned =>
        /\ updates > 0 => text.artist > base
        /\ wpc \in {"numbers", "count"} => text.artist > base

IInv == TypeOK /\ MoreTypes /\ CountsInv /\ MutexInv /\ TextInv /\ PageInv /\ NewInv
        /\ TextWhole /\ TextIsCurrent

----------------------------------------------------------------------------

\* The two orders name the same numbers, the client one more.
LEMMA Orders ==
    /\ DOMAIN WriteOrder = 1 .. 4 /\ Len(WriteOrder) = 4
    /\ DOMAIN ReadOrder = 1 .. 5 /\ Len(ReadOrder) = 5
    /\ Fields = {"playback", "position", "duration", "volume", "sessions"}
    /\ \A i \in 1 .. 5 : ReadOrder[i] \in Fields
    /\ \A i \in 1 .. 4 : WriteOrder[i] \in Fields
<1>1. /\ DOMAIN WriteOrder = 1 .. 4 /\ Len(WriteOrder) = 4
      /\ DOMAIN ReadOrder = 1 .. 5 /\ Len(ReadOrder) = 5
  BY DEF WriteOrder, ReadOrder
<1>2. Fields = {ReadOrder[i] : i \in 1 .. 5}
  BY <1>1 DEF Fields, ToSet
<1>3. Fields = {"playback", "position", "duration", "volume", "sessions"}
  BY <1>2 DEF ReadOrder
<1> QED BY <1>1, <1>2, <1>3 DEF WriteOrder

\* The snapshot of a client that has seen nothing.
LEMMA Empty ==
    /\ EmptySnapshot.title = 0 /\ EmptySnapshot.artist = 0 /\ EmptySnapshot.updates = 0
    /\ {"title", "artist", "updates"} \cap Fields = {}
<1>1. {"title", "artist", "updates"} \cap Fields = {}
  BY Orders
<1> QED BY <1>1 DEF EmptySnapshot

\* A wait by a process that is not inside: it owns the mutex now, by one level
\* more than before, or another process does.
LEMMA WaitGives ==
    ASSUME IInv, NEW p \in {"worker", "client"}, NEW o \in Outcomes, Wait(p, o),
           p = "worker" => ~WorkerInside, p = "client" => ~ClientInside
    PROVE  /\ mutex' \in [owner : {"none", "worker", "client"}, depth : 0 .. 2, left : BOOLEAN]
           /\ mutex'.owner = "none" <=> mutex'.depth = 0
           /\ o # "timeout" => /\ mutex.owner \in {p, "none"}
                               /\ mutex'.owner = p /\ ~mutex'.left
           /\ o = "object" => mutex.owner = p \/ mutex'.depth = 1
           /\ o = "abandoned" => mutex.left /\ mutex'.depth = 1
           /\ o = "timeout" => UNCHANGED mutex /\ mutex.owner \notin {p, "none"}
<1>1. /\ mutex \in [owner : {"none", "worker", "client"}, depth : 0 .. 2, left : BOOLEAN]
      /\ mutex.owner = "none" <=> mutex.depth = 0
      /\ mutex.left => mutex.owner = "none"
      /\ mutex.owner = p => mutex.depth = 1
  BY DEF IInv, TypeOK, MutexInv, WorkerInside, ClientInside
<1>2. CASE o = "object"
  <2>1. /\ mutex.owner = p \/ (mutex.owner = "none" /\ ~mutex.left)
        /\ mutex' = [mutex EXCEPT !.owner = p, !.depth = @ + 1]
    BY <1>2 DEF Wait
  <2>2. mutex'.owner = p /\ mutex'.depth = mutex.depth + 1 /\ mutex'.left = mutex.left
    BY <1>1, <2>1
  <2>3. mutex'.depth \in 1 .. 2 /\ mutex'.left = FALSE
    BY <1>1, <2>1, <2>2
  <2>4. mutex' \in [owner : {"none", "worker", "client"}, depth : 0 .. 2, left : BOOLEAN]
    <3>1. mutex' = [owner |-> p, depth |-> mutex.depth + 1, left |-> mutex.left]
      BY <1>1, <2>1
    <3>2. mutex.depth + 1 \in 0 .. 2 /\ mutex.left \in BOOLEAN
      BY <1>1, <2>1, <2>2, <2>3
    <3> QED BY <3>1, <3>2
  <2> QED BY <1>1, <1>2, <2>1, <2>2, <2>3, <2>4
<1>3. CASE o = "abandoned"
  <2>1. /\ mutex.owner = "none" /\ mutex.left
        /\ mutex' = [owner |-> p, depth |-> 1, left |-> FALSE]
    BY <1>3 DEF Wait
  <2> QED BY <1>1, <1>3, <2>1
<1>4. CASE o = "timeout"
  BY <1>1, <1>4 DEF Wait
<1> QED BY <1>2, <1>3, <1>4 DEF Outcomes

\* A release by the process inside gives back one level.
LEMMA ReleaseGives ==
    ASSUME IInv, WorkerInside \/ ClientInside, Release
    PROVE  /\ mutex' \in [owner : {"none", "worker", "client"}, depth : 0 .. 1, left : BOOLEAN]
           /\ mutex'.owner = "none" <=> mutex'.depth = 0
           /\ mutex.depth = 1 => mutex'.owner = "none"
           /\ mutex'.owner \in {"none", mutex.owner}
           /\ ~mutex'.left
<1>1. /\ mutex \in [owner : {"none", "worker", "client"}, depth : 0 .. 2, left : BOOLEAN]
      /\ mutex.owner = "none" <=> mutex.depth = 0
      /\ mutex.owner # "none" /\ ~mutex.left
  BY DEF IInv, TypeOK, MutexInv, WorkerInside, ClientInside
<1>2. CASE mutex.depth = 1
  BY <1>1, <1>2 DEF Release, FreeMutex
<1>3. CASE mutex.depth = 2
  BY <1>1, <1>3 DEF Release
<1> QED BY <1>1, <1>2, <1>3

\* A new poll is numbered; nothing of the last one is under way.
LEMMA GatherKeeps ==
    ASSUME IInv, NEW r \in Readings, Gather(r)
    PROVE  IInv'
<1> USE DEF Gather, block, history, ClientInside, WorkerInside
<1>1. TypeOK' /\ MoreTypes'
  BY Orders, ReadingsAssumption, MaxPollsAssumption DEF IInv, TypeOK, MoreTypes, CountsInv, MutexInv, TextInv, Busy, WorkerPlaces, ClientPlaces
<1>2. CountsInv'
  BY DEF IInv, TypeOK, MoreTypes, CountsInv, Busy
<1>3. MutexInv'
  BY DEF IInv, TypeOK, MutexInv
<1>4. TextInv'
  BY DEF IInv, TypeOK, MoreTypes, TextInv, MutexInv
<1>5. PageInv' /\ TextWhole'
  BY DEF IInv, TypeOK, MoreTypes, PageInv, TextWhole, MutexInv, TextInv
<1>6. NewInv'
  BY DEF IInv, TypeOK, MoreTypes, NewInv, CountsInv, MutexInv, TextInv, Busy
<1>7. TextIsCurrent'
  BY DEF IInv, TypeOK, MoreTypes, TextIsCurrent, CountsInv, MutexInv, TextInv, PageInv, NewInv
<1> QED BY <1>1, <1>2, <1>3, <1>4, <1>5, <1>6, <1>7 DEF IInv

\* The volume between polls: a number, no text.
LEMMA SetVolumeKeeps ==
    ASSUME IInv, NEW level, SetVolume(level)
    PROVE  IInv'
<1> USE DEF SetVolume, block, history, ClientInside, WorkerInside
<1>1. TypeOK' /\ MoreTypes'
  BY Orders, ReadingsAssumption, MaxPollsAssumption DEF IInv, TypeOK, MoreTypes, CountsInv, MutexInv, TextInv, Busy, WorkerPlaces, ClientPlaces
<1>2. CountsInv'
  BY DEF IInv, TypeOK, MoreTypes, CountsInv, Busy
<1>3. MutexInv'
  BY DEF IInv, TypeOK, MutexInv
<1>4. TextInv'
  BY DEF IInv, TypeOK, MoreTypes, TextInv, MutexInv
<1>5. PageInv' /\ TextWhole'
  BY DEF IInv, TypeOK, MoreTypes, PageInv, TextWhole, MutexInv, TextInv
<1>6. NewInv'
  BY DEF IInv, TypeOK, MoreTypes, NewInv, CountsInv, MutexInv, TextInv, Busy
<1>7. TextIsCurrent'
  BY DEF IInv, TypeOK, MoreTypes, TextIsCurrent, CountsInv, MutexInv, TextInv, PageInv, NewInv
<1> QED BY <1>1, <1>2, <1>3, <1>4, <1>5, <1>6, <1>7 DEF IInv

\* The worker gets in, waits in vain, or becomes the owner without knowing.
LEMMA LockTextKeeps ==
    ASSUME IInv, NEW o \in Outcomes, LockText(o)
    PROVE  IInv'
<1> USE DEF LockText, block, history, ClientInside, WorkerInside
<1>0. /\ mutex' \in [owner : {"none", "worker", "client"}, depth : 0 .. 2, left : BOOLEAN]
      /\ mutex'.owner = "none" <=> mutex'.depth = 0
      /\ o # "timeout" => /\ mutex.owner \in {"worker", "none"}
                          /\ mutex'.owner = "worker" /\ ~mutex'.left
      /\ o = "object" => mutex.owner = "worker" \/ mutex'.depth = 1
      /\ o = "abandoned" => mutex.left /\ mutex'.depth = 1
      /\ o = "timeout" => UNCHANGED mutex /\ mutex.owner \notin {"worker", "none"}
      /\ o \in {"object", "abandoned", "timeout"}
  BY WaitGives DEF Outcomes
<1>1. TypeOK' /\ MoreTypes'
  BY <1>0, Orders, ReadingsAssumption, MaxPollsAssumption DEF IInv, TypeOK, MoreTypes, CountsInv, MutexInv, TextInv, Busy, WorkerPlaces, ClientPlaces
<1>2. CountsInv'
  BY <1>0 DEF IInv, TypeOK, MoreTypes, CountsInv, Busy
<1>3. MutexInv'
  BY <1>0 DEF IInv, TypeOK, MutexInv
<1>4. TextInv'
  BY <1>0 DEF IInv, TypeOK, MoreTypes, TextInv, MutexInv
<1>5. PageInv' /\ TextWhole'
  BY <1>0 DEF IInv, TypeOK, MoreTypes, PageInv, TextWhole, MutexInv, TextInv
<1>6. NewInv'
  BY <1>0 DEF IInv, TypeOK, MoreTypes, NewInv, CountsInv, MutexInv, TextInv, Busy
<1>7. TextIsCurrent'
  BY <1>0 DEF IInv, TypeOK, MoreTypes, TextIsCurrent, CountsInv, MutexInv, TextInv, PageInv, NewInv
<1> QED BY <1>1, <1>2, <1>3, <1>4, <1>5, <1>6, <1>7 DEF IInv

\* The title of the poll under way; the client is not inside.
LEMMA CopyTitleOutKeeps ==
    ASSUME IInv, CopyTitleOut
    PROVE  IInv'
<1> USE DEF CopyTitleOut, block, history, ClientInside, WorkerInside
<1>1. TypeOK' /\ MoreTypes'
  BY Orders, ReadingsAssumption, MaxPollsAssumption DEF IInv, TypeOK, MoreTypes, CountsInv, MutexInv, TextInv, Busy, WorkerPlaces, ClientPlaces
<1>2. CountsInv'
  BY DEF IInv, TypeOK, MoreTypes, CountsInv, Busy
<1>3. MutexInv'
  BY DEF IInv, TypeOK, MutexInv
<1>4. TextInv'
  BY DEF IInv, TypeOK, MoreTypes, TextInv, MutexInv
<1>5. PageInv' /\ TextWhole'
  BY DEF IInv, TypeOK, MoreTypes, PageInv, TextWhole, MutexInv, TextInv
<1>6. NewInv'
  BY DEF IInv, TypeOK, MoreTypes, NewInv, CountsInv, MutexInv, TextInv, Busy
<1>7. TextIsCurrent'
  BY DEF IInv, TypeOK, MoreTypes, TextIsCurrent, CountsInv, MutexInv, TextInv, PageInv, NewInv
<1> QED BY <1>1, <1>2, <1>3, <1>4, <1>5, <1>6, <1>7 DEF IInv

\* The artist follows; title and artist are of one poll again.
LEMMA CopyArtistOutKeeps ==
    ASSUME IInv, CopyArtistOut
    PROVE  IInv'
<1> USE DEF CopyArtistOut, block, history, ClientInside, WorkerInside
<1>1. TypeOK' /\ MoreTypes'
  BY Orders, ReadingsAssumption, MaxPollsAssumption DEF IInv, TypeOK, MoreTypes, CountsInv, MutexInv, TextInv, Busy, WorkerPlaces, ClientPlaces
<1>2. CountsInv'
  BY DEF IInv, TypeOK, MoreTypes, CountsInv, Busy
<1>3. MutexInv'
  BY DEF IInv, TypeOK, MutexInv
<1>4. TextInv'
  BY DEF IInv, TypeOK, MoreTypes, TextInv, MutexInv
<1>5. PageInv' /\ TextWhole'
  BY DEF IInv, TypeOK, MoreTypes, PageInv, TextWhole, MutexInv, TextInv
<1>6. NewInv'
  BY DEF IInv, TypeOK, MoreTypes, NewInv, CountsInv, MutexInv, TextInv, Busy
<1>7. TextIsCurrent'
  BY DEF IInv, TypeOK, MoreTypes, TextIsCurrent, CountsInv, MutexInv, TextInv, PageInv, NewInv
<1> QED BY <1>1, <1>2, <1>3, <1>4, <1>5, <1>6, <1>7 DEF IInv

\* The text is out, before it is counted.
LEMMA ReleaseTextKeeps ==
    ASSUME IInv, ReleaseText
    PROVE  IInv'
<1> USE DEF ReleaseText, block, history, ClientInside, WorkerInside
<1>0. /\ mutex' \in [owner : {"none", "worker", "client"}, depth : 0 .. 1, left : BOOLEAN]
      /\ mutex'.owner = "none" <=> mutex'.depth = 0
      /\ mutex.depth = 1 => mutex'.owner = "none"
      /\ mutex'.owner \in {"none", mutex.owner}
      /\ ~mutex'.left
  BY ReleaseGives
<1>1. TypeOK' /\ MoreTypes'
  BY <1>0, Orders, ReadingsAssumption, MaxPollsAssumption DEF IInv, TypeOK, MoreTypes, CountsInv, MutexInv, TextInv, Busy, WorkerPlaces, ClientPlaces
<1>2. CountsInv'
  BY <1>0 DEF IInv, TypeOK, MoreTypes, CountsInv, Busy
<1>3. MutexInv'
  BY <1>0 DEF IInv, TypeOK, MutexInv
<1>4. TextInv'
  BY <1>0 DEF IInv, TypeOK, MoreTypes, TextInv, MutexInv
<1>5. PageInv' /\ TextWhole'
  BY <1>0 DEF IInv, TypeOK, MoreTypes, PageInv, TextWhole, MutexInv, TextInv
<1>6. NewInv'
  BY <1>0 DEF IInv, TypeOK, MoreTypes, NewInv, CountsInv, MutexInv, TextInv, Busy
<1>7. TextIsCurrent'
  BY <1>0 DEF IInv, TypeOK, MoreTypes, TextIsCurrent, CountsInv, MutexInv, TextInv, PageInv, NewInv
<1> QED BY <1>1, <1>2, <1>3, <1>4, <1>5, <1>6, <1>7 DEF IInv

\* Numbers follow outside the mutex.
LEMMA PublishNumberKeeps ==
    ASSUME IInv, PublishNumber
    PROVE  IInv'
<1> USE DEF PublishNumber, block, history, ClientInside, WorkerInside
<1>1. TypeOK' /\ MoreTypes'
  BY Orders, ReadingsAssumption, MaxPollsAssumption DEF IInv, TypeOK, MoreTypes, CountsInv, MutexInv, TextInv, Busy, WorkerPlaces, ClientPlaces
<1>2. CountsInv'
  BY DEF IInv, TypeOK, MoreTypes, CountsInv, Busy
<1>3. MutexInv'
  BY DEF IInv, TypeOK, MutexInv
<1>4. TextInv'
  BY DEF IInv, TypeOK, MoreTypes, TextInv, MutexInv
<1>5. PageInv' /\ TextWhole'
  BY DEF IInv, TypeOK, MoreTypes, PageInv, TextWhole, MutexInv, TextInv
<1>6. NewInv'
  BY DEF IInv, TypeOK, MoreTypes, NewInv, CountsInv, MutexInv, TextInv, Busy
<1>7. TextIsCurrent'
  BY DEF IInv, TypeOK, MoreTypes, TextIsCurrent, CountsInv, MutexInv, TextInv, PageInv, NewInv
<1> QED BY <1>1, <1>2, <1>3, <1>4, <1>5, <1>6, <1>7 DEF IInv

\* What is counted is what the block holds.
LEMMA CountKeeps ==
    ASSUME IInv, Count
    PROVE  IInv'
<1> USE DEF Count, block, history, ClientInside, WorkerInside
<1>1. TypeOK' /\ MoreTypes'
  BY Orders, ReadingsAssumption, MaxPollsAssumption DEF IInv, TypeOK, MoreTypes, CountsInv, MutexInv, TextInv, Busy, WorkerPlaces, ClientPlaces
<1>2. CountsInv'
  BY DEF IInv, TypeOK, MoreTypes, CountsInv, Busy
<1>3. MutexInv'
  BY DEF IInv, TypeOK, MutexInv
<1>4. TextInv'
  BY DEF IInv, TypeOK, MoreTypes, TextInv, MutexInv
<1>5. PageInv' /\ TextWhole'
  BY DEF IInv, TypeOK, MoreTypes, PageInv, TextWhole, MutexInv, TextInv
<1>6. NewInv'
  BY DEF IInv, TypeOK, MoreTypes, NewInv, CountsInv, MutexInv, TextInv, Busy
<1>7. TextIsCurrent'
  BY DEF IInv, TypeOK, MoreTypes, TextIsCurrent, CountsInv, MutexInv, TextInv, PageInv, NewInv
<1> QED BY <1>1, <1>2, <1>3, <1>4, <1>5, <1>6, <1>7 DEF IInv

\* A poll that throws is not counted, and was not inside.
LEMMA PollThrowsKeeps ==
    ASSUME IInv, PollThrows
    PROVE  IInv'
<1> USE DEF PollThrows, block, history, ClientInside, WorkerInside
<1>1. TypeOK' /\ MoreTypes'
  BY Orders, ReadingsAssumption, MaxPollsAssumption DEF IInv, TypeOK, MoreTypes, CountsInv, MutexInv, TextInv, Busy, WorkerPlaces, ClientPlaces
<1>2. CountsInv'
  BY DEF IInv, TypeOK, MoreTypes, CountsInv, Busy
<1>3. MutexInv'
  BY DEF IInv, TypeOK, MutexInv
<1>4. TextInv'
  BY DEF IInv, TypeOK, MoreTypes, TextInv, MutexInv
<1>5. PageInv' /\ TextWhole'
  BY DEF IInv, TypeOK, MoreTypes, PageInv, TextWhole, MutexInv, TextInv
<1>6. NewInv'
  BY DEF IInv, TypeOK, MoreTypes, NewInv, CountsInv, MutexInv, TextInv, Busy
<1>7. TextIsCurrent'
  BY DEF IInv, TypeOK, MoreTypes, TextIsCurrent, CountsInv, MutexInv, TextInv, PageInv, NewInv
<1> QED BY <1>1, <1>2, <1>3, <1>4, <1>5, <1>6, <1>7 DEF IInv

\* A death anywhere; inside, it voids the mutex and the text.
LEMMA DieKeeps ==
    ASSUME IInv, Die
    PROVE  IInv'
<1> USE DEF Die, block, history, ClientInside, WorkerInside
<1>0. /\ mutex' \in [owner : {"none", "worker", "client"}, depth : 0 .. 2, left : BOOLEAN]
      /\ mutex'.owner = "none" <=> mutex'.depth = 0
  <2>1. CASE mutex.owner = "worker"
    <3>1. mutex' = [owner |-> "none", depth |-> 0, left |-> TRUE]
      BY <2>1 DEF FreeMutex
    <3> QED BY <3>1
  <2>2. CASE mutex.owner # "worker"
    BY <2>2 DEF IInv, TypeOK
  <2> QED BY <2>1, <2>2
<1>1. TypeOK' /\ MoreTypes'
  <2>1. TypeOK'
    BY <1>0, Orders, ReadingsAssumption, MaxPollsAssumption DEF IInv, TypeOK, MoreTypes, CountsInv, Busy, WorkerPlaces, ClientPlaces
  <2>2. MoreTypes'
    BY <1>0, Orders, ReadingsAssumption, MaxPollsAssumption DEF IInv, TypeOK, MoreTypes
  <2> QED BY <2>1, <2>2
<1>2. CountsInv'
  BY <1>0 DEF IInv, TypeOK, MoreTypes, CountsInv, Busy
<1>3. MutexInv'
  BY <1>0 DEF IInv, TypeOK, MutexInv, FreeMutex
<1>4. TextInv'
  BY <1>0 DEF IInv, TypeOK, MoreTypes, TextInv, MutexInv
<1>5. PageInv' /\ TextWhole'
  BY <1>0 DEF IInv, TypeOK, MoreTypes, PageInv, TextWhole, MutexInv, TextInv
<1>6. NewInv'
  BY <1>0 DEF IInv, TypeOK, MoreTypes, NewInv, CountsInv, MutexInv, TextInv, Busy
<1>7. TextIsCurrent'
  BY <1>0 DEF IInv, TypeOK, MoreTypes, TextIsCurrent, CountsInv, MutexInv, TextInv, PageInv, NewInv
<1> QED BY <1>1, <1>2, <1>3, <1>4, <1>5, <1>6, <1>7 DEF IInv

\* The counters start again; what the page held is forgotten.
LEMMA StartKeeps ==
    ASSUME IInv, Start
    PROVE  IInv'
<1> USE DEF Start, block, history, ClientInside, WorkerInside
<1>1. TypeOK' /\ MoreTypes'
  BY Empty, Orders, ReadingsAssumption, MaxPollsAssumption DEF IInv, TypeOK, MoreTypes, CountsInv, MutexInv, TextInv, Busy, WorkerPlaces, ClientPlaces, NoReading
<1>2. CountsInv'
  BY Empty DEF IInv, TypeOK, MoreTypes, CountsInv, Busy
<1>3. MutexInv'
  BY DEF IInv, TypeOK, MutexInv
<1>4. TextInv'
  BY DEF IInv, TypeOK, MoreTypes, TextInv, MutexInv
<1>5. PageInv' /\ TextWhole'
  BY Empty DEF IInv, TypeOK, MoreTypes, PageInv, TextWhole, MutexInv, TextInv
<1>6. NewInv'
  BY DEF IInv, TypeOK, MoreTypes, NewInv, CountsInv, MutexInv, TextInv, Busy
<1>7. TextIsCurrent'
  BY Empty DEF IInv, TypeOK, MoreTypes, TextIsCurrent, CountsInv, MutexInv, TextInv, PageInv, NewInv
<1> QED BY <1>1, <1>2, <1>3, <1>4, <1>5, <1>6, <1>7 DEF IInv

\* The counter is read first.
LEMMA BeginSnapshotKeeps ==
    ASSUME IInv, BeginSnapshot
    PROVE  IInv'
<1> USE DEF BeginSnapshot, block, history, ClientInside, WorkerInside
<1>1. TypeOK' /\ MoreTypes'
  BY Orders, ReadingsAssumption, MaxPollsAssumption DEF IInv, TypeOK, MoreTypes, CountsInv, MutexInv, TextInv, Busy, WorkerPlaces, ClientPlaces
<1>2. CountsInv'
  BY DEF IInv, TypeOK, MoreTypes, CountsInv, Busy
<1>3. MutexInv'
  BY DEF IInv, TypeOK, MutexInv
<1>4. TextInv'
  BY DEF IInv, TypeOK, MoreTypes, TextInv, MutexInv
<1>5. PageInv' /\ TextWhole'
  BY DEF IInv, TypeOK, MoreTypes, PageInv, TextWhole, MutexInv, TextInv
<1>6. NewInv'
  BY DEF IInv, TypeOK, MoreTypes, NewInv, CountsInv, MutexInv, TextInv, Busy
<1>7. TextIsCurrent'
  BY DEF IInv, TypeOK, MoreTypes, TextIsCurrent, CountsInv, MutexInv, TextInv, PageInv, NewInv
<1> QED BY <1>1, <1>2, <1>3, <1>4, <1>5, <1>6, <1>7 DEF IInv

\* The client gets in, or takes the numbers only.
LEMMA TryTextKeeps ==
    ASSUME IInv, NEW o \in Outcomes, TryText(o)
    PROVE  IInv'
<1> USE DEF TryText, block, history, ClientInside, WorkerInside
<1>0. /\ mutex' \in [owner : {"none", "worker", "client"}, depth : 0 .. 2, left : BOOLEAN]
      /\ mutex'.owner = "none" <=> mutex'.depth = 0
      /\ o # "timeout" => /\ mutex.owner \in {"client", "none"}
                          /\ mutex'.owner = "client" /\ ~mutex'.left
      /\ o = "object" => mutex.owner = "client" \/ mutex'.depth = 1
      /\ o = "abandoned" => mutex.left /\ mutex'.depth = 1
      /\ o = "timeout" => UNCHANGED mutex /\ mutex.owner \notin {"client", "none"}
      /\ o \in {"object", "abandoned", "timeout"}
  BY WaitGives DEF Outcomes
<1>1. TypeOK' /\ MoreTypes'
  BY <1>0, Orders, ReadingsAssumption, MaxPollsAssumption DEF IInv, TypeOK, MoreTypes, CountsInv, MutexInv, TextInv, Busy, WorkerPlaces, ClientPlaces
<1>2. CountsInv'
  BY <1>0 DEF IInv, TypeOK, MoreTypes, CountsInv, Busy
<1>3. MutexInv'
  BY <1>0 DEF IInv, TypeOK, MutexInv
<1>4. TextInv'
  BY <1>0 DEF IInv, TypeOK, MoreTypes, TextInv, MutexInv
<1>5. PageInv' /\ TextWhole'
  BY <1>0 DEF IInv, TypeOK, MoreTypes, PageInv, TextWhole, MutexInv, TextInv
<1>6. NewInv'
  BY <1>0 DEF IInv, TypeOK, MoreTypes, NewInv, CountsInv, MutexInv, TextInv, Busy
<1>7. TextIsCurrent'
  BY <1>0 DEF IInv, TypeOK, MoreTypes, TextIsCurrent, CountsInv, MutexInv, TextInv, PageInv, NewInv
<1> QED BY <1>1, <1>2, <1>3, <1>4, <1>5, <1>6, <1>7 DEF IInv

\* The worker cannot write while the client copies.
LEMMA CopyTitleInKeeps ==
    ASSUME IInv, CopyTitleIn
    PROVE  IInv'
<1> USE DEF CopyTitleIn, block, history, ClientInside, WorkerInside
<1>1. TypeOK' /\ MoreTypes'
  BY Orders, ReadingsAssumption, MaxPollsAssumption DEF IInv, TypeOK, MoreTypes, CountsInv, MutexInv, TextInv, Busy, WorkerPlaces, ClientPlaces
<1>2. CountsInv'
  BY DEF IInv, TypeOK, MoreTypes, CountsInv, Busy
<1>3. MutexInv'
  BY DEF IInv, TypeOK, MutexInv
<1>4. TextInv'
  BY DEF IInv, TypeOK, MoreTypes, TextInv, MutexInv
<1>5. PageInv' /\ TextWhole'
  BY DEF IInv, TypeOK, MoreTypes, PageInv, TextWhole, MutexInv, TextInv
<1>6. NewInv'
  BY DEF IInv, TypeOK, MoreTypes, NewInv, CountsInv, MutexInv, TextInv, Busy
<1>7. TextIsCurrent'
  BY DEF IInv, TypeOK, MoreTypes, TextIsCurrent, CountsInv, MutexInv, TextInv, PageInv, NewInv
<1> QED BY <1>1, <1>2, <1>3, <1>4, <1>5, <1>6, <1>7 DEF IInv

\* The artist of the same poll, unless a worker died in between.
LEMMA CopyArtistInKeeps ==
    ASSUME IInv, CopyArtistIn
    PROVE  IInv'
<1> USE DEF CopyArtistIn, block, history, ClientInside, WorkerInside
<1>1. TypeOK' /\ MoreTypes'
  BY Orders, ReadingsAssumption, MaxPollsAssumption DEF IInv, TypeOK, MoreTypes, CountsInv, MutexInv, TextInv, Busy, WorkerPlaces, ClientPlaces
<1>2. CountsInv'
  BY DEF IInv, TypeOK, MoreTypes, CountsInv, Busy
<1>3. MutexInv'
  BY DEF IInv, TypeOK, MutexInv
<1>4. TextInv'
  BY DEF IInv, TypeOK, MoreTypes, TextInv, MutexInv
<1>5. PageInv' /\ TextWhole'
  BY DEF IInv, TypeOK, MoreTypes, PageInv, TextWhole, MutexInv, TextInv
<1>6. NewInv'
  BY DEF IInv, TypeOK, MoreTypes, NewInv, CountsInv, MutexInv, TextInv, Busy
<1>7. TextIsCurrent'
  BY DEF IInv, TypeOK, MoreTypes, TextIsCurrent, CountsInv, MutexInv, TextInv, PageInv, NewInv
<1> QED BY <1>1, <1>2, <1>3, <1>4, <1>5, <1>6, <1>7 DEF IInv

\* The text is filed under the counter read before it.
LEMMA ReleaseAndFileKeeps ==
    ASSUME IInv, ReleaseAndFile
    PROVE  IInv'
<1> USE DEF ReleaseAndFile, block, history, ClientInside, WorkerInside
<1>0. /\ mutex' \in [owner : {"none", "worker", "client"}, depth : 0 .. 1, left : BOOLEAN]
      /\ mutex'.owner = "none" <=> mutex'.depth = 0
      /\ mutex.depth = 1 => mutex'.owner = "none"
      /\ mutex'.owner \in {"none", mutex.owner}
      /\ ~mutex'.left
  BY ReleaseGives
<1>1. TypeOK' /\ MoreTypes'
  BY <1>0, Orders, ReadingsAssumption, MaxPollsAssumption DEF IInv, TypeOK, MoreTypes, CountsInv, MutexInv, TextInv, Busy, WorkerPlaces, ClientPlaces
<1>2. CountsInv'
  BY <1>0 DEF IInv, TypeOK, MoreTypes, CountsInv, Busy
<1>3. MutexInv'
  BY <1>0 DEF IInv, TypeOK, MutexInv
<1>4. TextInv'
  BY <1>0 DEF IInv, TypeOK, MoreTypes, TextInv, MutexInv
<1>5. PageInv' /\ TextWhole'
  BY <1>0 DEF IInv, TypeOK, MoreTypes, PageInv, TextWhole, MutexInv, TextInv
<1>6. NewInv'
  BY <1>0 DEF IInv, TypeOK, MoreTypes, NewInv, CountsInv, MutexInv, TextInv, Busy
<1>7. TextIsCurrent'
  BY <1>0 DEF IInv, TypeOK, MoreTypes, TextIsCurrent, CountsInv, MutexInv, TextInv, PageInv, NewInv
<1> QED BY <1>1, <1>2, <1>3, <1>4, <1>5, <1>6, <1>7 DEF IInv

\* The numbers of the snapshot leave its text alone.
LEMMA ReadNumberKeeps ==
    ASSUME IInv, ReadNumber
    PROVE  IInv'
<1> USE DEF ReadNumber, block, history, ClientInside, WorkerInside
<1>0. /\ DOMAIN cached' = DOMAIN cached
      /\ UNCHANGED <<cached.title, cached.artist, cached.updates>>
  BY Orders DEF IInv, TypeOK
<1>1. TypeOK' /\ MoreTypes'
  <2>1. TypeOK'
    BY <1>0, Orders, ReadingsAssumption, MaxPollsAssumption DEF IInv, TypeOK, MoreTypes, CountsInv, Busy, WorkerPlaces, ClientPlaces
  <2>2. MoreTypes'
    BY <1>0, Orders, ReadingsAssumption, MaxPollsAssumption DEF IInv, TypeOK, MoreTypes
  <2> QED BY <2>1, <2>2
<1>2. CountsInv'
  BY <1>0 DEF IInv, TypeOK, MoreTypes, CountsInv, Busy
<1>3. MutexInv'
  BY <1>0 DEF IInv, TypeOK, MutexInv
<1>4. TextInv'
  BY <1>0 DEF IInv, TypeOK, MoreTypes, TextInv, MutexInv
<1>5. PageInv' /\ TextWhole'
  BY <1>0 DEF IInv, TypeOK, MoreTypes, PageInv, TextWhole, MutexInv, TextInv
<1>6. NewInv'
  BY <1>0 DEF IInv, TypeOK, MoreTypes, NewInv, CountsInv, MutexInv, TextInv, Busy
<1>7. TextIsCurrent'
  BY <1>0 DEF IInv, TypeOK, MoreTypes, TextIsCurrent, CountsInv, MutexInv, TextInv, PageInv, NewInv
<1> QED BY <1>1, <1>2, <1>3, <1>4, <1>5, <1>6, <1>7 DEF IInv

----------------------------------------------------------------------------

\* Before the first start() there is nothing.
LEMMA InitInv == Init => IInv
<1> SUFFICES ASSUME Init PROVE IInv
  OBVIOUS
<1> USE DEF Init, ClientInside, WorkerInside, Busy
<1>1. TypeOK
  BY Orders, MaxPollsAssumption DEF TypeOK, NoText, NoReading, FreeMutex, WorkerPlaces, ClientPlaces
<1>2. MoreTypes
  <2>1. published \in Seq(Nat) /\ polls \in 0 .. MaxPolls
    BY MaxPollsAssumption
  <2>2. DOMAIN next = {"worker", "client"}
    OBVIOUS
  <2>3. DOMAIN cached = DOMAIN EmptySnapshot /\ cached.title = 0 /\ cached.artist = 0 /\ cached.updates = 0
    BY Empty
  <2>4. base = 0 /\ orphaned = FALSE /\ ~WorkerInside /\ wpc = "dead"
    OBVIOUS
  <2> HIDE DEF Init, Busy, ClientInside
  <2>5. base \in Nat /\ orphaned \in BOOLEAN
    BY <2>4
  <2>6. cached.title \in Nat /\ cached.artist \in Nat /\ cached.updates \in Nat
    BY <2>3
  <2>7. WorkerInside \/ wpc = "numbers" => next.worker \in DOMAIN WriteOrder
    BY <2>4
  <2> QED BY <2>1, <2>2, <2>3, <2>5, <2>6, <2>7, Zenon DEF MoreTypes
<1>3. CountsInv /\ MutexInv /\ TextInv /\ PageInv /\ NewInv
  BY Empty DEF CountsInv, MutexInv, TextInv, PageInv, NewInv, NoText, FreeMutex
<1>4. TextWhole /\ TextIsCurrent
  BY Empty DEF TextWhole, TextIsCurrent
<1> QED BY <1>1, <1>2, <1>3, <1>4 DEF IInv

\* The inductive invariant of the snapshot.
THEOREM Invariance == Spec => []IInv
<1>1. Init => IInv
  BY InitInv
<1>2. IInv /\ [Next]_vars => IInv'
  <2> SUFFICES ASSUME IInv, [Next]_vars PROVE IInv'
    OBVIOUS
  <2>1. CASE WorkerStep
    BY <2>1, GatherKeeps, LockTextKeeps, CopyTitleOutKeeps, CopyArtistOutKeeps, ReleaseTextKeeps,
       PublishNumberKeeps, CountKeeps DEF WorkerStep
  <2>2. CASE ClientStep
    BY <2>2, BeginSnapshotKeeps, TryTextKeeps, CopyTitleInKeeps, CopyArtistInKeeps, ReleaseAndFileKeeps,
       ReadNumberKeeps DEF ClientStep
  <2>3. CASE PollThrows \/ Die \/ Start \/ \E level \in Levels : SetVolume(level)
    BY <2>3, PollThrowsKeeps, DieKeeps, StartKeeps, SetVolumeKeeps
  <2>4. CASE UNCHANGED vars
    BY <2>4 DEF vars, IInv, TypeOK, MoreTypes, CountsInv, MutexInv, TextInv, PageInv, NewInv, TextWhole,
       TextIsCurrent, ClientInside, WorkerInside, Busy
  <2> QED BY <2>1, <2>2, <2>3, <2>4 DEF Next
<1> QED BY <1>1, <1>2, PTL DEF Spec

\* Types of the shared block, the mutex and both processes.
THEOREM TypeCorrect == Spec => []TypeOK
<1>1. IInv => TypeOK
  BY DEF IInv
<1> QED BY <1>1, Invariance, PTL

\* Title and artist on the page come from one poll, unless a worker died while
\* it was copying them.
THEOREM TextStaysWhole == Spec => []TextWhole
<1>1. IInv => TextWhole
  BY DEF IInv
<1> QED BY <1>1, Invariance, PTL

\* The text is never older than the counter it is filed under, nor that of a
\* worker before the one that is shown as connected.
THEOREM TextStaysCurrent == Spec => []TextIsCurrent
<1>1. IInv => TextIsCurrent
  BY DEF IInv
<1> QED BY <1>1, Invariance, PTL

-----------------------------------------------------------------------------
(* The numbers of PageMath: bars that stay inside their segments, and what a *)
(* heartbeat of fixed width can tell.                                        *)

LEMMA WrapInRange == ASSUME NEW x \in Int PROVE Wrap(x) \in -Half .. Half - 1
  BY HalfAssumption DEF Wrap

LEMMA WrapOfSmall == ASSUME NEW x \in Int, -Half <= x, x < Half PROVE Wrap(x) = x
  BY HalfAssumption DEF Wrap

\* Whatever position and duration the page has read, also of two polls, and
\* whatever overflows: no more segments are lit than the bar has.
THEOREM BarStaysInside ==
    ASSUME NEW p \in Int, NEW d \in Int, NEW s \in Nat PROVE Filled(p, d, s) \in 0 .. s
  BY HalfAssumption DEF Filled, Wrap

\* A track played to its end fills its bar, as long as nothing overflows.
THEOREM BarFillsAtEnd ==
    ASSUME NEW d \in Nat \ {0}, NEW s \in Nat, d * s + d \div 2 < Half
    PROVE  Filled(d, d, s) = s
<1>1. d * s \in Nat /\ d \div 2 \in Nat /\ d \div 2 < d
  OBVIOUS
<1>2. Wrap(d * s) = d * s
  BY <1>1, WrapOfSmall, HalfAssumption
<1>3. Wrap(d * s + d \div 2) = d * s + d \div 2
  BY <1>1, WrapOfSmall, HalfAssumption
<1>4. (d * s + d \div 2) \div d = s
  BY <1>1
<1> QED BY <1>1, <1>2, <1>3, <1>4 DEF Filled

LEMMA Small == ASSUME NEW z \in Int, NEW m \in Nat \ {0}, -m < z * m, z * m < m PROVE z = 0
<1>1. CASE z >= 1
  <2>1. z * m >= m
    BY <1>1
  <2> QED BY <2>1
<1>2. CASE z <= -1
  <2>1. z * m <= -m
    BY <1>2
  <2> QED BY <2>1
<1> QED BY <1>1, <1>2

\* Whole turns do not change a remainder.
LEMMA TurnsVanish ==
    ASSUME NEW m \in Nat \ {0}, NEW x \in Int, NEW k \in Int PROVE (x - k * m) % m = x % m
<1> DEFINE y == x - k * m
           z == (x \div m) - (y \div m) - k
<1>1. y \in Int
  OBVIOUS
<1>2. \A n \in Int : /\ (n % m) \in 0 .. m - 1 /\ n \div m \in Int
                     /\ n = (n \div m) * m + (n % m)
  OBVIOUS
<1>3. z \in Int
  BY <1>1, <1>2
<1>4. (y % m) - (x % m) = z * m
  <2>1. x = (x \div m) * m + (x % m)
    BY <1>2
  <2>2. y = (y \div m) * m + (y % m)
    BY <1>1, <1>2
  <2> DEFINE a == x \div m
             b == y \div m
  <2>3. a \in Int /\ b \in Int /\ z = a - b - k
    BY <1>1
  <2> HIDE DEF a, b
  <2> QED BY <2>1, <2>2, <2>3 DEF a, b
<1>5. -m < (y % m) - (x % m) /\ (y % m) - (x % m) < m
  BY <1>1, <1>2
<1> HIDE DEF z
<1>6. z = 0
  BY <1>3, <1>4, <1>5, Small
<1>7. (y % m) - (x % m) = 0
  BY <1>4, <1>6
<1>8. (y % m) \in Int /\ (x % m) \in Int
  BY <1>1, <1>2
<1> HIDE DEF y
<1>9. y % m = x % m
  BY <1>7, <1>8
<1> QED BY <1>9 DEF y

LEMMA WrapTurns == ASSUME NEW x \in Int PROVE \E k \in Int : Wrap(x) = x - k * (2 * Half)
<1> DEFINE m == 2 * Half
<1>1. m \in Nat \ {0}
  BY HalfAssumption
<1> HIDE DEF m
<1>2. \A y \in Int : y % m = y - (y \div m) * m /\ y \div m \in Int
  BY <1>1
<1>3. (x + Half) % m = (x + Half) - ((x + Half) \div m) * m /\ (x + Half) \div m \in Int
  BY <1>2, HalfAssumption
<1>4. Wrap(x) = x - ((x + Half) \div m) * m
  BY <1>3, <1>1, HalfAssumption DEF Wrap, m
<1> QED BY <1>3, <1>4 DEF m

\* The difference of two stamps is the time between them, but for whole turns.
LEMMA DifferenceTurns ==
    ASSUME NEW t \in Int, NEW e \in Int
    PROVE  \E k \in Int : Wrap(t + e) - Wrap(t) = e - k * (2 * Half)
<1> DEFINE m == 2 * Half
           u == t + e
<1>1. m \in Nat \ {0}
  BY HalfAssumption
<1>2. u \in Int
  OBVIOUS
<1> HIDE DEF u
<1>3. PICK a \in Int : Wrap(u) = u - a * m
  BY <1>2, WrapTurns, Zenon
<1>4. PICK b \in Int : Wrap(t) = t - b * m
  BY WrapTurns, Zenon
<1> HIDE DEF m
<1>5. Wrap(u) - Wrap(t) = e - (a - b) * m
  BY <1>1, <1>2, <1>3, <1>4 DEF u
<1>6. a - b \in Int
  OBVIOUS
<1> QED BY <1>5, <1>6 DEF u, m

LEMMA WrapOfTurns ==
    ASSUME NEW x \in Int, NEW k \in Int PROVE Wrap(x - k * (2 * Half)) = Wrap(x)
<1> DEFINE m == 2 * Half
<1>1. m \in Nat \ {0}
  BY HalfAssumption
<1> HIDE DEF m
<1> DEFINE y == x + Half
<1>2. y \in Int
  BY HalfAssumption
<1> HIDE DEF y
<1>3. (y - k * m) % m = y % m
  BY <1>1, <1>2, TurnsVanish, Zenon
<1>4. ((x + Half) - k * m) % m = (x + Half) % m
  BY <1>3 DEF y
<1>5. x - k * m + Half = (x + Half) - k * m
  BY <1>1, HalfAssumption
<1>6. (x - k * m + Half) % m = (x + Half) % m
  BY <1>4, <1>5
<1> QED BY <1>6 DEF Wrap, m

\* The page stamped its heartbeat at tick t and e ticks have passed: the music
\* worker holds it for open while the window lasts, and again when half of the
\* counter's range is over (24.8 days), until the counter is round.
THEOREM HeartbeatWindow ==
    ASSUME NEW t \in Nat, NEW e \in Nat, e < 2 * Half, Wrap(t) # 0,
           NEW window \in 1 .. Half
    PROVE  Fresh(Wrap(t + e), Wrap(t), window) <=> e < window \/ Half <= e
<1>1. PICK k \in Int : Wrap(t + e) - Wrap(t) = e - k * (2 * Half)
  BY DifferenceTurns
<1>2. Wrap(Wrap(t + e) - Wrap(t)) = Wrap(e)
  BY <1>1, WrapOfTurns
<1>3. e < Half => Wrap(e) = e
  BY WrapOfSmall, HalfAssumption
<1>4. Half <= e => Wrap(e) = e - 2 * Half
  BY HalfAssumption DEF Wrap
<1> QED BY <1>2, <1>3, <1>4, HalfAssumption DEF Fresh

\* The Doom worker's difference is unsigned and tells open from closed until the
\* counter is round; but the 0 of a closed page is itself a stamp: for one
\* window after every turn of the counter the page looks open.
THEOREM FocusWindow ==
    ASSUME NEW t \in Nat, NEW e \in Nat, e < 2 * Half, NEW window \in 1 .. 2 * Half
    PROVE  /\ Focused(Wrap(t + e), Wrap(t), window) <=> e < window
           /\ Focused(Wrap(t), 0, window) <=> t % (2 * Half) < window
<1> DEFINE m == 2 * Half
<1>1. m \in Nat \ {0}
  BY HalfAssumption
<1>2. t \in Int /\ e \in Int
  OBVIOUS
<1>3. PICK k \in Int : Wrap(t + e) - Wrap(t) = e - k * m
  BY <1>2, DifferenceTurns, Zenon
<1>4. PICK j \in Int : Wrap(t) = t - j * m
  BY <1>2, WrapTurns, Zenon
<1>5. Wrap(t) - 0 = t - j * m
  BY <1>4, WrapInRange, HalfAssumption
<1> HIDE DEF m
<1>6. (e - k * m) % m = e % m /\ (t - j * m) % m = t % m
  BY <1>1, <1>2, TurnsVanish, Zenon
<1>7. e % m = e
  BY <1>1 DEF m
<1> QED BY <1>3, <1>5, <1>6, <1>7 DEF Focused, m

\* Of any numbers one is the least.
LEMMA Least ==
    ASSUME NEW S, S \subseteq Nat, S # {}
    PROVE  \E n \in S : \A m \in S : n <= m
<1> DEFINE Below == OpToRel(<, Nat)
<1>1. IsWellFoundedOn(Below, Nat)
  BY NatLessThanWellFounded, Zenon
<1>2. \A m, n \in Nat : m < n => <<m, n>> \in Below
  BY DEF OpToRel
<1> HIDE DEF Below
<1>3. PICK n \in S : \A m \in S : <<m, n>> \notin Below
  BY <1>1, WFMin
<1>4. ASSUME NEW m \in S PROVE n <= m
  <2>1. m \in Nat /\ n \in Nat /\ ~(m < n)
    BY <1>2, <1>3
  <2> QED BY <2>1
<1> QED BY <1>4

\* Of some places up to a last one, one is the greatest.
LEMMA Greatest ==
    ASSUME NEW room \in Nat, NEW S \in SUBSET (0 .. room), S # {}
    PROVE  Max(S) \in S /\ \A n \in S : n <= Max(S)
<1> DEFINE rest == {room - n : n \in S}
<1>1. rest \subseteq Nat /\ rest # {}
  <2>1. \A n \in S : n \in 0 .. room /\ room - n \in Nat
    OBVIOUS
  <2> QED BY <2>1
<1>2. \E n \in rest : \A m \in rest : n <= m
  <2> HIDE DEF rest
  <2> QED BY <1>1, Least, Zenon
<1>3. PICK i \in S : \A m \in rest : room - i <= m
  BY <1>2
<1>4. ASSUME NEW n \in S PROVE i >= n
  <2>1. room - i <= room - n
    BY <1>3
  <2>2. i \in 0 .. room /\ n \in 0 .. room
    OBVIOUS
  <2> QED BY <2>1, <2>2
<1>5. \E x \in S : \A y \in S : x >= y
  BY <1>4
<1>6. Max(S) \in S /\ \A y \in S : Max(S) >= y
  BY <1>5 DEF Max
<1>7. \A y \in S : y \in 0 .. room
  OBVIOUS
<1> QED BY <1>6, <1>7

\* musicClamp() writes no more bytes than it may, mark included; what it keeps
\* is the beginning of the text, ends before a character, and no longer part of
\* the text that does so leaves room for the mark. What fits is kept whole.
THEOREM LabelFits ==
    ASSUME NEW limit \in Nat, NEW Byte, NEW value \in Seq(Byte)
    PROVE  LET shown == Clamp(limit, value)
               n == Len(shown.kept)
               mark == IF shown.marked THEN 2 ELSE 0
               Boundary(k) == k = 0 \/ value[k + 1] # "next"
           IN /\ n \in 0 .. Len(value) /\ n + mark <= limit
              /\ \A i \in 1 .. n : shown.kept[i] = value[i]
              /\ n = Len(value) \/ Boundary(n)
              /\ n < Len(value) =>
                   /\ shown.marked <=> limit >= 2
                   /\ \A k \in n + 1 .. Len(value) : Boundary(k) => k + 2 > limit
              /\ Len(value) <= limit => n = Len(value)
<1> DEFINE room == IF limit >= 2 THEN limit - 2 ELSE 0
           ends == {k \in 0 .. room : k = 0 \/ value[k + 1] # "next"}
           cut == Max(ends)
           shown == Clamp(limit, value)
           n == Len(shown.kept)
           Boundary(k) == k = 0 \/ value[k + 1] # "next"
<1>1. Len(value) \in Nat /\ room \in Nat /\ room <= limit
  OBVIOUS
<1>2. CASE Len(value) <= limit
  <2>1. Clamp(limit, value) = [kept |-> value, marked |-> FALSE]
    BY <1>2 DEF Clamp
  <2> QED BY <1>1, <1>2, <2>1
<1>3. CASE Len(value) > limit
  <2>1. Clamp(limit, value) = [kept |-> SubSeq(value, 1, cut), marked |-> limit >= 2]
    <3>1. ~(Len(value) <= limit)
      BY <1>1, <1>3
    <3> QED BY <3>1 DEF Clamp
  <2>2. ends \in SUBSET (0 .. room) /\ 0 \in ends
    BY <1>1
  <2>3. cut \in ends /\ \A k \in ends : k <= cut
    <3> HIDE DEF ends, room
    <3> QED BY <1>1, <2>2, Greatest
  <2>4. cut \in 0 .. room /\ (cut = 0 \/ value[cut + 1] # "next")
    BY <2>3
  <2>5. \A k \in cut + 1 .. room : k # 0 /\ value[k + 1] = "next"
    <3>1. \A k \in cut + 1 .. room : k \in 0 .. room /\ ~(k <= cut)
      BY <2>4
    <3> QED BY <2>3, <2>4, <3>1
  <2> HIDE DEF cut, ends
  <2>6. Len(SubSeq(value, 1, cut)) = cut /\ \A i \in 1 .. cut : SubSeq(value, 1, cut)[i] = value[i]
    BY <1>1, <1>3, <2>4
  <2>7. \A k \in cut + 1 .. Len(value) : k = 0 \/ value[k + 1] # "next" => k + 2 > limit
    <3> TAKE k \in cut + 1 .. Len(value)
    <3> HAVE k = 0 \/ value[k + 1] # "next"
    <3>1. k \in Nat /\ k >= 1 /\ ~(k <= room)
      BY <2>4, <2>5
    <3> QED BY <3>1
  <2>8. cut + (IF limit >= 2 THEN 2 ELSE 0) <= limit
    BY <2>4
  <2>9. n = cut /\ (shown.marked <=> limit >= 2) /\ \A i \in 1 .. n : shown.kept[i] = value[i]
    <3> DEFINE kept == SubSeq(value, 1, cut)
               long == limit >= 2
    <3>1. shown = [kept |-> kept, marked |-> long]
      BY <2>1
    <3> HIDE DEF shown, kept, long
    <3>2. shown.kept = kept /\ shown.marked = long
      BY <3>1, Zenon
    <3>3. n = cut
      BY <2>6, <3>2 DEF kept
    <3> QED BY <2>6, <3>2, <3>3 DEF kept, long
  <2> HIDE DEF shown, n
  <2>10. n \in 0 .. Len(value) /\ n < Len(value)
    BY <1>1, <1>3, <2>4, <2>9
  <2>11. n + (IF shown.marked THEN 2 ELSE 0) <= limit
    BY <2>8, <2>9
  <2>12. \A k \in n + 1 .. Len(value) : Boundary(k) => k + 2 > limit
    BY <2>7, <2>9
  <2>13. Boundary(n)
    BY <2>4, <2>9
  <2>14. ~(Len(value) <= limit)
    BY <1>1, <1>3
  <2> HIDE DEF Boundary
  <2>15. /\ n \in 0 .. Len(value) /\ n + (IF shown.marked THEN 2 ELSE 0) <= limit
         /\ \A i \in 1 .. n : shown.kept[i] = value[i]
         /\ n = Len(value) \/ Boundary(n)
         /\ n < Len(value) => /\ shown.marked <=> limit >= 2
                              /\ \A k \in n + 1 .. Len(value) : Boundary(k) => k + 2 > limit
         /\ Len(value) <= limit => n = Len(value)
    BY <2>9, <2>10, <2>11, <2>12, <2>13, <2>14, Zenon
  <2> QED BY <2>15 DEF shown, n, Boundary
<1>4. Len(value) <= limit \/ Len(value) > limit
  BY <1>1
<1> QED BY <1>2, <1>3, <1>4, Zenon

====
