---- MODULE MusicRing ----
(***************************************************************************)
(* The command ring between the tablet (MusicClient, in Echo's process)    *)
(* and MusicWorker.exe.  Both sides work on one shared block with single   *)
(* interlocked reads and writes, so every such access is a step here:      *)
(*                                                                         *)
(*   client   Press      read tail and head, drop the press if full        *)
(*            WriteSlot  store the command in its slot                     *)
(*            WriteTail  publish it                                        *)
(*   worker   Drain      compare head with tail                            *)
(*            Take       swap the slot with MC_NONE                        *)
(*            Advance    publish the free slot                             *)
(*            Apply      hand the command to Windows                       *)
(*            Poll       the poll and the sleep that end the main loop     *)
(*                                                                         *)
(* The worker may die at any of its steps, holding a command or not, and   *)
(* the tablet starts a new one on the same block.                          *)
(***************************************************************************)
EXTENDS Integers, Sequences

CONSTANTS Commands,   \* MC_PLAYPAUSE .. MC_SOURCE
          None,       \* MC_NONE, what Take leaves in a slot
          Queue,      \* MUSIC_QUEUE, the number of slots
          MaxTail     \* bound: presses accepted in one session of the worker

ASSUME QueueAssumption == Queue \in Nat \ {0}
ASSUME MaxTailAssumption == MaxTail \in Nat
ASSUME NoneAssumption == None \notin Commands

VARIABLES mapped,     \* the client has mapped the block (shared # nullptr)
          head, tail, \* counters of the ring; only the client resets them
          queue,      \* the slots
          cpc,        \* the client's place: "idle", "slot" or "tail"
          pressed,    \* the command the client is appending
          wpc,        \* the worker's place, "dead" when there is no process
          taken,      \* the command the worker has taken out of its slot
          drained,    \* the worker's `guard`: commands taken in this loop
          accepted,   \* history: commands published since start()
          applied     \* history: commands applied since start()

ring == <<head, tail, queue>>
client == <<mapped, cpc, pressed>>
worker == <<wpc, taken, drained>>
vars == <<mapped, head, tail, queue, cpc, pressed, wpc, taken, drained, accepted, applied>>

Slot(n) == n % Queue
\* Bug variant of Full: one press too many (>= for >).
FullOffByOne == tail - head > Queue
Full == tail - head >= Queue

Init == /\ mapped = FALSE
        /\ head = 0 /\ tail = 0
        /\ queue = [s \in 0 .. Queue - 1 |-> None]
        /\ cpc = "idle" /\ pressed = None
        /\ wpc = "dead" /\ taken = None /\ drained = 0
        /\ accepted = <<>> /\ applied = <<>>

----------------------------------------------------------------------------
(* The client *)

\* Bug variant of Start: no look at whether a worker is alive.
StartOverLiveWorker ==
    /\ cpc = "idle"
    /\ mapped' = TRUE
    /\ head' = 0 /\ tail' = 0
    /\ wpc' \in {"boot", "dead"}
    /\ taken' = None /\ drained' = 0
    /\ accepted' = <<>> /\ applied' = <<>>
    /\ UNCHANGED <<queue, cpc, pressed>>

\* start() with no live worker: the counters are reset, the slots are not.
\* The process may fail to appear (no file, no folder, CreateProcess refused);
\* the block stays mapped and reset all the same.
Start ==
    /\ cpc = "idle" /\ wpc = "dead"
    /\ mapped' = TRUE
    /\ head' = 0 /\ tail' = 0
    /\ wpc' \in {"boot", "dead"}
    /\ taken' = None /\ drained' = 0
    /\ accepted' = <<>> /\ applied' = <<>>
    /\ UNCHANGED <<queue, cpc, pressed>>

\* command(): a press is dropped without a trace when the ring is full.
Press(c) ==
    /\ cpc = "idle" /\ mapped
    /\ tail < MaxTail
    /\ ~Full
    /\ pressed' = c
    /\ cpc' = "slot"
    /\ UNCHANGED <<mapped, accepted, applied>> /\ UNCHANGED ring /\ UNCHANGED worker

WriteSlot ==
    /\ cpc = "slot"
    /\ queue' = [queue EXCEPT ![Slot(tail)] = pressed]
    /\ cpc' = "tail"
    /\ UNCHANGED <<mapped, pressed, head, tail, accepted, applied>> /\ UNCHANGED worker

WriteTail ==
    /\ cpc = "tail"
    /\ tail' = tail + 1
    /\ accepted' = Append(accepted, pressed)
    /\ cpc' = "idle"
    /\ pressed' = None
    /\ UNCHANGED <<mapped, head, queue, applied>> /\ UNCHANGED worker

----------------------------------------------------------------------------
(* The worker *)

\* main() has opened the block and the media manager.
Boot ==
    /\ wpc = "boot"
    /\ wpc' = "drain"
    /\ UNCHANGED <<taken, drained, accepted, applied>> /\ UNCHANGED client /\ UNCHANGED ring

\* Bug variant of Drain: no `guard` on the number of commands.
DrainUnbounded ==
    /\ wpc = "drain"
    /\ wpc' = IF head # tail THEN "take" ELSE "poll"
    /\ UNCHANGED <<taken, drained, accepted, applied>> /\ UNCHANGED client /\ UNCHANGED ring

\* Bug variant of Drain: the last command waits for a further press.
DrainLeavesLast ==
    /\ wpc = "drain"
    /\ wpc' = IF drained < Queue /\ head + 1 < tail THEN "take" ELSE "poll"
    /\ UNCHANGED <<taken, drained, accepted, applied>> /\ UNCHANGED client /\ UNCHANGED ring

\* The top of the drain loop: at most Queue commands, then a poll.
Drain ==
    /\ wpc = "drain"
    /\ wpc' = IF drained < Queue /\ head # tail THEN "take" ELSE "poll"
    /\ UNCHANGED <<taken, drained, accepted, applied>> /\ UNCHANGED client /\ UNCHANGED ring

Take ==
    /\ wpc = "take"
    /\ taken' = queue[Slot(head)]
    /\ queue' = [queue EXCEPT ![Slot(head)] = None]
    /\ wpc' = "advance"
    /\ UNCHANGED <<head, tail, drained, accepted, applied>> /\ UNCHANGED client

Advance ==
    /\ wpc = "advance"
    /\ head' = head + 1
    /\ wpc' = "apply"
    /\ UNCHANGED <<tail, queue, taken, drained, accepted, applied>> /\ UNCHANGED client

Apply ==
    /\ wpc = "apply"
    /\ applied' = IF taken \in Commands THEN Append(applied, taken) ELSE applied
    /\ taken' = None
    /\ drained' = drained + 1
    /\ wpc' = "drain"
    /\ UNCHANGED accepted /\ UNCHANGED client /\ UNCHANGED ring

\* The poll and the sleep of at most 1.5 s; neither touches the ring.
Poll ==
    /\ wpc = "poll"
    /\ drained' = 0
    /\ wpc' = "drain"
    /\ UNCHANGED <<taken, accepted, applied>> /\ UNCHANGED client /\ UNCHANGED ring

\* The process ends: killed, crashed, or main() gave up while booting.
Die ==
    /\ wpc # "dead"
    /\ wpc' = "dead"
    /\ taken' = None /\ drained' = 0
    /\ UNCHANGED <<accepted, applied>> /\ UNCHANGED client /\ UNCHANGED ring

WorkerStep == Boot \/ Drain \/ Take \/ Advance \/ Apply \/ Poll
ClientStep == WriteSlot \/ WriteTail

Next == \/ Start
        \/ \E c \in Commands : Press(c)
        \/ WriteSlot
        \/ WriteTail
        \/ Boot
        \/ Drain
        \/ Take
        \/ Advance
        \/ Apply
        \/ Poll
        \/ Die

\* Both processes are scheduled by Windows; command() contains no wait, and a
\* worker that is alive keeps running its loop.  Nothing is assumed of the
\* user: no press and no start is ever forced.
Fairness == WF_vars(WorkerStep) /\ WF_vars(ClientStep)
Spec == Init /\ [][Next]_vars /\ Fairness

----------------------------------------------------------------------------
(* Properties *)

TypeOK ==
    /\ mapped \in BOOLEAN
    /\ head \in Nat /\ tail \in Nat
    /\ queue \in [0 .. Queue - 1 -> Commands \cup {None}]
    /\ cpc \in {"idle", "slot", "tail"}
    /\ pressed \in Commands \cup {None}
    /\ wpc \in {"dead", "boot", "drain", "take", "advance", "apply", "poll"}
    /\ taken \in Commands \cup {None}
    /\ drained \in 0 .. Queue
    /\ accepted \in Seq(Commands) /\ applied \in Seq(Commands)

\* No press is lost, doubled or reordered between the two processes: what the
\* worker has applied is exactly what was accepted first in this session, up
\* to the command it has in hand (client.h command(), worker.cpp main()).
AppliedIsAccepted ==
    /\ Len(applied) <= Len(accepted)
    /\ \A i \in 1 .. Len(applied) : applied[i] = accepted[i]

\* Every slot between head and tail still holds the command that was put
\* there: the client never overwrites a command the worker has not taken, and
\* a slot is readable before tail says so.
NothingOverwritten ==
    wpc # "dead" =>
        \A n \in head .. tail - 1 :
            (n # head \/ wpc # "advance") => queue[Slot(n)] = accepted[n + 1]

\* Seen without its counters and steps the ring is the queue of CommandQueue:
\* the worker's hand, then the published slots, all of it gone with the worker.
InHand == IF wpc \in {"advance", "apply"} THEN <<taken>> ELSE <<>>
OldestInRing == IF wpc = "advance" THEN head + 1 ELSE head
InRing == [i \in 1 .. tail - OldestInRing |-> queue[Slot(OldestInRing + i - 1)]]
Waiting == IF wpc = "dead" THEN <<>> ELSE InHand \o InRing

Abstract == INSTANCE CommandQueue WITH
    Capacity <- Queue,
    serving <- wpc # "dead",
    waiting <- Waiting,
    done <- applied
ImplementsCommandQueue == Abstract!Spec

\* Every accepted press is applied in the end, unless the worker dies first.
EveryPressApplied ==
    \A n \in 1 .. MaxTail :
        (wpc # "dead" /\ Len(accepted) = n) ~> (wpc = "dead" \/ Len(applied) >= n)
====
