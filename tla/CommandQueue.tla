---- MODULE CommandQueue ----
(***************************************************************************)
(* What the Music page is promised about its buttons, with no ring, no     *)
(* counters and no process: presses join a bounded first-in first-out      *)
(* queue and are served one at a time.  When the server goes away, what    *)
(* was waiting is lost; a new session begins with an empty queue, so a     *)
(* press made before it can never be served in it.                         *)
(***************************************************************************)
EXTENDS Naturals, Sequences

CONSTANTS Commands,   \* what a press may ask for
          Capacity    \* presses that may wait, besides the one in service

VARIABLES serving,    \* a server is there to take commands
          waiting,    \* accepted and not yet served, oldest first
          done        \* served in this session, oldest first

vars == <<serving, waiting, done>>

Init == /\ serving = FALSE
        /\ waiting = <<>>
        /\ done = <<>>

Accept(c) == /\ serving
             /\ Len(waiting) <= Capacity
             /\ waiting' = Append(waiting, c)
             /\ UNCHANGED <<serving, done>>

Serve == /\ serving
         /\ waiting # <<>>
         /\ done' = Append(done, Head(waiting))
         /\ waiting' = Tail(waiting)
         /\ UNCHANGED serving

Fail == /\ serving
        /\ serving' = FALSE
        /\ waiting' = <<>>
        /\ UNCHANGED done

Begin == /\ ~serving
         /\ serving' \in BOOLEAN
         /\ waiting' = <<>>
         /\ done' = <<>>

Next == \/ \E c \in Commands : Accept(c)
        \/ Serve
        \/ Fail
        \/ Begin

Spec == Init /\ [][Next]_vars
====
