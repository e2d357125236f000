---- MODULE MusicRing_proof ----
(***************************************************************************)
(* The ring between the tablet and MusicWorker is right for every number   *)
(* of slots and every set of commands.                                     *)
(***************************************************************************)
EXTENDS MusicRing, TLAPS

(* What the two processes know of each other at each place in their code.  *)

\* The counters never part by more than the ring; the client appends only
\* after it has seen room, and the worker takes only after it has seen work.
CountersInv ==
    /\ head <= tail /\ tail - head <= Queue
    /\ cpc \in {"slot", "tail"} => tail - head < Queue
    /\ wpc \in {"take", "advance"} => head < tail
    /\ wpc \in {"take", "advance", "apply"} => drained < Queue

\* The counters are also the lengths of the two histories.
HistoryInv ==
    /\ Len(accepted) = tail
    /\ wpc \notin {"dead", "apply"} => Len(applied) = head
    /\ wpc = "apply" => head = Len(applied) + 1

\* What each side holds in a register.
HandsInv ==
    /\ cpc \in {"slot", "tail"} => pressed \in Commands
    /\ cpc = "tail" => queue[Slot(tail)] = pressed
    /\ wpc = "advance" => taken = accepted[head + 1]
    /\ wpc = "apply" => taken = accepted[head]

IInv == TypeOK /\ CountersInv /\ HistoryInv /\ HandsInv /\ NothingOverwritten /\ AppliedIsAccepted

----------------------------------------------------------------------------

\* Two counters less than a ring apart never share a slot.
LEMMA SlotsDiffer ==
    ASSUME NEW m \in Nat, NEW n \in Nat, m < n, n - m < Queue
    PROVE  Slot(m) # Slot(n)
<1> USE QueueAssumption
<1>1. SUFFICES ASSUME m % Queue = n % Queue PROVE FALSE
  BY DEF Slot
<1> DEFINE a == m \div Queue  b == n \div Queue
<1>2. /\ a \in Int /\ b \in Int
      /\ m = Queue * a + (m % Queue)
      /\ n = Queue * b + (n % Queue)
  BY SMT
<1> HIDE DEF a, b
<1>3. n - m = Queue * (b - a)
  BY <1>1, <1>2, SMT
<1>4. b - a \in Int /\ b - a > 0
  <2>1. CASE b - a <= 0
    <3>1. Queue * (b - a) <= 0
      BY <2>1, <1>2, SMT
    <3> QED BY <3>1, <1>3, SMT
  <2> QED BY <2>1, <1>2, SMT
<1>5. Queue * (b - a) >= Queue
  BY <1>4, SMT
<1> QED BY <1>3, <1>5, SMT

LEMMA SlotInRing ==
    ASSUME NEW n \in Nat
    PROVE  Slot(n) \in 0 .. Queue - 1
BY QueueAssumption, SMT DEF Slot

----------------------------------------------------------------------------

LEMMA InitIInv == Init => IInv
<1> SUFFICES ASSUME Init PROVE IInv
  OBVIOUS
<1> USE QueueAssumption DEF Init
<1>1. <<>> \in Seq(Commands) /\ Len(<<>>) = 0
  OBVIOUS
<1>2. TypeOK
  <2>1. queue \in [0 .. Queue - 1 -> Commands \cup {None}]
    OBVIOUS
  <2>2. 0 \in 0 .. Queue
    OBVIOUS
  <2> QED BY <1>1, <2>1, <2>2 DEF TypeOK
<1>3. CountersInv /\ HistoryInv /\ HandsInv
  BY <1>1, SMT DEF CountersInv, HistoryInv, HandsInv
<1>4. NothingOverwritten /\ AppliedIsAccepted
  BY <1>1, SMT DEF NothingOverwritten, AppliedIsAccepted
<1> QED BY <1>2, <1>3, <1>4 DEF IInv

LEMMA NextIInv == IInv /\ [Next]_vars => IInv'
<1> SUFFICES ASSUME IInv, [Next]_vars PROVE IInv'
  OBVIOUS
<1> USE QueueAssumption, NoneAssumption
<1>1. CASE Start
  BY <1>1, SMT DEF Start, IInv, TypeOK, CountersInv, HistoryInv, HandsInv, NothingOverwritten, AppliedIsAccepted
<1>2. ASSUME NEW c \in Commands, Press(c) PROVE IInv'
  BY <1>2, SMT DEF Press, Full, ring, worker, IInv, TypeOK, CountersInv, HistoryInv, HandsInv, NothingOverwritten, AppliedIsAccepted
<1>3. CASE WriteSlot
  <2>1. tail \in Nat /\ Slot(tail) \in 0 .. Queue - 1
    BY SlotInRing DEF IInv, TypeOK
  <2>2. TypeOK' /\ HandsInv' /\ CountersInv' /\ HistoryInv' /\ AppliedIsAccepted'
    BY <1>3, <2>1, SMT DEF WriteSlot, worker, IInv, TypeOK, HandsInv, CountersInv, HistoryInv, AppliedIsAccepted, NothingOverwritten
  <2>3. NothingOverwritten'
    <3> SUFFICES ASSUME wpc # "dead", NEW n \in head .. tail - 1, n # head \/ wpc # "advance"
                 PROVE  queue'[Slot(n)] = accepted[n + 1]
      BY <1>3, SMT DEF WriteSlot, worker, NothingOverwritten
    <3>1. n \in Nat /\ n < tail /\ tail - n < Queue
      BY <1>3, SMT DEF WriteSlot, IInv, TypeOK, CountersInv
    <3>2. Slot(n) # Slot(tail)
      BY <3>1, <2>1, SlotsDiffer
    <3>3. queue'[Slot(n)] = queue[Slot(n)]
      BY <1>3, <3>1, <3>2, SlotInRing DEF WriteSlot, IInv, TypeOK
    <3> QED BY <3>3 DEF IInv, NothingOverwritten
  <2> QED BY <2>2, <2>3 DEF IInv
<1>4. CASE WriteTail
  <2>1. pressed \in Commands /\ tail \in Nat /\ Len(accepted) = tail /\ accepted \in Seq(Commands)
    BY <1>4 DEF WriteTail, IInv, TypeOK, HandsInv, HistoryInv
  <2>2. /\ accepted' \in Seq(Commands) /\ Len(accepted') = tail + 1
        /\ \A i \in 1 .. tail : accepted'[i] = accepted[i]
        /\ accepted'[tail + 1] = pressed
    BY <1>4, <2>1, SMT DEF WriteTail
  <2>3. TypeOK' /\ CountersInv' /\ HistoryInv'
    BY <1>4, <2>1, <2>2, SMT DEF WriteTail, worker, IInv, TypeOK, CountersInv, HistoryInv
  <2>4. HandsInv' /\ AppliedIsAccepted'
    BY <1>4, <2>1, <2>2, SMT DEF WriteTail, worker, IInv, TypeOK, HandsInv, HistoryInv, CountersInv, AppliedIsAccepted
  <2>5. NothingOverwritten'
    <3> SUFFICES ASSUME wpc # "dead", NEW n \in head .. tail, n # head \/ wpc # "advance"
                 PROVE  queue[Slot(n)] = accepted'[n + 1]
      BY <1>4, <2>1, SMT DEF WriteTail, worker, IInv, TypeOK, NothingOverwritten
    <3>1. CASE n = tail
      BY <1>4, <2>2, <3>1 DEF WriteTail, IInv, HandsInv
    <3>2. CASE n # tail
      <4>1. n \in head .. tail - 1 /\ n + 1 \in 1 .. tail
        BY <2>1, <3>2, SMT DEF IInv, TypeOK
      <4> QED BY <2>2, <4>1 DEF IInv, NothingOverwritten
    <3> QED BY <3>1, <3>2
  <2> QED BY <2>3, <2>4, <2>5 DEF IInv
<1>5. CASE Boot
  BY <1>5, SMT DEF Boot, client, ring, IInv, TypeOK, CountersInv, HistoryInv, HandsInv, NothingOverwritten, AppliedIsAccepted
<1>6. CASE Drain
  BY <1>6, SMT DEF Drain, client, ring, IInv, TypeOK, CountersInv, HistoryInv, HandsInv, NothingOverwritten, AppliedIsAccepted
<1>7. CASE Take
  <2>1. head \in Nat /\ Slot(head) \in 0 .. Queue - 1 /\ head < tail /\ tail \in Nat
    BY <1>7, SlotInRing DEF Take, IInv, TypeOK, CountersInv
  <2>2. TypeOK' /\ CountersInv' /\ HistoryInv' /\ AppliedIsAccepted'
    BY <1>7, <2>1, SMT DEF Take, client, IInv, TypeOK, CountersInv, HistoryInv, AppliedIsAccepted
  <2>3. ASSUME NEW n \in Nat, head < n, n - head < Queue
        PROVE  queue'[Slot(n)] = queue[Slot(n)]
    BY <1>7, <2>1, <2>3, SlotsDiffer, SlotInRing DEF Take, IInv, TypeOK
  <2>4. HandsInv'
    <3>1. cpc = "tail" => queue'[Slot(tail)] = queue[Slot(tail)]
      BY <2>1, <2>3, SMT DEF IInv, CountersInv
    <3>2. taken' = accepted[head + 1]
      BY <1>7, <2>1, SMT DEF Take, IInv, NothingOverwritten
    <3> QED BY <1>7, <3>1, <3>2 DEF Take, client, IInv, HandsInv
  <2>5. NothingOverwritten'
    BY <1>7, <2>1, <2>3, SMT DEF Take, client, IInv, TypeOK, CountersInv, NothingOverwritten
  <2> QED BY <2>2, <2>4, <2>5 DEF IInv
<1>8. CASE Advance
  BY <1>8, SMT DEF Advance, client, IInv, TypeOK, CountersInv, HistoryInv, HandsInv, NothingOverwritten, AppliedIsAccepted
<1>9. CASE Apply
  <2>1. /\ head = Len(applied) + 1 /\ taken = accepted[head] /\ head <= tail /\ head \in Nat
        /\ tail = Len(accepted) /\ accepted \in Seq(Commands) /\ applied \in Seq(Commands)
    BY <1>9 DEF Apply, IInv, TypeOK, CountersInv, HistoryInv, HandsInv
  <2>2. taken \in Commands
    BY <2>1, SMT
  <2>3. applied' = Append(applied, taken)
    BY <1>9, <2>2 DEF Apply
  <2>4. TypeOK' /\ CountersInv' /\ HistoryInv'
    BY <1>9, <2>1, <2>2, <2>3, SMT DEF Apply, client, ring, IInv, TypeOK, CountersInv, HistoryInv
  <2>5. HandsInv' /\ NothingOverwritten'
    BY <1>9, SMT DEF Apply, client, ring, IInv, HandsInv, NothingOverwritten
  <2>6. AppliedIsAccepted'
    BY <1>9, <2>1, <2>2, <2>3, SMT DEF Apply, IInv, AppliedIsAccepted
  <2> QED BY <2>4, <2>5, <2>6 DEF IInv
<1>10. CASE Poll
  BY <1>10, SMT DEF Poll, client, ring, IInv, TypeOK, CountersInv, HistoryInv, HandsInv, NothingOverwritten, AppliedIsAccepted
<1>11. CASE Die
  BY <1>11, SMT DEF Die, client, ring, IInv, TypeOK, CountersInv, HistoryInv, HandsInv, NothingOverwritten, AppliedIsAccepted
<1>12. CASE UNCHANGED vars
  BY <1>12 DEF vars, IInv, TypeOK, CountersInv, HistoryInv, HandsInv, NothingOverwritten, AppliedIsAccepted,
     Slot
<1> QED
  BY <1>1, <1>2, <1>3, <1>4, <1>5, <1>6, <1>7, <1>8, <1>9, <1>10, <1>11, <1>12 DEF Next

\* The inductive invariant holds in every reachable state.
THEOREM Invariance == Spec => []IInv
BY InitIInv, NextIInv, PTL DEF Spec

\* Every variable keeps its type, whatever the ring's size.
THEOREM TypeCorrect == Spec => []TypeOK
<1>1. IInv => TypeOK
  BY DEF IInv
<1> QED BY <1>1, Invariance, PTL

\* The worker applies exactly the commands the client published, in order and
\* without loss or repetition (client.h command(), worker.cpp main()).
THEOREM InOrder == Spec => []AppliedIsAccepted
<1>1. IInv => AppliedIsAccepted
  BY DEF IInv
<1> QED BY <1>1, Invariance, PTL

\* A slot between head and tail keeps its command until the worker takes it.
THEOREM NoOverrun == Spec => []NothingOverwritten
<1>1. IInv => NothingOverwritten
  BY DEF IInv
<1> QED BY <1>1, Invariance, PTL

----------------------------------------------------------------------------
(* The ring implements the queue of CommandQueue. *)

\* The commands published and not yet applied, read from the histories.
Owed == [i \in 1 .. tail - Len(applied) |-> accepted[Len(applied) + i]]

LEMMA OwedIsSeq ==
    ASSUME IInv
    PROVE  /\ Owed \in Seq(Commands)
           /\ Len(Owed) = tail - Len(applied)
           /\ \A i \in 1 .. tail - Len(applied) : Owed[i] = accepted[Len(applied) + i]
<1>1. /\ accepted \in Seq(Commands) /\ Len(accepted) = tail
      /\ Len(applied) \in Nat /\ tail \in Nat /\ Len(applied) <= tail
  BY DEF IInv, TypeOK, HistoryInv, AppliedIsAccepted
<1>2. \A i \in 1 .. tail - Len(applied) : accepted[Len(applied) + i] \in Commands
  BY <1>1, SMT
<1> QED BY <1>1, <1>2, SMT DEF Owed

\* What the worker holds and what the slots hold are together what is owed.
LEMMA WaitingIsOwed == IInv /\ wpc # "dead" => Waiting = Owed
<1> SUFFICES ASSUME IInv, wpc # "dead" PROVE Waiting = Owed
  OBVIOUS
<1>1. /\ head \in Nat /\ tail \in Nat /\ head <= tail
      /\ accepted \in Seq(Commands) /\ Len(accepted) = tail /\ Len(applied) \in Nat
  BY DEF IInv, TypeOK, CountersInv, HistoryInv
<1>2. \A k \in head .. tail - 1 : (k # head \/ wpc # "advance") => queue[Slot(k)] = accepted[k + 1]
  BY DEF IInv, NothingOverwritten
<1>3. CASE wpc \notin {"advance", "apply"}
  <2>1. Len(applied) = head /\ InHand = <<>> /\ OldestInRing = head
    BY <1>3 DEF IInv, HistoryInv, InHand, OldestInRing
  <2>2. \A i \in 1 .. tail - head : queue[Slot(head + i - 1)] = accepted[head + i]
    <3> TAKE i \in 1 .. tail - head
    <3>1. head + i - 1 \in head .. tail - 1 /\ (head + i - 1) + 1 = head + i
      BY <1>1, SMT
    <3> QED BY <1>2, <1>3, <3>1
  <2>3. InRing = Owed
    BY <2>1, <2>2 DEF InRing, Owed
  <2>4. <<>> \o Owed = Owed
    BY OwedIsSeq, SMT
  <2> QED BY <2>1, <2>3, <2>4 DEF Waiting
<1>4. CASE wpc = "advance"
  <2>1. /\ Len(applied) = head /\ head < tail /\ taken = accepted[head + 1]
        /\ InHand = <<taken>> /\ OldestInRing = head + 1
    BY <1>4 DEF IInv, HistoryInv, CountersInv, HandsInv, InHand, OldestInRing
  <2>2. InRing = [i \in 1 .. tail - (head + 1) |-> accepted[(head + 1) + i]]
    <3>1. \A i \in 1 .. tail - (head + 1) : queue[Slot(head + 1 + i - 1)] = accepted[(head + 1) + i]
      <4> TAKE i \in 1 .. tail - (head + 1)
      <4>1. /\ head + 1 + i - 1 \in head .. tail - 1 /\ head + 1 + i - 1 # head
            /\ (head + 1 + i - 1) + 1 = (head + 1) + i
        BY <1>1, SMT
      <4> QED BY <1>2, <4>1
    <3> QED BY <2>1, <3>1 DEF InRing
  <2>3. <<taken>> \o InRing = Owed
    BY <1>1, <2>1, <2>2, SMT DEF Owed
  <2> QED BY <1>4, <2>1, <2>3 DEF Waiting
<1>5. CASE wpc = "apply"
  <2>1. /\ head = Len(applied) + 1 /\ taken = accepted[head]
        /\ InHand = <<taken>> /\ OldestInRing = head
    BY <1>5 DEF IInv, HistoryInv, HandsInv, InHand, OldestInRing
  <2>2. InRing = [i \in 1 .. tail - head |-> accepted[head + i]]
    <3>1. \A i \in 1 .. tail - head : queue[Slot(head + i - 1)] = accepted[head + i]
      <4> TAKE i \in 1 .. tail - head
      <4>1. head + i - 1 \in head .. tail - 1 /\ (head + i - 1) + 1 = head + i
        BY <1>1, SMT
      <4> QED BY <1>2, <1>5, <4>1
    <3> QED BY <2>1, <3>1 DEF InRing
  <2>3. <<taken>> \o InRing = Owed
    BY <1>1, <2>1, <2>2, SMT DEF Owed
  <2> QED BY <1>5, <2>1, <2>3 DEF Waiting
<1> QED BY <1>3, <1>4, <1>5

LEMMA RefinementInit == Init => Abstract!Init
BY DEF Init, Abstract!Init, Waiting

LEMMA RefinementStep == IInv /\ IInv' /\ [Next]_vars => [Abstract!Next]_(Abstract!vars)
<1> SUFFICES ASSUME IInv, IInv', [Next]_vars
             PROVE  [Abstract!Next]_(Abstract!vars)
  OBVIOUS
<1>1. /\ wpc # "dead" => Waiting = Owed
      /\ wpc' # "dead" => Waiting' = Owed'
  <2>1. (IInv /\ wpc # "dead" => Waiting = Owed)'
    BY WaitingIsOwed, PTL
  <2> QED BY <2>1, WaitingIsOwed
<1>2. /\ tail \in Nat /\ Len(applied) \in Nat /\ Len(applied) <= tail /\ head \in Nat
      /\ accepted \in Seq(Commands) /\ Len(accepted) = tail /\ applied \in Seq(Commands)
  BY DEF IInv, TypeOK, HistoryInv, AppliedIsAccepted
<1>3. wpc = "dead" => Waiting = <<>>
  BY DEF Waiting
<1>4. wpc' = "dead" => Waiting' = <<>>
  BY DEF Waiting
\* A step that changes neither history nor the worker's being alive is a stutter.
<1>5. ASSUME UNCHANGED <<tail, accepted, applied>>, (wpc = "dead") <=> (wpc' = "dead")
      PROVE  [Abstract!Next]_(Abstract!vars)
  <2>1. Waiting' = Waiting
    BY <1>1, <1>3, <1>4, <1>5 DEF Owed
  <2>2. (wpc # "dead")' = (wpc # "dead")
    BY <1>5
  <2> QED BY <1>5, <2>1, <2>2 DEF Abstract!vars
<1>6. CASE Start
  <2>1. Owed' = <<>>
    BY <1>6, SMT DEF Start, Owed
  <2>2. Waiting' = <<>> /\ applied' = <<>> /\ ~(wpc # "dead")
    BY <1>1, <1>4, <1>6, <2>1 DEF Start
  <2> QED BY <2>2 DEF Abstract!Next, Abstract!Begin
<1>7. ASSUME NEW c \in Commands, Press(c) PROVE [Abstract!Next]_(Abstract!vars)
  BY <1>5, <1>7 DEF Press, ring, worker
<1>8. CASE WriteSlot
  BY <1>5, <1>8 DEF WriteSlot, worker
<1>9. CASE WriteTail
  <2>1. /\ wpc' = wpc /\ applied' = applied /\ tail' = tail + 1
        /\ accepted' = Append(accepted, pressed) /\ pressed \in Commands
    BY <1>9 DEF WriteTail, worker, IInv, HandsInv
  <2>2. CASE wpc = "dead"
    BY <1>3, <1>4, <2>1, <2>2 DEF Abstract!vars
  <2>3. CASE wpc # "dead"
    <3>1. Owed' = Append(Owed, pressed)
      BY <1>2, <2>1, SMT DEF Owed
    <3>2. Len(Owed) <= Queue
      <4>1. Len(Owed) = tail - Len(applied)
        BY OwedIsSeq
      <4>2. tail - head < Queue /\ (Len(applied) = head \/ head = Len(applied) + 1)
        BY <1>9, <2>3 DEF WriteTail, IInv, CountersInv, HistoryInv
      <4> QED BY <1>2, <4>1, <4>2, QueueAssumption, SMT
    <3>3. Abstract!Accept(pressed)
      BY <1>1, <2>1, <2>3, <3>1, <3>2 DEF Abstract!Accept
    <3> QED BY <2>1, <3>3 DEF Abstract!Next
  <2> QED BY <2>2, <2>3
<1>10. CASE Boot
  BY <1>5, <1>10 DEF Boot, client, ring
<1>11. CASE Drain
  BY <1>5, <1>11 DEF Drain, client, ring
<1>12. CASE Take
  BY <1>5, <1>12 DEF Take, client
<1>13. CASE Advance
  BY <1>5, <1>13 DEF Advance, client
<1>14. CASE Apply
  <2>1. /\ wpc # "dead" /\ wpc' # "dead" /\ tail' = tail /\ accepted' = accepted
        /\ head = Len(applied) + 1 /\ head <= tail /\ taken = accepted[head]
    BY <1>14 DEF Apply, client, ring, IInv, HistoryInv, HandsInv, CountersInv
  <2>2. taken \in Commands
    BY <1>2, <2>1, SMT
  <2>3. applied' = Append(applied, taken)
    BY <1>14, <2>2 DEF Apply
  <2>4. /\ Owed \in Seq(Commands) /\ Len(Owed) = tail - Len(applied)
        /\ \A i \in 1 .. tail - Len(applied) : Owed[i] = accepted[Len(applied) + i]
    BY OwedIsSeq
  <2>5. Owed # <<>> /\ Head(Owed) = taken
    BY <1>2, <2>1, <2>4, SMT
  <2>6. Owed' = Tail(Owed)
    BY <1>2, <2>1, <2>3, SMT DEF Owed
  <2>7. Abstract!Serve
    BY <1>1, <2>1, <2>3, <2>5, <2>6 DEF Abstract!Serve
  <2> QED BY <2>7 DEF Abstract!Next
<1>15. CASE Poll
  BY <1>5, <1>15 DEF Poll, client, ring
<1>16. CASE Die
  BY <1>4, <1>16 DEF Die, Abstract!Next, Abstract!Fail
<1>17. CASE UNCHANGED vars
  BY <1>5, <1>17 DEF vars
<1> QED
  BY <1>6, <1>7, <1>8, <1>9, <1>10, <1>11, <1>12, <1>13, <1>14, <1>15, <1>16, <1>17 DEF Next

\* With its counters, slots and places in the code hidden, the ring is the
\* bounded queue the page is promised, across every death of the worker.
THEOREM Refinement == Spec => ImplementsCommandQueue
<1>1. Init /\ []IInv /\ [][Next]_vars => Abstract!Spec
  BY RefinementInit, RefinementStep, PTL DEF Abstract!Spec
<1> QED BY <1>1, Invariance, PTL DEF Spec, ImplementsCommandQueue
====
