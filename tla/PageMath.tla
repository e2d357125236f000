---- MODULE PageMath ----
(***************************************************************************)
(* The arithmetic behind the pages, without state of its own: how a text   *)
(* is fitted into a label, how many segments of a bar are lit, and whether *)
(* a heartbeat is recent.  Counters are numbers of a fixed width,          *)
(* -Half .. Half - 1; in the code Half is 2^31 and GetTickCount counts     *)
(* milliseconds.                                                           *)
(***************************************************************************)
EXTENDS Integers, Sequences, FiniteSetsExt

CONSTANT Half
ASSUME HalfAssumption == Half \in Nat \ {0}

\* Conversion to LONG, and what an overflowing LONG operation leaves on x64.
Wrap(x) == ((x + Half) % (2 * Half)) - Half

\* Bytes an element may show: its capacity with the terminator, the display
\* limit, the buffer.
Limit(size, capacity, display) ==
    Min({display, IF capacity = 0 THEN 0 ELSE capacity - 1, size - 1})

\* A text is a sequence of bytes; "next" is a byte that continues a character.
\* What is too long is cut before a character and marked, if there is room.
Clamp(limit, value) ==
    LET room == IF limit >= 2 THEN limit - 2 ELSE 0
        cut == Max({n \in 0 .. room : n = 0 \/ value[n + 1] # "next"})
    IN IF Len(value) <= limit THEN [kept |-> value, marked |-> FALSE]
       ELSE [kept |-> SubSeq(value, 1, cut), marked |-> limit >= 2]

\* Segments lit of a bar; the product and the sum may overflow, the divisor is
\* positive and a negative quotient lights nothing.
Filled(position, duration, segments) ==
    LET sum == Wrap(Wrap(position * segments) + duration \div 2)
        filled == sum \div duration
    IN IF duration <= 0 \/ position < 0 \/ sum < 0 THEN 0
       ELSE IF filled > segments THEN segments ELSE filled

\* The music worker's look at the stamp of the page: the difference is signed,
\* and 0 means that the page was closed.
Fresh(now, beat, window) == beat # 0 /\ Wrap(now - beat) < window

\* The Doom worker's: the difference is unsigned, and 0 is a stamp like any.
Focused(now, beat, window) == (now - beat) % (2 * Half) < window
====
