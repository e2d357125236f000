---- MODULE MCMusicSnapshot ----
(* No player at all, a long song near its end, and a short jingle; and the  *)
(* arithmetic of the page against plain definitions.                        *)
EXTENDS MusicSnapshot, PageMath

Song == [sessions |-> 1, playback |-> 1, position |-> 3, duration |-> 4, volume |-> 50]
Jingle == [sessions |-> 1, playback |-> 2, position |-> 0, duration |-> 1, volume |-> 50]

\* Text and mutex do not depend on what is playing: one player or none.
OnePlayer == {NoReading, Song}
\* A track change needs two tracks of different length.
TwoTracks == {Song, Jingle}

\* Characters of one to three bytes, and texts of up to four of them.
Characters == {<<"first">>, <<"first", "next">>, <<"first", "next", "next">>}
Texts == UNION {[1 .. n -> Characters] : n \in 0 .. 4}

\* A label shows as many whole characters as fit, with room for the mark.
ASSUME \A chars \in Texts, limit \in 0 .. 8 :
    LET value == FlattenSeq(chars)
        shown == Clamp(limit, value)
        Whole(room) == Max({n \in 0 .. Len(chars) : Len(FlattenSeq(SubSeq(chars, 1, n))) <= room})
    IN IF Len(value) <= limit THEN shown = [kept |-> value, marked |-> FALSE]
       ELSE /\ shown.marked <=> limit >= 2
            /\ shown.kept = FlattenSeq(SubSeq(chars, 1, Whole(IF limit >= 2 THEN limit - 2 ELSE 0)))

\* As long as nothing overflows, no number of segments is nearer to the share
\* of the track that has been played.
ASSUME \A d \in 1 .. 15, s \in 0 .. 4 : \A p \in 0 .. d :
    LET Error(n) == IF n * d >= p * s THEN (n * d) - (p * s) ELSE (p * s) - (n * d)
    IN \A n \in 0 .. s : Error(Filled(p, d, s)) <= Error(n)

\* Stamps: every tick of two turns of the counter, every age up to one turn.
Window == 20
ASSUME \A t \in 0 .. 4 * Half, e \in 0 .. (2 * Half) - 1 :
    /\ Wrap(t) = 0 \/ (Fresh(Wrap(t + e), Wrap(t), Window) <=> e < Window \/ Half <= e)
    /\ Focused(Wrap(t + e), Wrap(t), Window) <=> e < Window
====
