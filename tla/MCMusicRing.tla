---- MODULE MCMusicRing ----
(* MusicRing with a ring of two slots, so that presses wrap it twice. *)
EXTENDS MusicRing
====
