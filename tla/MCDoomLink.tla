---- MODULE MCDoomLink ----
(* One key, a queue it can fill, one restart of the worker. *)
EXTENDS DoomLink
====
