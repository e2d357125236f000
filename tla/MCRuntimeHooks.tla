---- MODULE MCRuntimeHooks ----
(* Two game threads over two controller scripts and one disc script. *)
EXTENDS RuntimeHooks
====
