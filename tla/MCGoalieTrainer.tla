---- MODULE MCGoalieTrainer ----
(* Two controllers and two discs, so that neither is unique by construction. *)
EXTENDS GoalieTrainer
====
