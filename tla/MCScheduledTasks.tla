-------------------------- MODULE MCScheduledTasks --------------------------
(* ScheduledTasks for TLC: a local task, recurring, a one-shot or a delayed *)
(* message, and a system task.                                              *)
EXTENDS ScheduledTasks, TLC

CONSTANTS brief, local, ana, r1, q1, q2

LocalAndBrief == {local, brief}
JustBrief == {brief}

Every == {[every |-> 1, at |-> 0]}
=============================================================================
