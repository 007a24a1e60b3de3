--------------------------- MODULE MCThreadRouting ---------------------------
(* Instances of ThreadRouting for TLC: three messages on one or two replicas. *)
EXTENDS ThreadRouting, TLC

CONSTANTS m1, m2, m3

KindsOf(a, b, c) == [m \in Msg |-> CASE m = m1 -> a [] m = m2 -> b [] m = m3 -> c]

AllDms        == KindsOf("dm", "dm", "dm")
DmsAndStatus  == KindsOf("dm", "dm", "status")
DmsAndNudge   == KindsOf("dm", "dm", "nudge")
Mixed         == KindsOf("dm", "reply", "void")

TaskSymmetry == Permutations(Task)
Symmetry     == Permutations(Task) \cup Permutations(Worker)
=============================================================================
