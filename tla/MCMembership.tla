---------------------------- MODULE MCMembership ----------------------------
(* Membership for TLC: people, organizations and calls are alike. *)
EXTENDS Membership, TLC

Symmetry == Permutations(People) \cup Permutations(Orgs) \cup Permutations(Calls)
=============================================================================
