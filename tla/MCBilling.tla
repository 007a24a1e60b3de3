------------------------------ MODULE MCBilling ------------------------------
(* Instances of Billing for TLC: two paid plans whose monthly credits are of *)
(* the order of what a run costs, so that balances reach and pass zero.      *)
EXTENDS Billing, TLC

CONSTANTS k1, k2, r1, r2

OnePaid == {"starter"}
TwoPaid == {"starter", "pro"}

SmallAllotments == [p \in Plans |-> CASE p = "starter" -> 1
                                      [] p = "pro" -> 3
                                      [] p = "free" -> 2
                                      [] OTHER -> 0]

RunSymmetry == Permutations(Runs) \cup Permutations(Replicas)
=============================================================================
