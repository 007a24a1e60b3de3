----------------------------- MODULE MessageFate -----------------------------
(***************************************************************************)
(* What the thread routing promises about a user message, whatever the     *)
(* redeliveries, races and crashes: it is let in at most once, it waits in *)
(* the inbox at most once, the inbox is emptied as a whole, and a message  *)
(* that reached the conversation history stays there.                      *)
(***************************************************************************)
CONSTANT Msg

VARIABLE fate

Fates == {"unseen", "carried", "queued", "saved", "gone"}

Move(S, from, to) ==
    /\ \A m \in S : fate[m] = from
    /\ fate' = [m \in Msg |-> IF m \in S THEN to ELSE fate[m]]

Init == fate = [m \in Msg |-> "unseen"]

LetIn(m) == Move({m}, "unseen", "carried")
Queue(m) == Move({m}, "carried", "queued")

\* A drain takes every queued message, or none.
TakeAll == Move({m \in Msg : fate[m] = "queued"}, "queued", "carried")

\* One run persists a whole batch.
SaveBatch == \E S \in SUBSET Msg : Move(S, "carried", "saved")

\* Messages that no run will see: refused, unroutable, or lost in a crash.
\* A queued message is never dropped from the inbox.
Drop == \E S \in SUBSET {m \in Msg : fate[m] \in {"unseen", "carried"}} :
            fate' = [m \in Msg |-> IF m \in S THEN "gone" ELSE fate[m]]

Next == (\E m \in Msg : LetIn(m) \/ Queue(m)) \/ TakeAll \/ SaveBatch \/ Drop

Spec == Init /\ [][Next]_fate
=============================================================================
