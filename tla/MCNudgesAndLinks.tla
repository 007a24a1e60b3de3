-------------------------- MODULE MCNudgesAndLinks --------------------------
(***************************************************************************)
(* FollowUps and ConnectFlow for TLC: nudges, and the links that runs wait  *)
(* for.  The two share no state (a connection that got stuck is one of      *)
(* FollowUps' Connections), so that it is enough that one of them, `side`,  *)
(* moves in a behaviour.  The nudges have two sides: one row that two       *)
(* replicas race for, and two rows of one replica, whose batches hold one.  *)
(***************************************************************************)
EXTENDS FollowUps

CONSTANTS f1, f2, crm, turn, promise, r1, r2,
          Askers, Owners, Accounts, Providers, Tasks, MaxBreaks

VARIABLES side, rows, up, links, asked, resumed, task, hooks, seen, minted,
          removed, crashes, breaks

Links == INSTANCE ConnectFlow WITH
             Runs <- Askers, MaxFaults <- MaxBreaks, faults <- breaks

(* What ConnectFlow takes of its constants. *)
ASSUME LinksAssumption == MaxBreaks \in Nat

connecting == <<rows, up, links, asked, resumed, task, hooks, seen, minted,
                removed, crashes, breaks>>

all == <<side, vars, connecting>>

Nudging == {"race", "batch"}

NoLinks ==
    /\ rows = Null /\ up = Null /\ links = Null /\ asked = Null /\ resumed = Null
    /\ task = Null /\ hooks = Null /\ seen = Null /\ minted = Null /\ removed = Null
    /\ crashes = Null /\ breaks = Null

SideInit ==
    /\ Init
    /\ \/ side = "race" /\ f2 \notin mute /\ NoLinks
       \/ side = "batch" /\ NoLinks
       \/ side = "links" /\ mute = {} /\ Links!Init

(* Bound: one row in the race; one replica, and rows of the agent's turn,   *)
(* for the batches.                                                         *)
Bounded ==
    /\ side = "race" =>
          /\ row'[f2] = Null
          /\ Opened(f1) => \A r \in Replicas : opening'[r] \in {opening[r], Null}
    /\ side = "batch" =>
          /\ worker'[r2] = Idle /\ opening'[r2] = Null
          /\ opening'[r1] # crm /\ pending' = pending

Nudges(step) == side \in Nudging /\ step /\ Bounded /\ UNCHANGED <<side, connecting>>

Connects(step) == side = "links" /\ step /\ UNCHANGED <<side, vars>>

(* The fairness of FollowUps and ConnectFlow, of the side that moves. *)
SideSpec ==
    /\ SideInit
    /\ [][Nudges(Next) \/ Connects(Links!Next)]_all
    /\ \A r \in Replicas : WF_all(Nudges(WorkerStep(r)))
    /\ \A t \in Tasks :
          /\ WF_all(Connects(Links!TaskStep(t)))
          /\ WF_all(Connects(Links!ResumePolls(t)))

(* ConnectFlow's PendingSettles: a run that waits in a pending row does not *)
(* wait there for ever, unless the app has several rows                     *)
(* (app/integrations/connect.py, resume_pending_polls).                     *)
PendingSettles ==
    \A r \in Askers :
        side = "links" /\ Links!Waits(r) ~>
            side = "links" /\ (~Links!Waits(r) \/ Cardinality(Links!Found) > 1)

(* ConnectFlow's LinkIsAnswered: while nobody else asks, no row is deleted  *)
(* and nothing fails, a posted link becomes a success or a failure          *)
(* (app/integrations/connect.py, complete and _mark_connect_failed).        *)
LinkIsAnswered ==
    \A r \in Askers :
        side = "links" /\ links[r] = "live" ~> side = "links" /\ Links!Answered(r)
=============================================================================
