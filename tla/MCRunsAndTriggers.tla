-------------------------- MODULE MCRunsAndTriggers --------------------------
(***************************************************************************)
(* AgentRun, ScheduledTasks and Automations for TLC: a run, with a harmless *)
(* call, a risky one and a request to connect an integration; and what      *)
(* starts runs, a recurring task on two replicas and the events of two      *)
(* members' automation.  The three share no state, so that it is enough     *)
(* that one of them, `side`, moves in a behaviour; the variables of a       *)
(* trigger that does not move hold nothing.                                 *)
(***************************************************************************)
EXTENDS AgentRun, Integers, TLC

CONSTANTS
    read, pay, connect,
    Tasks, SystemTasks, Members, Requests, Replicas, Crons, MinInterval,
    ClaimLimit, HomeChannel, MaxTime, MaxRuns, MaxErrors, MaxOps,
    Users, Names, Fires, MaxIds, MaxSecrets, MaxFaults

VARIABLES
    side,
    now, row, born, loop, run, lastRun, fire, sess, posts, taskCrashes, errors, ops,
    rows, trigger, call, event, eventRun, used, secrets, lost, faults

(* Instances of the modules with the proofs, so that what those prove can   *)
(* be cited.                                                                *)
Scheduler == INSTANCE ScheduledTasksProofs WITH crashes <- taskCrashes

Events == INSTANCE AutomationsProofs WITH fire <- event, run <- eventRun

(* What ScheduledTasks and Automations take of their constants. *)
ASSUME SchedulerAssumption ==
    /\ SystemTasks \subseteq Tasks /\ HomeChannel \in BOOLEAN
    /\ Crons \subseteq [every : Nat \ {0}, at : Nat]
    /\ ClaimLimit \in Nat \ {0}
    /\ {MinInterval, MaxTime, MaxRuns, MaxErrors, MaxOps} \subseteq Nat
    /\ Null \notin Int \cup Tasks \cup Members \cup Scheduler!Statuses
    /\ Null \notin Scheduler!Row \cup Scheduler!Fire \cup Scheduler!Run \cup Scheduler!Sess
ASSUME EventsAssumption ==
    /\ MaxIds \in Nat /\ MaxSecrets \in Nat /\ IsFiniteSet(Fires)
    /\ Null \notin Events!Row \cup Events!Call \cup Events!Fire \cup Events!Run

tasks == <<now, row, born, loop, run, lastRun, fire, sess, posts, taskCrashes, errors, ops>>

automations == <<rows, trigger, call, event, eventRun, used, secrets, lost, faults>>

NoTasks ==
    /\ now = Null /\ row = Null /\ born = Null /\ loop = Null /\ run = Null /\ lastRun = Null
    /\ fire = Null /\ sess = Null /\ posts = Null /\ taskCrashes = Null /\ errors = Null
    /\ ops = Null

NoAutomations ==
    /\ rows = Null /\ trigger = Null /\ call = Null /\ event = Null /\ eventRun = Null
    /\ used = Null /\ secrets = Null /\ lost = Null /\ faults = Null

SideInit ==
    /\ Init
    /\ \/ side = "run" /\ NoTasks /\ NoAutomations
       \/ side = "tasks" /\ Scheduler!Init /\ NoAutomations
       \/ side = "automations" /\ NoTasks /\ Events!Init

RunMoves == side = "run" /\ Next /\ UNCHANGED <<side, tasks, automations>>

TasksMove == side = "tasks" /\ Scheduler!Next /\ UNCHANGED <<side, vars, automations>>

AutomationsMove == side = "automations" /\ Events!Next /\ UNCHANGED <<side, vars, tasks>>

SideNext == RunMoves \/ TasksMove \/ AutomationsMove

SideSpec == SideInit /\ [][SideNext]_<<side, vars, tasks, automations>>

(* ScheduledTasks' OneFirePerInstant: however often the replicas tick and   *)
(* crash, an instant of a task is claimed once                              *)
(* (app/scheduled_tasks/repository.py, claim_due_tasks).                    *)
OneFirePerInstant == side = "tasks" => Scheduler!OneFirePerInstant

(* ScheduledTasks' OneShotDisarmed: a one-shot that was posted and has no    *)
(* fire on its way is off the schedule, also when its fires overlapped      *)
(* (app/scheduled_tasks/repository.py, record_fire_finished).               *)
OneShotDisarmed == side = "tasks" => Scheduler!OneShotDisarmed

(* ScheduledTasks' RunningMeansRunning: a task shows "running" only while   *)
(* one of its fires is on its way, also when its fires overlap and finish   *)
(* in any order, each on the row it read (record_fire_finished).            *)
RunningMeansRunning == side = "tasks" => Scheduler!RunningMeansRunning

(* Automations' NoOrphanTrigger: no trigger outlives its row, unless its    *)
(* removal failed (app/automations/agent_tools.py).                         *)
NoOrphanTrigger == side = "automations" => Events!NoOrphanTrigger

(* Automations' RunRowIsTrue: the row of a run has its task's prompt, and is *)
(* "running" while the task lives (app/automations/router.py).               *)
RunRowIsTrue == side = "automations" => Events!RunRowIsTrue

(* Automations' BooksAgree: the counters agree with the runs                *)
(* (app/automations/router.py).                                             *)
BooksAgree == side = "automations" => Events!BooksAgree

OneOrTwo == {[every |-> 1, at |-> 0], [every |-> 2, at |-> 0]}

Symmetry == Permutations(Invocations)
=============================================================================
