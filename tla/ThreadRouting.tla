---------------------------- MODULE ThreadRouting ----------------------------
(***************************************************************************)
(* One conversation thread of the Slack agent: from the delivery of an     *)
(* event to the end of the agent run that answers it.                      *)
(*                                                                         *)
(*   app/concurrency.py    dedupe rows, the advisory-lock mutex, the inbox *)
(*   app/slack/handlers.py _route_message, _coalesce, the approval buttons *)
(*   app/agent/runner.py   run_agent, _drive, _debounce_drain, resume_run  *)
(*                                                                         *)
(* Threads are independent (lock key, inbox rows and thread row are all    *)
(* keyed by the thread), so one thread is modelled.  A Task is a slot for  *)
(* one asyncio task together with the lock connection it may own; every    *)
(* action is what a task does between two awaits that other tasks, other   *)
(* replicas or a crash can separate.                                       *)
(***************************************************************************)
EXTENDS Naturals, Sequences, FiniteSets

CONSTANTS
    Msg,           \* user messages, one Slack event each
    Kind,          \* what each message is, see Kinds
    Worker,        \* replicas of the process, sharing one database
    Task,          \* slots for concurrent asyncio tasks
    MaxDeliveries, \* bound: deliveries of one event
    MaxResumes,    \* bound: button clicks and connect callbacks
    MaxCrashes,    \* bound: replica crashes
    Faults,        \* which operations may fail, see FaultKinds
    Outcomes,      \* how a run may end, see OutcomeKinds
    None           \* no task, no worker, no message

Kinds ==
    { "dm",       \* a mention or direct message: starts a thread if need be
      "reply",    \* require_existing_thread: only continues a known thread
      "status",   \* a pure status query (_is_pure_status_query)
      "void",     \* no text and no usable file: run_agent returns early
      "teamless", \* no team_id in the event
      "nudge" }   \* not a Slack event: run_agent called without a lock

FaultKinds == {"connect", "db", "post"}
OutcomeKinds == {"end", "interrupt", "error", "blocked"}

ASSUME ConstantsAssumption ==
    /\ Kind \in [Msg -> Kinds]
    /\ {MaxDeliveries, MaxResumes, MaxCrashes} \subseteq Nat
    /\ Faults \subseteq FaultKinds
    /\ Outcomes \subseteq OutcomeKinds
    /\ None \notin Task \cup Worker \cup Msg

VARIABLES
    \* Database
    seen,       \* slack_event_seen
    inbox,      \* thread_inbox rows of this thread, oldest first
    lock,       \* the task whose connection holds the advisory lock
    thread,     \* the thread row exists
    saved,      \* how many runs persisted each message
    checkpoint, \* LangGraph checkpoint of the run a message triggered
    \* Slack
    deliveries, resumes, gate,
    \* Processes
    pc, home, batch, direct, active, crashes

dbVars    == <<seen, inbox, thread, saved>>
slackVars == <<deliveries, resumes, gate>>
frame     == <<home, batch, direct>>
vars == <<dbVars, lock, checkpoint, slackVars, pc, frame, active, crashes>>

HandlerPhases == {"dedupe", "acquire", "status", "enqueue"}
RunPhases     == {"validate", "persist", "preflight", "graph", "gate",
                  "reply", "release"}
DrainPhases   == {"ddrain", "drelease"}
ResumePhases  == {"decide", "rcheck", "restart"}
Phases == HandlerPhases \cup RunPhases \cup DrainPhases \cup ResumePhases
            \cup {"free", "drain", "post", "dwait", "abandoned"}

\* Phases in which a task has a message in hand.
BatchPhases == HandlerPhases \cup RunPhases \cup ResumePhases \cup {"drain", "post"}

\* Phases in which a task that went through the mutex owns its handle.
LockedPhases == RunPhases \cup DrainPhases \cup {"drain", "abandoned"}

Elems(s) == {s[i] : i \in DOMAIN s}

\* user_ts of a run is that of its latest message (_coalesce, queued[-1]);
\* run_id = conversation_key:user_ts, so the run is named by that message.
Trigger(t) == batch[t][Len(batch[t])]

AllVoid(s) == \A m \in Elems(s) : Kind[m] = "void"

-----------------------------------------------------------------------------
(* Steps shared by the actions                                             *)

Goto(t, phase) == pc' = [pc EXCEPT ![t] = phase]

\* ThreadLockHandle.release: idempotent, a no-op without a handle.
Release(t) == lock' = IF lock = t THEN None ELSE lock

\* A task ends and its slot is free again.
Leave(t) ==
    /\ Goto(t, "free")
    /\ home' = [home EXCEPT ![t] = None]
    /\ batch' = [batch EXCEPT ![t] = <<>>]
    /\ direct' = direct \ {t}

\* A task is created on worker w for message m.
Start(t, w, m, phase, unlocked) ==
    /\ pc[t] = "free"
    /\ Goto(t, phase)
    /\ home' = [home EXCEPT ![t] = w]
    /\ batch' = [batch EXCEPT ![t] = <<m>>]
    /\ direct' = IF unlocked THEN direct \cup {t} ELSE direct

\* run_agent returns or raises: its finally clause releases the handle.
Finish(t) == Leave(t) /\ Release(t)

Init ==
    /\ seen = {} /\ inbox = <<>> /\ lock = None /\ thread = FALSE
    /\ saved = [m \in Msg |-> 0]
    /\ checkpoint = [m \in Msg |-> "none"]
    /\ deliveries = [m \in Msg |-> 0] /\ resumes = 0
    /\ gate = [m \in Msg |-> "none"]
    /\ pc = [t \in Task |-> "free"]
    /\ home = [t \in Task |-> None]
    /\ batch = [t \in Task |-> <<>>]
    /\ direct = {}
    /\ active = [w \in Worker |-> None]
    /\ crashes = 0

-----------------------------------------------------------------------------
(* Slack and the other callers of run_agent                                *)

\* Slack delivers an event, possibly again, to any replica.
Deliver(t, w, m) ==
    /\ Kind[m] # "nudge" /\ deliveries[m] < MaxDeliveries
    /\ deliveries' = [deliveries EXCEPT ![m] = @ + 1]
    /\ Start(t, w, m, "dedupe", FALSE)
    /\ UNCHANGED <<dbVars, lock, checkpoint, resumes, gate, active, crashes>>

\* The follow-up worker calls run_agent with lock_handle=None.
StartNudge(t, w, m) ==
    /\ Kind[m] = "nudge" /\ deliveries[m] = 0
    /\ deliveries' = [deliveries EXCEPT ![m] = 1]
    /\ Start(t, w, m, "validate", TRUE)
    /\ UNCHANGED <<dbVars, lock, checkpoint, resumes, gate, active, crashes>>

\* A user clicks an approval button that is still on the message.
Click(t, w, m) ==
    /\ gate[m] = "approval" /\ resumes < MaxResumes
    /\ resumes' = resumes + 1
    /\ Start(t, w, m, "decide", TRUE)
    /\ UNCHANGED <<dbVars, lock, checkpoint, deliveries, gate, active, crashes>>

\* The provider webhook or the poll reports the connection: resume_after_connect.
Connected(t, w, m) ==
    /\ gate[m] = "connect" /\ resumes < MaxResumes
    /\ resumes' = resumes + 1
    /\ Start(t, w, m, "rcheck", TRUE)
    /\ UNCHANGED <<dbVars, lock, checkpoint, deliveries, gate, active, crashes>>

-----------------------------------------------------------------------------
(* _route_message                                                          *)

\* mark_event_seen: INSERT ... ON CONFLICT DO NOTHING, committed at once.
Dedupe(t) ==
    /\ pc[t] = "dedupe"
    /\ LET m == Trigger(t) IN
       /\ seen' = seen \cup {m}
       /\ IF m \in seen \/ Kind[m] = "teamless"
            THEN Leave(t)
            ELSE Goto(t, "acquire") /\ UNCHANGED frame
    /\ UNCHANGED <<inbox, thread, saved, lock, checkpoint, slackVars, active, crashes>>

\* Mutant of ForgetEvent: rows are pruned while Slack may still redeliver.
ForgetEventEarly(m) ==
    /\ m \in seen
    /\ seen' = seen \ {m}
    /\ UNCHANGED <<inbox, thread, saved, lock, checkpoint, slackVars, pc, frame,
                   active, crashes>>

\* cleanup_old_events, one row at a time: Slack's retries are over by then.
ForgetEvent(m) ==
    /\ m \in seen /\ deliveries[m] = MaxDeliveries
    /\ \A t \in Task : pc[t] = "dedupe" => Trigger(t) # m
    /\ seen' = seen \ {m}
    /\ UNCHANGED <<inbox, thread, saved, lock, checkpoint, slackVars, pc, frame,
                   active, crashes>>

\* try_acquire_thread_lock, granted.
Acquire(t) ==
    /\ pc[t] = "acquire" /\ lock = None
    /\ lock' = t
    /\ Goto(t, "drain")
    /\ UNCHANGED <<dbVars, checkpoint, slackVars, frame, active, crashes>>

\* None: somebody holds the lock, or the connection could not be made.
AcquireFails(t) ==
    /\ pc[t] = "acquire" /\ (lock # None \/ "connect" \in Faults)
    /\ Goto(t, IF Kind[Trigger(t)] = "status" THEN "status" ELSE "enqueue")
    /\ UNCHANGED <<dbVars, lock, checkpoint, slackVars, frame, active, crashes>>

\* _respond_with_status reads this process's table of active runs and posts.
RespondWithStatus(t) ==
    /\ pc[t] = "status"
    /\ Leave(t)
    /\ UNCHANGED <<dbVars, lock, checkpoint, slackVars, active, crashes>>

\* enqueue_message: a transaction of its own, after the failed try.
Enqueue(t) ==
    /\ pc[t] = "enqueue"
    /\ \/ inbox' = Append(inbox, Trigger(t))
       \/ "db" \in Faults /\ UNCHANGED inbox
    /\ Leave(t)
    /\ UNCHANGED <<seen, thread, saved, lock, checkpoint, slackVars, active, crashes>>

\* Mutant of DrainAndRun: the queue is read but its rows are not deleted.
DrainAndRunKeepingRows(t) ==
    /\ pc[t] = "drain"
    /\ batch' = [batch EXCEPT ![t] = inbox \o @]
    /\ Goto(t, "validate")
    /\ UNCHANGED <<dbVars, lock, checkpoint, slackVars, home, direct, active, crashes>>

\* Mutant of DrainAndRun: the queued messages are not merged into the run.
DrainAndRunCurrentOnly(t) ==
    /\ pc[t] = "drain"
    /\ inbox' = <<>>
    /\ Goto(t, "validate")
    /\ UNCHANGED <<seen, thread, saved, lock, checkpoint, slackVars, frame,
                   active, crashes>>

\* drain_inbox and _coalesce by the handler that got the lock, then run_agent.
DrainAndRun(t) ==
    /\ pc[t] = "drain"
    /\ batch' = [batch EXCEPT ![t] = inbox \o @]
    /\ inbox' = <<>>
    /\ Goto(t, "validate")
    /\ UNCHANGED <<seen, thread, saved, lock, checkpoint, slackVars, home, direct,
                   active, crashes>>

\* drain_inbox raises in the handler: nothing releases the handle.
DrainRaises(t) ==
    /\ pc[t] = "drain" /\ "db" \in Faults
    /\ Goto(t, "abandoned")
    /\ batch' = [batch EXCEPT ![t] = <<>>]
    /\ UNCHANGED <<dbVars, lock, checkpoint, slackVars, home, direct, active, crashes>>

\* The collector may finalise the abandoned connection, at no particular time.
CollectAbandoned(t) ==
    /\ pc[t] = "abandoned"
    /\ Finish(t)
    /\ UNCHANGED <<dbVars, checkpoint, slackVars, active, crashes>>

-----------------------------------------------------------------------------
(* run_agent                                                               *)

\* Mutant of Validate: the early return leaves the handle unreleased.
ValidateKeepingLock(t) ==
    /\ pc[t] = "validate"
    /\ IF AllVoid(batch[t]) \/ (Kind[Trigger(t)] = "reply" /\ ~thread)
         THEN Leave(t)
         ELSE Goto(t, "persist") /\ UNCHANGED frame
    /\ UNCHANGED <<dbVars, lock, checkpoint, slackVars, active, crashes>>

\* Early returns: nothing to say, or a channel reply outside a known thread.
Validate(t) ==
    /\ pc[t] = "validate"
    /\ IF AllVoid(batch[t]) \/ (Kind[Trigger(t)] = "reply" /\ ~thread)
         THEN Finish(t)
         ELSE Goto(t, "persist") /\ UNCHANGED <<lock, frame>>
    /\ UNCHANGED <<dbVars, checkpoint, slackVars, active, crashes>>

\* _persist_user: the thread row, and the coalesced text as one message.
Persist(t) ==
    /\ pc[t] = "persist"
    /\ thread' = TRUE
    /\ saved' = [m \in Msg |-> IF m \in Elems(batch[t]) THEN saved[m] + 1 ELSE saved[m]]
    /\ Goto(t, "preflight")
    /\ UNCHANGED <<seen, inbox, lock, checkpoint, slackVars, frame, active, crashes>>

PersistRaises(t) ==
    /\ pc[t] = "persist" /\ "db" \in Faults
    /\ Finish(t)
    /\ UNCHANGED <<dbVars, checkpoint, slackVars, active, crashes>>

\* preflight_check says the workspace is out of credits.
PreflightBlocks(t) ==
    /\ pc[t] = "preflight" /\ "blocked" \in Outcomes
    /\ Finish(t)
    /\ UNCHANGED <<dbVars, checkpoint, slackVars, active, crashes>>

\* _register_active_run and ainvoke on the run's own checkpoint.
InvokeGraph(t) ==
    /\ pc[t] = "preflight"
    /\ Goto(t, "graph")
    /\ active' = [active EXCEPT ![home[t]] = Trigger(t)]
    /\ checkpoint' = [checkpoint EXCEPT ![Trigger(t)] = "open"]
    /\ UNCHANGED <<dbVars, lock, slackVars, frame, crashes>>

\* ainvoke returns; the finally clause pops the thread's entry, whoever set it.
LeaveGraph(t) ==
    /\ pc[t] = "graph"
    /\ active' = [active EXCEPT ![home[t]] = None]

GraphEnds(t) ==
    /\ LeaveGraph(t) /\ "end" \in Outcomes
    /\ checkpoint' = [checkpoint EXCEPT ![Trigger(t)] = "done"]
    /\ Goto(t, "reply")
    /\ UNCHANGED <<dbVars, lock, slackVars, frame, crashes>>

GraphInterrupts(t) ==
    /\ LeaveGraph(t) /\ "interrupt" \in Outcomes
    /\ checkpoint' = [checkpoint EXCEPT ![Trigger(t)] = "open"]
    /\ Goto(t, "gate")
    /\ UNCHANGED <<dbVars, lock, slackVars, frame, crashes>>

\* The exception path posts an apology and returns: no drain is scheduled.
GraphRaises(t) ==
    /\ LeaveGraph(t) /\ "error" \in Outcomes
    /\ Finish(t)
    /\ UNCHANGED <<dbVars, checkpoint, slackVars, crashes>>

-----------------------------------------------------------------------------
(* _drive                                                                  *)

\* Interrupt: the mutex is released before the gate is posted.
ReleaseForGate(t) ==
    /\ pc[t] = "gate"
    /\ Release(t)
    /\ Goto(t, "post")
    /\ UNCHANGED <<dbVars, checkpoint, slackVars, frame, active, crashes>>

\* _post_approval or start_connect, then return: no drain either.
PostGate(t) ==
    /\ pc[t] = "post"
    /\ \/ \E g \in {"approval", "connect"} :
             gate' = [gate EXCEPT ![Trigger(t)] = g]
       \/ "post" \in Faults /\ UNCHANGED gate
    /\ Leave(t)
    /\ UNCHANGED <<dbVars, lock, checkpoint, deliveries, resumes, active, crashes>>

\* chat_postMessage of the answer.
Reply(t) ==
    /\ pc[t] = "reply"
    /\ Goto(t, "release")
    /\ UNCHANGED <<dbVars, lock, checkpoint, slackVars, frame, active, crashes>>

ReplyRaises(t) ==
    /\ pc[t] = "reply" /\ "post" \in Faults
    /\ Finish(t)
    /\ UNCHANGED <<dbVars, checkpoint, slackVars, active, crashes>>

\* Mutant of ReleaseAndSchedule: the end of turn schedules no drain.
ReleaseWithoutDrain(t) ==
    /\ pc[t] = "release"
    /\ Finish(t)
    /\ UNCHANGED <<dbVars, checkpoint, slackVars, active, crashes>>

\* Mutant of ReleaseAndSchedule: the drain is scheduled before the release.
ScheduleWithoutRelease(t) ==
    /\ pc[t] = "release"
    /\ Goto(t, "dwait")
    /\ batch' = [batch EXCEPT ![t] = <<>>]
    /\ direct' = direct \ {t}
    /\ UNCHANGED <<dbVars, lock, checkpoint, slackVars, home, active, crashes>>

\* End of turn: release, then a detached _debounce_drain (same slot).
ReleaseAndSchedule(t) ==
    /\ pc[t] = "release"
    /\ Release(t)
    /\ Goto(t, "dwait")
    /\ batch' = [batch EXCEPT ![t] = <<>>]
    /\ direct' = direct \ {t}
    /\ UNCHANGED <<dbVars, checkpoint, slackVars, home, active, crashes>>

-----------------------------------------------------------------------------
(* _debounce_drain                                                         *)

\* Mutant of DebounceAcquire: the result of the try-lock is not looked at.
DebounceWithoutTry(t) ==
    /\ pc[t] = "dwait"
    /\ lock' = t
    /\ Goto(t, "ddrain")
    /\ UNCHANGED <<dbVars, checkpoint, slackVars, frame, active, crashes>>

\* After the 0.7 s pause, try_acquire_thread_lock again.
DebounceAcquire(t) ==
    /\ pc[t] = "dwait" /\ lock = None
    /\ lock' = t
    /\ Goto(t, "ddrain")
    /\ UNCHANGED <<dbVars, checkpoint, slackVars, frame, active, crashes>>

\* "another holder is active; they'll drain when done"
DebounceGivesUp(t) ==
    /\ pc[t] = "dwait" /\ (lock # None \/ "connect" \in Faults)
    /\ Leave(t)
    /\ UNCHANGED <<dbVars, lock, checkpoint, slackVars, active, crashes>>

\* Mutant of DebounceDrain: runs the agent on an empty queue.
DebounceDrainUnchecked(t) ==
    /\ pc[t] = "ddrain"
    /\ Goto(t, "validate")
    /\ batch' = [batch EXCEPT ![t] = inbox]
    /\ inbox' = <<>>
    /\ UNCHANGED <<seen, thread, saved, lock, checkpoint, slackVars, home, direct,
                   active, crashes>>

\* Mutant of DebounceDrain: takes the oldest message only.
DebounceDrainOldest(t) ==
    /\ pc[t] = "ddrain"
    /\ Goto(t, IF inbox = <<>> THEN "drelease" ELSE "validate")
    /\ batch' = [batch EXCEPT ![t] = IF inbox = <<>> THEN <<>> ELSE <<Head(inbox)>>]
    /\ inbox' = IF inbox = <<>> THEN inbox ELSE Tail(inbox)
    /\ UNCHANGED <<seen, thread, saved, lock, checkpoint, slackVars, home, direct,
                   active, crashes>>

\* Nothing queued: return through the finally clause.  Else run_agent inline.
DebounceDrain(t) ==
    /\ pc[t] = "ddrain"
    /\ Goto(t, IF inbox = <<>> THEN "drelease" ELSE "validate")
    /\ batch' = [batch EXCEPT ![t] = inbox]
    /\ inbox' = <<>>
    /\ UNCHANGED <<seen, thread, saved, lock, checkpoint, slackVars, home, direct,
                   active, crashes>>

DebounceRaises(t) ==
    /\ pc[t] = "ddrain" /\ "db" \in Faults
    /\ Goto(t, "drelease")
    /\ UNCHANGED <<dbVars, lock, checkpoint, slackVars, frame, active, crashes>>

DebounceRelease(t) ==
    /\ pc[t] = "drelease"
    /\ Finish(t)
    /\ UNCHANGED <<dbVars, checkpoint, slackVars, active, crashes>>

-----------------------------------------------------------------------------
(* resume_run: no lock is taken                                            *)

\* _decide replaces the message with the buttons; a failure is only logged.
Decide(t) ==
    /\ pc[t] = "decide"
    /\ \/ gate' = [gate EXCEPT ![Trigger(t)] = "none"]
       \/ "post" \in Faults /\ UNCHANGED gate
    /\ Goto(t, "rcheck")
    /\ UNCHANGED <<dbVars, lock, checkpoint, deliveries, resumes, frame, active, crashes>>

\* aget_state: go on if the checkpoint still has a next node.
ResumeCheck(t) ==
    /\ pc[t] = "rcheck"
    /\ IF checkpoint[Trigger(t)] = "open"
         THEN Goto(t, "restart") /\ UNCHANGED frame
         ELSE Leave(t)
    /\ UNCHANGED <<dbVars, lock, checkpoint, slackVars, active, crashes>>

\* ainvoke(Command(resume)) on a run with a pending node; if a concurrent
\* resume has finished it meanwhile, the stored result comes back at once.
ResumeInvoke(t) ==
    /\ pc[t] = "restart"
    /\ active' = [active EXCEPT ![home[t]] =
                     IF checkpoint[Trigger(t)] = "open" THEN Trigger(t) ELSE None]
    /\ Goto(t, IF checkpoint[Trigger(t)] = "open" THEN "graph" ELSE "reply")
    /\ UNCHANGED <<dbVars, lock, checkpoint, slackVars, frame, crashes>>

-----------------------------------------------------------------------------
\* A replica dies: its tasks vanish and PostgreSQL frees its locks.
Crash(w) ==
    /\ crashes < MaxCrashes
    /\ crashes' = crashes + 1
    /\ LET dead == {t \in Task : home[t] = w} IN
       /\ pc' = [t \in Task |-> IF t \in dead THEN "free" ELSE pc[t]]
       /\ home' = [t \in Task |-> IF t \in dead THEN None ELSE home[t]]
       /\ batch' = [t \in Task |-> IF t \in dead THEN <<>> ELSE batch[t]]
       /\ direct' = direct \ dead
       /\ lock' = IF lock \in dead THEN None ELSE lock
    /\ active' = [active EXCEPT ![w] = None]
    /\ UNCHANGED <<dbVars, checkpoint, slackVars>>

RouteStep(t) ==
    \/ Dedupe(t) \/ Acquire(t) \/ AcquireFails(t) \/ RespondWithStatus(t)
    \/ Enqueue(t) \/ DrainAndRun(t) \/ DrainRaises(t)

RunStep(t) ==
    \/ Validate(t) \/ Persist(t) \/ PersistRaises(t) \/ PreflightBlocks(t)
    \/ InvokeGraph(t) \/ GraphEnds(t) \/ GraphInterrupts(t) \/ GraphRaises(t)
    \/ ReleaseForGate(t) \/ PostGate(t) \/ Reply(t) \/ ReplyRaises(t)
    \/ ReleaseAndSchedule(t)

DrainStep(t) ==
    \/ DebounceAcquire(t) \/ DebounceGivesUp(t) \/ DebounceDrain(t)
    \/ DebounceRaises(t) \/ DebounceRelease(t)

ResumeStep(t) == Decide(t) \/ ResumeCheck(t) \/ ResumeInvoke(t)

TaskStep(t) == RouteStep(t) \/ RunStep(t) \/ DrainStep(t) \/ ResumeStep(t)

Environment ==
    \/ \E t \in Task, w \in Worker, m \in Msg :
          \/ Deliver(t, w, m) \/ StartNudge(t, w, m)
          \/ Click(t, w, m) \/ Connected(t, w, m)
    \/ \E m \in Msg : ForgetEvent(m)
    \/ \E t \in Task : CollectAbandoned(t)
    \/ \E w \in Worker : Crash(w)

Next == Environment \/ \E t \in Task : TaskStep(t)

Spec == Init /\ [][Next]_vars

\* The event loop runs every task that can run: all awaits of a task return.
\* Nothing is assumed of Slack, of users, of crashes or of the collector.
FairSpec == Spec /\ \A t \in Task : WF_vars(TaskStep(t))

-----------------------------------------------------------------------------
(* Properties                                                              *)
\* Every variable has the shape the database and the processes give it; a slot
\* is free exactly when no replica runs it, and a run always has a message to
\* answer (_debounce_drain's "if not queued: return").
TypeOK ==
    /\ seen \subseteq Msg
    /\ inbox \in Seq(Msg)
    /\ lock \in Task \cup {None}
    /\ thread \in BOOLEAN
    /\ saved \in [Msg -> Nat]
    /\ checkpoint \in [Msg -> {"none", "open", "done"}]
    /\ deliveries \in [Msg -> Nat]
    /\ resumes \in Nat
    /\ gate \in [Msg -> {"none", "approval", "connect"}]
    /\ pc \in [Task -> Phases]
    /\ home \in [Task -> Worker \cup {None}]
    /\ batch \in [Task -> Seq(Msg)]
    /\ direct \subseteq Task
    /\ active \in [Worker -> Msg \cup {None}]
    /\ crashes \in Nat
    /\ \A t \in Task : /\ pc[t] = "free" <=> home[t] = None
                       /\ pc[t] \in BatchPhases <=> batch[t] # <<>>

\* The advisory lock is held exactly by a task that still owes a release:
\* no early return, exception, hand-over to run_agent or crash leaves it with
\* a task that ended, and no run started from Slack goes on without it
\* (ThreadLockHandle, run_agent's finally, "caller MUST release").
LockMatchesPhase ==
    \A t \in Task : lock = t <=> pc[t] \in LockedPhases /\ t \notin direct

\* Two runs that entered through the mutex are never active together.
OneLockedRun ==
    \A t, u \in Task \ direct :
        pc[t] \in RunPhases /\ pc[u] \in RunPhases => t = u

\* A message is persisted by at most one run, however often Slack delivers
\* its event, whichever replicas race for the lock and the inbox, and whatever
\* crashes ("Slack at-least-once delivery is deduped at the handler boundary").
AtMostOnce == \A m \in Msg : saved[m] <= 1

\* The database, or an earlier start, knows that m was let in.
Known(m) ==
    IF Kind[m] = "nudge" THEN deliveries[m] > 0
    ELSE \/ m \in seen
         \/ /\ deliveries[m] = MaxDeliveries
            /\ \A t \in Task : pc[t] = "dedupe" => Trigger(t) # m

\* Messages a task past the dedupe carries towards the run that persists them.
CarryPhases == {"acquire", "enqueue", "drain", "validate", "persist"}
Carried(t) == IF pc[t] \in CarryPhases THEN Elems(batch[t]) ELSE {}

\* Every message let in is in one place at a time (a task, the inbox, or the
\* messages table) and is not let in again: why AtMostOnce is inductive.
OnePlace ==
    /\ \A m \in Msg : saved[m] > 0 => Known(m)
    /\ \A m \in Elems(inbox) : Known(m) /\ saved[m] = 0
    /\ \A t \in Task : \A m \in Carried(t) :
          /\ Known(m) /\ saved[m] = 0 /\ m \notin Elems(inbox)
          /\ \A u \in Task \ {t} : m \notin Carried(u)

\* Without faults, a message that asked for an answer is never forgotten: it
\* waits in the inbox, travels with a task, or has been persisted by a run.
NothingForgotten ==
    \A m \in Msg : Kind[m] = "dm" /\ m \in seen =>
        \/ saved[m] > 0
        \/ m \in Elems(inbox)
        \/ \E t \in Task : m \in Carried(t)

\* The mutex does not stay with one task: every holder comes to its release.
LockIsPassedOn == \A t \in Task : (lock = t) ~> (lock # t)

\* A message queued while a run that has not yet released the mutex is going to
\* end normally is taken out of the inbox: by that run's drain, or by whoever
\* got the lock before it ("the holder drains on end_turn").
QueuedBeforeReleaseIsTaken ==
    \A m \in Msg :
        (m \in Elems(inbox) /\ \E t \in Task : lock = t /\ pc[t] \in RunPhases)
            ~> m \notin Elems(inbox)

\* "Messages that arrive while the mutex is held are queued; the holder drains
\* on `end_turn` and coalesces them into the next run" (concurrency.py).
QueuedIsTaken == \A m \in Msg : m \in Elems(inbox) ~> m \notin Elems(inbox)

\* Where a message is, as its sender could see it.
Fate(m) ==
    CASE saved[m] > 0                      -> "saved"
      [] m \in Elems(inbox)                -> "queued"
      [] \E t \in Task : m \in Carried(t)  -> "carried"
      [] OTHER                             -> IF Known(m) THEN "gone" ELSE "unseen"

Promise == INSTANCE MessageFate WITH fate <- [m \in Msg |-> Fate(m)]

\* The routing keeps the promise of MessageFate: messages move through it one
\* way, the inbox is drained whole, and nothing queued disappears.
KeepsPromise == Promise!Spec
=============================================================================
