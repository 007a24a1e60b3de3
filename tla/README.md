# Formal model of the Misterr agent

TLA+ modules, TLC configurations and TLAPS proofs for the Slack agent under
`src/app`. The modules are translated from the Python source; a doc or a comment
is quoted only where a run compares it with what the code does. `PROJECT.json` maps
every definition to the lines it models, lists the runs, the theorems, the known
hazards and, for every property, a mutation of the code that breaks it.

## 1. The system

One Python process per replica (`app/main.py`) holds a Slack socket, a FastAPI
application and a handful of polling loops. All replicas share one PostgreSQL
database; each keeps some state of its own in memory. Nearly all the difficulty is
in that sentence: the loops, the Slack handlers and the web requests of several
replicas work on the same rows, with an `await` between most reads and the writes
that rely on them.

### Components

| component | state | operations | modelled by |
|---|---|---|---|
| **Thread routing** `concurrency.py`, `slack/handlers.py`, `agent/runner.py` | `slack_event_seen`, `thread_inbox`, one advisory lock per thread, `thread`, `message`; per process the active runs | route a message, drain and coalesce the inbox, run, release, debounced drain, pause at a gate, resume | `ThreadRouting` |
| **Agent graph** `agent/graph.py`, `runner.resume_run` | the LangGraph checkpoint of a run, the gates posted in Slack | agent node, tools node, interrupt, approve, deny, connected, resume | `AgentRun` |
| **Scheduled tasks** `scheduled_tasks/`, `api/scheduled_tasks.py` | `scheduled_task`, `scheduled_task_run`; detached fires | claim, dispatch, record, finish; create, edit, pause, resume, delete, send later | `ScheduledTasks` |
| **Billing** `billing/`, preflight and debit in the runner | plan row, balance, ledger; Stripe's subscription | five webhook handlers, annual reset loop, preflight, debit | `Billing` |
| **Follow-ups** `follow_ups/` | `follow_up` | open with dedup (tool, promise pass, sweeper), fetch due, cancel on reply, nudge, re-arm, admin cancel | `FollowUps` |
| **Connect flow** `integrations/connect.py`, `webhook.py`, `api/integrations.py` | `integration_connection`, poll tasks, `_seen_events` | start, complete, poll, time out, self-healing check, web connect and disconnect, resume after restart | `ConnectFlow` |
| **Integration actions** `integrations/gateway.py`, `action_guardrail.py`, the providers | connections, the providers' accounts, the cache of schemas | `run_action`, `find_in_action`, route to account and provider, check parameters, set credentials | `IntegrationActions` |
| **Automations** `automations/` | `automation`, `automation_run`, triggers at the providers | create with trigger, edit, pause, rotate, delete, receive an event, run, book-keep | `Automations` |
| **Skill bodies** `memory/`, `skills/storage.py`, `registry.py`, `catalog_skills.py` | a skill's version, its text in R2, the cache of texts | seed, append, compact, note, refresh, edit, delete, read | `SkillBodies` |
| **Skill installs** `slack/skill_commands.py`, `skills/preview_store.py`, `api/skills.py` | `skill`, `skill_install`, previews, cards and forms in Slack | upload, confirm, edit, cancel, install, uninstall, create, delete, expire | `SkillInstalls` |
| **Membership** `slack/roster.py`, `auth/clerk_provisioning.py`, `api/team.py` | `slack_user`, `app_user`, `workspace.clerk_org_id`, Clerk's roles | install, provision, backfill, roster sync, remove, promote, demote, sync-slack | `Membership` |
| Stripe client, rendering, files, spaces, web front end, migrations | none, or text | HTTP, conversion, user interface | not modelled |

`PROJECT.json` `components` names the files of each, and the reason for each part left out.

### How they interact

* A Slack event enters `_route_message`, which tries the thread's advisory lock. The
  holder drains the inbox and calls `run_agent`; everybody else enqueues.
* `run_agent` asks Billing's preflight for permission, invokes the graph and, when
  the graph ends, records the run, debits it, replies, releases the lock and schedules
  a debounced drain. When the graph interrupts, it releases the lock *first* and then
  posts a gate or a connect link.
* A button (`_decide`) or a finished connection (`resume_after_connect`) calls
  `resume_run`, which takes no lock.
* The scheduler and the follow-up worker call `run_agent` as well, without a lock.
* An event at an automation's URL starts a detached task that calls `run_agent` too.
* The follow-up sweeper reads the connect flow's stuck rows.
* A run's tools read connections (`run_action`), write memory and install skills; the
  memory and usage-note passes after a run rewrite the texts the next run reads.
* Stripe's webhooks are acknowledged at once and handled by detached tasks, next to
  the monthly loop and the debits of runs.

### What is hard

* **Interleaving.** Two replicas' loops select the same rows; a lock taken by one
  asyncio task is released by another; a resumed run has no lock at all.
* **Read, await, write.** Edits of a task, plan changes, follow-ups and the check
  in `resume_run` decide on a row that may have changed before they commit. SQLAlchemy
  writes only the columns that differ from what was *read*.
* **Crash and partial failure.** Advisory locks die with a connection, inbox rows
  do not; a fire has three writes, any of which may fail; a node that interrupts is
  executed again from its start.
* **Delivery.** Slack and Stripe repeat and reorder; a user presses a button twice.
* **Two stores.** A trigger, an organization, an account or a text exists at a provider,
  Clerk or R2 before, or after, the row that names it; a failure in between leaves one
  without the other.
* **Boundaries.** The iteration cap and the loop guard count turns across pauses,
  a balance passes zero, a cron's next match is strictly after its base.

### What makes each component correct

* *Thread routing*: at most one locked run per thread; the lock always belongs to a
  task that still owes its release; a message is in one place (task, inbox,
  history) and is handled at most once; with no fault none is forgotten; the mutex
  is passed on and the inbox is drained.
* *Agent graph*: nothing risky runs without approval of that very call; each call
  has its effect at most once across pauses, resumes and crashes; the cap bounds the
  run; a loop is broken; the model gets a result for every call; a paused run has a
  gate somebody can press.
* *Scheduled tasks*: a match fires once across replicas; what is due is claimed; a
  run row is finished; a one-shot disarms itself; system tasks survive their members.
* *Billing*: the ledger accounts for the balance; a paid plan comes with its
  credits; a retried event grants nothing; an annual plan is reset each month.
* *Follow-ups*: a due row that can be fired does not stay due; `sent` is final.
* *Connect flow*: a run's pending row settles, across restarts; a posted link is answered.
* *Integration actions*: a call is sent with the credentials of its caller's row or the
  team's, after a check against a schema that is not too old; a sweep reports what is there.
* *Automations*: no trigger outlives its row; a run's row tells what its task does; the
  counters agree with the runs.
* *Skill bodies*: what was reported as written is read again.
* *Skill installs*: what a card reports as installed is; a file becomes one skill.
* *Membership*: the organization is the only one of its workspace; no demotion leaves it
  without an admin.

## 2. The modules

`ThreadRouting` → `MessageFate` (abstract) → `ThreadRoutingProofs`; `ScheduledTasks` →
`ScheduledTasksProofs`; `AgentRun` → `RunsAndTriggersProofs`; `Billing` → `BillingProofs`; `FollowUps` →
`FollowUpsProofs`; `IntegrationActions` and `SkillBodies` → `ActionsAndBodiesProofs`;
`Automations` → `AutomationsProofs`; `SkillInstalls` and `Membership` → `TeamAndSkillsProofs`;
`ConnectFlow`. The `MC…` modules declare model values and name what a `.cfg` cannot write down.

Four `MC` modules put components side by side: `MCRunsAndTriggers` (`AgentRun`,
`ScheduledTasks`, `Automations`), `MCNudgesAndLinks` (`FollowUps`, twice, and `ConnectFlow`),
`MCActionsAndBodies` (`IntegrationActions`, `SkillBodies`) and `MCTeamAndSkills`
(`SkillInstalls`, `Membership`). The parts share no variable, so a
behaviour of the whole is an interleaving of behaviours of the parts, and it is enough
that one of them, `side`, moves; the other's variables are `Null`. This saves nothing but
runs: each part is checked as if it were alone. `MCRunsAndTriggers` takes its instances from
`ScheduledTasksProofs` and `AutomationsProofs`, so that what these prove can be cited of them.

All modules follow one convention: an action is what a task does between two awaits
that another task, another replica or a crash can separate; a database transaction
that holds its row lock from the read to the commit is one action, one that does not
is two. Faults are actions that spend a bounded budget (`MaxCrashes`, `MaxFaults`, …).
Every bound is a constant with `Max` in its name, or the number of slots (`Task`,
`Requests`, `Invocations`).

### ThreadRouting

One thread. A `Task` is a slot for an asyncio task and the lock connection it may own;
`pc` says where in the code it is, `home` on which replica, `batch` which messages
it has in hand. `direct` are the tasks that went past the mutex (nudges, resumed
runs). `seen`, `inbox`, `lock`, `thread`, `saved` and `checkpoint` are the database.

| phases | code |
|---|---|
| `dedupe` `acquire` `status` `enqueue` `drain` | `_route_message` |
| `validate` `persist` `preflight` `graph` `gate` `reply` `release` | `run_agent`, `_run_agent_impl`, `_drive` |
| `post` | the approval or connect message, after the release |
| `dwait` `ddrain` `drelease` | `_debounce_drain` |
| `decide` `rcheck` `restart` | `_decide`, `resume_run` |
| `abandoned` | a handle dropped unreleased because `drain_inbox` raised, until the connection is collected |

`MessageFate` is the abstract specification: each message moves
unseen → carried → queued → carried → saved, a drain takes the whole inbox, nothing
queued is ever dropped, nothing saved moves again. `KeepsPromise` is the refinement,
with `Fate(m)` computed from the database and the tasks.

### AgentRun

One run on its checkpoint `saved` (the turns so far, the results of the last one, the
next node). `inv` holds the concurrent invocations of the graph: the original one and
those `resume_run` starts, each on the copy of the state it loaded. A turn is a set of
calls; some are `Risky`, some ask to connect. `Interrupt` leaves the node undone;
`ResumeCheck` is `snapshot.next`, `ResumeInvoke` the later `ainvoke`, which loads the
checkpoint again. A gate records which turn and which calls it showed and who pressed
it; the press itself carries only the run, as the button does. `Raises` is any
exception of the model, the database or Slack, `NoLink` every return of
`start_connect` that posts nothing. What the calls are and what they answer is data;
`done` counts how often each handler was executed.

### ScheduledTasks

Rows, run log, one loop per replica, one fire per run row. The claim
(`SELECT … FOR UPDATE SKIP LOCKED` and the advance of `next_run_at`) is one action.
A member's operation is two: `sess` keeps the row it saw and the row it wants, and
the commit writes only the columns that differ. The record of a fire's outcome is two
actions as well (`RecordFinished`, `CommitFinished`), since it reads the parent row without a
lock: fires that overlap may both have read it before either commits. A cron expression is the period of its
matches and one instant it matches, the next match being strictly after the base; the
cron of a date (`Dated`, made by `SendDelayed`) has a period beyond the last instant, the
year the expression does not name. `CreateTask`, `PauseTask`, `Resume`, `UpdateCron`,
`UpdateDestination` and `Delete` are the repository; `Create`, `Pause`, `Update` and
`SendDelayed` the tools in front of it. The web endpoints call the same repository.

### Billing

One workspace. `handler` is the detached task of each delivery of an event: it reads
(`HandlerRead`), then commits (`ApplyEvent`, `ApplyDeleted`, `ApplyInvoice`) or dies. Events
are emitted by Stripe's own subscription state, so only sequences Stripe can produce
occur; a subscription made in Stripe's dashboard, or edited there, names no plan, and its
events demote the workspace to free. Prices are abstracted to one allotment per plan.

### FollowUps

Rows, a two-step insert (`OpenCheck`, `OpenInsert`), the worker of each replica with its
unlocked batch, the oldest `BatchSize` of the rows that are due, and the two-step reschedule (`MarkRead`, `MarkWrite`) after the run.
Rows are opened by the agent's tool, by the pass over promises a user made, and by the
sweeper for connections that stay pending. The rows of `mute` belong to a workspace without a
bot token, or have a run that raises each time: the worker leaves them pending, and due, for good.

### ConnectFlow

One app of one workspace. `task` is a slot for each asyncio task: `start_connect`, a
poll, `complete` (called by the webhook, the poll and the gateway's check), a
disconnection, a web connection. In the web application a member makes and deletes his own row,
and an administrator the team's too (`Create`, `Delete`). `links` is the button each run posted; `rows` are the team's and
the members' rows. A session that reads a row and commits later carries the row it read
in `task[t].row`, and the commit writes the columns that differ. A restart loses every
task and `_seen_events`; `ResumePolls` is the loop that restarts polls. `removed` records that a
pending row was deleted, and with it the list of its buttons.

### IntegrationActions

One app. `call` is a tool call of a member or of a scheduled run on its way through
`run_action` or `find_in_action`: choose a row, read the provider, ask it about the account, fetch
the schema under `_spec_lock`, check the parameters, send. `asked` is the clock a call read
before it waited for that lock: the age of the entry is taken from it, and a new entry is stored
with it. `creds` is whose row's credentials a direct call uses, looked up by workspace and app
alone. Accounts may expire or be
moved, rows come and go and schemas are replaced between those steps. A sweep's windows
hold the needle or not, fail or not.

### Automations

`trigger` is the provider's side, `rows` the table, `call` a creation or deletion between
its calls, `fire` the detached task of an accepted event, `run` its row. A provider may make a trigger and
not answer with its id (`Unanswered`); a statement may fail in a creation (`StatementFails`) or in
either session of a fire (`SessionFails`). `lost` records the triggers whose deletion failed or was
never tried.

### SkillBodies

One skill. Texts are sets of facts, in a curated part and a log. A writer looks at the
row, gets the text, and later puts the whole text and commits the next version;
`append` and `compact` look at the version again before the upload, the others do not.
`raced` records that a text was uploaded over one its writer had not seen.

### SkillInstalls

`card` is what each preview's card in Slack still offers, `modal` the open edit forms,
`call` the handlers between their transactions. A card keeps its buttons until the handler of a
press replaces it, so every button can be pressed again meanwhile. The removal of the preview
may fail, and so may the answer of a creation that was committed. `crossed` records the
previews edited during, or left half way by, an installation.

### Membership

Slack's members, the cached roster, `app_user` rows and their links to Clerk accounts,
Clerk's organizations and roles. Every call to Clerk or Slack is a step of its own.
A role that a request carries is that of a signed token, which may be older than the role at
Clerk: `badge` says whose tokens may still name them admins of an organization, of the workspace's
or of another. `alone` records that provisioning calls have not overlapped or failed.

## 3. The runs

`CHECK_DEADLOCK FALSE` is set everywhere: once the bounded supply of messages, events,
presses or time is used up and everything has finished, the system really stops.

| run | what it shows |
|---|---|
| `routing_faults` | Two replicas, a mention, a channel reply and an empty message, each delivered twice; a crash, lost database calls, lock connections and posts. The mutex never leaks or admits two runs, no message is handled twice or is in two places, and `MessageFate` is implemented. |
| `routing_resume` | Gates, connect links, two resumes and a nudge past the mutex: no message is forgotten. |
| `routing_live` | Fair tasks, runs that end normally: the mutex is always passed on, and what was queued before a run's release is taken. |
| `routing_lost_wakeup` ✗ | A message enqueued after the holder's last drain stays in the inbox. |
| `runs_and_triggers` | *Run*: a harmless, a risky and a connect call over four turns, three presses, a crash, two concurrent invocations: approval, single execution, cap, loop guard, answered calls, no stranded run, while no button is pressed twice. *Tasks*: two replicas, a crash and a failed statement, overlapping fires that record their outcome on a row read before: a match fires once, a one-shot that was posted is off the schedule, and "running" means running. *Automations*: two members and two events of one automation, a fault of a provider or of a statement, or a crash: no trigger outlives its row, the rows of the runs are true, the counters agree with them. |
| `tasks_edits` | Two requests of members create, pause, resume, edit and delete a recurring task, a one-shot or a delayed message, and edit a system task without destination, while the loop claims and fires them, with a crash or a failed statement and fair loops: what is due is claimed, a run row is finished. |
| `billing_credits` | Two paid plans, four events handled in any order, a fault, a month boundary, an agent run: the ledger accounts for the balance, a paid plan comes with its credits, an annual plan is reset. |
| `nudges_and_links` | *Nudges*: two workers and sweepers race for one row (of a stuck connection, an agent's turn or a promise), with a fault, replies, an administrator and the connection completed meanwhile: `sent` is final. One worker has two rows, of which one may be mute, and takes one at a time: a due row that can be fired does not stay due while those that cannot leave it a place in a batch. *Links*: a run, a member and an administrator with the web app, and a disconnecting administrator share an app; webhook, poll, time-out and self-healing checks race, with a restart or a failed call: a run's pending row settles, and its link is answered unless its row is deleted in the web app. |
| `actions_and_bodies` | *Actions*: a member's call or sweep and a scheduled run's call while rows, accounts and schemas change: whose credentials are used, against which schema, and what a sweep reports. *Bodies*: two writers of one skill and its readers, with a restart, a failed upload or commit, or a deletion: what was reported as written is read. |
| `team_and_skills` | *Team*: two calls at a time of an installation, the backfill, a page view, two roster syncs, removals, promotions, demotions and sync-slack: one organization is made. *Skills*: two members and two handlers at a time upload, confirm, edit, cancel, install and uninstall from Slack, agent and web: what is told as installed is, and a file is one skill. |
| `team_last_admin` ✗ | Two admins demote each other at once, and none is left. |
| `automations_deaf` ✗ | The URL given to the provider names an id the row never gets. |

✗ marks a run whose property the code does not satisfy; see *Findings*.

Every module has a `TypeOK`. `ThreadRouting`'s and `AgentRun`'s are checked by runs and
proved; the others are there for the reader, who finds in them the shape of every
variable, and no run lists them.

### The bounds, and why they are enough

* *Threads, workspaces, runs, apps, skills* are keyed apart in every table and lock, so one
  of each is modelled; nothing relates two.
* *Three messages and three task slots*: one holder, one waiter and one debounced drain
  or resumed run is the smallest crowd in which every hand-over of the mutex meets a
  competitor. Two deliveries are a repeat. A second crash starts from a state the
  first one can leave.
* *Four turns* with `Cap` 3 and `ProjectCap` 4: two gates fit before the cap, the loop
  guard (`RepeatLimit` 3, as in the code) fires one turn before the higher cap, and a
  resumed run can be over the lower cap it is given. Presses are bounded in total, so
  three of one gate and one of three are both covered.
* *Tasks*: in `runs_and_triggers` periods 1 and 2 over three instants and up to three runs (a fire
  that outlasts the next match, and one that does not), without edits; in `tasks_edits` one match, two
  edits and `ClaimLimit` 1, so that the rows compete for the claim and an edit straddles
  it. A member's pause ends at the next instant or never, a delayed message is for the
  next instant; faults come with at most one edit.
* *Billing*: allotments of 1 and 3 credits against a cost of 2, so a balance passes
  zero and is reset above and below what it was; four events hold a purchase
  (checkout, created, invoice) and what follows it. One month, one replica and one fault: the
  tick that fails is repeated by the same loop.
* *Follow-ups*: two nudges (the code has three), so that a re-armed row meets its last one; two
  workers on one row, or one worker with two rows and a batch of one, which a mute row fills; one
  fault. A sweep or a pass waits while no id is left.
* *Connect flow*: two task slots, one account, one provider, one member, one fault; one row is
  made in the web application, or one pending row is deleted there, or one process or call fails,
  not two of these in a behaviour. Two slots
  are a webhook against a poll, a time-out against a new attempt, a disconnection
  against either.
* *Actions*: one member, who may sweep two windows, and the scheduled run; two accounts,
  two schemas, two changes. A row that is read twice needs one change in between, the
  credentials of another row two; an entry that expires while a call waits needs a tick. The answer of
  a call is read before anything else moves (`AnswersAreRead`); no other step depends on it.
* *Automations*: two members who want one name, two events, two ids and secrets, one fault.
* *Bodies*: two writers, three facts of which two fit (`Cap`), three versions, two attempts
  of an append, one fault. Once a text has been overwritten unseen (`raced`) no further writer
  begins, as the property says nothing of what follows.
* *Team*: two people, two organizations, two calls at a time and three in all, one change in
  Slack, one fault. `InitTeam` starts with or without an organization.
* *Skills*: one file, two names, two skills, two handlers at a time and three in all beside
  those of the file, one fault; after a crossed installation no further handler begins.

The slots are bounds too: with all of them taken, a delivery or a press waits, which
removes no ordering of the ones that run. Slots, replicas, people and accounts are
interchangeable and declared symmetric in safety runs only; where a liveness run has
slots, the first free one is taken (`Free`).

### Fairness

Weak fairness is claimed only for what a live process does by itself: every asyncio
task that can take a step takes one (`TaskStep`, `FireStep`, `HandlerStep`), every loop
ticks again (`LoopStep`, `TickStep`, `WorkerStep`, and `ResumePolls`, the loop of
`connect.py` that restarts polls), a request that read a row commits or
fails, the clock moves up to its bound, and Stripe delivers an event at least once. A
statement that keeps failing is excluded by the fault budget, not by fairness. Nothing
is assumed of users, Slack, repeats, crashes or the collector of abandoned connections.
The safety runs use no fairness.

## 4. What is proved

### The mutex and the messages of a thread

`ThreadRoutingProofs` proves, for every set of messages, kinds, replicas and task
slots, every bound on deliveries, resumes and crashes, and every choice of faults and
outcomes (from `ConstantsAssumption` and the hypotheses the table names):

| theorem | statement |
|---|---|
| `TypeCorrect` | `Spec => []TypeOK` |
| `LockNeverLeaks` | `Spec => []LockMatchesPhase` |
| `LockedRunsExclude` | `Spec => []OneLockedRun` |
| `MessagesInOnePlace` | `Spec => []OnePlace` |
| `HandledAtMostOnce` | `Spec => []AtMostOnce` |
| `RoutingKeepsPromise` | `MaxDeliveries > 0` implies `Spec => KeepsPromise` |
| `MentionsAreHeld` | `Calm` implies `Spec => []NothingForgotten` |

The argument. `TypeOK` is split into the frame of the task slots and the data; its
last conjunct (a message in hand exactly in the phases that need one) is what makes
`Trigger(t)` a message, so it comes first. `LockInv` adds to `LockMatchesPhase` that
tasks past the mutex are only in run, resume or post phases and that the resume phases
belong only to them; `OneLockedRun` is then
arithmetic on a single `lock` variable. `AtMostOnce` is not inductive: a second run must
be excluded before it persists. `OnePlace` says that what is carried or queued
is known, unsaved and nowhere else; `HandlerInv` adds that a handler past the dedup
carries exactly one message. Each step moves one batch from one place to another
(`PlaceMove`, `PlaceTake`) or leaves every place alone (`PlaceStable`), and the proof has
one step per action under these lemmas.

`KeepsPromise` is the refinement of `MessageFate`, whose `fate` is the function `Fate` of
the inbox, the rows and the tasks. Under `PlaceInv` each action of the code moves the fates the way
one action of the abstract life does, or leaves them alone: letting in, queueing, the drain of
the whole inbox in one step, the hand-over to the table, the loss with a crashed task. The
hypothesis is needed for the initial states: a message that can never be delivered is gone from
the start. `NothingForgotten` is a property of a calm system, and `Calm` says what that
is: the database answers, no replica dies and nobody replies in a thread the agent does not know
(such a reply is dropped with what was queued before it); `routing_resume` assumes the same.

### The gates and the cap of a run

The first part of `RunsAndTriggersProofs` proves, for every set of calls (which are risky and which connect
included), every pair of caps, any number of concurrent invocations, presses and
crashes (from `CallsAssumption`, `CapAssumption`, `BoundsAssumption`, and from
`NullAssumption`, that no state or decision equals `Null`):

| theorem | statement |
|---|---|
| `TypeCorrect` | `Spec => []TypeOK` |
| `CapIsKept` | `Spec => []CapHolds` |
| `RiskyNeedsApproval` | `Spec => []RiskyIsApproved` |
| `NoCallRepeats` | `Spec => []ExecutedAtMostOnce` |
| `EveryCallIsAnswered` | `Spec => []CallsAreAnswered` |
| `LoopsEnd` | `Spec => []LoopIsBroken` |
| `NobodyStrands` | `Spec => []NobodyIsStranded` |

The argument. `CapInv` bounds the turns at each place of the graph: strictly fewer than
`ProjectCap` before the model is called and before tools run, so neither `Route` with the
wrong cap nor a resumed run can go past it. The other two hold only while every
gate was pressed at most once (`PressedOnce`), and so does their strengthening
`OnePress`. Its core is a token: at most one invocation is alive or one gate not
pressed, and never both (`OneToken`). From it follow that an invocation works on the
checkpoint as it is, that its decision came from the gate of the turn it is at
(`Decided`), and that a node that is still to be done has executed none of its calls
(`Fresh`). A crash or an exception only takes the token away (`RunEnds`); a second press is
the only step that makes a second one, which is finding 4 below.

The last three have invariants of their own, `AnswerIInv`, `LoopIInv` and `StrandIInv`.
`Answered` says that a checkpoint that goes on with the model, and every invocation that is about to
call it, holds a result for each call of its last turn; what the tools node leaves unanswered it leaves
only by interrupting, and then the run is not at the model. `NotRepeated` says of each executed call
that it was missing from one of the turns before it, as the code found when it ran: the turn
being executed counts itself, so the last of `RepeatLimit` repetitions in a row was refused.
Both last through a pause because the turns of a run only grow (`TurnsStay`).
`NobodyIsStranded` is inductive under the token of `OnePress`: an invocation that ends without a
failure leaves the run over, asking for a connection, or with the gate of its last turn posted in the
same step (`Resting`), and only a press, which starts an invocation, uses that gate up.

### The match that fires once

`ScheduledTasksProofs` proves, for every set of tasks, members, requests, replicas and
crons, every claim limit and cadence floor, and every bound on time, runs, crashes, errors
and edits (from `BoundsAssumption`, and from `RecordsAssumption`, that no row, fire
or request equals `Null`):

| theorem | statement |
|---|---|
| `TypeCorrect` | `Spec => []TypeOK` |
| `MatchFiresOnce` | `Spec => []OneFirePerInstant` |
| `RunningIsTrue` | `Spec => []RunningMeansRunning` |
| `OneShotIsOff` | `Spec => []OneShotDisarmed` |

The argument. A claim is first in a tick's `todo` and then in a fire. `Past` says that every
claim, in either place, is of the past and that its row is due again only after it; `Apart`
that no two claims of a row, in either place, are of one instant. A claim takes only
rows that are due, so by `Past` later than every claim before it, and moves the
row past the instant of the claim in the same transaction (`ClaimSound`, `NextIsLater`).
The insert of the run row moves the claim from the tick to the fire (`StartSound`); every
other step writes no earlier date (`RowsLater`) and keeps the claims (`QuietSound`). Edits
are outside it: what a member's resume or new cron writes was computed from an
older clock (the stale read of section 1), which is why the property speaks of the time before them.
`TypeOK` needs `LogThere`: the line of the log that `finish_run` updates was inserted.

The other two rest on a second invariant, `Marks`, under the first. A row's status and its next date
are written by any of its fires and by edits, so what they say is tied to the fire that
will write them: `StatusInv` finds for a "running" a fire that has still to record its outcome,
or the entry in a tick's list that will become one; `OnceInv` finds for a posted one-shot that is
still armed a fire between its post and its record. They hold while nothing crashed or
failed (`OnceInv` also without edits), as the properties do. Every fire that ends writes the row it
was the mark of; a start turns an entry into a fire under a run id nothing has (`CountInv`). `EntryInv` says
that nothing has happened yet to a task that is being created, so that a new row starts with no marks.

### The ledger and the credits of a plan

`BillingProofs` proves, for every set of plans with their allotments, runs and replicas,
both kinds of workspace, every cost, and every bound on events, copies, months and faults
(from `PlansAssumption`, `CostAssumption`, `NullAssumption`, `BoundsAssumption`, and from
`RecordsAssumption`, that no row or task equals `Null`):

| theorem | statement |
|---|---|
| `TypeCorrect` | `Spec => []TypeOK` |
| `LedgerExplainsBalance` | `Spec => []LedgerChains` |
| `PaidMeansCredits` | `Spec => PaidPlanComesWithCredits` |

The argument. Every change of the balance is one locked read-modify-write that appends its
row (`MoneyMoves`), which is all `LedgerChains` needs once the new balance is a number. For
the reset of an invoice it is one because the handler read a plan row: `HandlerInv` says
that a handler which demotes or grants has read one, and that a row which was read
does not go away. The second half is also what `PaidMeansCredits` needs. A handler writes
only the columns that differ from what it read, beside other handlers' writes; if the
plan that results is a paid one that was not there before, this handler wrote it, and then it
saw another plan and grants in the same step (`AppliedRow`). The events Stripe appends do
not change those the handlers work on (`EventsGrow`).

### The follow-up that was sent

`FollowUpsProofs` proves, for every set of rows, runs (connections and promises among
them) and replicas, every number of nudges, wait and bound on time and faults (from
`ConstantsAssumption` and from `NullAssumption`, that `Null` is no row):

| theorem | statement |
|---|---|
| `TypeCorrect` | `Spec => []TypeOK` |
| `SentStays` | `Spec => SentIsFinal` |

The argument. `TypeOK` alone is not inductive, since a worker writes to a row it fetched
long before: `WorkerInv` says that the rows of its batch and the one it has in hand exist,
and that what it writes from is a row it read. Under it every change of the table
is one of three: a slot without a row gets one, `mark_cancelled` writes pending rows only
(`CancelKeeps`), and `mark_nudge_fired_and_reschedule` writes the status only to set
it (`MarkKeeps`), whatever the row it read said. Hence a row that exists keeps existing, and one
that is sent stays sent (`RowsKeep`), in every step.

### The account an action is run with

The first part of `ActionsAndBodiesProofs` proves, for every set of members, sweepers and accounts, every
number of windows, versions of a schema and changes, and every lifetime (from
`BoundsAssumption` and `NullAssumption`):

| theorem | statement |
|---|---|
| `TypeCorrect` | `Spec => []TypeOK` |
| `SweepsAreTrue` | `Spec => []SweepIsTrue` |
| `SchemaLagIsBounded` | `Spec => SchemaLags` |
| `OthersCredentialsOnlyLate` | `Spec => OthersCredentials` |

The argument. Each call is spoken of by itself, so a step needs a look only at the call that moves
(`OneCallMoves`). `Swept` is the invariant of the loop over the windows: those behind it hold
nothing or have failed. `SchemaLags` is about one step; it follows from `CacheWasTrue`, that the
entry had not been replaced at the time it is stamped with, and from the age the step computes. That time is the one its fetcher read before it waited, and so is the time the age is taken at
(`AskedBefore`: neither is later than the clock): what the theorem bounds is the lag behind the
moment the caller asked, and the wait for the lock comes on top. `OthersCredentials` follows
from `HoldsOwn`, that a call holds a row of its caller or of the team as it was found: the lookup
returns the only row of the app, so if it is another member's, the row the call had found is gone.

### What an automation's rows say

`AutomationsProofs` proves, for every set of members and names, every finite set of events, and
every bound on ids, secrets and faults (from `Constants`: the two bounds are natural numbers, the events
are finitely many, and `Null` is no record and no number):

| theorem | statement |
|---|---|
| `TypeCorrect` | `Spec => []TypeOK` |
| `TriggersHaveHolders` | `Spec => []NoOrphanTrigger` |
| `RunRowsAreTrue` | `Spec => []RunRowIsTrue` |
| `BooksNeverOvercount` | `Spec => []BooksAgree` |

The argument. A trigger has one holder, a row or a call (`Holders`), so deleting the trigger of a
call takes none from a row, and a row takes over the trigger of the call that inserts it. That an id
made now is nobody's is `Issued`; it also keeps a deleted row deleted, which the
excuse of `RunRowIsTrue` needs. `RunAgrees` ties the row of a run to its task; a task
past its start is the only one that writes that row. `BooksAgree` is not inductive,
since the second session writes a count it read before: `Measured` says that what a task
has read is at most the number of runs that had ended, its own not among them, and the commit
ends its own (`OneMoreEnded`), so that the lost updates only undercount.

### What starts the runs, as it is checked

The second part of `RunsAndTriggersProofs` proves of the specification `runs_and_triggers` checks
(from `SchedulerAssumption` and `EventsAssumption`, which say what the parts assume: the bounds are
natural numbers, the events are finitely many, and `Null` is none of the data):

| theorem | statement | from |
|---|---|---|
| `InstantFiresOnce` | `SideSpec => []OneFirePerInstant` | `MatchFiresOnce` |
| `RunningStaysTrue` | `SideSpec => []RunningMeansRunning` | `RunningIsTrue` |
| `OneShotStaysOff` | `SideSpec => []OneShotDisarmed` | `OneShotIsOff` |
| `EveryTriggerIsHeld` | `SideSpec => []NoOrphanTrigger` | `TriggersHaveHolders` |
| `RunRowsStayTrue` | `SideSpec => []RunRowIsTrue` | `RunRowsAreTrue` |
| `BooksStayTrue` | `SideSpec => []BooksAgree` | `BooksNeverOvercount` |

The argument. A behaviour in which one side moves is a behaviour of that side's `Spec`
(`TasksSide`, `EventsSide`): the others' steps need another `side`, which never changes
(`SideStays`), and leave its variables alone. In the other behaviours the property holds because it
is of the side that does not move.

### The skill a member was told of

The first part of `TeamAndSkillsProofs` proves, for every set of members, names and concurrent calls, and every bound on
files and skills (from `NullAssumption`, that `Null` is no record and no file, and the
bounds of `SkillInstalls`):

| theorem | statement |
|---|---|
| `TypeCorrect` | `Spec => []TypeOK` |
| `WhatIsToldIsInstalled` | `Spec => []ToldIsInstalled` |
| `OneSkillPerFile` | `Spec => []OneFileOneSkill` |

The argument. The names in play for a file are those of the skills made of it, of its preview and of the
handlers that are about to insert one; while no edit crossed an installation these are one
name (`OneName`), and the table has a name once, so a second insert is refused. The preview of a file of
which a skill was made stays only while its handler is on the way to drop it
(`PreviewGoes`), so no later press finds it. `FilesInv` says that a file being
uploaded is known to its handler alone. `DoneInv` is kept by every step that takes an installation
away because it is noted, in the same step, by the handlers that counted it.

### What was reported as written

The second part of `ActionsAndBodiesProofs` proves, for every set of writers and of facts, every
number of attempts, threshold, cap, version and fault (from `BodiesAssumption`: at least one
version and one attempt, and `Null` is none of the data):

| theorem | statement |
|---|---|
| `ReportedIsRemembered` | `SideSpec => []Remembered` |

The argument. Two texts may be read next, the cached one of the row's version and R2's, and
`TextKept` says that both hold what was reported: R2's may already be an upload that never
commits. `Knows` is what a writer may rely on. One that compares versions knows that the text it
checked holds the reported facts if the row is still at its version, and one that does not is
`late` as soon as another commits. An upload that is not late is to the row's next version, and
while it waits for its commit no other is uploaded, so the commit makes that very text the row's.

### Who administers the workspace

The second part of `TeamAndSkillsProofs` proves, for every set of people, organizations and calls,
and every bound on changes, calls and faults (from `TeamNullAssumption`: `Null` is no person, no
organization and no call):

| theorem | statement |
|---|---|
| `OneOrganization` | `SideSpec => []OneOrg` |

The argument. A provisioning call that is the only one finds no organization until it makes one,
and its own is then the only one until the row has it (`InPlace`); a call that breaks off in
between, or one that overlaps another, ends the promise (`alone`).

### Only model-checked

Everything about `ConnectFlow`; `AnnualIsReset`, `DueIsHandled` and all other liveness properties,
since ENABLED and fairness are outside what the proof system handles.

## 5. Findings

Three have a run marked ✗, with the line it contradicts in `PROJECT.json` `findings`.

1. *Lost wake-up* (`handlers.py:172`, run `routing_lost_wakeup`): a failed try-lock and the
   enqueue are two transactions; the holder's last drain may lie between them.
   `concurrency.py` says the holder drains on end of turn.
2. *Deaf automations* (`automations/agent_tools.py:138`, run `automations_deaf`): the URL
   given to the provider names an id minted "so the webhook URL is stable before the row
   exists", and the row gets another: the events are answered 404.
3. *No admin left* (`team.py:332`, run `team_last_admin`): two demotions count each other's
   admin before Clerk changes either; `team.py:318` promises a refusal.

For the next four the statement is a definition of the module, which no run lists; TLC
refutes it when a configuration of that module names it.

4. *Double press* (`AgentRun.DecisionsStayWithTheirGate`, `runner.py:1781`): the check of
   `snapshot.next` is true for as long as the first press is at work, and the button does
   not name its gate. `RiskyIsApproved` and its like are therefore stated of runs none of whose
   buttons is pressed twice.
5. *One-shot recurs* (`ScheduledTasks.OneShotFiresOnce`, `scheduled_tasks/repository.py:880`):
   the claim arms the next match, and only the end of the run disarms it.
   `db/models.py:530` says one-shot delays do not recur.
6. *Invoice granted twice* (`Billing.InvoiceGrantsOnce`, `webhook_handlers.py:438`): the
   look-up in the ledger is not locked.
7. *Usage notes wiped* (`SkillBodies.RefreshPreserves`, `catalog_skills.py:355`): a refresh that
   cannot read the old text writes one without its notes, which line 374 says are preserved.

Four more contradict a document, and a property had to be weakened by them:

8. *Follow-ups starve* (`follow_ups/repository.py:102`, `worker.py:105`): a row whose workspace has no
   bot token, or whose run keeps raising, stays pending and due, and the query takes the oldest 50.
   That the worker "never lets one bad row block the rest" (`worker.py:18`) holds of one row, and not of
   as many as a batch has: `DueIsHandled` asks that they leave a place in it.
9. *A button outlives its row* (`api/integrations.py:402`): the deletion of a pending row in the web
   application takes the list of its posted buttons along, so that the poll finds nothing to replace and
   the button stays live, which the poll is there to prevent (`connect.py:366`). `LinkIsAnswered` excepts
   runs of which a pending row was deleted (`removed`).
10. *Whose credentials* (`direct_credentials.py:42`): the credentials of a direct call are those of the
   only row of the app, whoever owns it, although a private row is for its owner only (`models.py:318`).
   `OthersCredentials` states what is left: the row that the call had found is gone by then.
11. *An admin of another organization* (`clerk.py:293`, `team.py:254`): a session of an organization that
   has no workspace is matched to its user by email, and the role checked is that of the session's
   organization. A member of this workspace who is an admin elsewhere may so remove its last admin, one
   request after another; `rbac.py:15` says there is never a workspace with zero admins. Nothing
   is left to state of removals, which count no admins.

The models also show the following, for which nothing is kept. Each can be
reproduced by dropping the condition the property names, or by stating the claim.

* Routing: a debounced drain that loses the lock gives up (`runner.py:1319`); a resumed
  run overlaps a locked one; `active` is per process, so another replica answers a
  status query wrongly; a mention coalesced into a channel reply is dropped with it
  when the thread is unknown (`handlers.py:90,105`).
* Agent graph: calls beside `request_integration` get no result (`graph.py:271`);
  `start_connect` may post nothing and leave the run paused (`connect.py:200`); a resumed
  project run continues with the lower cap; a crash between the effects of a turn's tools and the
  checkpoint executes them again (`graph.py:400`).
* Tasks: an edit that straddles a claim puts the fired match back (`repository.py:553`);
  resuming a completed one-shot arms it again (649); a pause based on an old row loses
  an update (608, 616); a failed `record_fire_finished` leaves a one-shot armed (896); a
  crash after the claim loses the fire (`scheduler.py:176`); a delayed message whose
  minute has come when it is stored, or whose `at` names seconds of the current minute,
  is a year away though its author was told the moment (`agent_tools.py:768`).
* Billing: overage is not bounded by one run (`repository.py:170`); the plan follows the
  event handled last, not the newest; an event of a subscription whose metadata names no plan demotes
  to free (`webhook_handlers.py:275`, 332); nothing resets a free workspace;
  `ensure_bootstrapped` has no caller.
* Follow-ups: two workers nudge twice and count one (`repository.py:109`), errors the run
  swallows are counted as nudges (`worker.py:125`), a cancellation made while the last
  nudge runs is overwritten, several sweepers, or two calls of the tool in one message
  (`graph.py:400` gathers them), open several rows although the dedup is said to catch them.
* Connect flow: webhook and poll both resume the run (`connect.py:523`); the time-out of an
  old poll fails the newer attempt, or a row connected just then (394); `start_connect`
  replaces the waiting run of another; a crash between `complete`'s commit and the resumption
  loses the run; a failed post of the link leaves the run paused (325); `created_at` is not reset, so a reused row is a zombie at once; with a
  member's row beside the team's, `scalar_one_or_none` raises; a link stored after its row was
  connected and disconnected stays for ever.
* Actions: `set_direct_credentials` marks a row connected that has no account; a sweep counts
  windows that failed as windows without a match; a dashboard whose cards fail is
  reported as an error and made again by a retry (`composio_provider.py:481`); an outage of the
  catalogue is cached for an hour.
* Automations: a name taken between check and insert, or any other failing statement, leaves the
  trigger upstream, and so does an answer without its id (`triggers.py:281`); updates of `fire_count` are
  lost; a crash, or an error of the session that ends it (`router.py:126`), leaves a run "running"; a repeated event fires again; the loop
  guard never triggers; a skipped action is recorded as failed.
* Bodies: the version is compared before the upload and not by it (`append.py:162`), so
  a commit in between is overwritten; the usage-hint cache keeps an empty hint after an outage.
* Installs: the upload of a `.md` file returns before the event dedup, so a repeated event
  makes two previews; an edit during an installation is dropped with the preview; a failed removal of the preview leaves its buttons
  (`skill_commands.py:759`), and a failure after the commit of a creation an error although the
  skill is stored (`registry.py:157`); installation
  from Slack and by the agent ignores the personal scope that `registry.py:345` and the web respect.
* Membership: overlapping provisioning, or a crash in it, makes a second organization
  (`clerk_provisioning.py:88`); `remove_team_member` counts no admins; a token outlives the role it
  names; sync-slack removes members
  without a roster row, though its docstring says deleted ones only; the backfill adds removed
  members again; an older roster snapshot can be written last.

The hazards without a property, beside those above: the balance read at preflight is minutes old
when the run is debited (`runner.py:1505`); a fire's second write fails with the message posted
(`scheduler.py:272`).

## 6. What is not modelled

Text (prompts, rendering, the wording of skills), the models' answers, outside services behind
clients, the web front end, token verification, spaces, migrations. These have no state whose
interleaving matters, or no state at all. Of the agent's tools, those that change a modelled
component are actions of its module; catalogue look-ups and the sandbox are not modelled.
Timestamps are modelled only where code compares them: cron matches, due dates, months, the
lifetime of a cached schema. The cost of a run is a constant. What a model writes when it
compacts a memory is taken to keep the facts it was given. LangGraph is external: a checkpoint
after each node, re-execution of a node that interrupted, a resume value that only the
interrupt of the resumed node takes. Slack, Clerk, Stripe, R2 and the connection providers
are external: what the code relies on of them is an action or a fault.

## 7. Plan

1. **Safety of `ConnectFlow`**: which invariants its two answers rest on, and their proofs.
2. **Composition** of `AgentRun` with `ThreadRouting` (a resumed run next to the thread's
   next locked run) and of `FollowUps` with `ConnectFlow` (the sweeper's rows).
3. **Refinements**: a task's fires implement a *match fires at most once*
   specification, the ledger an *account*, a connection's link *open, then settled once*.
4. **Artifacts and spaces**, whose state is at outside services.

## 8. Running it

    tlc -workers 2 -config runs_and_triggers.cfg MCRunsAndTriggers
    tlapm ThreadRoutingProofs.tla   # and the other modules named ...Proofs

The slower runs (`runs_and_triggers`, `tasks_edits`, `nudges_and_links`, `actions_and_bodies`,
`team_and_skills`) take two to four minutes, the proofs a few more.
