--------------------------- MODULE ScheduledTasks ---------------------------
(***************************************************************************)
(* The scheduler of app/scheduled_tasks: task rows, the polling loop each  *)
(* replica runs, the detached fires it dispatches, the per-run log, and    *)
(* the operations members apply to tasks while all of that goes on.        *)
(*                                                                         *)
(* A database transaction that holds the row lock from its read to its     *)
(* commit (the claim) is one step.  A member's operation, and the record   *)
(* of a fire's outcome, read the row without a lock and commit later: two  *)
(* steps, and the commit writes only the columns whose value differs from  *)
(* the one read, which is what the ORM emits.  A cron expression is        *)
(* abstracted to the period of its matches and one instant it matches.     *)
(***************************************************************************)
EXTENDS Integers, FiniteSets

CONSTANTS
    Tasks,        \* ids of the tasks that may exist
    SystemTasks,  \* those with scope "system"; the others are "local"
    Members,      \* users of the workspace
    Requests,     \* web requests and tool calls that edit tasks
    Replicas,     \* API processes, each with its own scheduler loop
    Crons,        \* the recurring cron specs in use
    MinInterval,  \* MIN_CRON_INTERVAL_S
    ClaimLimit,   \* SCHEDULER_CLAIM_LIMIT
    HomeChannel,  \* whether bot_home_channel_id is set when tasks are seeded
    Null,         \* SQL NULL, and the absent row
    MaxTime,      \* bound: the last instant considered
    MaxRuns,      \* bound: run rows
    MaxCrashes,   \* bound: replica crashes
    MaxErrors,    \* bound: database calls that fail
    MaxOps        \* bound: operations members apply

ASSUME TasksAssumption == SystemTasks \subseteq Tasks
ASSUME NullAssumption == Null \notin Int \cup Tasks \cup Members
ASSUME BoundsAssumption ==
    /\ Crons \subseteq [every : Nat \ {0}, at : Nat]
    /\ MinInterval \in Nat
    /\ ClaimLimit \in Nat \ {0}
    /\ HomeChannel \in BOOLEAN
    /\ {MaxTime, MaxRuns, MaxCrashes, MaxErrors, MaxOps} \subseteq Nat

VARIABLES
    now,      \* the clock all replicas read
    row,      \* the scheduled_task table
    born,     \* ids handed out so far: a deleted id never comes back
    loop,     \* per replica, what is left of the current _tick
    run,      \* the scheduled_task_run table
    lastRun,  \* number of run rows ever inserted
    fire,     \* per run, the detached _dispatch_fire that owns it
    sess,     \* per request, the operation read but not committed
    posts,    \* per task, messages posted to Slack by its fires
    crashes, errors, ops  \* how much of each bound is used

vars == <<now, row, born, loop, run, lastRun, fire, sess, posts,
          crashes, errors, ops>>
-----------------------------------------------------------------------------
Time == 0..MaxTime
RunIds == 1..MaxRuns

Statuses == {"running", "success", "failed"}

(* The cron of a date has no year.  Bound: a year is longer than MaxTime.  *)
Dated(m) == [every |-> MaxTime + 1, at |-> m]

Row == [owner : Members \cup {Null}, cron : Crons \cup {Dated(m) : m \in 0..MaxTime + 1},
        dest : BOOLEAN, once : BOOLEAN, literal : BOOLEAN,
        paused : BOOLEAN, until : Int \cup {Null}, next : Int \cup {Null},
        status : Statuses \cup {Null}]

(* columns: of the task's row, those that the outcome changes.               *)
Fire == [stage : {"pending", "post", "agent", "record", "save", "log", "over"},
         task : Tasks, literal : BOOLEAN, home : Replicas, at : Int,
         outcome : {"success", "failed"}, columns : SUBSET {"status", "next"}]

Run == [task : Tasks \cup {Null}, status : Statuses]

Tick == [busy : BOOLEAN, todo : SUBSET Tasks, at : Int]

Sess == [op : {"pause", "resume", "update", "delete", "delay"}, task : Tasks,
         seen : Row \cup {Null}, want : Row \cup {Null}]

(* Null is no status, no row of a table and no task of a process. *)
ASSUME RecordsAssumption == Null \notin Statuses \cup Row \cup Fire \cup Run \cup Sess

(* croniter(...).get_next from a base: the first match strictly after it. *)
CronNext(cron, base) ==
    cron.at + ((base - cron.at) \div cron.every + 1) * cron.every

Exists(t) == row[t] # Null

(* The WHERE clause of claim_due_tasks. *)
Eligible(t) ==
    /\ Exists(t)
    /\ row[t].next # Null
    /\ row[t].next <= now
    /\ \/ ~row[t].paused
       \/ /\ row[t].until # Null
          /\ row[t].until <= now

(* ORDER BY next_run_at LIMIT ClaimLimit: any such choice among ties. *)
Claimable ==
    LET due == {t \in Tasks : Eligible(t)}
        n == IF Cardinality(due) <= ClaimLimit THEN Cardinality(due)
             ELSE ClaimLimit
    IN  {S \in SUBSET due :
            /\ Cardinality(S) = n
            /\ \A s \in S, d \in due \ S : row[s].next <= row[d].next}

Logged(i, status) == run[i] # Null /\ run[i].status = status

(* The fires of a task that have been dispatched and have not returned. *)
InFlight(t) == {i \in RunIds : /\ fire[i] # Null
                               /\ fire[i].task = t
                               /\ fire[i].stage # "over"}

(* A call of the database fails.  Bound: at most one edit in a behaviour    *)
(* with faults.                                                             *)
Fail == /\ errors < MaxErrors
        /\ ops <= 1
        /\ errors' = errors + 1
-----------------------------------------------------------------------------
IdleTick == [busy |-> FALSE, todo |-> {}, at |-> 0]

Init ==
    /\ now = 0
    /\ row = [t \in Tasks |-> Null]
    /\ born = {}
    /\ loop = [r \in Replicas |-> IdleTick]
    /\ run = [i \in RunIds |-> Null]
    /\ lastRun = 0
    /\ fire = [i \in RunIds |-> Null]
    /\ sess = [q \in Requests |-> Null]
    /\ posts = [t \in Tasks |-> 0]
    /\ crashes = 0
    /\ errors = 0
    /\ ops = 0

Advance ==
    /\ now < MaxTime
    /\ now' = now + 1
    /\ UNCHANGED <<row, born, loop, run, lastRun, fire, sess, posts,
                   crashes, errors, ops>>

NewRow(u, cron, dest, once, literal) ==
    [owner |-> u, cron |-> cron, dest |-> dest, once |-> once,
     literal |-> literal, paused |-> FALSE, until |-> Null,
     next |-> CronNext(cron, now), status |-> Null]

(* create_task: a one-shot skips the cadence floor. *)
CreateTask(u, t, cron, once) ==
    /\ once \/ cron.every >= MinInterval
    /\ row' = [row EXCEPT ![t] = NewRow(u, cron, TRUE, once, FALSE)]
    /\ born' = born \cup {t}

(* The create tool: a task of the caller alone, for the agent to carry out, *)
(* with a destination (the caller, unless it is a channel).                 *)
Create(u, t) ==
    /\ t \notin born \cup SystemTasks
    /\ \E cron \in Crons, once \in BOOLEAN : CreateTask(u, t, cron, once)
    /\ UNCHANGED <<now, loop, run, lastRun, fire, sess, posts,
                   crashes, errors, ops>>

(* seed_system_tasks_for_workspace: INSERT ... ON CONFLICT DO NOTHING.  It  *)
(* runs at every start and install, and inserts only a name not there yet.  *)
Seed(t) ==
    /\ t \in SystemTasks
    /\ ~Exists(t)
    /\ \E cron \in Crons :
          row' = [row EXCEPT ![t] =
                    NewRow(Null, cron, HomeChannel, FALSE, FALSE)]
    /\ born' = born \cup {t}
    /\ UNCHANGED <<now, loop, run, lastRun, fire, sess, posts,
                   crashes, errors, ops>>
-----------------------------------------------------------------------------
(* A member's operation reads the row, checks the permission and computes  *)
(* the row it wants.                                                       *)
IsOwner(u, t) == t \notin SystemTasks /\ row[t].owner = u

(* The requests are slots: which of the free ones is taken does not matter. *)
Free(q) == sess[q] = Null /\ q = CHOOSE p \in Requests : sess[p] = Null

Open(q, op, t, want) ==
    /\ ops < MaxOps
    /\ ops = 0 \/ crashes + errors = 0
    /\ ops' = ops + 1
    /\ Free(q)
    /\ sess' = [sess EXCEPT ![q] =
          [op |-> op, task |-> t, seen |-> row[t], want |-> want]]
    /\ UNCHANGED <<now, row, born, loop, run, lastRun, fire, posts,
                   crashes, errors>>

PauseTask(q, u, t, until) ==
    /\ Exists(t)
    /\ IsOwner(u, t) \/ t \in SystemTasks
    /\ Open(q, "pause", t, [row[t] EXCEPT !.paused = TRUE, !.until = until])

(* What a member may name: a date or none.  Bound: the next instant. *)
Untils == {now + 1, Null}

Pause(q, u, t) == \E until \in Untils : PauseTask(q, u, t, until)

Resume(q, u, t) ==
    /\ Exists(t)
    /\ IsOwner(u, t) \/ t \in SystemTasks
    /\ Open(q, "resume", t, [row[t] EXCEPT !.paused = FALSE, !.until = Null,
                                           !.next = CronNext(row[t].cron, now)])

(* update_task with a new cron: the full permission and the cadence floor. *)
UpdateCron(q, u, t) ==
    /\ Exists(t)
    /\ IsOwner(u, t)
    /\ \E cron \in Crons \ {row[t].cron} :
          /\ cron.every >= MinInterval
          /\ Open(q, "update", t,
               [row[t] EXCEPT !.cron = cron, !.next = CronNext(cron, now)])

(* update_task with a destination only: any member, for a system task. *)
UpdateDestination(q, u, t) ==
    /\ Exists(t)
    /\ ~row[t].dest
    /\ IsOwner(u, t) \/ t \in SystemTasks
    /\ Open(q, "update", t, [row[t] EXCEPT !.dest = TRUE])

Delete(q, u, t) ==
    /\ Exists(t)
    /\ IsOwner(u, t)
    /\ Open(q, "delete", t, Null)

Update(q, u, t) == UpdateCron(q, u, t) \/ UpdateDestination(q, u, t)

(* The UPDATE holds the columns whose wanted value differs from the read   *)
(* one; the others keep what other transactions committed meanwhile.       *)
Dirty(seen, want, current) == IF want # seen THEN want ELSE current

Merge(cur, seen, want) ==
    [cur EXCEPT !.cron   = Dirty(seen.cron, want.cron, @),
                !.dest   = Dirty(seen.dest, want.dest, @),
                !.paused = Dirty(seen.paused, want.paused, @),
                !.until  = Dirty(seen.until, want.until, @),
                !.next   = Dirty(seen.next, want.next, @)]

Commit(q) ==
    LET s == sess[q] IN
    /\ s # Null
    /\ s.op # "delay"
    /\ Exists(s.task)
    /\ row' = [row EXCEPT ![s.task] =
                  IF s.want = Null THEN Null ELSE Merge(@, s.seen, s.want)]
    /\ run' = [i \in RunIds |->    \* ON DELETE SET NULL
                  IF s.want = Null /\ run[i] # Null /\ run[i].task = s.task
                  THEN [run[i] EXCEPT !.task = Null] ELSE run[i]]
    /\ sess' = [sess EXCEPT ![q] = Null]
    /\ UNCHANGED <<now, born, loop, lastRun, fire, posts, crashes, errors, ops>>

(* The row is gone: the UPDATE or DELETE matches nothing and raises. *)
CommitRaises(q) ==
    /\ sess[q] # Null
    /\ sess[q].op # "delay"
    /\ ~Exists(sess[q].task)
    /\ sess' = [sess EXCEPT ![q] = Null]
    /\ UNCHANGED <<now, row, born, loop, run, lastRun, fire, posts,
                   crashes, errors, ops>>
-----------------------------------------------------------------------------
(* send_delayed_message turns a moment after the clock into the cron of its *)
(* date.  Bound: the next instant.                                          *)
SendDelayed(q, u, t) ==
    /\ Free(q)
    /\ t \notin born \cup SystemTasks
    /\ sess' = [sess EXCEPT ![q] =
          [op |-> "delay", task |-> t, seen |-> Null,
           want |-> NewRow(u, Dated(now + 1), TRUE, TRUE, TRUE)]]
    /\ born' = born \cup {t}
    /\ UNCHANGED <<now, row, loop, run, lastRun, fire, posts, crashes,
                   errors, ops>>

(* Its create_task computes the first match from the clock of that moment: *)
(* a moment that has come meanwhile is a year away.                        *)
InsertDelayed(q) ==
    LET s == sess[q] IN
    /\ s # Null
    /\ s.op = "delay"
    /\ row' = [row EXCEPT ![s.task] =
                  NewRow(s.want.owner, s.want.cron, TRUE, TRUE, TRUE)]
    /\ sess' = [sess EXCEPT ![q] = Null]
    /\ UNCHANGED <<now, born, loop, run, lastRun, fire, posts, crashes,
                   errors, ops>>
-----------------------------------------------------------------------------
(* Mutant: the next match is counted from the one being fired (catch-up). *)
StartedCatchingUp(old) ==
    [old EXCEPT !.status = "running",
                !.next = CronNext(old.cron, old.next)]

(* record_fire_started: auto-resume, and skip-not-catchup: the next match  *)
(* is counted from now and not from the match being fired.                 *)
Started(old) ==
    LET over == old.paused /\ old.until # Null /\ old.until <= now
    IN  [old EXCEPT !.paused = IF over THEN FALSE ELSE @,
                    !.until  = IF over THEN Null ELSE @,
                    !.status = "running",
                    !.next   = CronNext(old.cron, now)]

(* Mutant: the row is marked failed and left due. *)
NoDestinationLeftDue(old) ==
    [old EXCEPT !.status = "failed"]

(* A system task whose workspace has no home channel yet. *)
NoDestination(old) ==
    [old EXCEPT !.status = "failed",
                !.next = CronNext(old.cron, now)]

(* The claim transaction of _tick, from SELECT ... FOR UPDATE SKIP LOCKED  *)
(* to the commit.  A failure in it rolls everything back.                  *)
Claim(r) ==
    /\ ~loop[r].busy
    /\ \E t \in Tasks : Eligible(t)
    /\ \E S \in Claimable :
          /\ row' = [t \in Tasks |-> IF t \notin S THEN row[t]
                                     ELSE IF row[t].dest THEN Started(row[t])
                                     ELSE NoDestination(row[t])]
          /\ loop' = [loop EXCEPT ![r] =
                [busy |-> TRUE, todo |-> {t \in S : row[t].dest}, at |-> now]]
    /\ UNCHANGED <<now, born, run, lastRun, fire, sess, posts,
                   crashes, errors, ops>>

(* start_run, in a transaction of its own.  The foreign key rejects a task *)
(* deleted since the claim.                                                *)
StartRun(r, t) ==
    /\ loop[r].busy
    /\ t \in loop[r].todo
    /\ Exists(t)
    /\ lastRun < MaxRuns
    /\ lastRun' = lastRun + 1
    /\ run' = [run EXCEPT ![lastRun'] = [task |-> t, status |-> "running"]]
    /\ fire' = [fire EXCEPT ![lastRun'] =
          [stage |-> "pending", task |-> t, literal |-> row[t].literal,
           home |-> r, at |-> loop[r].at, outcome |-> "failed", columns |-> {}]]
    /\ loop' = [loop EXCEPT ![r].todo = @ \ {t}]
    /\ UNCHANGED <<now, row, born, sess, posts, crashes, errors, ops>>

(* The insert fails: the fire is skipped, with the row already advanced. *)
StartRunFails(r, t) ==
    /\ loop[r].busy
    /\ t \in loop[r].todo
    /\ IF Exists(t) THEN Fail ELSE UNCHANGED errors
    /\ loop' = [loop EXCEPT ![r].todo = @ \ {t}]
    /\ UNCHANGED <<now, row, born, run, lastRun, fire, sess, posts,
                   crashes, ops>>

(* Only when every run row is in does the tick spawn its fires and end. *)
Dispatch(r) ==
    /\ loop[r].busy
    /\ loop[r].todo = {}
    /\ loop' = [loop EXCEPT ![r] = IdleTick]
    /\ fire' = [i \in RunIds |->
          IF fire[i] # Null /\ fire[i].stage = "pending" /\ fire[i].home = r
          THEN [fire[i] EXCEPT !.stage = "post"] ELSE fire[i]]
    /\ UNCHANGED <<now, row, born, run, lastRun, sess, posts, crashes,
                   errors, ops>>
-----------------------------------------------------------------------------
At(i, stage) == fire[i] # Null /\ fire[i].stage = stage

GoTo(i, stage, outcome) ==
    fire' = [fire EXCEPT ![i].stage = stage, ![i].outcome = outcome]

(* _execute_fire posts: the literal text, or the parent of the agent run's *)
(* thread.                                                                 *)
Post(i) ==
    /\ At(i, "post")
    /\ posts' = [posts EXCEPT ![fire[i].task] = @ + 1]
    /\ IF fire[i].literal
       THEN GoTo(i, "record", "success")
       ELSE GoTo(i, "agent", "failed")
    /\ UNCHANGED <<now, row, born, loop, run, lastRun, sess, crashes,
                   errors, ops>>

(* No workspace, no token, or Slack refuses: the fire fails, posts nothing. *)
PostFails(i) ==
    /\ At(i, "post")
    /\ GoTo(i, "record", "failed")
    /\ UNCHANGED <<now, row, born, loop, run, lastRun, sess, posts,
                   crashes, errors, ops>>

(* run_agent reports its own errors and returns, so a run that died inside *)
(* the graph is a success here too.                                        *)
RunAgent(i) ==
    /\ At(i, "agent")
    /\ GoTo(i, "record", "success")
    /\ UNCHANGED <<now, row, born, loop, run, lastRun, sess, posts,
                   crashes, errors, ops>>

(* What the agent run may still raise: its database calls. *)
RunAgentRaises(i) ==
    /\ At(i, "agent")
    /\ GoTo(i, "record", "failed")
    /\ UNCHANGED <<now, row, born, loop, run, lastRun, sess, posts,
                   crashes, errors, ops>>

(* Mutant: a failure leaves the status as the claim set it. *)
ChangedIfSuccess(old, i) ==
    {column \in {"status", "next"} :
        IF column = "status" THEN fire[i].outcome = "success"
                             ELSE old.once /\ old.next # Null}

(* Mutant: a one-shot keeps its next match. *)
ChangedKeepingNext(old, i) ==
    {column \in {"status"} : old.status # fire[i].outcome}

(* record_fire_finished: what the outcome changes of the row it read.  A    *)
(* one-shot is taken off the schedule whatever the outcome.                 *)
Changed(old, i) ==
    {column \in {"status", "next"} :
        IF column = "status" THEN old.status # fire[i].outcome
                             ELSE old.once /\ old.next # Null}

(* Mutant: the missing row raises and the run row is never finalised. *)
RecordFinishedNeedsRow(i) ==
    LET old == row[fire[i].task] IN
    /\ At(i, "record")
    /\ fire' = [fire EXCEPT
          ![i].stage = IF old = Null THEN "over" ELSE "save",
          ![i].columns = IF old = Null THEN {} ELSE Changed(old, i)]
    /\ UNCHANGED <<now, row, born, loop, run, lastRun, sess, posts, crashes,
                   errors, ops>>

(* It reads the row without a lock; a row that is gone is done with.        *)
RecordFinished(i) ==
    LET old == row[fire[i].task] IN
    /\ At(i, "record")
    /\ fire' = [fire EXCEPT
          ![i].stage = IF old = Null THEN "log" ELSE "save",
          ![i].columns = IF old = Null THEN {} ELSE Changed(old, i)]
    /\ UNCHANGED <<now, row, born, loop, run, lastRun, sess, posts, crashes,
                   errors, ops>>

Finished(old, i) ==
    [old EXCEPT
        !.status = IF "status" \in fire[i].columns THEN fire[i].outcome ELSE @,
        !.next   = IF "next" \in fire[i].columns THEN Null ELSE @]

(* It commits those columns.  The UPDATE of a row deleted meanwhile matches *)
(* nothing and raises, which is caught.                                     *)
CommitFinished(i) ==
    /\ At(i, "save")
    /\ row' = [row EXCEPT ![fire[i].task] =
                  IF @ = Null THEN Null ELSE Finished(@, i)]
    /\ fire' = [fire EXCEPT ![i].stage = "log"]
    /\ UNCHANGED <<now, born, loop, run, lastRun, sess, posts, crashes,
                   errors, ops>>

RecordFinishedFails(i) ==
    /\ At(i, "record") \/ At(i, "save")
    /\ Fail
    /\ fire' = [fire EXCEPT ![i].stage = "log"]
    /\ UNCHANGED <<now, row, born, loop, run, lastRun, sess, posts,
                   crashes, ops>>

(* finish_run. *)
FinishRun(i) ==
    /\ At(i, "log")
    /\ run' = [run EXCEPT ![i].status = fire[i].outcome]
    /\ fire' = [fire EXCEPT ![i].stage = "over"]
    /\ UNCHANGED <<now, row, born, loop, lastRun, sess, posts, crashes,
                   errors, ops>>

FinishRunFails(i) ==
    /\ At(i, "log")
    /\ Fail
    /\ fire' = [fire EXCEPT ![i].stage = "over"]
    /\ UNCHANGED <<now, row, born, loop, run, lastRun, sess, posts,
                   crashes, ops>>

(* A replica dies and comes back: its tick and its fires are gone.  Members'*)
(* operations that were not committed are assumed to be on other replicas.  *)
Crash(r) ==
    /\ crashes < MaxCrashes /\ ops <= 1
    /\ crashes' = crashes + 1
    /\ loop' = [loop EXCEPT ![r] = IdleTick]
    /\ fire' = [i \in RunIds |-> IF fire[i] # Null /\ fire[i].home = r
                                 THEN [fire[i] EXCEPT !.stage = "over"]
                                 ELSE fire[i]]
    /\ UNCHANGED <<now, row, born, run, lastRun, sess, posts, errors, ops>>
-----------------------------------------------------------------------------
RequestStep(q) ==
    \/ \E u \in Members, t \in Tasks :
          \/ Pause(q, u, t) \/ Resume(q, u, t)
          \/ Update(q, u, t) \/ Delete(q, u, t)
          \/ SendDelayed(q, u, t)
    \/ InsertDelayed(q)
    \/ Commit(q)
    \/ CommitRaises(q)

LoopStep(r) ==
    \/ Claim(r)
    \/ \E t \in Tasks : StartRun(r, t) \/ StartRunFails(r, t)
    \/ Dispatch(r)

FireStep(i) ==
    \/ Post(i) \/ PostFails(i)
    \/ RunAgent(i) \/ RunAgentRaises(i)
    \/ RecordFinished(i) \/ CommitFinished(i) \/ RecordFinishedFails(i)
    \/ FinishRun(i) \/ FinishRunFails(i)

Next ==
    \/ Advance
    \/ \E t \in Tasks : Seed(t)
    \/ \E u \in Members, t \in Tasks : Create(u, t)
    \/ \E q \in Requests : RequestStep(q)
    \/ \E r \in Replicas : LoopStep(r) \/ Crash(r)
    \/ \E i \in RunIds : FireStep(i)

Spec == Init /\ [][Next]_vars

(* Each replica's loop keeps ticking, a detached fire and an open request   *)
(* keep running, and time passes.  Members and failures owe nothing.        *)
FairSpec ==
    /\ Spec
    /\ WF_vars(Advance)
    /\ \A r \in Replicas : WF_vars(LoopStep(r))
    /\ \A i \in RunIds : WF_vars(FireStep(i))
    /\ \A q \in Requests : WF_vars(Commit(q) \/ CommitRaises(q) \/ InsertDelayed(q))
-----------------------------------------------------------------------------
(* Type correctness of every variable. *)
TypeOK ==
    /\ now \in Time
    /\ row \in [Tasks -> Row \cup {Null}]
    /\ born \subseteq Tasks
    /\ loop \in [Replicas -> Tick]
    /\ run \in [RunIds -> Run \cup {Null}]
    /\ lastRun \in 0..MaxRuns
    /\ fire \in [RunIds -> Fire \cup {Null}]
    /\ sess \in [Requests -> Sess \cup {Null}]
    /\ posts \in [Tasks -> Nat]
    /\ crashes \in 0..MaxCrashes
    /\ errors \in 0..MaxErrors
    /\ ops \in 0..MaxOps

Undisturbed == crashes = 0 /\ errors = 0

(* Two replicas never both fire a match: while no member edits the task, its*)
(* fires were claimed at different instants, whatever the loops, crashes    *)
(* and failed statements did in between.                                    *)
OneFirePerInstant ==
    ops = 0 =>
        \A i, j \in 1..lastRun :
            i # j /\ fire[i].task = fire[j].task => fire[i].at # fire[j].at

(* With no statement failing and no crash, a task shows "running" only      *)
(* while one of its fires is on its way, also when fires of a task overlap  *)
(* and when its owner edits it meanwhile.                                   *)
RunningMeansRunning ==
    Undisturbed =>
        \A t \in Tasks :
            /\ Exists(t)
            /\ row[t].status = "running"
            => \/ InFlight(t) # {}
               \/ \E r \in Replicas : t \in loop[r].todo

(* A row due now, not paused or past its pause, does not stay due: some     *)
(* replica's loop takes it, or a member pauses or deletes it.  Crashes,     *)
(* failed inserts and a missing destination do not stop the loop.           *)
DueIsClaimed ==
    \A t \in Tasks : Eligible(t) ~> ~Eligible(t)

(* With no statement failing and no crash, every row of the run log leaves  *)
(* "running", whatever happened to its task.                                *)
RunIsFinished ==
    \A i \in RunIds :
        Logged(i, "running") ~> (~Logged(i, "running") \/ ~Undisturbed)

(* record_fire_finished: with no failed statement, crash or edit, a one-shot *)
(* that was posted and has no fire on its way is off the schedule, also      *)
(* when its fires overlapped.                                                *)
OneShotDisarmed ==
    Undisturbed /\ ops = 0 =>
        \A t \in Tasks :
            /\ Exists(t)
            /\ row[t].once
            /\ posts[t] > 0
            /\ InFlight(t) = {}
            => row[t].next = Null

(* Claimed by ScheduledTask.fire_once: a one-shot does not recur.           *)
OneShotFiresOnce == \A t \in Tasks : Exists(t) /\ row[t].once => posts[t] <= 1

=============================================================================
