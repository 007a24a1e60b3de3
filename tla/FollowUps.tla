----------------------------- MODULE FollowUps -----------------------------
(***************************************************************************)
(* Follow-up nudges (app/follow_ups): the follow_up rows, the worker loop   *)
(* of each replica that fires the due ones, the sweeper that opens them for *)
(* integrations nobody finished connecting, and what ends them: a reply, an *)
(* administrator, or the last nudge.                                        *)
(*                                                                          *)
(* The worker fetches the oldest due rows, BATCH_SIZE at most, without      *)
(* locking them and fires them one by one: it reads whether the user        *)
(* replied, runs the agent for minutes, and only then moves the row.  A row *)
(* that cannot be fired stays as it is and is fetched again, before younger *)
(* ones.  Time is counted in the escalation's steps.                        *)
(***************************************************************************)
EXTENDS Integers, FiniteSets

CONSTANTS
    Rows,         \* follow_up ids
    Runs,         \* created_by_run_id values: agent runs and "integration:" keys
    Connections,  \* those of Runs that are stuck integration connections
    Promises,     \* those of Runs that are what a user said he would do
    Replicas,     \* API processes, each with its own worker and sweeper
    Null,
    MaxNudges,    \* MAX_NUDGES
    BatchSize,    \* BATCH_SIZE
    Wait,         \* steps until the first nudge
    MaxTime,      \* bound: instants considered
    MaxFaults     \* bound: crashes and failed statements

ASSUME ConstantsAssumption ==
    /\ Connections \subseteq Runs /\ Promises \subseteq Runs \ Connections
    /\ Null \notin Rows \cup Runs \cup Int
    /\ {MaxNudges, BatchSize} \subseteq Nat \ {0}
    /\ {Wait, MaxTime, MaxFaults} \subseteq Nat

VARIABLES
    now,
    row,      \* the follow_up table
    mute,     \* rows that cannot be fired: no bot token, no team, a run that raises
    opening,  \* per replica, the run whose dedup check found nothing, to insert
    replied,  \* rows whose user wrote in the thread since the row was opened
    worker,   \* per replica, the batch left and the row being fired
    pending,  \* connections still pending
    faults

vars == <<now, row, mute, opening, replied, worker, pending, faults>>
-----------------------------------------------------------------------------
Statuses == {"pending", "sent", "cancelled"}

Row == [run : Runs, status : Statuses, due : Nat, count : Nat]

(* Null is no row of the table. *)
ASSUME NullAssumption == Null \notin Row

Places == {"idle", "check", "run", "cancel", "read", "write"}

(* seen is what mark_nudge_fired_and_reschedule read of the row. *)
Worker == [batch : SUBSET Rows, at : Places, fu : Rows \cup {Null},
           seen : Row \cup {Null}]

Idle == [batch |-> {}, at |-> "idle", fu |-> Null, seen |-> Null]

Opened(f) == row[f] # Null

Pending(f) == Opened(f) /\ row[f].status = "pending"

Due(f) == Pending(f) /\ row[f].due <= now

(* _ESCALATION_HOURS, in steps: longer after each nudge. *)
Escalation(count) == count

Fault == /\ faults < MaxFaults
         /\ faults' = faults + 1

Init ==
    /\ now = 0
    /\ row = [f \in Rows |-> Null]
    /\ mute \in SUBSET Rows
    /\ opening = [r \in Replicas |-> Null]
    /\ replied = {}
    /\ worker = [r \in Replicas |-> Idle]
    /\ pending = Connections
    /\ faults = 0

Advance ==
    /\ now < MaxTime
    /\ now' = now + 1
    /\ UNCHANGED <<row, mute, opening, replied, worker, pending, faults>>
-----------------------------------------------------------------------------
(* create_follow_up: a pending row of the same run is returned instead.     *)
OpenCheck(r, k) ==
    /\ opening[r] = Null
    /\ \E f \in Rows : ~Opened(f)  \* bound: rows
    /\ ~\E f \in Rows : Pending(f) /\ row[f].run = k
    /\ opening' = [opening EXCEPT ![r] = k]
    /\ UNCHANGED <<now, row, mute, replied, worker, pending, faults>>

(* The agent's tool schedules one under its run, *)
ScheduleFollowUp(r, k) == k \notin Connections \cup Promises /\ OpenCheck(r, k)

(* the pass after a turn one for what the user promised in it, *)
PromisePass(r, k) == k \in Promises /\ OpenCheck(r, k)

(* and the sweeper of every replica one for each stale connection. *)
Sweep(r, k) == k \in pending /\ OpenCheck(r, k)

OpenInsert(r) ==
    /\ opening[r] # Null
    /\ \E f \in Rows :
          /\ ~Opened(f)
          /\ row' = [row EXCEPT ![f] = [run |-> opening[r], status |-> "pending",
                                       due |-> now + Wait, count |-> 0]]
    /\ opening' = [opening EXCEPT ![r] = Null]
    /\ UNCHANGED <<now, mute, replied, worker, pending, faults>>

(* The user writes in the thread of the row. *)
Reply(f) ==
    /\ Opened(f)
    /\ replied' = replied \cup {f}
    /\ UNCHANGED <<now, row, mute, opening, worker, pending, faults>>

(* The user finishes connecting. *)
Connect(k) ==
    /\ pending' = pending \ {k}
    /\ UNCHANGED <<now, row, mute, opening, replied, worker, faults>>

(* mark_cancelled and admin_cancel: one UPDATE ... WHERE status = 'pending'. *)
Cancelled(f) ==
    row' = [row EXCEPT ![f].status = IF @ = "pending" THEN "cancelled" ELSE @]

AdminCancel(f) ==
    /\ Pending(f)
    /\ Cancelled(f)
    /\ UNCHANGED <<now, mute, opening, replied, worker, pending, faults>>
-----------------------------------------------------------------------------
GoTo(r, at) == worker' = [worker EXCEPT ![r].at = at]

(* The row is done with: the loop takes the next of the batch. *)
NextRow(r) == worker' = [worker EXCEPT ![r].at = "idle", ![r].fu = Null,
                                       ![r].seen = Null]

(* fetch_due_pending, without a lock: the oldest due rows. *)
Fetched(batch) ==
    LET due == {f \in Rows : Due(f)} IN
    /\ batch # {} /\ batch \subseteq due
    /\ Cardinality(batch) <= BatchSize
    /\ Cardinality(batch) = BatchSize \/ batch = due
    /\ \A f \in batch, other \in due \ batch : row[f].due <= row[other].due

Fetch(r) ==
    /\ worker[r] = Idle
    /\ \E batch \in SUBSET Rows :
          Fetched(batch) /\ worker' = [worker EXCEPT ![r].batch = batch]
    /\ UNCHANGED <<now, row, mute, opening, replied, pending, faults>>

TakeRow(r) ==
    /\ worker[r].at = "idle"
    /\ \E f \in worker[r].batch :
          worker' = [worker EXCEPT ![r].batch = @ \ {f}, ![r].at = "check",
                                   ![r].fu = f]
    /\ UNCHANGED <<now, row, mute, opening, replied, pending, faults>>

(* Mutant: a row whose user replied is skipped and not cancelled. *)
CheckRepliedSkips(r) ==
    /\ worker[r].at = "check"
    /\ IF worker[r].fu \in replied THEN NextRow(r) ELSE GoTo(r, "run")
    /\ UNCHANGED <<now, row, mute, opening, replied, pending, faults>>

CheckReplied(r) ==
    /\ worker[r].at = "check"
    /\ GoTo(r, IF worker[r].fu \in replied THEN "cancel" ELSE "run")
    /\ UNCHANGED <<now, row, mute, opening, replied, pending, faults>>

CancelReplied(r) ==
    /\ worker[r].at = "cancel"
    /\ Cancelled(worker[r].fu)
    /\ NextRow(r)
    /\ UNCHANGED <<now, mute, opening, replied, pending, faults>>

(* run_agent posts the nudge, or reports an error of its own to the thread; *)
(* it returns the same way.                                                 *)
Nudge(r) ==
    /\ worker[r].at = "run"
    /\ worker[r].fu \notin mute
    /\ GoTo(r, "read")
    /\ UNCHANGED <<now, row, mute, opening, replied, pending, faults>>

(* No bot token, no team, or the run raises: the row stays pending and due. *)
LeftPending(r) ==
    /\ worker[r].at = "run"
    /\ worker[r].fu \in mute
    /\ NextRow(r)
    /\ UNCHANGED <<now, row, mute, opening, replied, pending, faults>>

(* A statement or a run fails this once: the row is left as it is. *)
RowSkipped(r) ==
    /\ worker[r].at \in {"check", "cancel", "run", "read", "write"}
    /\ Fault
    /\ NextRow(r)
    /\ UNCHANGED <<now, row, mute, opening, replied, pending>>

(* mark_nudge_fired_and_reschedule reads the row ... *)
MarkRead(r) ==
    /\ worker[r].at = "read"
    /\ worker' = [worker EXCEPT ![r].at = "write", ![r].seen = row[worker[r].fu]]
    /\ UNCHANGED <<now, row, mute, opening, replied, pending, faults>>

(* Mutant: re-arming also writes the status. *)
MarkedPending(seen, cur) ==
    LET count == seen.count + 1 IN
    IF count >= MaxNudges
    THEN [cur EXCEPT !.count = count, !.status = "sent"]
    ELSE [cur EXCEPT !.count = count, !.status = "pending",
                     !.due = now + Escalation(count)]

(* ... and sets "sent", or the next date and nothing of the status. *)
Marked(seen, cur) ==
    LET count == seen.count + 1 IN
    IF count >= MaxNudges
    THEN [cur EXCEPT !.count = count,
                     !.status = IF seen.status = "sent" THEN @ ELSE "sent"]
    ELSE [cur EXCEPT !.count = count, !.due = now + Escalation(count)]

MarkWrite(r) ==
    /\ worker[r].at = "write"
    /\ row' = [row EXCEPT ![worker[r].fu] = Marked(worker[r].seen, @)]
    /\ NextRow(r)
    /\ UNCHANGED <<now, mute, opening, replied, pending, faults>>

Crash(r) ==
    /\ Fault
    /\ worker' = [worker EXCEPT ![r] = Idle]
    /\ opening' = [opening EXCEPT ![r] = Null]
    /\ UNCHANGED <<now, row, mute, replied, pending>>
-----------------------------------------------------------------------------
WorkerStep(r) ==
    \/ Fetch(r) \/ TakeRow(r)
    \/ CheckReplied(r) \/ CancelReplied(r)
    \/ Nudge(r) \/ LeftPending(r) \/ RowSkipped(r)
    \/ MarkRead(r) \/ MarkWrite(r)

Next ==
    \/ Advance
    \/ \E f \in Rows : Reply(f) \/ AdminCancel(f)
    \/ \E k \in pending : Connect(k)
    \/ \E r \in Replicas : \/ \E k \in Runs : ScheduleFollowUp(r, k) \/ PromisePass(r, k) \/ Sweep(r, k)
                          \/ OpenInsert(r)
                          \/ WorkerStep(r)
                          \/ Crash(r)

Spec == Init /\ [][Next]_vars

(* Each replica's worker keeps ticking and each row of its batch returns;   *)
(* users, administrators and crashes owe nothing.                           *)
FairSpec == Spec /\ \A r \in Replicas : WF_vars(WorkerStep(r))
-----------------------------------------------------------------------------
(* Type correctness of every variable. *)
TypeOK ==
    /\ now \in 0..MaxTime
    /\ row \in [Rows -> Row \cup {Null}]
    /\ mute \subseteq Rows
    /\ opening \in [Replicas -> Runs \cup {Null}]
    /\ replied \subseteq Rows
    /\ worker \in [Replicas -> Worker]
    /\ pending \subseteq Connections
    /\ faults \in 0..MaxFaults

(* "sent" is final: a second worker that read the row before the last nudge *)
(* was recorded does not re-arm it.                                         *)
SentIsFinal ==
    [][\A f \in Rows :
          Opened(f) /\ row[f].status = "sent" => row'[f].status = "sent"]_vars

(* The rows that cannot be fired and are fetched before f, or with it. *)
Ahead(f) == {g \in mute : Pending(g) /\ row[g].due <= row[f].due}

(* A due row that can be fired does not stay due, whatever replicas crash   *)
(* and whatever other rows cannot be fired: it is re-armed, sent or         *)
(* cancelled.  It is so as long as those rows leave it a place in a batch.  *)
DueIsHandled ==
    \A f \in Rows :
        Due(f) /\ f \notin mute /\ Cardinality(Ahead(f)) < BatchSize ~> ~Due(f)

=============================================================================
