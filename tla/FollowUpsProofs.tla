-------------------------- MODULE FollowUpsProofs --------------------------
(***************************************************************************)
(* Proofs about FollowUps, for any number of rows, runs, replicas, nudges,  *)
(* instants and faults.                                                     *)
(***************************************************************************)
EXTENDS FollowUps, TLAPS

(* A worker fires only rows that exist, and marks one it has read.          *)
WorkerInv ==
    \A r \in Replicas :
        /\ \A f \in worker[r].batch : row[f] \in Row
        /\ worker[r].at # "idle" => worker[r].fu \in Rows /\ row[worker[r].fu] \in Row
        /\ worker[r].at = "write" => worker[r].seen \in Row

IInv == TypeOK /\ WorkerInv

(* A row that exists keeps existing and, once sent, stays sent.             *)
RowsKeep ==
    /\ row' \in [Rows -> Row \cup {Null}]
    /\ \A f \in Rows : row[f] \in Row =>
          row'[f] \in Row /\ (row[f].status = "sent" => row'[f].status = "sent")
-----------------------------------------------------------------------------
(* mark_cancelled writes only pending rows. *)
LEMMA CancelKeeps ==
    ASSUME TypeOK, NEW f \in Rows, row[f] \in Row, Cancelled(f)
    PROVE  RowsKeep
<1>1. [row[f] EXCEPT !.status = IF @ = "pending" THEN "cancelled" ELSE @] \in Row
  BY DEF Row, Statuses
<1>2. row' = [row EXCEPT ![f] = [row[f] EXCEPT !.status =
                 IF @ = "pending" THEN "cancelled" ELSE @]]
  BY DEF Cancelled
<1>3. row \in [Rows -> Row \cup {Null}]
  BY DEF TypeOK
<1>4. row[f].status = "sent" =>
         [row[f] EXCEPT !.status = IF @ = "pending" THEN "cancelled" ELSE @].status = "sent"
  BY DEF Row
<1>5. QED
  BY <1>1, <1>2, <1>3, <1>4 DEF RowsKeep

(* mark_nudge_fired_and_reschedule makes a row of a row, and leaves the     *)
(* status of one that was sent.                                             *)
LEMMA MarkKeeps ==
    ASSUME NEW seen \in Row, NEW cur \in Row, now \in Nat
    PROVE  /\ Marked(seen, cur) \in Row
           /\ cur.status = "sent" => Marked(seen, cur).status = "sent"
<1> DEFINE count == seen.count + 1
<1>1. count \in Nat
  BY DEF Row
<1>2. CASE count >= MaxNudges
  <2> DEFINE new == IF seen.status = "sent" THEN cur.status ELSE "sent"
  <2>1. Marked(seen, cur) = [cur EXCEPT !.count = count, !.status = new]
    BY <1>2 DEF Marked
  <2>2. new \in Statuses
    BY DEF Row, Statuses
  <2> HIDE DEF new, count
  <2>3. [cur EXCEPT !.count = count, !.status = new] \in Row
    BY <1>1, <2>2 DEF Row
  <2>4. [cur EXCEPT !.count = count, !.status = new].status = new
    BY <1>1, <2>2 DEF Row
  <2>5. cur.status = "sent" => new = "sent"
    BY DEF new
  <2>6. QED
    BY <2>1, <2>3, <2>4, <2>5
<1>3. CASE ~(count >= MaxNudges)
  <2> DEFINE due == now + Escalation(count)
  <2>1. Marked(seen, cur) = [cur EXCEPT !.count = count, !.due = due]
    BY <1>3 DEF Marked
  <2>2. due \in Nat
    BY <1>1 DEF Escalation
  <2> HIDE DEF due, count
  <2>3. [cur EXCEPT !.count = count, !.due = due] \in Row
    BY <1>1, <2>2 DEF Row
  <2>4. [cur EXCEPT !.count = count, !.due = due].status = cur.status
    BY DEF Row
  <2>5. QED
    BY <2>1, <2>3, <2>4
<1>4. QED
  BY <1>2, <1>3

(* In every step, rows that exist keep existing and sent ones stay sent. *)
LEMMA RowsStep ==
    ASSUME IInv, [Next]_vars
    PROVE  RowsKeep
<1> USE DEF IInv
<1>1. row' = row => RowsKeep
  BY DEF RowsKeep, TypeOK
<1>2. ASSUME NEW f \in Rows, AdminCancel(f)
      PROVE  RowsKeep
  <2>1. row[f] \in Row
    BY <1>2 DEF AdminCancel, Pending, Opened, TypeOK
  <2>2. QED
    BY <1>2, <2>1, CancelKeeps DEF AdminCancel
<1>3. ASSUME NEW r \in Replicas, OpenInsert(r)
      PROVE  RowsKeep
  <2>1. PICK f \in Rows :
           /\ row[f] = Null
           /\ row' = [row EXCEPT ![f] = [run |-> opening[r], status |-> "pending",
                                        due |-> now + Wait, count |-> 0]]
    BY <1>3 DEF OpenInsert, Opened
  <2>2. [run |-> opening[r], status |-> "pending", due |-> now + Wait, count |-> 0] \in Row
    BY <1>3, ConstantsAssumption DEF OpenInsert, TypeOK, Row, Statuses
  <2>3. QED
    BY <2>1, <2>2, NullAssumption DEF RowsKeep, TypeOK
<1>4. ASSUME NEW r \in Replicas, CancelReplied(r)
      PROVE  RowsKeep
  BY <1>4, CancelKeeps DEF CancelReplied, WorkerInv
<1>5. ASSUME NEW r \in Replicas, MarkWrite(r)
      PROVE  RowsKeep
  <2>1. worker[r].fu \in Rows /\ row[worker[r].fu] \in Row /\ worker[r].seen \in Row
    BY <1>5 DEF MarkWrite, WorkerInv
  <2>2. now \in Nat
    BY ConstantsAssumption DEF TypeOK
  <2>3. row' = [row EXCEPT ![worker[r].fu] = Marked(worker[r].seen, row[worker[r].fu])]
    BY <1>5 DEF MarkWrite
  <2>4. QED
    BY <2>1, <2>2, <2>3, MarkKeeps DEF RowsKeep, TypeOK
<1>6. ASSUME NEW r \in Replicas, WorkerStep(r)
      PROVE  RowsKeep
  BY <1>1, <1>4, <1>5, <1>6
     DEF WorkerStep, Fetch, TakeRow, CheckReplied, Nudge, LeftPending, RowSkipped,
         MarkRead
<1>7. QED
  BY <1>1, <1>2, <1>3, <1>6
     DEF Next, vars, Advance, Reply, Connect, ScheduleFollowUp, PromisePass, Sweep,
         OpenCheck, Crash
-----------------------------------------------------------------------------
(* A step that changes one worker to a sound one keeps all of them sound.   *)
LEMMA OneWorker ==
    ASSUME IInv, RowsKeep, NEW r \in Replicas, NEW w,
           worker' = [worker EXCEPT ![r] = w],
           w \in Worker,
           \A f \in w.batch : row[f] \in Row,
           w.at # "idle" => w.fu \in Rows /\ row[w.fu] \in Row,
           w.at = "write" => w.seen \in Row
    PROVE  worker' \in [Replicas -> Worker] /\ WorkerInv'
<1>1. worker \in [Replicas -> Worker]
  BY DEF IInv, TypeOK
<1>2. worker' \in [Replicas -> Worker]
  BY <1>1
<1>3. ASSUME NEW s \in Replicas
      PROVE  /\ worker'[s] \in Worker
             /\ \A f \in worker'[s].batch : row[f] \in Row
             /\ worker'[s].at # "idle" => worker'[s].fu \in Rows /\ row[worker'[s].fu] \in Row
             /\ worker'[s].at = "write" => worker'[s].seen \in Row
  <2>1. CASE s = r
    BY <1>1, <2>1
  <2>2. CASE s # r
    BY <1>1, <2>2 DEF IInv, WorkerInv
  <2>3. QED
    BY <2>1, <2>2
<1>4. \A s \in Replicas : worker'[s].batch \subseteq Rows
  BY <1>3 DEF Worker
<1>5. QED
  BY <1>2, <1>3, <1>4 DEF RowsKeep, WorkerInv

(* A step that leaves the workers alone. *)
LEMMA NoWorker ==
    ASSUME IInv, RowsKeep, UNCHANGED worker
    PROVE  worker' \in [Replicas -> Worker] /\ WorkerInv'
<1>1. worker \in [Replicas -> Worker] /\ \A s \in Replicas : worker[s].batch \subseteq Rows
  BY DEF IInv, TypeOK, Worker
<1>2. QED
  BY <1>1 DEF IInv, RowsKeep, WorkerInv

(* In every step, workers hold rows that exist. *)
LEMMA WorkersStep ==
    ASSUME IInv, [Next]_vars, RowsKeep
    PROVE  worker' \in [Replicas -> Worker] /\ WorkerInv'
<1> DEFINE Goal == worker' \in [Replicas -> Worker] /\ WorkerInv'
<1> SUFFICES Goal
  OBVIOUS
<1>1. UNCHANGED worker => Goal
  BY NoWorker
<1> HIDE DEF Goal
<1>2. ASSUME NEW r \in Replicas, WorkerStep(r)
      PROVE  Goal
  <2> DEFINE w == worker[r]
  <2>1. /\ w \in Worker
        /\ \A f \in w.batch : row[f] \in Row
        /\ w.at # "idle" => w.fu \in Rows /\ row[w.fu] \in Row
        /\ w.at = "write" => w.seen \in Row
    BY DEF IInv, TypeOK, WorkerInv
  <2>2. CASE Fetch(r)
    <3>1. PICK batch \in SUBSET Rows :
             /\ Fetched(batch)
             /\ worker' = [worker EXCEPT ![r] = [w EXCEPT !.batch = batch]]
      BY <2>2 DEF Fetch
    <3>2. batch \subseteq Rows /\ \A f \in batch : row[f] \in Row
      BY <3>1 DEF Fetched, Due, Pending, Opened, IInv, TypeOK
    <3>3. w.at = "idle"
      BY <2>2 DEF Fetch, Idle
    <3> HIDE DEF w
    <3>4. /\ [w EXCEPT !.batch = batch] \in Worker
          /\ [w EXCEPT !.batch = batch].batch = batch
          /\ [w EXCEPT !.batch = batch].at = "idle"
      BY <2>1, <3>2, <3>3 DEF Worker
    <3>5. QED
      BY <3>1, <3>2, <3>4, OneWorker DEF Goal
  <2>3. CASE TakeRow(r)
    <3>1. PICK f \in w.batch :
             worker' = [worker EXCEPT ![r] =
                [w EXCEPT !.batch = @ \ {f}, !.at = "check", !.fu = f]]
      BY <2>3 DEF TakeRow
    <3>2. f \in Rows /\ row[f] \in Row
      BY <2>1 DEF Worker
    <3> DEFINE new == [w EXCEPT !.batch = @ \ {f}, !.at = "check", !.fu = f]
    <3> HIDE DEF w
    <3>3. /\ new \in Worker
          /\ new.batch \subseteq w.batch
          /\ new.at = "check"
          /\ new.fu = f
      BY <2>1, <3>2 DEF Worker, Places
    <3> HIDE DEF new
    <3>4. QED
      BY <2>1, <3>1, <3>2, <3>3, OneWorker DEF new, Goal
  <2>4. ASSUME NEW place \in Places \ {"write"}, w.at # "idle",
               worker' = [worker EXCEPT ![r] = [w EXCEPT !.at = place]]
        PROVE  Goal
    <3> HIDE DEF w
    <3>1. /\ [w EXCEPT !.at = place] \in Worker
          /\ [w EXCEPT !.at = place].batch = w.batch
          /\ [w EXCEPT !.at = place].fu = w.fu
          /\ [w EXCEPT !.at = place].at = place
      BY <2>1 DEF Worker
    <3>2. QED
      BY <2>1, <2>4, <3>1, OneWorker DEF Goal
  <2>5. ASSUME NextRow(r)
        PROVE  Goal
    <3> DEFINE new == [w EXCEPT !.at = "idle", !.fu = Null, !.seen = Null]
    <3>1. worker' = [worker EXCEPT ![r] = new]
      BY <2>5 DEF NextRow
    <3> HIDE DEF w
    <3>2. /\ new \in Worker
          /\ new.batch = w.batch
          /\ new.at = "idle"
      BY <2>1 DEF Worker, Places
    <3> HIDE DEF new
    <3>3. QED
      BY <2>1, <3>1, <3>2, OneWorker DEF Goal
  <2>6. CASE MarkRead(r)
    <3> DEFINE seen == row[w.fu]
    <3>1. worker' = [worker EXCEPT ![r] = [w EXCEPT !.at = "write", !.seen = seen]]
      BY <2>6 DEF MarkRead
    <3>2. w.at # "idle" /\ seen \in Row
      BY <2>1, <2>6 DEF MarkRead
    <3>3. w.fu \in Rows /\ row[w.fu] \in Row
      BY <2>1, <3>2
    <3> HIDE DEF w, seen
    <3>4. /\ [w EXCEPT !.at = "write", !.seen = seen] \in Worker
          /\ [w EXCEPT !.at = "write", !.seen = seen].batch = w.batch
          /\ [w EXCEPT !.at = "write", !.seen = seen].fu = w.fu
          /\ [w EXCEPT !.at = "write", !.seen = seen].seen = seen
      BY <2>1, <3>2 DEF Worker, Places
    <3>5. QED
      BY <2>1, <3>1, <3>2, <3>3, <3>4, OneWorker DEF Goal
  <2>7. CASE CheckReplied(r)
    BY <2>4, <2>7 DEF CheckReplied, GoTo, Places
  <2>8. CASE Nudge(r)
    BY <2>4, <2>8 DEF Nudge, GoTo, Places
  <2>9. CASE CancelReplied(r) \/ LeftPending(r) \/ RowSkipped(r) \/ MarkWrite(r)
    BY <2>5, <2>9 DEF CancelReplied, LeftPending, RowSkipped, MarkWrite
  <2>10. QED
    BY <1>2, <2>2, <2>3, <2>6, <2>7, <2>8, <2>9 DEF WorkerStep
<1>3. ASSUME NEW r \in Replicas, Crash(r)
      PROVE  Goal
  <2>1. Idle \in Worker /\ Idle.batch = {} /\ Idle.at = "idle"
    BY DEF Idle, Worker, Places
  <2>2. worker' = [worker EXCEPT ![r] = Idle]
    BY <1>3 DEF Crash
  <2>3. QED
    BY <2>1, <2>2, OneWorker DEF Goal
<1>4. QED
  BY <1>1, <1>2, <1>3
     DEF Next, vars, Advance, Reply, AdminCancel, Connect, ScheduleFollowUp,
         PromisePass, Sweep, OpenCheck, OpenInsert
-----------------------------------------------------------------------------
(* The other variables keep their types. *)
LEMMA OthersStep ==
    ASSUME IInv, [Next]_vars
    PROVE  /\ now' \in 0..MaxTime
           /\ opening' \in [Replicas -> Runs \cup {Null}]
           /\ replied' \subseteq Rows /\ mute' \subseteq Rows
           /\ pending' \subseteq Connections
           /\ faults' \in 0..MaxFaults
<1>1. ConstantsAssumption /\ TypeOK
  BY ConstantsAssumption DEF IInv
<1>2. now' \in 0..MaxTime /\ faults' \in 0..MaxFaults
  <2>1. MaxTime \in Nat /\ MaxFaults \in Nat
    BY <1>1 DEF ConstantsAssumption
  <2>2. now \in 0..MaxTime /\ faults \in 0..MaxFaults
    BY <1>1 DEF TypeOK
  <2>3. now' = now \/ (now < MaxTime /\ now' = now + 1)
    BY DEF Next, vars, Advance, Reply, AdminCancel, Connect, ScheduleFollowUp,
           PromisePass, Sweep, OpenCheck, OpenInsert, WorkerStep, Fetch, TakeRow,
           CheckReplied, CancelReplied, Nudge, LeftPending, RowSkipped, MarkRead,
           MarkWrite, Crash
  <2>4. faults' = faults \/ Fault
    BY DEF Next, vars, Advance, Reply, AdminCancel, Connect, ScheduleFollowUp,
           PromisePass, Sweep, OpenCheck, OpenInsert, WorkerStep, Fetch, TakeRow,
           CheckReplied, CancelReplied, Nudge, LeftPending, RowSkipped, MarkRead,
           MarkWrite, Crash
  <2>5. QED
    BY <2>1, <2>2, <2>3, <2>4 DEF Fault
<1>3. replied' \subseteq Rows /\ mute' \subseteq Rows /\ pending' \subseteq Connections
  BY <1>1
     DEF TypeOK, Next, vars, Advance, Reply, AdminCancel, Connect,
         ScheduleFollowUp, PromisePass, Sweep, OpenCheck, OpenInsert, WorkerStep, Fetch,
         TakeRow, CheckReplied, CancelReplied, Nudge, LeftPending, RowSkipped, MarkRead,
         MarkWrite, Crash
<1>4. opening' \in [Replicas -> Runs \cup {Null}]
  BY <1>1
     DEF TypeOK, Next, vars, Advance, Reply, AdminCancel, Connect, ConstantsAssumption,
         ScheduleFollowUp, PromisePass, Sweep, OpenCheck, OpenInsert, WorkerStep, Fetch,
         TakeRow, CheckReplied, CancelReplied, Nudge, LeftPending, RowSkipped, MarkRead,
         MarkWrite, Crash
<1>5. QED
  BY <1>2, <1>3, <1>4

(* The invariant holds at the start. *)
LEMMA InitSound == Init => IInv
<1> SUFFICES ASSUME Init
             PROVE  IInv
  OBVIOUS
<1>1. Idle \in Worker /\ Idle.batch = {} /\ Idle.at = "idle"
  BY DEF Idle, Worker, Places
<1>2. TypeOK
  BY <1>1, ConstantsAssumption DEF Init, TypeOK
<1>3. WorkerInv
  BY <1>1 DEF Init, WorkerInv
<1>4. QED
  BY <1>2, <1>3 DEF IInv

(* Every step keeps the invariant. *)
LEMMA StepSound == IInv /\ [Next]_vars => IInv'
<1> SUFFICES ASSUME IInv, [Next]_vars
             PROVE  IInv'
  OBVIOUS
<1>1. RowsKeep
  BY RowsStep
<1>2. worker' \in [Replicas -> Worker] /\ WorkerInv'
  BY <1>1, WorkersStep
<1>3. QED
  BY <1>1, <1>2, OthersStep DEF IInv, TypeOK, RowsKeep

(* Every variable keeps its type: the rows, the workers' batches and the    *)
(* rows they have in hand (app/follow_ups/worker.py).                       *)
THEOREM TypeCorrect == Spec => []TypeOK
<1>1. IInv => TypeOK
  BY DEF IInv
<1>2. QED
  BY <1>1, InitSound, StepSound, PTL DEF Spec

(* A row marked sent stays sent, whatever workers, users, administrators    *)
(* and crashes do: mark_nudge_fired_and_reschedule                          *)
(* (app/follow_ups/repository.py) writes the status only to set it.         *)
THEOREM SentStays == Spec => SentIsFinal
<1> DEFINE Keeps == \A f \in Rows :
                       Opened(f) /\ row[f].status = "sent" => row'[f].status = "sent"
<1>1. IInv /\ [Next]_vars => [Keeps]_vars
  <2> SUFFICES ASSUME IInv, [Next]_vars, NEW f \in Rows, Opened(f), row[f].status = "sent"
               PROVE  row'[f].status = "sent"
    OBVIOUS
  <2>1. row[f] \in Row
    BY DEF IInv, TypeOK, Opened
  <2>2. QED
    BY <2>1, RowsStep DEF RowsKeep
<1>2. QED
  BY <1>1, InitSound, StepSound, PTL DEF Spec, SentIsFinal
=============================================================================
