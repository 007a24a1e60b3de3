------------------------ MODULE ScheduledTasksProofs ------------------------
(***************************************************************************)
(* Proofs about ScheduledTasks, for any tasks, members, requests, replicas  *)
(* and crons, any claim limit, and any crashes, errors and edits.           *)
(***************************************************************************)
EXTENDS ScheduledTasks, TLAPS

(* The crons a row may have. *)
CronsOf == Crons \cup {Dated(m) : m \in 0..MaxTime + 1}

(* A cron has a positive period and starts at an instant. *)
LEMMA CronShape ==
    ASSUME NEW cron \in CronsOf
    PROVE  cron.every \in Nat \ {0} /\ cron.at \in Nat
<1>1. CASE cron \in Crons
  BY <1>1, BoundsAssumption
<1>2. CASE cron \in {Dated(m) : m \in 0..MaxTime + 1}
  BY <1>2, BoundsAssumption DEF Dated
<1>3. QED
  BY <1>1, <1>2 DEF CronsOf

(* croniter's next match is later than the base it is counted from. *)
LEMMA NextIsLater ==
    ASSUME NEW cron \in CronsOf, NEW base \in Int
    PROVE  CronNext(cron, base) \in Int /\ CronNext(cron, base) > base
<1> DEFINE e == cron.every
           x == base - cron.at
           q == x \div e
<1>1. e \in Nat \ {0} /\ cron.at \in Int /\ x \in Int
  BY CronShape
<1>2. CronNext(cron, base) = cron.at + (q + 1) * e
  BY DEF CronNext
<1>3. base = x + cron.at
  BY <1>1
<1> HIDE DEF x, e
<1>4. q \in Int /\ x < (q + 1) * e
  BY <1>1
<1> HIDE DEF q
<1>5. (q + 1) * e \in Int
  BY <1>1, <1>4
<1>6. QED
  BY <1>1, <1>2, <1>3, <1>4, <1>5
-----------------------------------------------------------------------------
(* A request that sends a delayed message holds its row; before the first   *)
(* edit no other request is open.                                           *)
RequestInv ==
    \A q \in Requests : sess[q] # Null =>
        /\ sess[q].op = "delay" => sess[q].want # Null
        /\ ops = 0 => sess[q].op = "delay"

(* Every run row was given its fire. *)
FiresThere == \A i \in 1..lastRun : fire[i] # Null

(* Every fire has its line in the log. *)
LogThere == \A i \in RunIds : fire[i] # Null => run[i] # Null

(* The task t is not due again at an instant it was claimed at. *)
DueAfter(t, at) == row[t] # Null /\ row[t].next # Null => at < row[t].next

(* Every claim, dispatched or still in a tick, is of the past. *)
Past ==
    /\ \A i \in 1..lastRun : fire[i].at <= now /\ DueAfter(fire[i].task, fire[i].at)
    /\ \A r \in Replicas : \A t \in loop[r].todo :
          loop[r].at <= now /\ DueAfter(t, loop[r].at)

(* And no two claims of a task are of one instant. *)
Apart ==
    /\ \A i, j \in 1..lastRun :
          i # j /\ fire[i].task = fire[j].task => fire[i].at # fire[j].at
    /\ \A r \in Replicas, i \in 1..lastRun :
          fire[i].task \in loop[r].todo => fire[i].at # loop[r].at
    /\ \A r, s \in Replicas : \A t \in loop[r].todo :
          r # s /\ t \in loop[s].todo => loop[r].at # loop[s].at

ClaimInv == ops = 0 => Past /\ Apart

IInv == TypeOK /\ RequestInv /\ FiresThere /\ LogThere /\ ClaimInv
-----------------------------------------------------------------------------
(* What most steps do: no row becomes due at an earlier instant than it was *)
(* or at a past one, no fire changes its task or its instant, and a tick    *)
(* claims nothing more.                                                     *)
RowsLater ==
    \A t \in Tasks : row'[t] # Null /\ row'[t].next # Null =>
        \/ row[t] # Null /\ row[t].next # Null /\ row'[t].next = row[t].next
        \/ now < row'[t].next

FiresKept ==
    /\ lastRun' = lastRun
    /\ \A i \in 1..lastRun :
          fire'[i] # Null /\ fire'[i].task = fire[i].task /\ fire'[i].at = fire[i].at
    /\ \A i \in RunIds : fire'[i] # Null => fire[i] # Null

LogKept == \A i \in RunIds : run[i] # Null => run'[i] # Null

LoopsShrink ==
    \A r \in Replicas :
        /\ loop'[r].todo \subseteq loop[r].todo
        /\ loop'[r].todo # {} => loop'[r].at = loop[r].at

(* What TypeOK says of the values the invariant compares. *)
LEMMA Shapes ==
    ASSUME TypeOK
    PROVE  /\ now \in Nat
           /\ \A t \in Tasks : row[t] # Null => row[t].next \in Int \cup {Null}
           /\ \A i \in 1..lastRun : i \in RunIds
           /\ \A i \in RunIds : fire[i] # Null => fire[i].task \in Tasks /\ fire[i].at \in Int
           /\ \A r \in Replicas : loop[r].todo \subseteq Tasks /\ loop[r].at \in Int
<1>1. now \in Nat /\ \A i \in 1..lastRun : i \in RunIds
  BY BoundsAssumption DEF TypeOK, Time, RunIds
<1>2. \A t \in Tasks : row[t] # Null => row[t] \in Row
  BY DEF TypeOK
<1>3. \A i \in RunIds : fire[i] # Null => fire[i] \in Fire
  BY DEF TypeOK
<1>4. \A r \in Replicas : loop[r] \in Tick
  BY DEF TypeOK
<1>5. QED
  BY <1>1, <1>2, <1>3, <1>4 DEF Row, Fire, Tick

(* An instant a task is not due at again stays one. *)
LEMMA LaterStays ==
    ASSUME TypeOK, RowsLater, NEW t \in Tasks, NEW at \in Int, at <= now, DueAfter(t, at),
           TypeOK'
    PROVE  DueAfter(t, at)'
<1>1. now \in Nat
  BY Shapes
<1>2. row'[t] # Null => row'[t] \in Row
  BY DEF TypeOK
<1>3. row'[t] # Null /\ row'[t].next # Null => row'[t].next \in Int
  BY <1>2 DEF Row
<1>4. QED
  BY <1>1, <1>3 DEF RowsLater, DueAfter

(* A step with no new claim and no new fire keeps the invariant. *)
LEMMA QuietSound ==
    ASSUME IInv, TypeOK', RequestInv', RowsLater, FiresKept, LoopsShrink,
           LogKept, ops' = ops, now' \in Int, now <= now'
    PROVE  IInv'
<1>1. FiresThere' /\ LogThere'
  BY DEF FiresKept, FiresThere, LogKept, LogThere, IInv
<1>2. ASSUME ops' = 0
      PROVE  Past' /\ Apart'
  <2>1. Past /\ Apart
    BY <1>2 DEF IInv, ClaimInv
  <2>2. TypeOK
    BY DEF IInv
  <2>3. ASSUME NEW i \in 1..lastRun'
        PROVE  fire'[i].at <= now' /\ DueAfter(fire[i].task, fire[i].at)'
    <3>1. i \in 1..lastRun /\ i \in RunIds
      BY <2>2, Shapes DEF FiresKept
    <3>2. fire[i].task \in Tasks /\ fire[i].at \in Int /\ now \in Nat
      BY <2>2, <3>1, Shapes DEF IInv, FiresThere
    <3>3. fire[i].at <= now /\ DueAfter(fire[i].task, fire[i].at)
      BY <2>1, <3>1 DEF Past
    <3>4. fire'[i].at = fire[i].at /\ fire'[i].task = fire[i].task
      BY <3>1 DEF FiresKept
    <3>5. row'[fire[i].task] # Null /\ row'[fire[i].task].next # Null
             => fire[i].at < row'[fire[i].task].next
      BY <2>2, <3>2, <3>3, LaterStays DEF DueAfter
    <3>6. QED
      BY <3>2, <3>3, <3>4, <3>5 DEF DueAfter
  <2>4. ASSUME NEW r \in Replicas, NEW t \in loop'[r].todo
        PROVE  loop'[r].at <= now' /\ DueAfter(t, loop[r].at)'
    <3>1. t \in loop[r].todo /\ loop'[r].at = loop[r].at
      BY DEF LoopsShrink
    <3>2. t \in Tasks /\ loop[r].at \in Int /\ now \in Nat
      BY <2>2, <3>1, Shapes
    <3>3. loop[r].at <= now /\ DueAfter(t, loop[r].at)
      BY <2>1, <3>1 DEF Past
    <3>4. row'[t] # Null /\ row'[t].next # Null => loop[r].at < row'[t].next
      BY <2>2, <3>2, <3>3, LaterStays DEF DueAfter
    <3>5. QED
      BY <3>1, <3>2, <3>3, <3>4 DEF DueAfter
  <2>5. Past'
    BY <2>3, <2>4 DEF Past
  <2>6. Apart'
    <3>1. \A i, j \in 1..lastRun' :
             i # j /\ fire'[i].task = fire'[j].task => fire'[i].at # fire'[j].at
      BY <2>1 DEF FiresKept, Apart
    <3>2. \A r \in Replicas, i \in 1..lastRun' :
             fire'[i].task \in loop'[r].todo => fire'[i].at # loop'[r].at
      BY <2>1 DEF FiresKept, LoopsShrink, Apart
    <3>3. \A r, s \in Replicas : \A t \in loop'[r].todo :
             r # s /\ t \in loop'[s].todo => loop'[r].at # loop'[s].at
      BY <2>1 DEF LoopsShrink, Apart
    <3>4. QED
      BY <3>1, <3>2, <3>3 DEF Apart
  <2>7. QED
    BY <2>5, <2>6
<1>3. QED
  BY <1>1, <1>2 DEF IInv, ClaimInv
-----------------------------------------------------------------------------
(* The rows the code writes. *)
LEMMA NewRowShape ==
    ASSUME now \in Nat, NEW u \in Members \cup {Null}, NEW cron \in CronsOf,
           NEW dest \in BOOLEAN, NEW once \in BOOLEAN, NEW literal \in BOOLEAN
    PROVE  /\ NewRow(u, cron, dest, once, literal) \in Row
           /\ now < NewRow(u, cron, dest, once, literal).next
<1> DEFINE next == CronNext(cron, now)
<1>1. next \in Int /\ now < next
  BY NextIsLater
<1>2. NewRow(u, cron, dest, once, literal) =
         [owner |-> u, cron |-> cron, dest |-> dest, once |-> once, literal |-> literal,
          paused |-> FALSE, until |-> Null, next |-> next, status |-> Null]
  BY DEF NewRow
<1> HIDE DEF next
<1>3. QED
  BY <1>1, <1>2 DEF Row, CronsOf

(* record_fire_started makes a row of a row, due again only later. *)
LEMMA StartedShape ==
    ASSUME now \in Nat, NEW old \in Row
    PROVE  Started(old) \in Row /\ now < Started(old).next
<1> DEFINE over == old.paused /\ old.until # Null /\ old.until <= now
           next == CronNext(old.cron, now)
           paused == IF over THEN FALSE ELSE old.paused
           until == IF over THEN Null ELSE old.until
<1>1. next \in Int /\ now < next
  BY NextIsLater DEF Row, CronsOf
<1>2. paused \in BOOLEAN /\ until \in Int \cup {Null}
  BY DEF Row
<1>3. Started(old) = [old EXCEPT !.paused = paused, !.until = until,
                                 !.status = "running", !.next = next]
  BY DEF Started
<1> HIDE DEF over, next, paused, until
<1>4. /\ [old EXCEPT !.paused = paused, !.until = until,
                     !.status = "running", !.next = next] \in Row
      /\ [old EXCEPT !.paused = paused, !.until = until,
                     !.status = "running", !.next = next].next = next
  BY <1>1, <1>2 DEF Row, Statuses
<1>5. QED
  BY <1>1, <1>3, <1>4

(* So does a claim that finds no destination. *)
LEMMA NoDestinationShape ==
    ASSUME now \in Nat, NEW old \in Row
    PROVE  NoDestination(old) \in Row /\ now < NoDestination(old).next
<1> DEFINE next == CronNext(old.cron, now)
<1>1. next \in Int /\ now < next
  BY NextIsLater DEF Row, CronsOf
<1>2. NoDestination(old) = [old EXCEPT !.status = "failed", !.next = next]
  BY DEF NoDestination
<1> HIDE DEF next
<1>3. QED
  BY <1>1, <1>2 DEF Row, Statuses

(* record_fire_finished keeps the next match, or clears it. *)
LEMMA FinishedShape ==
    ASSUME NEW old \in Row, NEW i, fire[i] \in Fire
    PROVE  Finished(old, i) \in Row /\ Finished(old, i).next \in {old.next, Null}
<1> DEFINE next == IF "next" \in fire[i].columns THEN Null ELSE old.next
           status == IF "status" \in fire[i].columns THEN fire[i].outcome ELSE old.status
<1>1. next \in Int \cup {Null} /\ next \in {old.next, Null} /\ status \in Statuses \cup {Null}
  BY DEF Row, Fire, Statuses
<1>2. Finished(old, i) = [old EXCEPT !.status = status, !.next = next]
  BY DEF Finished
<1> HIDE DEF next, status
<1>3. /\ [old EXCEPT !.status = status, !.next = next] \in Row
      /\ [old EXCEPT !.status = status, !.next = next].next = next
  BY <1>1 DEF Row
<1>4. QED
  BY <1>1, <1>2, <1>3

(* A member's UPDATE makes a row of a row. *)
LEMMA MergeShape ==
    ASSUME NEW cur \in Row, NEW seen, NEW want \in Row
    PROVE  Merge(cur, seen, want) \in Row
<1> DEFINE cron == Dirty(seen.cron, want.cron, cur.cron)
           dest == Dirty(seen.dest, want.dest, cur.dest)
           paused == Dirty(seen.paused, want.paused, cur.paused)
           until == Dirty(seen.until, want.until, cur.until)
           next == Dirty(seen.next, want.next, cur.next)
<1>1. /\ cron \in {cur.cron, want.cron} /\ dest \in {cur.dest, want.dest}
      /\ paused \in {cur.paused, want.paused} /\ until \in {cur.until, want.until}
      /\ next \in {cur.next, want.next}
  BY DEF Dirty
<1>2. /\ cron \in Crons \cup {Dated(m) : m \in 0..MaxTime + 1}
      /\ dest \in BOOLEAN /\ paused \in BOOLEAN
      /\ until \in Int \cup {Null} /\ next \in Int \cup {Null}
  BY <1>1 DEF Row
<1>3. Merge(cur, seen, want) = [cur EXCEPT !.cron = cron, !.dest = dest, !.paused = paused,
                                           !.until = until, !.next = next]
  BY DEF Merge
<1> HIDE DEF cron, dest, paused, until, next
<1>4. QED
  BY <1>2, <1>3 DEF Row
-----------------------------------------------------------------------------
(* One row is written that is not due earlier than it was. *)
LEMMA OneRow ==
    ASSUME TypeOK, NEW t \in Tasks, NEW new \in Row, row' = [row EXCEPT ![t] = new],
           \/ now < new.next
           \/ row[t] # Null /\ new.next \in {row[t].next, Null}
    PROVE  row' \in [Tasks -> Row \cup {Null}] /\ RowsLater
<1>1. row \in [Tasks -> Row \cup {Null}]
  BY DEF TypeOK
<1>2. row' \in [Tasks -> Row \cup {Null}] /\ row'[t] = new
  BY <1>1
<1>3. \A s \in Tasks : s # t => row'[s] = row[s]
  BY <1>1
<1>4. QED
  BY <1>2, <1>3 DEF RowsLater

(* A step that leaves the log. *)
LEMMA LogSame ==
    ASSUME UNCHANGED run
    PROVE  LogKept
BY DEF LogKept

(* A step that leaves the fires. *)
LEMMA FiresSame ==
    ASSUME IInv, UNCHANGED <<fire, lastRun>>
    PROVE  FiresKept
BY DEF IInv, FiresThere, FiresKept

(* A step that leaves the ticks. *)
LEMMA LoopsSame ==
    ASSUME UNCHANGED loop
    PROVE  LoopsShrink
BY DEF LoopsShrink

(* A step that leaves the tasks. *)
LEMMA RowsSame ==
    ASSUME UNCHANGED row
    PROVE  RowsLater
BY DEF RowsLater

(* A step that leaves the requests. *)
LEMMA RequestsSame ==
    ASSUME IInv, UNCHANGED <<sess, ops>>
    PROVE  RequestInv'
BY DEF IInv, RequestInv

(* A request ends, or one for a delayed message begins. *)
LEMMA RequestMoves ==
    ASSUME IInv, ops' = ops, NEW q \in Requests, NEW s \in Sess \cup {Null},
           sess' = [sess EXCEPT ![q] = s],
           s # Null => s.op = "delay" /\ s.want # Null
    PROVE  sess' \in [Requests -> Sess \cup {Null}] /\ RequestInv'
<1>1. sess \in [Requests -> Sess \cup {Null}]
  BY DEF IInv, TypeOK
<1>2. QED
  BY <1>1 DEF IInv, RequestInv

(* Time passes. *)
LEMMA AdvanceSound ==
    ASSUME IInv, Advance
    PROVE  IInv'
<1>1. now \in Nat /\ now' = now + 1 /\ now' \in Time
  BY BoundsAssumption DEF IInv, TypeOK, Advance, Time
<1>2. UNCHANGED <<row, born, loop, run, lastRun, fire, sess, posts, crashes, errors, ops>>
  BY DEF Advance
<1>3. TypeOK'
  BY <1>1, <1>2 DEF IInv, TypeOK
<1>4. QED
  BY <1>1, <1>2, <1>3, FiresSame, LogSame, LoopsSame, RowsSame, RequestsSame, QuietSound

(* A row is created: its first match is still to come. *)
LEMMA EntrySound ==
    ASSUME IInv, NEW t \in Tasks, NEW new \in Row, now < new.next,
           row' = [row EXCEPT ![t] = new], born' \subseteq Tasks,
           sess' \in [Requests -> Sess \cup {Null}], RequestInv',
           UNCHANGED <<now, loop, run, lastRun, fire, posts, crashes, errors, ops>>
    PROVE  IInv'
<1>1. row' \in [Tasks -> Row \cup {Null}] /\ RowsLater
  BY OneRow DEF IInv
<1>2. TypeOK'
  BY <1>1 DEF IInv, TypeOK
<1>3. now' \in Int /\ now <= now'
  BY Shapes DEF IInv
<1>4. QED
  BY <1>1, <1>2, <1>3, FiresSame, LogSame, LoopsSame, QuietSound

(* The create tool. *)
LEMMA CreateSound ==
    ASSUME IInv, NEW u \in Members, NEW t \in Tasks, Create(u, t)
    PROVE  IInv'
<1>1. PICK cron \in Crons, once \in BOOLEAN : CreateTask(u, t, cron, once)
  BY DEF Create
<1>2. now \in Nat /\ cron \in CronsOf
  BY Shapes DEF IInv, CronsOf
<1>3. NewRow(u, cron, TRUE, once, FALSE) \in Row /\ now < NewRow(u, cron, TRUE, once, FALSE).next
  BY <1>2, NewRowShape
<1>4. born' \subseteq Tasks
  BY <1>1 DEF CreateTask, IInv, TypeOK
<1>5. UNCHANGED <<now, loop, run, lastRun, fire, sess, posts, crashes, errors, ops>>
  BY DEF Create
<1>6. sess' \in [Requests -> Sess \cup {Null}] /\ RequestInv'
  BY <1>5, RequestsSame DEF IInv, TypeOK
<1>7. row' = [row EXCEPT ![t] = NewRow(u, cron, TRUE, once, FALSE)]
  BY <1>1 DEF CreateTask
<1>8. QED
  BY <1>3, <1>4, <1>5, <1>6, <1>7, EntrySound

(* The seed of system tasks. *)
LEMMA SeedSound ==
    ASSUME IInv, NEW t \in Tasks, Seed(t)
    PROVE  IInv'
<1>1. PICK cron \in Crons : row' = [row EXCEPT ![t] = NewRow(Null, cron, HomeChannel, FALSE, FALSE)]
  BY DEF Seed
<1>2. now \in Nat /\ cron \in CronsOf
  BY Shapes DEF IInv, CronsOf
<1>3. /\ NewRow(Null, cron, HomeChannel, FALSE, FALSE) \in Row
      /\ now < NewRow(Null, cron, HomeChannel, FALSE, FALSE).next
  BY <1>2, NewRowShape, BoundsAssumption
<1>4. born' \subseteq Tasks
  BY DEF Seed, IInv, TypeOK
<1>5. UNCHANGED <<now, loop, run, lastRun, fire, sess, posts, crashes, errors, ops>>
  BY DEF Seed
<1>6. sess' \in [Requests -> Sess \cup {Null}] /\ RequestInv'
  BY <1>5, RequestsSame DEF IInv, TypeOK
<1>7. QED
  BY <1>1, <1>3, <1>4, <1>5, <1>6, EntrySound
-----------------------------------------------------------------------------
(* Once a member edits a task, ClaimInv says nothing. *)
LEMMA OpenSound ==
    ASSUME IInv, NEW q \in Requests, NEW op \in {"pause", "resume", "update", "delete"},
           NEW t \in Tasks, NEW want \in Row \cup {Null}, Open(q, op, t, want)
    PROVE  IInv'
<1> DEFINE s == [op |-> op, task |-> t, seen |-> row[t], want |-> want]
<1>1. /\ sess' = [sess EXCEPT ![q] = s]
      /\ ops < MaxOps /\ ops' = ops + 1
      /\ UNCHANGED <<now, row, born, loop, run, lastRun, fire, posts, crashes, errors>>
  BY DEF Open
<1>2. ops' \in 0..MaxOps /\ ops' # 0
  BY <1>1, BoundsAssumption DEF IInv, TypeOK
<1>3. row[t] \in Row \cup {Null}
  BY DEF IInv, TypeOK
<1>4. s \in Sess /\ s.op = op
  BY <1>3 DEF Sess
<1> HIDE DEF s
<1>5. sess' \in [Requests -> Sess \cup {Null}] /\ sess \in [Requests -> Sess \cup {Null}]
  BY <1>1, <1>4 DEF IInv, TypeOK
<1>6. TypeOK'
  BY <1>1, <1>2, <1>5 DEF IInv, TypeOK
<1>7. RequestInv'
  BY <1>1, <1>2, <1>4, <1>5 DEF IInv, RequestInv
<1>8. FiresThere' /\ LogThere'
  BY <1>1 DEF IInv, FiresThere, LogThere
<1>9. QED
  BY <1>2, <1>6, <1>7, <1>8 DEF IInv, ClaimInv

(* A member's operation reads the row and wants another. *)
LEMMA EditSound ==
    ASSUME IInv, NEW q \in Requests, NEW u \in Members, NEW t \in Tasks,
           Pause(q, u, t) \/ Resume(q, u, t) \/ Update(q, u, t) \/ Delete(q, u, t)
    PROVE  IInv'
<1> DEFINE old == row[t]
<1>1. now \in Nat /\ old \in Row \cup {Null}
  BY Shapes DEF IInv, TypeOK
<1> HIDE DEF old
<1>2. CASE Pause(q, u, t)
  <2>1. PICK until \in Untils :
           /\ old # Null
           /\ Open(q, "pause", t, [old EXCEPT !.paused = TRUE, !.until = until])
    BY <1>2 DEF Pause, PauseTask, Exists, old
  <2>2. until \in Int \cup {Null}
    BY <1>1 DEF Untils
  <2>3. [old EXCEPT !.paused = TRUE, !.until = until] \in Row
    BY <1>1, <2>1, <2>2 DEF Row
  <2>4. QED
    BY <2>1, <2>3, OpenSound
<1>3. CASE Resume(q, u, t)
  <2> DEFINE next == CronNext(old.cron, now)
  <2>1. old # Null /\ Open(q, "resume", t, [old EXCEPT !.paused = FALSE, !.until = Null,
                                                     !.next = next])
    BY <1>3 DEF Resume, Exists, old
  <2>2. next \in Int
    BY <1>1, <2>1, NextIsLater DEF Row, CronsOf
  <2> HIDE DEF next
  <2>3. [old EXCEPT !.paused = FALSE, !.until = Null, !.next = next] \in Row
    BY <1>1, <2>1, <2>2 DEF Row
  <2>4. QED
    BY <2>1, <2>3, OpenSound
<1>4. CASE UpdateCron(q, u, t)
  <2>1. PICK cron \in Crons :
           /\ old # Null
           /\ Open(q, "update", t, [old EXCEPT !.cron = cron, !.next = CronNext(cron, now)])
    BY <1>4 DEF UpdateCron, Exists, old
  <2> DEFINE next == CronNext(cron, now)
  <2>2. next \in Int
    BY <1>1, NextIsLater DEF CronsOf
  <2> HIDE DEF next
  <2>3. [old EXCEPT !.cron = cron, !.next = next] \in Row
    BY <1>1, <2>1, <2>2 DEF Row
  <2>4. QED
    BY <2>1, <2>3, OpenSound DEF next
<1>5. CASE UpdateDestination(q, u, t)
  <2>1. old # Null /\ Open(q, "update", t, [old EXCEPT !.dest = TRUE])
    BY <1>5 DEF UpdateDestination, Exists, old
  <2>2. [old EXCEPT !.dest = TRUE] \in Row
    BY <1>1, <2>1 DEF Row
  <2>3. QED
    BY <2>1, <2>2, OpenSound
<1>6. CASE Delete(q, u, t)
  BY <1>6, OpenSound DEF Delete
<1>7. QED
  BY <1>2, <1>3, <1>4, <1>5, <1>6 DEF Update

(* The operation is committed, after the row may have changed. *)
LEMMA CommitSound ==
    ASSUME IInv, NEW q \in Requests, Commit(q)
    PROVE  IInv'
<1> DEFINE s == sess[q]
           new == IF s.want = Null THEN Null ELSE Merge(row[s.task], s.seen, s.want)
<1>1. /\ s # Null /\ s.op # "delay" /\ row[s.task] # Null
      /\ row' = [row EXCEPT ![s.task] = new]
      /\ sess' = [sess EXCEPT ![q] = Null]
      /\ UNCHANGED <<now, born, loop, lastRun, fire, posts, crashes, errors, ops>>
  BY DEF Commit, Exists
<1>2. s \in Sess
  BY <1>1 DEF IInv, TypeOK
<1>3. ops # 0
  BY <1>1 DEF IInv, RequestInv
<1>4. s.task \in Tasks /\ s.want \in Row \cup {Null}
  BY <1>2 DEF Sess
<1>5. row[s.task] \in Row
  BY <1>1, <1>4 DEF IInv, TypeOK
<1>6. new \in Row \cup {Null}
  BY <1>4, <1>5, MergeShape
<1>7. run' \in [RunIds -> Run \cup {Null}] /\ LogKept
  <2> DEFINE kept(i) == IF s.want = Null /\ run[i] # Null /\ run[i].task = s.task
                        THEN [run[i] EXCEPT !.task = Null] ELSE run[i]
  <2>1. run' = [i \in RunIds |-> kept(i)]
    BY DEF Commit
  <2>2. ASSUME NEW i \in RunIds
        PROVE  kept(i) \in Run \cup {Null} /\ (run[i] # Null => kept(i) # Null)
    <3>1. run[i] \in Run \cup {Null}
      BY DEF IInv, TypeOK
    <3>2. run[i] \in Run => [run[i] EXCEPT !.task = Null] \in Run
      BY DEF Run
    <3>3. QED
      BY <3>1, <3>2, RecordsAssumption
  <2> HIDE DEF kept
  <2>3. QED
    BY <2>1, <2>2 DEF LogKept
<1> HIDE DEF s, new
<1>8. row' \in [Tasks -> Row \cup {Null}]
  BY <1>1, <1>4, <1>6 DEF IInv, TypeOK
<1>9. /\ sess \in [Requests -> Sess \cup {Null}]
      /\ sess' \in [Requests -> Sess \cup {Null}]
  BY <1>1 DEF IInv, TypeOK
<1>10. TypeOK'
  BY <1>1, <1>7, <1>8, <1>9 DEF IInv, TypeOK
<1>11. RequestInv' /\ FiresThere' /\ LogThere'
  BY <1>1, <1>7, <1>9 DEF IInv, RequestInv, FiresThere, LogThere, LogKept
<1>12. QED
  BY <1>1, <1>3, <1>10, <1>11 DEF IInv, ClaimInv

(* A delayed message is asked for. *)
LEMMA DelaySound ==
    ASSUME IInv, NEW q \in Requests, NEW u \in Members, NEW t \in Tasks, SendDelayed(q, u, t)
    PROVE  IInv'
<1> DEFINE want == NewRow(u, Dated(now + 1), TRUE, TRUE, TRUE)
           s == [op |-> "delay", task |-> t, seen |-> Null, want |-> want]
<1>1. now \in Nat /\ now + 1 \in 0..MaxTime + 1
  BY BoundsAssumption DEF IInv, TypeOK, Time
<1>2. want \in Row
  BY <1>1, NewRowShape DEF CronsOf
<1>3. want # Null
  BY <1>2, RecordsAssumption
<1>4. /\ sess' = [sess EXCEPT ![q] = s]
      /\ born' = born \cup {t}
      /\ UNCHANGED <<now, row, loop, run, lastRun, fire, posts, crashes, errors, ops>>
  BY DEF SendDelayed
<1> HIDE DEF want
<1>5. s \in Sess /\ s.op = "delay" /\ s.want = want
  BY <1>2 DEF Sess
<1> HIDE DEF s
<1>6. sess' \in [Requests -> Sess \cup {Null}] /\ RequestInv'
  BY <1>3, <1>4, <1>5, RequestMoves
<1>7. TypeOK'
  BY <1>4, <1>6 DEF IInv, TypeOK
<1>8. now' \in Int /\ now <= now'
  BY <1>1, <1>4
<1>9. QED
  BY <1>4, <1>6, <1>7, <1>8, FiresSame, LogSame, LoopsSame, RowsSame, QuietSound

(* A delayed message gets its row. *)
LEMMA InsertSound ==
    ASSUME IInv, NEW q \in Requests, InsertDelayed(q)
    PROVE  IInv'
<1> DEFINE s == sess[q]
           new == NewRow(s.want.owner, s.want.cron, TRUE, TRUE, TRUE)
<1>1. /\ s # Null /\ s.op = "delay"
      /\ row' = [row EXCEPT ![s.task] = new]
      /\ sess' = [sess EXCEPT ![q] = Null]
      /\ UNCHANGED <<now, born, loop, run, lastRun, fire, posts, crashes, errors, ops>>
  BY DEF InsertDelayed
<1>2. s \in Sess
  BY <1>1 DEF IInv, TypeOK
<1>3. s.want # Null
  BY <1>1 DEF IInv, RequestInv
<1>4. s.task \in Tasks /\ s.want \in Row
  BY <1>2, <1>3 DEF Sess
<1>5. s.want.owner \in Members \cup {Null} /\ s.want.cron \in CronsOf
  BY <1>4 DEF Row, CronsOf
<1>6. new \in Row /\ now < new.next
  BY <1>5, NewRowShape, Shapes DEF IInv
<1>7. sess' \in [Requests -> Sess \cup {Null}] /\ RequestInv'
  BY <1>1, RequestMoves
<1>8. born' \subseteq Tasks
  BY <1>1 DEF IInv, TypeOK
<1> HIDE DEF new, s
<1>9. QED
  BY <1>1, <1>4, <1>6, <1>7, <1>8, EntrySound

(* Every step of a request. *)
LEMMA RequestSound ==
    ASSUME IInv, NEW q \in Requests, RequestStep(q)
    PROVE  IInv'
<1>1. CASE CommitRaises(q)
  <2>1. /\ sess' = [sess EXCEPT ![q] = Null]
        /\ UNCHANGED <<now, row, born, loop, run, lastRun, fire, posts, crashes, errors, ops>>
    BY <1>1 DEF CommitRaises
  <2>2. sess' \in [Requests -> Sess \cup {Null}] /\ RequestInv'
    BY <2>1, RequestMoves
  <2>3. TypeOK'
    BY <2>1, <2>2 DEF IInv, TypeOK
  <2>4. now' \in Int /\ now <= now'
    BY <2>1, Shapes DEF IInv
  <2>5. QED
    BY <2>1, <2>2, <2>3, <2>4, FiresSame, LogSame, LoopsSame, RowsSame, QuietSound
<1>2. QED
  BY <1>1, EditSound, CommitSound, DelaySound, InsertSound DEF RequestStep
-----------------------------------------------------------------------------
(* A claim takes rows that are due, so later than every claim before it, and *)
(* leaves them due after the instant of the claim.                          *)
LEMMA ClaimSound ==
    ASSUME IInv, NEW r \in Replicas, Claim(r)
    PROVE  IInv'
<1>1. PICK S \in Claimable :
         /\ row' = [t \in Tasks |-> IF t \notin S THEN row[t]
                                    ELSE IF row[t].dest THEN Started(row[t])
                                    ELSE NoDestination(row[t])]
         /\ loop' = [loop EXCEPT ![r] =
               [busy |-> TRUE, todo |-> {t \in S : row[t].dest}, at |-> now]]
  BY DEF Claim
<1>2. S \subseteq Tasks /\ \A t \in S : row[t] # Null /\ row[t].next # Null /\ row[t].next <= now
  BY DEF Claimable, Eligible, Exists
<1>3. UNCHANGED <<now, born, run, lastRun, fire, sess, posts, crashes, errors, ops>>
  BY DEF Claim
<1>4. TypeOK /\ now \in Nat /\ row \in [Tasks -> Row \cup {Null}]
  BY Shapes DEF IInv, TypeOK
<1>5. ASSUME NEW t \in S
      PROVE  row'[t] \in Row /\ now < row'[t].next
  <2>1. row[t] \in Row /\ t \in Tasks
    BY <1>2, <1>4
  <2>2. row'[t] = IF row[t].dest THEN Started(row[t]) ELSE NoDestination(row[t])
    BY <1>1, <2>1
  <2>3. QED
    BY <1>4, <2>1, <2>2, StartedShape, NoDestinationShape
<1>6. \A t \in Tasks \ S : row'[t] = row[t]
  BY <1>1
<1>7. row' \in [Tasks -> Row \cup {Null}]
  <2>1. \A t \in Tasks : row'[t] \in Row \cup {Null}
    BY <1>4, <1>5, <1>6
  <2>2. DOMAIN row' = Tasks /\ row' = [t \in Tasks |-> row'[t]]
    BY <1>1
  <2>3. QED
    BY <2>1, <2>2
<1>8. RowsLater
  BY <1>5, <1>6 DEF RowsLater
<1> DEFINE mine == {t \in S : row[t].dest}
           tick == [busy |-> TRUE, todo |-> mine, at |-> now]
<1>9. tick \in Tick /\ tick.todo = mine /\ tick.at = now /\ mine \subseteq S
  BY <1>2, <1>4 DEF Tick
<1>10. loop' = [loop EXCEPT ![r] = tick] /\ loop \in [Replicas -> Tick]
  BY <1>1 DEF IInv, TypeOK
<1> HIDE DEF mine, tick
<1>11. /\ loop' \in [Replicas -> Tick]
       /\ loop'[r].todo = mine /\ loop'[r].at = now
       /\ \A s \in Replicas : s # r => loop'[s] = loop[s]
  BY <1>9, <1>10
<1>12. TypeOK'
  BY <1>3, <1>4, <1>7, <1>11 DEF TypeOK
<1>13. RequestInv' /\ FiresThere' /\ LogThere'
  BY <1>3, RequestsSame DEF IInv, FiresThere, LogThere
<1>14. ASSUME ops' = 0
       PROVE  Past' /\ Apart'
  <2>1. Past /\ Apart
    BY <1>3, <1>14 DEF IInv, ClaimInv
  <2>2. ASSUME NEW i \in 1..lastRun
        PROVE  /\ fire[i].task \in Tasks /\ fire[i].at \in Int /\ fire[i].at <= now
               /\ DueAfter(fire[i].task, fire[i].at)
    BY <1>4, <2>1, Shapes DEF IInv, FiresThere, Past
  <2>3. ASSUME NEW s \in Replicas, NEW t \in loop[s].todo
        PROVE  /\ t \in Tasks /\ loop[s].at \in Int /\ loop[s].at <= now
               /\ DueAfter(t, loop[s].at)
    BY <1>4, <2>1, Shapes DEF Past
  <2>4. ASSUME NEW t \in S, NEW at \in Int, DueAfter(t, at)
        PROVE  at # now
    <3>1. row[t].next \in Int
      BY <1>2, <1>4, Shapes
    <3>2. QED
      BY <1>2, <1>4, <2>4, <3>1 DEF DueAfter
  <2>5. ASSUME NEW i \in 1..lastRun
        PROVE  fire'[i].at <= now' /\ DueAfter(fire[i].task, fire[i].at)'
    BY <1>3, <1>4, <1>8, <1>12, <2>2, LaterStays
  <2>6. ASSUME NEW s \in Replicas, NEW t \in loop'[s].todo
        PROVE  loop'[s].at <= now' /\ DueAfter(t, loop[s].at)'
    <3>1. CASE s = r
      <4>1. t \in S /\ loop'[s].at = now
        BY <1>9, <1>11, <3>1
      <4>2. now < row'[t].next
        BY <1>5, <4>1
      <4>3. QED
        BY <1>3, <1>4, <4>1, <4>2 DEF DueAfter
    <3>2. CASE s # r
      <4>1. loop'[s] = loop[s] /\ t \in loop[s].todo
        BY <1>11, <3>2
      <4>2. DueAfter(t, loop[s].at)'
        BY <1>4, <1>8, <1>12, <2>3, <4>1, LaterStays
      <4>3. QED
        BY <1>3, <2>3, <4>1, <4>2
    <3>3. QED
      BY <3>1, <3>2
  <2>7. Past'
    BY <1>3, <2>5, <2>6 DEF Past
  <2>8. \A i, j \in 1..lastRun' :
           i # j /\ fire'[i].task = fire'[j].task => fire'[i].at # fire'[j].at
    BY <1>3, <2>1 DEF Apart
  <2>9. ASSUME NEW s \in Replicas, NEW i \in 1..lastRun', fire'[i].task \in loop'[s].todo
        PROVE  fire'[i].at # loop'[s].at
    <3>1. CASE s = r
      BY <1>3, <1>9, <1>11, <2>2, <2>4, <2>9, <3>1
    <3>2. CASE s # r
      BY <1>3, <1>11, <2>1, <2>9, <3>2 DEF Apart
    <3>3. QED
      BY <3>1, <3>2
  <2>10. ASSUME NEW s \in Replicas, s # r, NEW t \in loop'[r].todo, t \in loop'[s].todo
         PROVE  loop'[r].at # loop'[s].at
    BY <1>9, <1>11, <2>3, <2>4, <2>10
  <2>11. \A s, z \in Replicas : \A t \in loop'[s].todo :
            s # z /\ t \in loop'[z].todo => loop'[s].at # loop'[z].at
    <3> SUFFICES ASSUME NEW s \in Replicas, NEW z \in Replicas, NEW t \in loop'[s].todo,
                        s # z, t \in loop'[z].todo
                 PROVE  loop'[s].at # loop'[z].at
      OBVIOUS
    <3>1. CASE s = r \/ z = r
      BY <2>10, <3>1
    <3>2. CASE s # r /\ z # r
      BY <1>11, <2>1, <3>2 DEF Apart
    <3>3. QED
      BY <3>1, <3>2
  <2>12. Apart'
    BY <2>8, <2>9, <2>11 DEF Apart
  <2>13. QED
    BY <2>7, <2>12
<1>15. QED
  BY <1>12, <1>13, <1>14 DEF IInv, ClaimInv
-----------------------------------------------------------------------------
(* A tick puts one claimed task less to do. *)
LEMMA TodoShrinks ==
    ASSUME TypeOK, NEW r \in Replicas, NEW t,
           loop' = [loop EXCEPT ![r].todo = @ \ {t}]
    PROVE  /\ loop' \in [Replicas -> Tick]
           /\ loop'[r].todo = loop[r].todo \ {t} /\ loop'[r].at = loop[r].at
           /\ \A s \in Replicas : s # r => loop'[s] = loop[s]
           /\ LoopsShrink
<1> DEFINE tick == [loop[r] EXCEPT !.todo = loop[r].todo \ {t}]
<1>1. loop \in [Replicas -> Tick]
  BY DEF TypeOK
<1>2. loop[r] \in Tick
  BY <1>1
<1>3. tick \in Tick /\ tick.todo = loop[r].todo \ {t} /\ tick.at = loop[r].at
  BY <1>2 DEF Tick
<1>4. loop' = [loop EXCEPT ![r] = tick]
  OBVIOUS
<1> HIDE DEF tick
<1>5. /\ loop' \in [Replicas -> Tick]
      /\ loop'[r] = tick
      /\ \A s \in Replicas : s # r => loop'[s] = loop[s]
  BY <1>1, <1>3, <1>4
<1>6. QED
  BY <1>3, <1>5 DEF LoopsShrink

(* A claimed task gets its run row and its fire: the claim moves from the tick to the fire. *)
LEMMA StartSound ==
    ASSUME IInv, NEW r \in Replicas, NEW t \in Tasks, StartRun(r, t)
    PROVE  IInv'
<1> DEFINE n == lastRun + 1
           new == [stage |-> "pending", task |-> t, literal |-> row[t].literal,
                   home |-> r, at |-> loop[r].at, outcome |-> "failed",
                   columns |-> {}]
           log == [task |-> t, status |-> "running"]
<1>1. /\ t \in loop[r].todo /\ row[t] # Null
      /\ lastRun < MaxRuns /\ lastRun' = n
      /\ run' = [run EXCEPT ![n] = log]
      /\ fire' = [fire EXCEPT ![n] = new]
      /\ loop' = [loop EXCEPT ![r].todo = @ \ {t}]
      /\ UNCHANGED <<now, row, born, sess, posts, crashes, errors, ops>>
  BY DEF StartRun, Exists
<1>2. TypeOK /\ row[t] \in Row /\ loop[r] \in Tick /\ now \in Nat
  BY <1>1, Shapes DEF IInv, TypeOK
<1>3. new \in Fire /\ new.task = t /\ new.at = loop[r].at /\ new # Null
  BY <1>2, RecordsAssumption DEF Fire, Row, Tick
<1>4. log \in Run
  BY DEF Run, Statuses
<1>5. lastRun \in Nat /\ n \in RunIds /\ n \in 0..MaxRuns /\ n = lastRun + 1
  BY <1>1, <1>2, BoundsAssumption DEF TypeOK, RunIds
<1>6. fire \in [RunIds -> Fire \cup {Null}] /\ run \in [RunIds -> Run \cup {Null}]
  BY <1>2 DEF TypeOK
<1> HIDE DEF n, new, log
<1>7. /\ fire' \in [RunIds -> Fire \cup {Null}]
      /\ run' \in [RunIds -> Run \cup {Null}]
      /\ fire'[n] = new
  BY <1>1, <1>3, <1>4, <1>5, <1>6
<1>8. ASSUME NEW i \in 1..lastRun'
      PROVE  i = n \/ (i \in 1..lastRun /\ fire'[i] = fire[i])
  <2>1. i = n \/ (i \in 1..lastRun /\ i # n /\ i \in RunIds)
    BY <1>1, <1>2, <1>5, Shapes
  <2>2. QED
    BY <1>1, <1>6, <2>1
<1>9. /\ loop' \in [Replicas -> Tick]
      /\ loop'[r].todo = loop[r].todo \ {t}
      /\ LoopsShrink
  BY <1>1, <1>2, TodoShrinks
<1>10. TypeOK'
  BY <1>1, <1>2, <1>5, <1>7, <1>9 DEF TypeOK
<1>11. RequestInv' /\ FiresThere' /\ LogThere'
  <2>1. RequestInv' /\ FiresThere'
    BY <1>1, <1>3, <1>7, <1>8, RequestsSame DEF IInv, FiresThere
  <2>2. log # Null
    BY <1>4, RecordsAssumption
  <2>3. run'[n] # Null /\ \A i \in RunIds : i # n => run'[i] = run[i] /\ fire'[i] = fire[i]
    BY <1>1, <1>5, <1>6, <2>2
  <2>4. QED
    BY <2>1, <2>3 DEF IInv, LogThere
<1>12. ASSUME ops' = 0
       PROVE  Past' /\ Apart'
  <2>1. Past /\ Apart
    BY <1>1, <1>12 DEF IInv, ClaimInv
  <2>2. new.at <= now /\ DueAfter(new.task, new.at)
    BY <1>1, <1>3, <2>1 DEF Past
  <2>3. ASSUME NEW i \in 1..lastRun'
        PROVE  fire'[i].at <= now' /\ DueAfter(fire[i].task, fire[i].at)'
    <3>1. fire'[i].at <= now /\ DueAfter(fire'[i].task, fire'[i].at)
      BY <1>7, <1>8, <2>1, <2>2 DEF Past
    <3>2. QED
      BY <1>1, <3>1 DEF DueAfter
  <2>4. ASSUME NEW s \in Replicas, NEW u \in loop'[s].todo
        PROVE  loop'[s].at <= now' /\ DueAfter(u, loop[s].at)'
    <3>1. u \in loop[s].todo /\ loop'[s].at = loop[s].at
      BY <1>9 DEF LoopsShrink
    <3>2. QED
      BY <1>1, <2>1, <3>1 DEF Past, DueAfter
  <2>5. Past'
    BY <2>3, <2>4 DEF Past
  <2>6. ASSUME NEW i \in 1..lastRun, fire[i].task = t
        PROVE  fire[i].at # new.at
    BY <1>1, <1>3, <2>1, <2>6 DEF Apart
  <2>7. \A i, j \in 1..lastRun' :
           i # j /\ fire'[i].task = fire'[j].task => fire'[i].at # fire'[j].at
    <3> SUFFICES ASSUME NEW i \in 1..lastRun', NEW j \in 1..lastRun',
                        i # j, fire'[i].task = fire'[j].task
                 PROVE  fire'[i].at # fire'[j].at
      OBVIOUS
    <3>1. CASE i = n
      BY <1>3, <1>7, <1>8, <2>6, <3>1
    <3>2. CASE j = n
      BY <1>3, <1>7, <1>8, <2>6, <3>2
    <3>3. CASE i # n /\ j # n
      BY <1>8, <2>1, <3>3 DEF Apart
    <3>4. QED
      BY <3>1, <3>2, <3>3
  <2>8. ASSUME NEW s \in Replicas, NEW i \in 1..lastRun', fire'[i].task \in loop'[s].todo
        PROVE  fire'[i].at # loop'[s].at
    <3>1. fire'[i].task \in loop[s].todo /\ loop'[s].at = loop[s].at
      BY <1>9, <2>8 DEF LoopsShrink
    <3>2. CASE i = n
      <4>1. t \in loop'[s].todo /\ fire'[i].at = loop[r].at
        BY <1>3, <1>7, <2>8, <3>2
      <4>2. s # r
        BY <1>9, <4>1
      <4>3. QED
        BY <1>1, <1>3, <1>7, <2>1, <3>1, <3>2, <4>1, <4>2 DEF Apart
    <3>3. CASE i # n
      BY <1>8, <2>1, <3>1, <3>3 DEF Apart
    <3>4. QED
      BY <3>2, <3>3
  <2>9. \A s, z \in Replicas : \A u \in loop'[s].todo :
           s # z /\ u \in loop'[z].todo => loop'[s].at # loop'[z].at
    BY <1>9, <2>1 DEF LoopsShrink, Apart
  <2>10. QED
    BY <2>5, <2>7, <2>8, <2>9 DEF Apart
<1>13. QED
  BY <1>10, <1>11, <1>12 DEF IInv, ClaimInv

(* The bound on failed statements. *)
LEMMA FailBound ==
    ASSUME TypeOK, Fail
    PROVE  errors' \in 0..MaxErrors
BY BoundsAssumption DEF TypeOK, Fail

(* A step of fires and ticks that leaves the tables of tasks and requests.  *)
LEMMA FireSound ==
    ASSUME IInv, UNCHANGED <<now, born, lastRun, sess, ops>>,
           row' \in [Tasks -> Row \cup {Null}], RowsLater,
           loop' \in [Replicas -> Tick], LoopsShrink,
           fire' \in [RunIds -> Fire \cup {Null}], FiresKept,
           run' \in [RunIds -> Run \cup {Null}], LogKept, posts' \in [Tasks -> Nat],
           crashes' \in 0..MaxCrashes, errors' \in 0..MaxErrors
    PROVE  IInv'
<1>1. TypeOK'
  BY DEF IInv, TypeOK
<1>2. now' \in Int /\ now <= now'
  BY Shapes DEF IInv
<1>3. QED
  BY <1>1, <1>2, RequestsSame, QuietSound
-----------------------------------------------------------------------------
Stages == {"pending", "post", "agent", "record", "save", "log", "over"}
Outcomes == {"success", "failed"}
ColumnSets == SUBSET {"status", "next"}

Restaged(f, stage, outcome, columns) ==
    [f EXCEPT !.stage = stage, !.outcome = outcome, !.columns = columns]

(* A fire moves to another stage: its task and its claim are the same. *)
LEMMA RestagedShape ==
    ASSUME NEW f \in Fire, NEW stage \in Stages, NEW outcome \in Outcomes,
           NEW columns \in ColumnSets
    PROVE  /\ Restaged(f, stage, outcome, columns) \in Fire
           /\ Restaged(f, stage, outcome, columns).task = f.task
           /\ Restaged(f, stage, outcome, columns).at = f.at
           /\ Restaged(f, stage, outcome, columns).stage = stage
           /\ Restaged(f, stage, outcome, columns).columns = columns
BY DEF Restaged, Fire, Stages, Outcomes, ColumnSets

LEMMA StageIs ==
    ASSUME NEW f \in Fire, NEW stage
    PROVE  Restaged(f, stage, f.outcome, f.columns) = [f EXCEPT !.stage = stage]
BY DEF Restaged, Fire

(* Fires of which only the stage or the outcome changes. *)
LEMMA StagesMove ==
    ASSUME IInv, UNCHANGED lastRun, fire' = [i \in RunIds |-> fire'[i]],
           \A i \in RunIds :
              \/ fire'[i] = fire[i]
              \/ /\ fire[i] # Null
                 /\ \E stage \in Stages, outcome \in Outcomes, columns \in ColumnSets :
                       fire'[i] = Restaged(fire[i], stage, outcome, columns)
    PROVE  fire' \in [RunIds -> Fire \cup {Null}] /\ FiresKept
<1>1. ASSUME NEW i \in RunIds
      PROVE  /\ fire'[i] \in Fire \cup {Null}
             /\ fire'[i] # Null => fire[i] # Null
             /\ fire[i] # Null => /\ fire'[i] # Null
                                  /\ fire'[i].task = fire[i].task
                                  /\ fire'[i].at = fire[i].at
  <2>1. fire[i] \in Fire \cup {Null}
    BY DEF IInv, TypeOK
  <2>2. CASE fire'[i] = fire[i]
    BY <2>1, <2>2
  <2>3. CASE fire'[i] # fire[i]
    <3>1. fire[i] \in Fire
      BY <2>1, <2>3
    <3>2. PICK stage \in Stages, outcome \in Outcomes, columns \in ColumnSets :
             fire'[i] = Restaged(fire[i], stage, outcome, columns)
      BY <2>3
    <3> DEFINE old == fire[i]
    <3> HIDE DEF old
    <3>3. /\ Restaged(old, stage, outcome, columns) \in Fire
          /\ Restaged(old, stage, outcome, columns).task = old.task
          /\ Restaged(old, stage, outcome, columns).at = old.at
      BY <3>1, RestagedShape DEF old
    <3>4. /\ fire'[i] \in Fire
          /\ fire'[i].task = fire[i].task
          /\ fire'[i].at = fire[i].at
      BY <3>2, <3>3 DEF old
    <3>5. Null \notin Fire
      BY RecordsAssumption
    <3>6. fire'[i] # Null
      BY <3>4, <3>5
    <3>7. QED
      BY <3>1, <3>4, <3>5, <3>6
  <2>4. QED
    BY <2>2, <2>3
<1>2. fire' \in [RunIds -> Fire \cup {Null}]
  BY <1>1
<1>3. \A i \in 1..lastRun : i \in RunIds /\ fire[i] # Null
  BY Shapes DEF IInv, FiresThere
<1>4. QED
  BY <1>1, <1>2, <1>3 DEF FiresKept

(* One fire moves. *)
LEMMA OneStage ==
    ASSUME IInv, UNCHANGED lastRun, NEW i \in RunIds, fire[i] # Null,
           NEW stage \in Stages, NEW outcome \in Outcomes, NEW columns \in ColumnSets,
           fire' = [fire EXCEPT ![i] = Restaged(fire[i], stage, outcome, columns)]
    PROVE  fire' \in [RunIds -> Fire \cup {Null}] /\ FiresKept
<1>1. fire \in [RunIds -> Fire \cup {Null}]
  BY DEF IInv, TypeOK
<1>2. fire' = [j \in RunIds |-> fire'[j]]
  BY <1>1
<1>3. ASSUME NEW j \in RunIds
      PROVE  \/ fire'[j] = fire[j]
             \/ /\ fire[j] # Null
                /\ \E s \in Stages, o \in Outcomes, w \in ColumnSets :
                      fire'[j] = Restaged(fire[j], s, o, w)
  BY <1>1
<1>4. QED
  BY <1>2, <1>3, StagesMove

(* record_fire_finished reads the row: the fire is done with it, or has     *)
(* what it will change of it.                                               *)
LEMMA RecordIs ==
    ASSUME TypeOK, NEW i \in RunIds, fire[i] \in Fire, RecordFinished(i)
    PROVE  \E stage \in {"save", "log"}, columns \in ColumnSets :
              /\ fire' = [fire EXCEPT ![i] =
                              Restaged(fire[i], stage, fire[i].outcome, columns)]
              /\ row[fire[i].task] # Null =>
                    /\ stage = "save"
                    /\ row[fire[i].task].status # fire[i].outcome => "status" \in columns
                    /\ row[fire[i].task].once /\ row[fire[i].task].next # Null =>
                          "next" \in columns
<1> DEFINE old == row[fire[i].task]
           stage == IF old = Null THEN "log" ELSE "save"
           columns == IF old = Null THEN {} ELSE Changed(old, i)
           f == fire[i]
<1>1. fire' = [fire EXCEPT ![i].stage = stage, ![i].columns = columns]
  BY DEF RecordFinished
<1>2. columns \in ColumnSets
  BY DEF Changed, ColumnSets
<1>3. old # Null => /\ old.status # f.outcome => "status" \in columns
                    /\ old.once /\ old.next # Null => "next" \in columns
  BY DEF Changed
<1>4. stage \in {"save", "log"} /\ (old # Null => stage = "save")
  OBVIOUS
<1> HIDE DEF old, stage, columns
<1>5. fire' = [fire EXCEPT ![i] = [f EXCEPT !.stage = stage, !.columns = columns]]
  BY <1>1 DEF TypeOK
<1>6. [f EXCEPT !.stage = stage, !.columns = columns] = Restaged(f, stage, f.outcome, columns)
  BY DEF Restaged, Fire
<1>7. QED
  BY <1>2, <1>3, <1>4, <1>5, <1>6 DEF old

(* A tick ends. *)
LEMMA IdleSound ==
    ASSUME TypeOK, NEW r \in Replicas, loop' = [loop EXCEPT ![r] = IdleTick]
    PROVE  loop' \in [Replicas -> Tick] /\ LoopsShrink
<1>1. loop \in [Replicas -> Tick] /\ IdleTick \in Tick /\ IdleTick.todo = {}
  BY DEF TypeOK, IdleTick, Tick
<1> HIDE DEF IdleTick
<1>2. QED
  BY <1>1 DEF LoopsShrink

(* Every step of a loop, and a crash. *)
LEMMA LoopSound ==
    ASSUME IInv, NEW r \in Replicas, LoopStep(r) \/ Crash(r)
    PROVE  IInv'
<1>1. TypeOK
  BY DEF IInv
<1>2. ASSUME NEW t \in Tasks, StartRunFails(r, t)
      PROVE  IInv'
  <2>1. loop' \in [Replicas -> Tick] /\ LoopsShrink
    BY <1>1, <1>2, TodoShrinks DEF StartRunFails
  <2>2. errors' \in 0..MaxErrors
    BY <1>1, <1>2, FailBound DEF StartRunFails, TypeOK
  <2>3. UNCHANGED <<now, row, born, run, lastRun, fire, sess, posts, crashes, ops>>
    BY <1>2 DEF StartRunFails
  <2>4. QED
    BY <1>1, <2>1, <2>2, <2>3, RowsSame, FiresSame, LogSame, FireSound DEF TypeOK
<1>3. CASE Dispatch(r)
  <2>1. loop' \in [Replicas -> Tick] /\ LoopsShrink
    BY <1>1, <1>3, IdleSound DEF Dispatch
  <2>2. fire' = [i \in RunIds |->
           IF fire[i] # Null /\ fire[i].stage = "pending" /\ fire[i].home = r
           THEN [fire[i] EXCEPT !.stage = "post"] ELSE fire[i]]
    BY <1>3 DEF Dispatch
  <2>3. ASSUME NEW i \in RunIds
        PROVE  \/ fire'[i] = fire[i]
               \/ /\ fire[i] # Null
                  /\ \E stage \in Stages, outcome \in Outcomes, columns \in ColumnSets :
                        fire'[i] = Restaged(fire[i], stage, outcome, columns)
    <3>1. fire[i] # Null => /\ fire[i] \in Fire /\ fire[i].outcome \in Outcomes
                             /\ fire[i].columns \in ColumnSets
      BY <1>1 DEF TypeOK, Fire, Outcomes, ColumnSets
    <3>2. fire[i] # Null => [fire[i] EXCEPT !.stage = "post"] =
                               Restaged(fire[i], "post", fire[i].outcome, fire[i].columns)
      BY <3>1, StageIs
    <3>3. fire'[i] = fire[i] \/ (fire[i] # Null /\ fire'[i] = [fire[i] EXCEPT !.stage = "post"])
      BY <2>2
    <3>4. QED
      BY <3>1, <3>2, <3>3 DEF Stages
  <2>4. UNCHANGED <<now, row, born, run, lastRun, sess, posts, crashes, errors, ops>>
    BY <1>3 DEF Dispatch
  <2>5. fire' = [i \in RunIds |-> fire'[i]]
    BY <2>2
  <2>6. fire' \in [RunIds -> Fire \cup {Null}] /\ FiresKept
    BY <2>3, <2>4, <2>5, StagesMove
  <2>7. QED
    BY <1>1, <2>1, <2>4, <2>6, RowsSame, LogSame, FireSound DEF TypeOK
<1>4. CASE Crash(r)
  <2>1. loop' \in [Replicas -> Tick] /\ LoopsShrink
    BY <1>1, <1>4, IdleSound DEF Crash
  <2>2. fire' = [i \in RunIds |-> IF fire[i] # Null /\ fire[i].home = r
                                 THEN [fire[i] EXCEPT !.stage = "over"] ELSE fire[i]]
    BY <1>4 DEF Crash
  <2>3. ASSUME NEW i \in RunIds
        PROVE  \/ fire'[i] = fire[i]
               \/ /\ fire[i] # Null
                  /\ \E stage \in Stages, outcome \in Outcomes, columns \in ColumnSets :
                        fire'[i] = Restaged(fire[i], stage, outcome, columns)
    <3>1. fire[i] # Null => /\ fire[i] \in Fire /\ fire[i].outcome \in Outcomes
                             /\ fire[i].columns \in ColumnSets
      BY <1>1 DEF TypeOK, Fire, Outcomes, ColumnSets
    <3>2. fire[i] # Null => [fire[i] EXCEPT !.stage = "over"] =
                               Restaged(fire[i], "over", fire[i].outcome, fire[i].columns)
      BY <3>1, StageIs
    <3>3. fire'[i] = fire[i] \/ (fire[i] # Null /\ fire'[i] = [fire[i] EXCEPT !.stage = "over"])
      BY <2>2
    <3>4. QED
      BY <3>1, <3>2, <3>3 DEF Stages
  <2>4. UNCHANGED <<now, row, born, run, lastRun, sess, posts, errors, ops>>
    BY <1>4 DEF Crash
  <2>5. fire' = [i \in RunIds |-> fire'[i]]
    BY <2>2
  <2>6. fire' \in [RunIds -> Fire \cup {Null}] /\ FiresKept
    BY <2>3, <2>4, <2>5, StagesMove
  <2>7. crashes' \in 0..MaxCrashes
    BY <1>1, <1>4, BoundsAssumption DEF Crash, TypeOK
  <2>8. QED
    BY <1>1, <2>1, <2>4, <2>6, <2>7, RowsSame, LogSame, FireSound DEF TypeOK
<1>5. QED
  BY <1>2, <1>3, <1>4, ClaimSound, StartSound DEF LoopStep

(* The steps of a fire: they move its stage, the status and the next match  *)
(* of its task, and its line of the log.                                    *)
LEMMA FireStepSound ==
    ASSUME IInv, NEW i \in RunIds, FireStep(i)
    PROVE  IInv'
<1>1. TypeOK
  BY DEF IInv
<1>2. fire[i] # Null
  BY DEF FireStep, Post, PostFails, RunAgent, RunAgentRaises, RecordFinished, CommitFinished,
         RecordFinishedFails, FinishRun, FinishRunFails, At
<1>3. fire[i] \in Fire /\ fire \in [RunIds -> Fire \cup {Null}]
  BY <1>1, <1>2 DEF TypeOK
<1>4. fire[i].task \in Tasks /\ fire[i].outcome \in Outcomes /\ fire[i].columns \in ColumnSets
  BY <1>3 DEF Fire, Outcomes, ColumnSets
<1>5. UNCHANGED <<now, born, loop, lastRun, sess, crashes, ops>>
  BY DEF FireStep, Post, PostFails, RunAgent, RunAgentRaises, RecordFinished, CommitFinished,
         RecordFinishedFails, FinishRun, FinishRunFails
<1>6. loop' \in [Replicas -> Tick] /\ LoopsShrink
  BY <1>1, <1>5, LoopsSame DEF TypeOK
<1>7. ASSUME NEW stage \in Stages, NEW outcome \in Outcomes, GoTo(i, stage, outcome)
      PROVE  fire' \in [RunIds -> Fire \cup {Null}] /\ FiresKept
  <2>1. Restaged(fire[i], stage, outcome, fire[i].columns) =
           [fire[i] EXCEPT !.stage = stage, !.outcome = outcome]
    BY <1>3 DEF Restaged, Fire
  <2>2. fire' = [fire EXCEPT ![i] = Restaged(fire[i], stage, outcome, fire[i].columns)]
    BY <1>3, <1>7, <2>1 DEF GoTo
  <2>3. QED
    BY <1>2, <1>4, <1>5, <2>2, OneStage
<1>8. ASSUME NEW stage \in Stages, fire' = [fire EXCEPT ![i].stage = stage]
      PROVE  fire' \in [RunIds -> Fire \cup {Null}] /\ FiresKept
  <2>1. Restaged(fire[i], stage, fire[i].outcome, fire[i].columns) =
           [fire[i] EXCEPT !.stage = stage]
    BY <1>3, StageIs
  <2>2. fire' = [fire EXCEPT ![i] = Restaged(fire[i], stage, fire[i].outcome, fire[i].columns)]
    BY <1>8, <2>1
  <2>3. QED
    BY <1>2, <1>4, <1>5, <2>2, OneStage
<1>9. fire' \in [RunIds -> Fire \cup {Null}] /\ FiresKept
  <2>1. CASE Post(i)
    <3>1. GoTo(i, "record", "success") \/ GoTo(i, "agent", "failed")
      BY <2>1 DEF Post
    <3>2. QED
      BY <1>7, <3>1 DEF Stages, Outcomes
  <2>2. CASE PostFails(i) \/ RunAgent(i) \/ RunAgentRaises(i)
    <3>1. GoTo(i, "record", "success") \/ GoTo(i, "record", "failed")
      BY <2>2 DEF PostFails, RunAgent, RunAgentRaises
    <3>2. QED
      BY <1>7, <3>1 DEF Stages, Outcomes
  <2>3. CASE CommitFinished(i) \/ RecordFinishedFails(i) \/ FinishRun(i) \/ FinishRunFails(i)
    <3>1. \/ fire' = [fire EXCEPT ![i].stage = "log"]
          \/ fire' = [fire EXCEPT ![i].stage = "over"]
      BY <2>3 DEF CommitFinished, RecordFinishedFails, FinishRun, FinishRunFails
    <3>2. QED
      BY <1>8, <3>1 DEF Stages
  <2>4. CASE RecordFinished(i)
    <3>1. PICK stage \in {"save", "log"}, columns \in ColumnSets :
             fire' = [fire EXCEPT ![i] =
                        Restaged(fire[i], stage, fire[i].outcome, columns)]
      BY <1>1, <1>3, <2>4, RecordIs
    <3>2. stage \in Stages
      BY DEF Stages
    <3>3. QED
      BY <1>2, <1>4, <1>5, <3>1, <3>2, OneStage
  <2>5. QED
    BY <2>1, <2>2, <2>3, <2>4 DEF FireStep
<1>10. row' \in [Tasks -> Row \cup {Null}] /\ RowsLater
  <2>1. CASE CommitFinished(i)
    <3> DEFINE t == fire[i].task
    <3>1. row' = [row EXCEPT ![t] = IF row[t] = Null THEN Null ELSE Finished(row[t], i)]
      BY <2>1 DEF CommitFinished
    <3>2. row \in [Tasks -> Row \cup {Null}] /\ t \in Tasks
      BY <1>1, <1>4 DEF TypeOK
    <3>3. CASE row[t] = Null
      <4>1. row' = row
        BY <3>1, <3>2, <3>3
      <4>2. QED
        BY <3>2, <4>1, RowsSame
    <3>4. CASE row[t] # Null
      <4>1. Finished(row[t], i) \in Row /\ Finished(row[t], i).next \in {row[t].next, Null}
        BY <1>3, <3>2, <3>4, FinishedShape
      <4>2. row' = [row EXCEPT ![t] = Finished(row[t], i)]
        BY <3>1, <3>4
      <4>3. QED
        BY <1>1, <3>2, <3>4, <4>1, <4>2, OneRow
    <3>5. QED
      BY <3>3, <3>4
  <2>2. CASE ~CommitFinished(i)
    <3>1. row' = row
      BY <2>2 DEF FireStep, Post, PostFails, RunAgent, RunAgentRaises, RecordFinished,
             RecordFinishedFails, FinishRun, FinishRunFails
    <3>2. QED
      BY <1>1, <3>1, RowsSame DEF TypeOK
  <2>3. QED
    BY <2>1, <2>2
<1>11. run' \in [RunIds -> Run \cup {Null}] /\ LogKept
  <2>1. run \in [RunIds -> Run \cup {Null}]
    BY <1>1 DEF TypeOK
  <2>2. CASE FinishRun(i)
    <3>1. run' = [run EXCEPT ![i].status = fire[i].outcome]
      BY <2>2 DEF FinishRun
    <3>2. run[i] \in Run
      BY <1>2, <2>1 DEF IInv, LogThere
    <3> DEFINE log == [run[i] EXCEPT !.status = fire[i].outcome]
    <3>3. log \in Run
      BY <1>4, <3>2 DEF Run, Statuses, Outcomes
    <3>4. run' = [run EXCEPT ![i] = log]
      BY <3>1
    <3> HIDE DEF log
    <3>5. log # Null
      BY <3>3, RecordsAssumption
    <3>6. QED
      BY <2>1, <3>3, <3>4, <3>5 DEF LogKept
  <2>3. CASE ~FinishRun(i)
    <3>1. run' = run
      BY <2>3 DEF FireStep, Post, PostFails, RunAgent, RunAgentRaises, RecordFinished, CommitFinished,
             RecordFinishedFails, FinishRunFails
    <3>2. QED
      BY <2>1, <3>1 DEF LogKept
  <2>4. QED
    BY <2>2, <2>3
<1>12. posts' \in [Tasks -> Nat]
  <2>1. posts \in [Tasks -> Nat]
    BY <1>1 DEF TypeOK
  <2>2. posts' = posts \/ posts' = [posts EXCEPT ![fire[i].task] = @ + 1]
    BY DEF FireStep, Post, PostFails, RunAgent, RunAgentRaises, RecordFinished, CommitFinished,
         RecordFinishedFails, FinishRun, FinishRunFails
  <2>3. QED
    BY <1>4, <2>1, <2>2
<1>13. errors' \in 0..MaxErrors /\ crashes' \in 0..MaxCrashes
  <2>1. errors' = errors \/ Fail
    BY DEF FireStep, Post, PostFails, RunAgent, RunAgentRaises, RecordFinished, CommitFinished,
         RecordFinishedFails, FinishRun, FinishRunFails
  <2>2. QED
    BY <1>1, <1>5, <2>1, FailBound DEF TypeOK
<1>14. QED
  BY <1>5, <1>6, <1>9, <1>10, <1>11, <1>12, <1>13, FireSound
-----------------------------------------------------------------------------
(* The invariant holds at the start. *)
LEMMA InitSound == Init => IInv
<1> SUFFICES ASSUME Init
             PROVE  IInv
  OBVIOUS
<1>1. IdleTick \in Tick /\ IdleTick.todo = {}
  BY DEF IdleTick, Tick
<1>2. TypeOK
  BY <1>1, BoundsAssumption DEF Init, TypeOK, Time
<1>3. RequestInv /\ FiresThere /\ LogThere
  BY DEF Init, RequestInv, FiresThere, LogThere
<1>4. Past /\ Apart
  BY <1>1 DEF Init, Past, Apart
<1>5. QED
  BY <1>2, <1>3, <1>4 DEF IInv, ClaimInv

(* Nothing happens. *)
LEMMA StutterSound ==
    ASSUME IInv, UNCHANGED vars
    PROVE  IInv'
<1>1. UNCHANGED <<now, row, born, loop, run, lastRun, fire, sess, posts, crashes, errors, ops>>
  BY DEF vars
<1>2. QED
  BY <1>1, RowsSame, LoopsSame, FiresSame, LogSame, FireSound DEF IInv, TypeOK

(* Every step keeps the invariant. *)
LEMMA StepSound == IInv /\ [Next]_vars => IInv'
<1> SUFFICES ASSUME IInv, [Next]_vars
             PROVE  IInv'
  OBVIOUS
<1>1. CASE Advance
  BY <1>1, AdvanceSound
<1>2. ASSUME NEW t \in Tasks, Seed(t)
      PROVE  IInv'
  BY <1>2, SeedSound
<1>3. ASSUME NEW u \in Members, NEW t \in Tasks, Create(u, t)
      PROVE  IInv'
  BY <1>3, CreateSound
<1>4. ASSUME NEW q \in Requests, RequestStep(q)
      PROVE  IInv'
  BY <1>4, RequestSound
<1>5. ASSUME NEW r \in Replicas, LoopStep(r) \/ Crash(r)
      PROVE  IInv'
  BY <1>5, LoopSound
<1>6. ASSUME NEW i \in RunIds, FireStep(i)
      PROVE  IInv'
  BY <1>6, FireStepSound
<1>7. QED
  BY <1>1, <1>2, <1>3, <1>4, <1>5, <1>6, StutterSound DEF Next

(* Every variable keeps its type: task rows, ticks, fires, the run log and  *)
(* the edits members have under way.                                        *)
THEOREM TypeCorrect == Spec => []TypeOK
<1>1. IInv => TypeOK
  BY DEF IInv
<1>2. QED
  BY <1>1, InitSound, StepSound, PTL DEF Spec

(* Until a member edits a task, its fires were claimed at different         *)
(* instants, whatever replicas, crashes and failed statements did: the      *)
(* claim and the advance of next_run_at are one transaction of _tick        *)
(* (app/scheduled_tasks/scheduler.py).                                      *)
THEOREM MatchFiresOnce == Spec => []OneFirePerInstant
<1>1. IInv => OneFirePerInstant
  BY DEF IInv, ClaimInv, Apart, OneFirePerInstant
<1>2. QED
  BY <1>1, InitSound, StepSound, PTL DEF Spec
-----------------------------------------------------------------------------
(* What the status and the next match of a row say of the task's fires      *)

(* A fire that is to write its outcome into the row of its task. *)
Recorder(t, i) ==
    /\ fire[i] # Null /\ fire[i].task = t /\ fire[i].stage \notin {"log", "over"}
    /\ fire[i].stage = "save" => "status" \in fire[i].columns

(* One that has posted among them. *)
Poster(t, i) ==
    /\ fire[i] # Null /\ fire[i].task = t /\ fire[i].stage \in {"agent", "record", "save"}
    /\ fire[i].stage = "save" => "next" \in fire[i].columns

Claimed(t) == \E r \in Replicas : t \in loop[r].todo

CountInv ==
    /\ \A r \in Replicas : ~loop[r].busy => loop[r].todo = {}
    /\ \A i \in RunIds : fire[i] # Null => i <= lastRun

StatusInv ==
    Undisturbed => \A t \in Tasks : Exists(t) /\ row[t].status = "running" =>
        (\E i \in RunIds : Recorder(t, i)) \/ Claimed(t)

(* Nothing has been done for a task whose row is still to be inserted. *)
Untouched(t) ==
    /\ ~Exists(t) /\ posts[t] = 0 /\ ~Claimed(t)
    /\ \A i \in RunIds : fire[i] # Null => fire[i].task # t

Delays(q, t) == sess[q] # Null /\ sess[q].op = "delay" /\ sess[q].task = t

EntryInv ==
    /\ \A t \in Tasks \ born : Untouched(t)
    /\ \A q \in Requests, t \in Tasks : Delays(q, t) =>
          /\ t \in born \ SystemTasks /\ Untouched(t)
          /\ \A p \in Requests : Delays(p, t) => p = q

OnceInv ==
    Undisturbed /\ ops = 0 => \A t \in Tasks : Exists(t) /\ row[t].once /\ posts[t] > 0 =>
        row[t].next = Null \/ \E i \in RunIds : Poster(t, i)

Marks == CountInv /\ StatusInv /\ EntryInv /\ OnceInv
-----------------------------------------------------------------------------
(* An id is taken by one row, and by one request before that. *)
LEMMA EntryKeeps ==
    ASSUME EntryInv, born \subseteq born',
           \A t \in Tasks : Untouched(t) =>
              Untouched(t)' \/ (t \in born' /\ \A q \in Requests : ~Delays(q, t)'),
           \A q \in Requests, t \in Tasks : Delays(q, t)' =>
              \/ Delays(q, t)
              \/ /\ t \notin born /\ t \in born' \ SystemTasks
                 /\ \A p \in Requests : Delays(p, t)' => p = q
    PROVE  EntryInv'
<1>1. \A t \in Tasks \ born' : Untouched(t)'
  BY DEF EntryInv
<1>2. ASSUME NEW q \in Requests, NEW t \in Tasks, Delays(q, t)'
      PROVE  /\ t \in born' \ SystemTasks /\ Untouched(t)'
             /\ \A p \in Requests : Delays(p, t)' => p = q
  <2>1. Untouched(t)
    BY <1>2 DEF EntryInv
  <2>2. Untouched(t)'
    BY <1>2, <2>1
  <2>3. CASE Delays(q, t)
    BY <2>2, <2>3 DEF EntryInv
  <2>4. CASE ~Delays(q, t)
    BY <1>2, <2>2, <2>4
  <2>5. QED
    BY <2>3, <2>4
<1>3. QED
  BY <1>1, <1>2 DEF EntryInv

(* Steps that leave the fires and the ticks, and give no row another status *)
(* or, before the first edit, another next match.                           *)
LEMMA RowsChange ==
    ASSUME IInv, Marks, UNCHANGED <<fire, loop, posts, lastRun, crashes, errors>>,
           ops' = 0 => ops = 0,
           \A t \in Tasks : row'[t] # Null =>
              \/ /\ row[t] # Null /\ row'[t].status = row[t].status
                 /\ ops' = 0 => row'[t].once = row[t].once /\ row'[t].next = row[t].next
              \/ row'[t].status = Null /\ (row'[t].once => posts[t] = 0)
    PROVE  CountInv' /\ StatusInv' /\ OnceInv'
<1>1. CountInv'
  BY DEF Marks, CountInv
<1>2. "running" # Null
  BY RecordsAssumption DEF Statuses
<1>3. \A t \in Tasks : /\ (Claimed(t)' <=> Claimed(t))
                       /\ \A i \in RunIds : (Recorder(t, i)' <=> Recorder(t, i))
                                            /\ (Poster(t, i)' <=> Poster(t, i))
  BY DEF Claimed, Recorder, Poster
<1>4. StatusInv'
  BY <1>2, <1>3 DEF Marks, StatusInv, Undisturbed, Exists
<1>5. OnceInv'
  <2> SUFFICES ASSUME Undisturbed', ops' = 0, NEW t \in Tasks, Exists(t)', row'[t].once,
                      posts'[t] > 0
               PROVE  row'[t].next = Null \/ \E i \in RunIds : Poster(t, i)'
    BY DEF OnceInv
  <2>1. posts[t] > 0 /\ posts[t] # 0
    BY DEF IInv, TypeOK
  <2>2. row[t] # Null /\ row'[t].once = row[t].once /\ row'[t].next = row[t].next
    BY <2>1 DEF Exists
  <2>3. Undisturbed /\ ops = 0
    BY DEF Undisturbed
  <2>4. row[t].next = Null \/ \E i \in RunIds : Poster(t, i)
    BY <2>1, <2>2, <2>3 DEF Marks, OnceInv, Exists
  <2>5. QED
    BY <1>3, <2>2, <2>4
<1>6. QED
  BY <1>1, <1>4, <1>5

(* Time passes, and nothing happens. *)
LEMMA StillMarks ==
    ASSUME IInv, Marks, UNCHANGED <<row, born, loop, lastRun, fire, sess, posts, crashes,
                                    errors, ops>>
    PROVE  Marks'
<1>1. CountInv' /\ StatusInv' /\ OnceInv'
  BY RowsChange
<1>2. \A t \in Tasks : (Untouched(t)' <=> Untouched(t))
                       /\ \A q \in Requests : (Delays(q, t)' <=> Delays(q, t))
  BY DEF Untouched, Delays, Exists, Claimed
<1>3. EntryInv'
  BY <1>2, EntryKeeps DEF Marks
<1>4. QED
  BY <1>1, <1>3 DEF Marks

(* A row that is inserted is of a task nothing has been done for, or of one *)
(* that recurs.                                                             *)
LEMMA EntryMarks ==
    ASSUME IInv, Marks, NEW t \in Tasks, NEW u, NEW cron, NEW dest, NEW once, NEW literal,
           row' = [row EXCEPT ![t] = NewRow(u, cron, dest, once, literal)],
           once = FALSE \/ Untouched(t), t \in born', born \subseteq born',
           UNCHANGED <<loop, lastRun, fire, posts, crashes, errors, ops>>,
           \A q \in Requests : ~Delays(q, t)',
           \A q \in Requests : \A s \in Tasks : Delays(q, s)' => Delays(q, s)
    PROVE  Marks'
<1> DEFINE new == NewRow(u, cron, dest, once, literal)
<1>1. new.status = Null /\ new.once = once
  BY DEF NewRow
<1> HIDE DEF new
<1>2. row'[t] = new /\ \A s \in Tasks : s # t => row'[s] = row[s]
  BY DEF IInv, TypeOK, new
<1>3. CountInv' /\ StatusInv' /\ OnceInv'
  <2>1. new.once => posts[t] = 0
    BY <1>1 DEF Untouched
  <2>2. \A s \in Tasks : row'[s] # Null =>
              \/ /\ row[s] # Null /\ row'[s].status = row[s].status
                 /\ ops' = 0 => row'[s].once = row[s].once /\ row'[s].next = row[s].next
              \/ row'[s].status = Null /\ (row'[s].once => posts[s] = 0)
    BY <1>1, <1>2, <2>1
  <2>3. QED
    BY <2>2, RowsChange
<1>4. \A s \in Tasks : s # t /\ Untouched(s) => Untouched(s)'
  BY <1>2 DEF Untouched, Exists, Claimed
<1>5. EntryInv'
  BY <1>4, EntryKeeps DEF Marks
<1>6. QED
  BY <1>3, <1>5 DEF Marks

LEMMA CreateMarks ==
    ASSUME IInv, Marks, NEW u \in Members, NEW t \in Tasks, Create(u, t)
    PROVE  Marks'
<1>1. PICK cron \in Crons, once \in BOOLEAN : CreateTask(u, t, cron, once)
  BY DEF Create
<1>2. Untouched(t) /\ \A q \in Requests : ~Delays(q, t)
  BY DEF Create, Marks, EntryInv
<1>3. /\ row' = [row EXCEPT ![t] = NewRow(u, cron, TRUE, once, FALSE)]
      /\ born' = born \cup {t}
      /\ UNCHANGED <<loop, lastRun, fire, sess, posts, crashes, errors, ops>>
  BY <1>1 DEF Create, CreateTask
<1>4. \A q \in Requests : \A s : Delays(q, s)' <=> Delays(q, s)
  BY <1>3 DEF Delays
<1>5. QED
  BY <1>2, <1>3, <1>4, EntryMarks

LEMMA SeedMarks ==
    ASSUME IInv, Marks, NEW t \in Tasks, Seed(t)
    PROVE  Marks'
<1>1. PICK cron \in Crons : row' = [row EXCEPT ![t] = NewRow(Null, cron, HomeChannel, FALSE, FALSE)]
  BY DEF Seed
<1>2. /\ born' = born \cup {t} /\ t \in SystemTasks
      /\ UNCHANGED <<loop, lastRun, fire, sess, posts, crashes, errors, ops>>
  BY DEF Seed
<1>3. \A q \in Requests : ~Delays(q, t)
  BY <1>2 DEF Marks, EntryInv
<1>4. \A q \in Requests : \A s : Delays(q, s)' <=> Delays(q, s)
  BY <1>2 DEF Delays
<1>5. QED
  BY <1>1, <1>2, <1>3, <1>4, EntryMarks

LEMMA InsertMarks ==
    ASSUME IInv, Marks, NEW q \in Requests, InsertDelayed(q)
    PROVE  Marks'
<1> DEFINE t == sess[q].task
<1>1. /\ Delays(q, t) /\ sess' = [sess EXCEPT ![q] = Null]
      /\ UNCHANGED <<born, loop, lastRun, fire, posts, crashes, errors, ops>>
      /\ row' = [row EXCEPT ![t] = NewRow(sess[q].want.owner, sess[q].want.cron,
                                          TRUE, TRUE, TRUE)]
  BY DEF InsertDelayed, Delays
<1>2. sess[q] \in Sess /\ sess \in [Requests -> Sess \cup {Null}]
  BY <1>1 DEF IInv, TypeOK, Delays
<1>3. t \in Tasks
  BY <1>2 DEF Sess
<1> HIDE DEF t
<1>4. /\ t \in born /\ Untouched(t)
      /\ \A p \in Requests : Delays(p, t) => p = q
  BY <1>1, <1>3 DEF Marks, EntryInv
<1>5. sess'[q] = Null /\ \A p \in Requests : p # q => sess'[p] = sess[p]
  BY <1>1, <1>2
<1>6. \A p \in Requests : \A s : Delays(p, s)' => Delays(p, s) /\ p # q
  BY <1>5 DEF Delays
<1>7. QED
  BY <1>1, <1>3, <1>4, <1>6, EntryMarks

(* Requests: none gives a row another status, and the one that may give it  *)
(* another next match is an edit.                                           *)
LEMMA OpenMarks ==
    ASSUME IInv, Marks, NEW q \in Requests, NEW op, op # "delay", NEW t, NEW want,
           Open(q, op, t, want)
    PROVE  Marks'
<1> DEFINE new == [op |-> op, task |-> t, seen |-> row[t], want |-> want]
<1>1. /\ ops' = ops + 1 /\ sess' = [sess EXCEPT ![q] = new]
      /\ UNCHANGED <<row, born, loop, lastRun, fire, posts, crashes, errors>>
  BY DEF Open
<1>2. ops \in Nat /\ sess \in [Requests -> Sess \cup {Null}]
  BY BoundsAssumption DEF IInv, TypeOK
<1>3. new.op = op
  OBVIOUS
<1> HIDE DEF new
<1>4. ops' # 0
  BY <1>1, <1>2
<1>5. CountInv' /\ StatusInv' /\ OnceInv'
  BY <1>1, <1>4, RowsChange
<1>6. \A s \in Tasks : Untouched(s)' <=> Untouched(s)
  BY <1>1 DEF Untouched, Exists, Claimed
<1>7. \A p \in Requests : \A s : Delays(p, s)' => Delays(p, s)
  BY <1>1, <1>2, <1>3 DEF Delays
<1>8. EntryInv'
  BY <1>1, <1>6, <1>7, EntryKeeps DEF Marks
<1>9. QED
  BY <1>5, <1>8 DEF Marks

LEMMA EditMarks ==
    ASSUME IInv, Marks, NEW q \in Requests, NEW u \in Members, NEW t \in Tasks,
           Pause(q, u, t) \/ Resume(q, u, t) \/ Update(q, u, t) \/ Delete(q, u, t)
    PROVE  Marks'
<1>1. \E op \in {"pause", "resume", "update", "delete"} : \E want : Open(q, op, t, want)
  BY DEF Pause, PauseTask, Resume, Update, UpdateCron, UpdateDestination, Delete
<1>2. QED
  BY <1>1, OpenMarks

LEMMA CommitMarks ==
    ASSUME IInv, Marks, NEW q \in Requests, Commit(q) \/ CommitRaises(q)
    PROVE  Marks'
<1> DEFINE s == sess[q]
<1>1. /\ s # Null /\ s.op # "delay" /\ sess' = [sess EXCEPT ![q] = Null]
      /\ UNCHANGED <<born, loop, lastRun, fire, posts, crashes, errors, ops>>
  BY DEF Commit, CommitRaises
<1>2. sess \in [Requests -> Sess \cup {Null}] /\ row \in [Tasks -> Row \cup {Null}]
  BY DEF IInv, TypeOK
<1>3. ops # 0
  BY <1>1 DEF IInv, RequestInv
<1>4. \A p \in Requests : \A t : Delays(p, t)' => Delays(p, t)
  BY <1>1, <1>2 DEF Delays
<1>5. \A t \in Tasks : row'[t] # Null => row[t] # Null /\ row'[t].status = row[t].status
  <2>1. CASE CommitRaises(q)
    BY <2>1 DEF CommitRaises
  <2>2. CASE Commit(q)
    <3> DEFINE k == s.task
               new == IF s.want = Null THEN Null ELSE Merge(row[k], s.seen, s.want)
    <3>1. row' = [row EXCEPT ![k] = new] /\ row[k] # Null
      BY <2>2 DEF Commit, Exists
    <3>2. s \in Sess
      BY <1>1, <1>2
    <3>3. k \in Tasks /\ row[k] \in Row
      BY <1>2, <3>1, <3>2 DEF Sess
    <3>4. new # Null => new.status = row[k].status
      BY <3>3 DEF Merge, Row
    <3> HIDE DEF k, new
    <3>5. QED
      BY <1>2, <3>1, <3>3, <3>4
  <2>3. QED
    BY <2>1, <2>2
<1> HIDE DEF s
<1>6. CountInv' /\ StatusInv' /\ OnceInv'
  BY <1>1, <1>3, <1>5, RowsChange
<1>7. \A t \in Tasks : Untouched(t) => Untouched(t)'
  BY <1>1, <1>5 DEF Untouched, Exists, Claimed
<1>8. EntryInv'
  BY <1>1, <1>4, <1>7, EntryKeeps DEF Marks
<1>9. QED
  BY <1>6, <1>8 DEF Marks

LEMMA DelayMarks ==
    ASSUME IInv, Marks, NEW q \in Requests, NEW u \in Members, NEW t \in Tasks,
           SendDelayed(q, u, t)
    PROVE  Marks'
<1> DEFINE new == [op |-> "delay", task |-> t, seen |-> Null,
                   want |-> NewRow(u, Dated(now + 1), TRUE, TRUE, TRUE)]
<1>1. /\ t \notin born \cup SystemTasks /\ born' = born \cup {t}
      /\ sess' = [sess EXCEPT ![q] = new]
      /\ UNCHANGED <<row, loop, lastRun, fire, posts, crashes, errors, ops>>
  BY DEF SendDelayed
<1>2. new.task = t
  OBVIOUS
<1> HIDE DEF new
<1>3. sess'[q] = new /\ \A p \in Requests : p # q => sess'[p] = sess[p]
  BY <1>1 DEF IInv, TypeOK
<1>4. CountInv' /\ StatusInv' /\ OnceInv'
  BY <1>1, RowsChange
<1>5. \A s \in Tasks : Untouched(s)' <=> Untouched(s)
  BY <1>1 DEF Untouched, Exists, Claimed
<1>6. \A p \in Requests : ~Delays(p, t)
  BY <1>1 DEF Marks, EntryInv
<1>7. \A p \in Requests : \A s : Delays(p, s)' => Delays(p, s) \/ (p = q /\ s = t)
  BY <1>2, <1>3 DEF Delays
<1>8. ASSUME NEW p \in Requests, NEW s \in Tasks, Delays(p, s)'
      PROVE  \/ Delays(p, s)
             \/ /\ s \notin born /\ s \in born' \ SystemTasks
                /\ \A r \in Requests : Delays(r, s)' => r = p
  BY <1>1, <1>6, <1>7, <1>8
<1>9. EntryInv'
  BY <1>1, <1>5, <1>8, EntryKeeps DEF Marks
<1>10. QED
  BY <1>4, <1>9 DEF Marks

LEMMA RequestMarks ==
    ASSUME IInv, Marks, NEW q \in Requests, RequestStep(q)
    PROVE  Marks'
<1>1. ASSUME NEW u \in Members, NEW t \in Tasks,
             \/ Pause(q, u, t) \/ Resume(q, u, t)
             \/ Update(q, u, t) \/ Delete(q, u, t) \/ SendDelayed(q, u, t)
      PROVE  Marks'
  BY <1>1, EditMarks, DelayMarks
<1>2. QED
  BY <1>1, InsertMarks, CommitMarks DEF RequestStep
-----------------------------------------------------------------------------
(* A claim: what it marks as running it has to do, what has no destination  *)
(* is marked as failed.                                                     *)
LEMMA ClaimMarks ==
    ASSUME IInv, Marks, NEW r \in Replicas, Claim(r)
    PROVE  Marks'
<1>1. PICK S \in Claimable :
          /\ row' = [t \in Tasks |-> IF t \notin S THEN row[t]
                                     ELSE IF row[t].dest THEN Started(row[t])
                                     ELSE NoDestination(row[t])]
          /\ loop' = [loop EXCEPT ![r] =
                [busy |-> TRUE, todo |-> {t \in S : row[t].dest}, at |-> now]]
  BY DEF Claim
<1> DEFINE todo == {t \in S : row[t].dest}
           tick == [busy |-> TRUE, todo |-> todo, at |-> now]
<1>2. ~loop[r].busy /\ UNCHANGED <<born, lastRun, fire, sess, posts, crashes, errors, ops>>
  BY DEF Claim
<1>3. S \subseteq Tasks /\ \A t \in S : row[t] # Null /\ row[t].next # Null
  BY DEF Claimable, Eligible, Exists
<1>4. /\ row \in [Tasks -> Row \cup {Null}] /\ loop \in [Replicas -> Tick]
  BY DEF IInv, TypeOK
<1>5. loop[r].todo = {}
  BY <1>2 DEF Marks, CountInv
<1>6. tick.busy = TRUE /\ tick.todo = todo
  OBVIOUS
<1>7. loop' = [loop EXCEPT ![r] = tick]
  BY <1>1
<1> HIDE DEF tick
<1>8. loop'[r] = tick /\ \A s \in Replicas : s # r => loop'[s] = loop[s]
  BY <1>4, <1>7
<1>9. \A t : (Claimed(t)' <=> Claimed(t) \/ t \in todo)
  BY <1>5, <1>6, <1>8 DEF Claimed
<1>10. CountInv'
  BY <1>2, <1>6, <1>8 DEF Marks, CountInv
<1>11. \A t : \A i : /\ (Recorder(t, i)' <=> Recorder(t, i))
                     /\ (Poster(t, i)' <=> Poster(t, i))
  BY <1>2 DEF Recorder, Poster
<1>12. ASSUME NEW t \in Tasks, t \in S
       PROVE  /\ row'[t].once = row[t].once
              /\ row'[t].status = IF t \in todo THEN "running" ELSE "failed"
  <2>1. row[t] \in Row
    BY <1>3, <1>4, <1>12
  <2>2. CASE row[t].dest
    <3>1. row'[t] = Started(row[t]) /\ t \in todo
      BY <1>1, <1>12, <2>2
    <3>2. Started(row[t]).once = row[t].once /\ Started(row[t]).status = "running"
      BY <2>1 DEF Started, Row
    <3>3. QED
      BY <3>1, <3>2
  <2>3. CASE ~row[t].dest
    <3>1. row'[t] = NoDestination(row[t]) /\ t \notin todo
      BY <1>1, <1>12, <2>3
    <3>2. NoDestination(row[t]).once = row[t].once /\ NoDestination(row[t]).status = "failed"
      BY <2>1 DEF NoDestination, Row
    <3>3. QED
      BY <3>1, <3>2
  <2>4. QED
    BY <2>2, <2>3
<1>13. \A t \in Tasks : t \notin S => row'[t] = row[t]
  BY <1>1
<1> HIDE DEF todo
<1>14. StatusInv'
  <2> SUFFICES ASSUME Undisturbed', NEW t \in Tasks, Exists(t)', row'[t].status = "running"
               PROVE  (\E i \in RunIds : Recorder(t, i)') \/ Claimed(t)'
    BY DEF StatusInv
  <2>1. CASE t \in S
    BY <1>9, <1>12, <2>1
  <2>2. CASE t \notin S
    <3>1. Undisturbed /\ Exists(t) /\ row[t].status = "running"
      BY <1>2, <1>13, <2>2 DEF Undisturbed, Exists
    <3>2. QED
      BY <1>9, <1>11, <3>1 DEF Marks, StatusInv
  <2>3. QED
    BY <2>1, <2>2
<1>15. OnceInv'
  <2> SUFFICES ASSUME Undisturbed', ops' = 0, NEW t \in Tasks, Exists(t)', row'[t].once,
                      posts'[t] > 0
               PROVE  row'[t].next = Null \/ \E i \in RunIds : Poster(t, i)'
    BY DEF OnceInv
  <2>1. Undisturbed /\ ops = 0 /\ posts[t] > 0
    BY <1>2 DEF Undisturbed
  <2>2. CASE t \in S
    <3>1. row[t].once /\ Exists(t) /\ row[t].next # Null
      BY <1>3, <1>12, <2>2 DEF Exists
    <3>2. QED
      BY <1>11, <2>1, <3>1 DEF Marks, OnceInv
  <2>3. CASE t \notin S
    <3>1. Exists(t) /\ row[t].once /\ row'[t].next = row[t].next
      BY <1>13, <2>3 DEF Exists
    <3>2. QED
      BY <1>11, <2>1, <3>1 DEF Marks, OnceInv
  <2>4. QED
    BY <2>2, <2>3
<1>16. EntryInv'
  <2>1. ASSUME NEW t \in Tasks, Untouched(t)
        PROVE  Untouched(t)'
    <3>1. t \notin S /\ t \notin todo
      BY <1>3, <2>1 DEF Untouched, Exists, todo
    <3>2. QED
      BY <1>2, <1>9, <1>13, <2>1, <3>1 DEF Untouched, Exists
  <2>2. \A q \in Requests : \A t : Delays(q, t)' <=> Delays(q, t)
    BY <1>2 DEF Delays
  <2>3. QED
    BY <1>2, <2>1, <2>2, EntryKeeps DEF Marks
<1>17. QED
  BY <1>10, <1>14, <1>15, <1>16 DEF Marks

(* The fire of a run row takes over the claim of its tick. *)
LEMMA StartMarks ==
    ASSUME IInv, Marks, NEW r \in Replicas, NEW t \in Tasks, StartRun(r, t)
    PROVE  Marks'
<1> DEFINE n == lastRun + 1
           new == [stage |-> "pending", task |-> t, literal |-> row[t].literal,
                   home |-> r, at |-> loop[r].at, outcome |-> "failed",
                   columns |-> {}]
<1>1. /\ t \in loop[r].todo /\ loop[r].busy /\ Exists(t)
      /\ lastRun < MaxRuns /\ lastRun' = n
      /\ fire' = [fire EXCEPT ![n] = new]
      /\ loop' = [loop EXCEPT ![r].todo = @ \ {t}]
      /\ UNCHANGED <<row, born, sess, posts, crashes, errors, ops>>
  BY DEF StartRun
<1>2. /\ TypeOK /\ fire \in [RunIds -> Fire \cup {Null}] /\ loop \in [Replicas -> Tick]
      /\ row[t] \in Row
  BY <1>1 DEF IInv, TypeOK, Exists
<1>3. lastRun \in Nat /\ n \in RunIds /\ n = lastRun + 1
  BY <1>1, BoundsAssumption DEF IInv, TypeOK, RunIds
<1>4. new \in Fire /\ new.task = t /\ new.stage = "pending"
  BY <1>1, <1>2 DEF Fire, Row, Tick
<1> HIDE DEF n, new
<1>5. new # Null
  BY <1>4, RecordsAssumption
<1>6. fire'[n] = new /\ \A i \in RunIds : i # n => fire'[i] = fire[i]
  BY <1>1, <1>2, <1>3
<1>7. fire[n] = Null
  <2>1. ~(n <= lastRun)
    BY <1>3
  <2>2. QED
    BY <1>3, <2>1 DEF Marks, CountInv
<1>8. /\ loop'[r].todo = loop[r].todo \ {t}
      /\ \A s \in Replicas : s # r => loop'[s] = loop[s]
  BY <1>1, <1>2, TodoShrinks
<1>9. loop'[r].busy
  BY <1>1, <1>2 DEF Tick
<1>10. CountInv'
  <2>1. \A s \in Replicas : ~loop'[s].busy => loop'[s].todo = {}
    BY <1>8, <1>9 DEF Marks, CountInv
  <2>2. ASSUME NEW i \in RunIds, fire'[i] # Null
        PROVE  i <= lastRun'
    <3>1. i = n \/ i <= lastRun
      BY <1>6, <2>2 DEF Marks, CountInv
    <3>2. i \in Nat
      BY BoundsAssumption DEF RunIds
    <3>3. QED
      BY <1>1, <1>3, <3>1, <3>2
  <2>3. QED
    BY <2>1, <2>2 DEF CountInv
<1>11. \A s : Claimed(s) => Claimed(s)' \/ s = t
  <2> SUFFICES ASSUME NEW s, s # t, NEW z \in Replicas, s \in loop[z].todo
               PROVE  s \in loop'[z].todo
    BY DEF Claimed
  <2>1. QED
    BY <1>8
<1>12. \A s : Claimed(s)' => Claimed(s)
  <2> SUFFICES ASSUME NEW s, NEW z \in Replicas, s \in loop'[z].todo
               PROVE  s \in loop[z].todo
    BY DEF Claimed
  <2>1. QED
    BY <1>8
<1>13. \A s : \A i \in RunIds : /\ Recorder(s, i) => Recorder(s, i)'
                                /\ Poster(s, i) => Poster(s, i)'
  BY <1>6, <1>7 DEF Recorder, Poster
<1>14. \E i \in RunIds : Recorder(t, i)'
  BY <1>3, <1>4, <1>5, <1>6 DEF Recorder
<1>15. StatusInv'
  BY <1>1, <1>11, <1>13, <1>14 DEF Marks, StatusInv, Undisturbed, Exists
<1>16. OnceInv'
  BY <1>1, <1>13 DEF Marks, OnceInv, Undisturbed, Exists
<1>17. EntryInv'
  <2>1. ASSUME NEW s \in Tasks, Untouched(s)
        PROVE  Untouched(s)'
    <3>1. s # t
      BY <1>1, <2>1 DEF Untouched
    <3>2. \A i \in RunIds : fire'[i] # Null => fire'[i].task # s
      BY <1>4, <1>6, <2>1, <3>1 DEF Untouched
    <3>3. ~Exists(s)' /\ posts'[s] = 0
      BY <1>1, <2>1 DEF Untouched, Exists
    <3>4. ~Claimed(s)'
      BY <1>12, <2>1 DEF Untouched
    <3>5. QED
      BY <3>2, <3>3, <3>4 DEF Untouched
  <2>2. \A q \in Requests : \A s : Delays(q, s)' <=> Delays(q, s)
    BY <1>1 DEF Delays
  <2>3. QED
    BY <1>1, <2>1, <2>2, EntryKeeps DEF Marks
<1>18. QED
  BY <1>10, <1>15, <1>16, <1>17 DEF Marks

(* A disturbed step: what the invariant says of the undisturbed ones is     *)
(* moot.                                                                    *)
LEMMA DisturbedMarks ==
    ASSUME IInv, Marks, ~Undisturbed', CountInv', FiresKept, LoopsShrink,
           UNCHANGED <<born, sess, posts>>,
           \A t \in Tasks : row[t] = Null => row'[t] = Null
    PROVE  Marks'
<1>1. StatusInv' /\ OnceInv'
  BY DEF StatusInv, OnceInv
<1>2. ASSUME NEW t \in Tasks, Untouched(t)
      PROVE  Untouched(t)'
  <2>1. \A i \in RunIds : fire'[i] # Null => fire'[i].task # t
    <3>1. ASSUME NEW i \in RunIds, fire'[i] # Null
          PROVE  fire'[i].task = fire[i].task /\ fire[i] # Null
      <4>1. fire[i] # Null
        BY <3>1 DEF FiresKept
      <4>2. i \in 1..lastRun
        <5>1. i <= lastRun /\ lastRun \in Nat /\ i \in Nat /\ 1 <= i
          BY <4>1, BoundsAssumption DEF Marks, CountInv, IInv, TypeOK, RunIds
        <5>2. QED
          BY <5>1
      <4>3. QED
        BY <4>1, <4>2 DEF FiresKept
    <3>2. QED
      BY <1>2, <3>1 DEF Untouched
  <2>2. ~Claimed(t)'
    BY <1>2 DEF Untouched, Claimed, LoopsShrink
  <2>3. QED
    BY <1>2, <2>1, <2>2 DEF Untouched, Exists
<1>3. \A q \in Requests : \A t : Delays(q, t)' <=> Delays(q, t)
  BY DEF Delays
<1>4. EntryInv'
  BY <1>2, <1>3, EntryKeeps DEF Marks
<1>5. QED
  BY <1>1, <1>4 DEF Marks

(* The insertion of a run row fails because its task is gone, or for a      *)
(* fault.                                                                   *)
LEMMA StartFailsMarks ==
    ASSUME IInv, Marks, NEW r \in Replicas, NEW t \in Tasks, StartRunFails(r, t)
    PROVE  Marks'
<1>1. /\ t \in loop[r].todo /\ loop[r].busy
      /\ loop' = [loop EXCEPT ![r].todo = @ \ {t}]
      /\ UNCHANGED <<row, born, lastRun, fire, sess, posts, crashes, ops>>
  BY DEF StartRunFails
<1>2. TypeOK /\ loop \in [Replicas -> Tick]
  BY DEF IInv, TypeOK
<1>3. /\ loop'[r].todo = loop[r].todo \ {t} /\ LoopsShrink
      /\ \A s \in Replicas : s # r => loop'[s] = loop[s]
  BY <1>1, <1>2, TodoShrinks
<1>4. loop'[r].busy
  BY <1>1, <1>2 DEF Tick
<1>5. CountInv'
  BY <1>1, <1>3, <1>4 DEF Marks, CountInv
<1>6. CASE Exists(t)
  <2>1. ~Undisturbed'
    <3>1. errors' = errors + 1 /\ errors \in Nat
      BY <1>6, BoundsAssumption DEF StartRunFails, Fail, IInv, TypeOK
    <3>2. QED
      BY <3>1 DEF Undisturbed
  <2>2. QED
    BY <1>1, <1>3, <1>5, <2>1, FiresSame, DisturbedMarks
<1>7. CASE ~Exists(t)
  <2>1. errors' = errors
    BY <1>7 DEF StartRunFails
  <2>2. \A s : Claimed(s) => Claimed(s)' \/ s = t
    <3> SUFFICES ASSUME NEW s, s # t, NEW z \in Replicas, s \in loop[z].todo
                 PROVE  s \in loop'[z].todo
      BY DEF Claimed
    <3>1. QED
      BY <1>3
  <2>3. \A s : Claimed(s)' => Claimed(s)
    BY <1>3 DEF Claimed, LoopsShrink
  <2>4. \A s : \A i \in RunIds : (Recorder(s, i)' <=> Recorder(s, i))
                                 /\ (Poster(s, i)' <=> Poster(s, i))
    BY <1>1 DEF Recorder, Poster
  <2>5. StatusInv'
    BY <1>1, <1>7, <2>1, <2>2, <2>4 DEF Marks, StatusInv, Undisturbed, Exists
  <2>6. OnceInv'
    BY <1>1, <2>1, <2>4 DEF Marks, OnceInv, Undisturbed, Exists
  <2>7. \A s \in Tasks : Untouched(s) => Untouched(s)'
    BY <1>1, <2>3 DEF Untouched, Exists
  <2>8. \A q \in Requests : \A s : Delays(q, s)' <=> Delays(q, s)
    BY <1>1 DEF Delays
  <2>9. EntryInv'
    BY <1>1, <2>7, <2>8, EntryKeeps DEF Marks
  <2>10. QED
    BY <1>5, <2>5, <2>6, <2>9 DEF Marks
<1>8. QED
  BY <1>6, <1>7

(* A crash. *)
LEMMA CrashMarks ==
    ASSUME IInv, IInv', Marks, NEW r \in Replicas, Crash(r)
    PROVE  Marks'
<1>1. /\ loop' = [loop EXCEPT ![r] = IdleTick] /\ crashes' = crashes + 1
      /\ fire' = [i \in RunIds |-> IF fire[i] # Null /\ fire[i].home = r
                                   THEN [fire[i] EXCEPT !.stage = "over"] ELSE fire[i]]
      /\ UNCHANGED <<now, row, born, run, lastRun, sess, posts, errors, ops>>
  BY DEF Crash
<1>2. TypeOK /\ loop \in [Replicas -> Tick] /\ crashes \in Nat
  BY BoundsAssumption DEF IInv, TypeOK
<1>3. LoopsShrink /\ loop'[r] = IdleTick /\ \A s \in Replicas : s # r => loop'[s] = loop[s]
  BY <1>1, <1>2, IdleSound
<1>4. \A i \in RunIds : /\ fire'[i] # Null => fire[i] # Null
                        /\ fire[i] # Null => fire'[i].task = fire[i].task
                                             /\ fire'[i].at = fire[i].at
  <2> SUFFICES ASSUME NEW i \in RunIds
               PROVE  /\ fire'[i] # Null => fire[i] # Null
                      /\ fire[i] # Null => fire'[i].task = fire[i].task
                                           /\ fire'[i].at = fire[i].at
    OBVIOUS
  <2>1. fire[i] # Null => fire[i] \in Fire
    BY DEF IInv, TypeOK
  <2>2. \/ fire'[i] = fire[i]
        \/ fire[i] # Null /\ fire'[i] = [fire[i] EXCEPT !.stage = "over"]
    BY <1>1
  <2>3. QED
    BY <2>1, <2>2 DEF Fire
<1>5. FiresKept
  <2>1. \A i \in 1..lastRun : i \in RunIds /\ fire[i] # Null /\ fire'[i] # Null
    BY <1>1, <1>2, Shapes DEF IInv, FiresThere
  <2>2. QED
    BY <1>1, <1>4, <2>1 DEF FiresKept
<1>6. CountInv'
  <2>1. IdleTick.todo = {}
    BY DEF IdleTick
  <2>2. QED
    BY <1>1, <1>3, <1>4, <2>1 DEF Marks, CountInv
<1>7. ~Undisturbed'
  <2>1. crashes' # 0
    BY <1>1, <1>2
  <2>2. QED
    BY <2>1 DEF Undisturbed
<1>8. QED
  BY <1>1, <1>3, <1>5, <1>6, <1>7, DisturbedMarks

(* Undisturbed steps that move fires: an outcome is written into the row    *)
(* when its fire leaves the stages where it has to be.                      *)
LEMMA StagesMark ==
    ASSUME IInv, Marks, FiresKept, LoopsShrink,
           UNCHANGED <<born, lastRun, sess, crashes, errors, ops>>,
           \A t \in Tasks : Claimed(t) => Claimed(t)',
           \A s \in Replicas : ~loop'[s].busy => loop'[s].todo = {},
           \A t \in Tasks : row'[t] # Null => row[t] # Null /\ row'[t].once = row[t].once,
           posts' \in [Tasks -> Nat],
           \A t \in Tasks : posts'[t] # posts[t] =>
              /\ \E i \in RunIds : fire[i] # Null /\ fire[i].task = t
              /\ \E i \in RunIds : Poster(t, i)',
           \A t \in Tasks : row'[t] # Null /\ row'[t].status = "running" =>
              /\ row[t].status = "running"
              /\ \A i \in RunIds : Recorder(t, i) => Recorder(t, i)',
           \A t \in Tasks : row'[t] # Null /\ row'[t].once =>
              \/ row'[t].next = Null
              \/ /\ row[t].next # Null
                 /\ \A i \in RunIds : Poster(t, i) => Poster(t, i)'
    PROVE  Marks'
<1>1. ASSUME NEW i \in RunIds, fire'[i] # Null
      PROVE  fire'[i].task = fire[i].task /\ fire[i] # Null /\ i <= lastRun
  <2>1. fire[i] # Null
    BY <1>1 DEF FiresKept
  <2>2. i <= lastRun /\ lastRun \in Nat /\ i \in Nat /\ 1 <= i
    BY <2>1, BoundsAssumption DEF Marks, CountInv, IInv, TypeOK, RunIds
  <2>3. i \in 1..lastRun
    BY <2>2
  <2>4. QED
    BY <2>1, <2>2, <2>3 DEF FiresKept
<1>2. CountInv'
  BY <1>1 DEF CountInv
<1>3. StatusInv'
  BY DEF Marks, StatusInv, Undisturbed, Exists
<1>4. OnceInv'
  <2> SUFFICES ASSUME Undisturbed', ops' = 0, NEW t \in Tasks, Exists(t)', row'[t].once,
                      posts'[t] > 0
               PROVE  row'[t].next = Null \/ \E i \in RunIds : Poster(t, i)'
    BY DEF OnceInv
  <2>1. CASE posts'[t] # posts[t]
    BY <2>1
  <2>2. CASE posts'[t] = posts[t]
    <3>1. Undisturbed /\ ops = 0 /\ Exists(t) /\ row[t].once /\ posts[t] > 0
      BY <2>2 DEF Undisturbed, Exists
    <3>2. row[t].next = Null \/ \E i \in RunIds : Poster(t, i)
      BY <3>1 DEF Marks, OnceInv
    <3>3. QED
      BY <3>2 DEF Exists
  <2>3. QED
    BY <2>1, <2>2
<1>5. EntryInv'
  <2>1. ASSUME NEW t \in Tasks, Untouched(t)
        PROVE  Untouched(t)'
    <3>1. \A i \in RunIds : fire'[i] # Null => fire'[i].task # t
      BY <1>1, <2>1 DEF Untouched
    <3>2. ~Claimed(t)' /\ ~Exists(t)'
      BY <2>1 DEF Untouched, Claimed, LoopsShrink, Exists
    <3>3. posts'[t] = 0
      BY <2>1 DEF Untouched
    <3>4. QED
      BY <3>1, <3>2, <3>3 DEF Untouched
  <2>2. \A q \in Requests : \A t : Delays(q, t)' <=> Delays(q, t)
    BY DEF Delays
  <2>3. QED
    BY <2>1, <2>2, EntryKeeps DEF Marks
<1>6. QED
  BY <1>2, <1>3, <1>4, <1>5 DEF Marks

(* A fire stays one of its task, and what it has to do it still has to. *)
Onward(i) ==
    /\ fire'[i] # Null => fire[i] # Null
    /\ fire[i] # Null =>
          /\ fire'[i] # Null /\ fire'[i].task = fire[i].task /\ fire'[i].at = fire[i].at
          /\ fire[i].stage \notin {"log", "over"} => fire'[i].stage \notin {"log", "over"}
          /\ fire[i].stage \in {"agent", "record", "save"} => fire'[i] = fire[i]
          /\ fire'[i].stage = "save" => fire'[i] = fire[i]

(* A tick hands its fires over. *)
LEMMA DispatchMarks ==
    ASSUME IInv, Marks, NEW r \in Replicas, Dispatch(r)
    PROVE  Marks'
<1>1. /\ loop[r].todo = {} /\ loop' = [loop EXCEPT ![r] = IdleTick]
      /\ fire' = [i \in RunIds |->
            IF fire[i] # Null /\ fire[i].stage = "pending" /\ fire[i].home = r
            THEN [fire[i] EXCEPT !.stage = "post"] ELSE fire[i]]
      /\ UNCHANGED <<row, born, lastRun, sess, posts, crashes, errors, ops>>
  BY DEF Dispatch
<1>2. TypeOK /\ loop \in [Replicas -> Tick]
  BY DEF IInv, TypeOK
<1>3. LoopsShrink /\ loop'[r] = IdleTick /\ \A s \in Replicas : s # r => loop'[s] = loop[s]
  BY <1>1, <1>2, IdleSound
<1>4. IdleTick.todo = {}
  BY DEF IdleTick
<1>5. ASSUME NEW i \in RunIds
      PROVE  Onward(i)
  <2> DEFINE f == fire[i]
             new == [f EXCEPT !.stage = "post"]
  <2>1. f # Null => f \in Fire
    BY DEF IInv, TypeOK
  <2>2. \/ fire'[i] = f
        \/ f # Null /\ f.stage = "pending" /\ fire'[i] = new
    BY <1>1
  <2>3. f \in Fire => new \in Fire /\ new.task = f.task /\ new.at = f.at /\ new.stage = "post"
    BY DEF Fire
  <2> HIDE DEF new
  <2>4. CASE fire'[i] = f
    BY <2>4 DEF Onward
  <2>5. CASE f # Null /\ f.stage = "pending" /\ fire'[i] = new
    BY <2>1, <2>3, <2>5, RecordsAssumption DEF Onward
  <2>6. QED
    BY <2>2, <2>4, <2>5
<1>6. FiresKept
  <2>1. \A i \in 1..lastRun : i \in RunIds /\ fire[i] # Null
    BY <1>2, Shapes DEF IInv, FiresThere
  <2>2. QED
    BY <1>1, <1>5, <2>1 DEF FiresKept, Onward
<1>7. \A t \in Tasks : Claimed(t) => Claimed(t)'
  <2> SUFFICES ASSUME NEW t \in Tasks, NEW s \in Replicas, t \in loop[s].todo
               PROVE  t \in loop'[s].todo
    BY DEF Claimed
  <2>1. QED
    BY <1>1, <1>3
<1>8. \A t : \A i \in RunIds : /\ Recorder(t, i) => Recorder(t, i)'
                               /\ Poster(t, i) => Poster(t, i)'
  BY <1>5 DEF Recorder, Poster, Onward
<1>9. \A s \in Replicas : ~loop'[s].busy => loop'[s].todo = {}
  BY <1>3, <1>4 DEF Marks, CountInv
<1>10. posts' \in [Tasks -> Nat]
  BY <1>1, <1>2 DEF TypeOK
<1>11. \A t \in Tasks : row'[t] # Null /\ row'[t].once =>
              \/ row'[t].next = Null
              \/ /\ row[t].next # Null
                 /\ \A i \in RunIds : Poster(t, i) => Poster(t, i)'
  BY <1>1, <1>8
<1>12. QED
  BY <1>1, <1>3, <1>6, <1>7, <1>8, <1>9, <1>10, <1>11, StagesMark

(* One fire moves to a stage. *)
Moves(i, stage) ==
    /\ fire[i] # Null /\ FiresKept /\ fire'[i] # Null
    /\ fire'[i].stage = stage /\ fire'[i].task = fire[i].task
    /\ \A j \in RunIds : j # i => fire'[j] = fire[j]

LEMMA MovesIs ==
    ASSUME IInv, UNCHANGED lastRun, NEW i \in RunIds, fire[i] # Null,
           NEW stage \in Stages,
           \/ fire' = [fire EXCEPT ![i].stage = stage]
           \/ \E outcome \in Outcomes : GoTo(i, stage, outcome)
    PROVE  Moves(i, stage)
<1>1. fire \in [RunIds -> Fire \cup {Null}] /\ fire[i] \in Fire
  BY DEF IInv, TypeOK
<1>2. fire[i].outcome \in Outcomes /\ fire[i].columns \in ColumnSets
  BY <1>1 DEF Fire, Outcomes, ColumnSets
<1>3. PICK outcome \in Outcomes :
         fire' = [fire EXCEPT ![i] = Restaged(fire[i], stage, outcome, fire[i].columns)]
  <2>1. CASE fire' = [fire EXCEPT ![i].stage = stage]
    <3>1. Restaged(fire[i], stage, fire[i].outcome, fire[i].columns) =
             [fire[i] EXCEPT !.stage = stage]
      BY <1>1, StageIs
    <3>2. fire' = [fire EXCEPT
                      ![i] = Restaged(fire[i], stage, fire[i].outcome, fire[i].columns)]
      BY <2>1, <3>1
    <3>3. QED
      BY <1>2, <3>2
  <2>2. CASE \E outcome \in Outcomes : GoTo(i, stage, outcome)
    <3>1. PICK outcome \in Outcomes : GoTo(i, stage, outcome)
      BY <2>2
    <3>2. [fire[i] EXCEPT !.stage = stage, !.outcome = outcome] =
             Restaged(fire[i], stage, outcome, fire[i].columns)
      BY <1>1 DEF Restaged, Fire
    <3>3. fire' = [fire EXCEPT ![i] = Restaged(fire[i], stage, outcome, fire[i].columns)]
      BY <1>1, <3>1, <3>2 DEF GoTo
    <3>4. QED
      BY <3>3
  <2>3. QED
    BY <2>1, <2>2
<1>4. FiresKept
  BY <1>2, <1>3, OneStage
<1> DEFINE new == Restaged(fire[i], stage, outcome, fire[i].columns)
<1>5. new \in Fire /\ new.task = fire[i].task /\ new.stage = stage
  BY <1>1, <1>2, RestagedShape
<1>6. fire' = [fire EXCEPT ![i] = new]
  BY <1>3
<1> HIDE DEF new
<1>7. fire'[i] = new /\ \A j \in RunIds : j # i => fire'[j] = fire[j]
  BY <1>1, <1>6
<1>8. QED
  BY <1>4, <1>5, <1>7, RecordsAssumption DEF Moves

(* A fire posts, or its agent run is over. *)
LEMMA PostMarks ==
    ASSUME IInv, Marks, NEW i \in RunIds,
           Post(i) \/ PostFails(i) \/ RunAgent(i) \/ RunAgentRaises(i)
    PROVE  Marks'
<1>1. /\ fire[i] # Null /\ fire[i].stage \in {"post", "agent"}
      /\ UNCHANGED <<row, born, loop, lastRun, sess, crashes, errors, ops>>
  BY DEF Post, PostFails, RunAgent, RunAgentRaises, At
<1>2. PICK stage \in {"agent", "record"} : Moves(i, stage)
  <2>1. \E stage \in {"agent", "record"} : \E outcome \in Outcomes : GoTo(i, stage, outcome)
    BY DEF Post, PostFails, RunAgent, RunAgentRaises, Outcomes
  <2>2. QED
    BY <1>1, <2>1, MovesIs DEF Stages
<1>3. \A t : \A j \in RunIds : /\ Recorder(t, j) => Recorder(t, j)'
                               /\ Poster(t, j) => Poster(t, j)'
  BY <1>2 DEF Recorder, Poster, Moves
<1>4. TypeOK /\ fire[i].task \in Tasks
  BY <1>1, Shapes DEF IInv
<1>5. /\ posts \in [Tasks -> Nat]
      /\ posts' = posts \/ posts' = [posts EXCEPT ![fire[i].task] = @ + 1]
  BY <1>4 DEF Post, PostFails, RunAgent, RunAgentRaises, TypeOK
<1>6. posts' \in [Tasks -> Nat]
  BY <1>4, <1>5
<1>7. ASSUME NEW t \in Tasks, posts'[t] # posts[t]
      PROVE  /\ \E j \in RunIds : fire[j] # Null /\ fire[j].task = t
             /\ \E j \in RunIds : Poster(t, j)'
  <2>1. fire[i].task = t
    BY <1>5, <1>7
  <2>2. Poster(t, i)'
    BY <1>2, <2>1 DEF Poster, Moves
  <2>3. QED
    BY <1>1, <2>1, <2>2
<1>8. \A t : Claimed(t)' <=> Claimed(t)
  BY <1>1 DEF Claimed
<1>9. LoopsShrink /\ \A s \in Replicas : ~loop'[s].busy => loop'[s].todo = {}
  BY <1>1, LoopsSame DEF Marks, CountInv
<1>10. \A t \in Tasks : row'[t] # Null /\ row'[t].once =>
              \/ row'[t].next = Null
              \/ /\ row[t].next # Null
                 /\ \A j \in RunIds : Poster(t, j) => Poster(t, j)'
  BY <1>1, <1>3
<1>11. FiresKept
  BY <1>2 DEF Moves
<1>12. QED
  BY <1>1, <1>3, <1>6, <1>7, <1>8, <1>9, <1>10, <1>11, StagesMark

(* A fire reads the row of its task: it will write what is not so already.  *)
LEMMA ReadMarks ==
    ASSUME IInv, Marks, NEW i \in RunIds, RecordFinished(i)
    PROVE  Marks'
<1> DEFINE t == fire[i].task
<1>1. /\ fire[i] # Null /\ fire[i].stage = "record"
      /\ UNCHANGED <<row, born, loop, lastRun, sess, posts, crashes, errors, ops>>
  BY DEF RecordFinished, At
<1>2. /\ TypeOK /\ fire[i] \in Fire /\ t \in Tasks
      /\ fire[i].outcome \in Outcomes /\ fire[i].outcome # "running"
      /\ fire \in [RunIds -> Fire \cup {Null}]
  BY <1>1, Shapes DEF IInv, TypeOK, Fire, Outcomes
<1>3. PICK stage \in {"save", "log"}, columns \in ColumnSets :
         /\ fire' = [fire EXCEPT ![i] = Restaged(fire[i], stage, fire[i].outcome, columns)]
         /\ row[t] # Null =>
               /\ stage = "save"
               /\ row[t].status # fire[i].outcome => "status" \in columns
               /\ row[t].once /\ row[t].next # Null => "next" \in columns
  BY <1>2, RecordIs
<1> DEFINE new == Restaged(fire[i], stage, fire[i].outcome, columns)
<1>4. new \in Fire /\ new.task = t /\ new.stage = stage /\ new.columns = columns
  <2>1. stage \in Stages
    BY DEF Stages
  <2>2. QED
    BY <1>2, <2>1, RestagedShape
<1>5. fire' = [fire EXCEPT ![i] = new]
  BY <1>3
<1>6. t = fire[i].task
  OBVIOUS
<1>7. FiresKept
  BY <1>1, <1>2, <1>3, OneStage DEF IInv, Stages
<1> HIDE DEF new, t
<1>8. fire'[i] = new /\ new # Null /\ \A j \in RunIds : j # i => fire'[j] = fire[j]
  BY <1>2, <1>4, <1>5, RecordsAssumption
<1>9. ASSUME NEW s, s # t \/ (row[s] # Null /\ row[s].status = "running")
      PROVE  \A j \in RunIds : Recorder(s, j) => Recorder(s, j)'
  BY <1>2, <1>3, <1>4, <1>6, <1>8, <1>9 DEF Recorder
<1>10. ASSUME NEW s, s # t \/ (row[s] # Null /\ row[s].once /\ row[s].next # Null)
       PROVE  \A j \in RunIds : Poster(s, j) => Poster(s, j)'
  BY <1>2, <1>3, <1>4, <1>6, <1>8, <1>10 DEF Poster
<1>11. \A s : Claimed(s)' <=> Claimed(s)
  BY <1>1 DEF Claimed
<1>12. LoopsShrink /\ \A s \in Replicas : ~loop'[s].busy => loop'[s].todo = {}
  BY <1>1, LoopsSame DEF Marks, CountInv
<1>13. posts' \in [Tasks -> Nat]
  BY <1>1, <1>2 DEF TypeOK
<1>14. \A s \in Tasks : row'[s] # Null /\ row'[s].status = "running" =>
          /\ row[s].status = "running"
          /\ \A j \in RunIds : Recorder(s, j) => Recorder(s, j)'
  BY <1>1, <1>9
<1>15. \A s \in Tasks : row'[s] # Null /\ row'[s].once =>
          \/ row'[s].next = Null
          \/ /\ row[s].next # Null
             /\ \A j \in RunIds : Poster(s, j) => Poster(s, j)'
  BY <1>1, <1>10
<1>16. QED
  BY <1>1, <1>7, <1>11, <1>12, <1>13, <1>14, <1>15, StagesMark

(* A fire writes its outcome: what it still has to do it then has not.      *)
LEMMA RecordMarks ==
    ASSUME IInv, Marks, NEW i \in RunIds, CommitFinished(i)
    PROVE  Marks'
<1> DEFINE t == fire[i].task
           new == IF row[t] = Null THEN Null ELSE Finished(row[t], i)
<1>1. /\ fire[i] # Null /\ fire[i].stage = "save"
      /\ row' = [row EXCEPT ![t] = new]
      /\ fire' = [fire EXCEPT ![i].stage = "log"]
      /\ UNCHANGED <<born, loop, lastRun, sess, posts, crashes, errors, ops>>
  BY DEF CommitFinished, At
<1>2. TypeOK /\ fire[i] \in Fire /\ t \in Tasks
  BY <1>1, Shapes DEF IInv, TypeOK
<1>3. Moves(i, "log")
  BY <1>1, MovesIs DEF Stages
<1>4. new # Null =>
         /\ row[t] # Null /\ new.once = row[t].once
         /\ new.status = "running" =>
               row[t].status = "running" /\ "status" \notin fire[i].columns
         /\ new.next = Null \/ (new.next = row[t].next /\ "next" \notin fire[i].columns)
  <2>1. row[t] # Null => row[t] \in Row
    BY <1>2 DEF TypeOK
  <2>2. fire[i].outcome \in {"success", "failed"}
    BY <1>2 DEF Fire
  <2>3. ASSUME NEW old \in Row, old = row[t]
        PROVE  /\ Finished(old, i).once = old.once
               /\ Finished(old, i).status = "running" =>
                     old.status = "running" /\ "status" \notin fire[i].columns
               /\ \/ Finished(old, i).next = Null
                  \/ Finished(old, i).next = old.next /\ "next" \notin fire[i].columns
    <3> DEFINE status == IF "status" \in fire[i].columns THEN fire[i].outcome ELSE old.status
               next == IF "next" \in fire[i].columns THEN Null ELSE old.next
    <3>1. /\ status = "running" => old.status = "running" /\ "status" \notin fire[i].columns
          /\ next = Null \/ (next = old.next /\ "next" \notin fire[i].columns)
      BY <2>2
    <3>2. Finished(old, i) = [old EXCEPT !.status = status, !.next = next]
      BY DEF Finished
    <3> HIDE DEF status, next
    <3>3. /\ Finished(old, i).once = old.once /\ Finished(old, i).status = status
          /\ Finished(old, i).next = next
      BY <2>3, <3>2 DEF Row
    <3>4. QED
      BY <3>1, <3>3
  <2>4. QED
    BY <2>1, <2>3
<1>5. t = fire[i].task
  OBVIOUS
<1> HIDE DEF t, new
<1>6. row'[t] = new /\ \A s \in Tasks : s # t => row'[s] = row[s]
  BY <1>1, <1>2 DEF TypeOK
<1>7. \A s \in Tasks : s # t => \A j \in RunIds : /\ Recorder(s, j) => Recorder(s, j)'
                                                  /\ Poster(s, j) => Poster(s, j)'
  BY <1>3, <1>5 DEF Recorder, Poster, Moves
<1>8. \A s : Claimed(s)' <=> Claimed(s)
  BY <1>1 DEF Claimed
<1>9. LoopsShrink /\ \A s \in Replicas : ~loop'[s].busy => loop'[s].todo = {}
  BY <1>1, LoopsSame DEF Marks, CountInv
<1>10. FiresKept /\ posts' \in [Tasks -> Nat]
  BY <1>1, <1>2, <1>3 DEF Moves, TypeOK
<1>11. \A s \in Tasks : row'[s] # Null => row[s] # Null /\ row'[s].once = row[s].once
  BY <1>4, <1>6
<1>12. ASSUME NEW s \in Tasks, row'[s] # Null, row'[s].status = "running"
       PROVE  /\ row[s].status = "running"
              /\ \A j \in RunIds : Recorder(s, j) => Recorder(s, j)'
  <2>1. CASE s = t
    <3>1. row[s].status = "running" /\ "status" \notin fire[i].columns
      BY <1>4, <1>6, <1>12, <2>1
    <3>2. ~Recorder(s, i)
      BY <1>1, <3>1 DEF Recorder
    <3>3. QED
      BY <1>3, <3>1, <3>2 DEF Recorder, Moves
  <2>2. CASE s # t
    BY <1>6, <1>7, <1>12, <2>2
  <2>3. QED
    BY <2>1, <2>2
<1>13. ASSUME NEW s \in Tasks, row'[s] # Null, row'[s].once
       PROVE  \/ row'[s].next = Null
              \/ /\ row[s].next # Null
                 /\ \A j \in RunIds : Poster(s, j) => Poster(s, j)'
  <2>1. CASE s = t /\ row'[s].next # Null
    <3>1. row[s].next # Null /\ "next" \notin fire[i].columns
      BY <1>4, <1>6, <1>13, <2>1
    <3>2. ~Poster(s, i)
      BY <1>1, <3>1 DEF Poster
    <3>3. QED
      BY <1>3, <3>1, <3>2 DEF Poster, Moves
  <2>2. CASE s # t /\ row'[s].next # Null
    BY <1>6, <1>7, <2>2
  <2>3. QED
    BY <2>1, <2>2
<1>14. QED
  BY <1>1, <1>8, <1>9, <1>10, <1>11, <1>12, <1>13, StagesMark

(* What is left of a fire is its line in the log. *)
LEMMA FinishMarks ==
    ASSUME IInv, Marks, NEW i \in RunIds, FinishRun(i)
    PROVE  Marks'
<1>1. /\ fire[i] # Null /\ fire[i].stage = "log"
      /\ fire' = [fire EXCEPT ![i].stage = "over"]
      /\ UNCHANGED <<row, born, loop, lastRun, sess, posts, crashes, errors, ops>>
  BY DEF FinishRun, At
<1>2. Moves(i, "over")
  BY <1>1, MovesIs DEF Stages
<1>3. \A t : \A j \in RunIds : /\ Recorder(t, j) => Recorder(t, j)'
                               /\ Poster(t, j) => Poster(t, j)'
  BY <1>1, <1>2 DEF Recorder, Poster, Moves
<1>4. \A s : Claimed(s)' <=> Claimed(s)
  BY <1>1 DEF Claimed
<1>5. LoopsShrink /\ \A s \in Replicas : ~loop'[s].busy => loop'[s].todo = {}
  BY <1>1, LoopsSame DEF Marks, CountInv
<1>6. FiresKept /\ posts' \in [Tasks -> Nat]
  BY <1>1, <1>2 DEF Moves, IInv, TypeOK
<1>7. \A t \in Tasks : row'[t] # Null /\ row'[t].once =>
              \/ row'[t].next = Null
              \/ /\ row[t].next # Null
                 /\ \A j \in RunIds : Poster(t, j) => Poster(t, j)'
  BY <1>1, <1>3
<1>8. QED
  BY <1>1, <1>3, <1>4, <1>5, <1>6, <1>7, StagesMark

(* A statement of a fire fails. *)
LEMMA FailsMarks ==
    ASSUME IInv, Marks, NEW i \in RunIds, RecordFinishedFails(i) \/ FinishRunFails(i)
    PROVE  Marks'
<1>1. /\ fire[i] # Null /\ errors' = errors + 1
      /\ UNCHANGED <<row, born, loop, lastRun, sess, posts, crashes, ops>>
  BY DEF RecordFinishedFails, FinishRunFails, Fail, At
<1>2. PICK stage \in Stages : Moves(i, stage)
  <2>1. \/ fire' = [fire EXCEPT ![i].stage = "log"]
        \/ fire' = [fire EXCEPT ![i].stage = "over"]
    BY DEF RecordFinishedFails, FinishRunFails
  <2>2. QED
    BY <1>1, <2>1, MovesIs DEF Stages
<1>3. ~Undisturbed'
  <2>1. errors \in Nat
    BY BoundsAssumption DEF IInv, TypeOK
  <2>2. errors' # 0
    BY <1>1, <2>1
  <2>3. QED
    BY <2>2 DEF Undisturbed
<1>4. CountInv'
  BY <1>1, <1>2 DEF Marks, CountInv, Moves
<1>5. QED
  BY <1>1, <1>2, <1>3, <1>4, LoopsSame, DisturbedMarks DEF Moves
-----------------------------------------------------------------------------
LEMMA InitMarks == Init => Marks
<1> SUFFICES ASSUME Init
             PROVE  Marks
  OBVIOUS
<1>1. IdleTick.todo = {}
  BY DEF IdleTick
<1>2. CountInv /\ StatusInv /\ OnceInv
  BY <1>1 DEF Init, CountInv, StatusInv, OnceInv, Exists
<1>3. EntryInv
  BY <1>1 DEF Init, EntryInv, Untouched, Delays, Exists, Claimed
<1>4. QED
  BY <1>2, <1>3 DEF Marks

LEMMA StepMarks == IInv /\ IInv' /\ Marks /\ [Next]_vars => Marks'
<1> SUFFICES ASSUME IInv, IInv', Marks, [Next]_vars
             PROVE  Marks'
  OBVIOUS
<1>1. CASE Advance
  BY <1>1, StillMarks DEF Advance
<1>2. ASSUME NEW t \in Tasks, Seed(t)
      PROVE  Marks'
  BY <1>2, SeedMarks
<1>3. ASSUME NEW u \in Members, NEW t \in Tasks, Create(u, t)
      PROVE  Marks'
  BY <1>3, CreateMarks
<1>4. ASSUME NEW q \in Requests, RequestStep(q)
      PROVE  Marks'
  BY <1>4, RequestMarks
<1>5. ASSUME NEW r \in Replicas, LoopStep(r) \/ Crash(r)
      PROVE  Marks'
  BY <1>5, ClaimMarks, StartMarks, StartFailsMarks, DispatchMarks, CrashMarks DEF LoopStep
<1>6. ASSUME NEW i \in RunIds, FireStep(i)
      PROVE  Marks'
  BY <1>6, PostMarks, ReadMarks, RecordMarks, FinishMarks, FailsMarks DEF FireStep
<1>7. CASE UNCHANGED vars
  BY <1>7, StillMarks DEF vars
<1>8. QED
  BY <1>1, <1>2, <1>3, <1>4, <1>5, <1>6, <1>7 DEF Next

LEMMA MarksAlways == Spec => []Marks
<1>1. Spec => []IInv
  BY InitSound, StepSound, PTL DEF Spec
<1>2. QED
  BY <1>1, InitMarks, StepMarks, PTL DEF Spec

(* A row that says "running" has a fire that will write its outcome, or is  *)
(* in the list of a tick that will give it one, unless a replica crashed or *)
(* a statement failed: fires of a task may overlap and its owner may pause, *)
(* edit or delete it meanwhile                                              *)
(* (app/scheduled_tasks/repository.py, record_fire_started and              *)
(* record_fire_finished).                                                   *)
THEOREM RunningIsTrue == Spec => []RunningMeansRunning
<1>1. Marks => RunningMeansRunning
  BY DEF Marks, StatusInv, RunningMeansRunning, Recorder, Claimed, InFlight
<1>2. QED
  BY <1>1, MarksAlways, PTL

(* A one-shot that has been posted is off the schedule once its fires have  *)
(* returned, however they overlapped, unless a replica crashed, a statement *)
(* failed or a member edited a task                                         *)
(* (app/scheduled_tasks/repository.py, record_fire_finished).               *)
THEOREM OneShotIsOff == Spec => []OneShotDisarmed
<1>1. Marks => OneShotDisarmed
  BY DEF Marks, OnceInv, OneShotDisarmed, Poster, InFlight
<1>2. QED
  BY <1>1, MarksAlways, PTL
=============================================================================
