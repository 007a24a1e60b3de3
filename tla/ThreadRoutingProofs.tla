------------------------- MODULE ThreadRoutingProofs -------------------------
(***************************************************************************)
(* Proofs about ThreadRouting, for every set of messages, replicas and     *)
(* task slots, every number of deliveries, resumes and crashes, and every  *)
(* choice of the faults and of the ways a run may end.                     *)
(***************************************************************************)
EXTENDS ThreadRouting, SequenceTheorems, TLAPS

\* The part of TypeOK that is about the task slots.
FrameOK ==
    /\ lock \in Task \cup {None}
    /\ pc \in [Task -> Phases]
    /\ home \in [Task -> Worker \cup {None}]
    /\ batch \in [Task -> Seq(Msg)]
    /\ direct \subseteq Task
    /\ \A t \in Task : /\ pc[t] = "free" <=> home[t] = None
                       /\ pc[t] \in BatchPhases <=> batch[t] # <<>>

\* The part of TypeOK that is about the database, Slack and the processes.
DataOK ==
    /\ seen \subseteq Msg
    /\ inbox \in Seq(Msg)
    /\ thread \in BOOLEAN
    /\ saved \in [Msg -> Nat]
    /\ checkpoint \in [Msg -> {"none", "open", "done"}]
    /\ deliveries \in [Msg -> Nat]
    /\ resumes \in Nat
    /\ gate \in [Msg -> {"none", "approval", "connect"}]
    /\ active \in [Worker -> Msg \cup {None}]
    /\ crashes \in Nat

\* In every phase with a message in hand, the run's trigger is a message.
LEMMA TriggerType ==
    ASSUME TypeOK, NEW t \in Task, pc[t] \in BatchPhases
    PROVE  Trigger(t) \in Msg
<1>1. pc[t] \in BatchPhases <=> batch[t] # <<>>
  BY Zenon DEF TypeOK
<1>2. batch[t] \in Seq(Msg)
  BY DEF TypeOK
<1> QED BY <1>1, <1>2 DEF Trigger

\* The shape of one slot.
SlotOK(t) == /\ pc[t] = "free" <=> home[t] = None
             /\ pc[t] \in BatchPhases <=> batch[t] # <<>>

\* FrameOK, slot by slot: if a step leaves the other slots alone, only the
\* slot it touches has to be looked at.
LEMMA OneSlot ==
    ASSUME TypeOK, NEW t \in Task,
           NEW phase \in Phases, NEW w \in Worker \cup {None}, NEW s \in Seq(Msg),
           pc' = [pc EXCEPT ![t] = phase],
           home' = [home EXCEPT ![t] = w],
           batch' = [batch EXCEPT ![t] = s],
           direct' \subseteq Task,
           lock' \in Task \cup {None},
           phase = "free" <=> w = None,
           phase \in BatchPhases <=> s # <<>>
    PROVE  FrameOK'
<1>1. /\ pc' \in [Task -> Phases]
      /\ home' \in [Task -> Worker \cup {None}]
      /\ batch' \in [Task -> Seq(Msg)]
  BY DEF TypeOK
<1>2. ASSUME NEW u \in Task PROVE SlotOK(u)'
  <2>1. CASE u = t
    <3>1. pc'[u] = phase /\ home'[u] = w /\ batch'[u] = s
      BY <2>1 DEF TypeOK
    <3> QED BY <3>1, Zenon DEF SlotOK
  <2>2. CASE u # t
    <3>1. pc'[u] = pc[u] /\ home'[u] = home[u] /\ batch'[u] = batch[u]
      BY <2>2 DEF TypeOK
    <3>2. SlotOK(u)
      BY Zenon DEF TypeOK, SlotOK
    <3> QED BY <3>1, <3>2, Zenon DEF SlotOK
  <2> QED BY <2>1, <2>2
<1> QED BY <1>1, <1>2, Zenon DEF FrameOK, SlotOK

\* Leaving frees the slot.
LEMMA LeaveFrame ==
    ASSUME TypeOK, ConstantsAssumption, NEW t \in Task, Leave(t),
           lock' \in Task \cup {None}
    PROVE  FrameOK'
<1>1. "free" \in Phases /\ "free" \notin BatchPhases
  BY DEF Phases, BatchPhases, HandlerPhases, RunPhases, DrainPhases, ResumePhases
<1>2. <<>> \in Seq(Msg) /\ direct' \subseteq Task
  BY DEF Leave, TypeOK
<1> QED BY <1>1, <1>2, OneSlot DEF Leave, Goto

\* A task moves on to a phase that keeps the message in hand, or none.
LEMMA GotoFrame ==
    ASSUME TypeOK, NEW t \in Task, NEW phase \in Phases \ {"free"},
           Goto(t, phase), pc[t] # "free",
           phase \in BatchPhases <=> pc[t] \in BatchPhases,
           UNCHANGED frame, lock' \in Task \cup {None}
    PROVE  FrameOK'
<1>1. /\ home[t] \in Worker \cup {None} /\ batch[t] \in Seq(Msg)
      /\ home' = [home EXCEPT ![t] = home[t]]
      /\ batch' = [batch EXCEPT ![t] = batch[t]]
      /\ direct' \subseteq Task
  BY DEF TypeOK, frame
<1>2. SlotOK(t)
  BY Zenon DEF TypeOK, SlotOK
<1>3. (phase = "free" <=> home[t] = None) /\ (phase \in BatchPhases <=> batch[t] # <<>>)
  BY <1>2, Zenon DEF SlotOK
<1> QED BY <1>1, <1>3, OneSlot DEF Goto

LEMMA TypeRouteStep ==
    ASSUME ConstantsAssumption, TypeOK, NEW t \in Task, RouteStep(t)
    PROVE  TypeOK'
<1>1. CASE Dedupe(t)
  <2>0. Trigger(t) \in Msg
    BY <1>1, TriggerType DEF Dedupe, LeaveGraph, Phases, BatchPhases, HandlerPhases,
       RunPhases, DrainPhases, ResumePhases
  <2>1. DataOK'
    BY <1>1, <2>0 DEF Dedupe, TypeOK, DataOK, dbVars, slackVars, Leave, Finish, LeaveGraph
  <2>2. FrameOK'
    BY <1>1, LeaveFrame, GotoFrame DEF Dedupe, TypeOK, Finish, Release, Phases, BatchPhases,
       HandlerPhases, RunPhases, DrainPhases, ResumePhases
  <2> QED BY <2>1, <2>2 DEF TypeOK, FrameOK, DataOK
<1>2. CASE Acquire(t)
  <2>1. DataOK'
    BY <1>2 DEF Acquire, TypeOK, DataOK, dbVars, slackVars, Leave, Finish, LeaveGraph
  <2>2. FrameOK'
    BY <1>2, GotoFrame DEF Acquire, TypeOK, Release, LeaveGraph, Phases, BatchPhases,
       HandlerPhases, RunPhases, DrainPhases, ResumePhases
  <2> QED BY <2>1, <2>2 DEF TypeOK, FrameOK, DataOK
<1>3. CASE AcquireFails(t)
  <2>0. Trigger(t) \in Msg
    BY <1>3, TriggerType DEF AcquireFails, LeaveGraph, Phases, BatchPhases, HandlerPhases,
       RunPhases, DrainPhases, ResumePhases
  <2>1. DataOK'
    BY <1>3, <2>0 DEF AcquireFails, TypeOK, DataOK, dbVars, slackVars, Leave, Finish, LeaveGraph
  <2>2. FrameOK'
    BY <1>3, GotoFrame DEF AcquireFails, TypeOK, Release, LeaveGraph, Phases, BatchPhases,
       HandlerPhases, RunPhases, DrainPhases, ResumePhases
  <2> QED BY <2>1, <2>2 DEF TypeOK, FrameOK, DataOK
<1>4. CASE RespondWithStatus(t)
  <2>1. DataOK'
    BY <1>4 DEF RespondWithStatus, TypeOK, DataOK, dbVars, slackVars, Leave, Finish, LeaveGraph
  <2>2. FrameOK'
    BY <1>4, LeaveFrame DEF RespondWithStatus, TypeOK, Finish, Release, LeaveGraph
  <2> QED BY <2>1, <2>2 DEF TypeOK, FrameOK, DataOK
<1>5. CASE Enqueue(t)
  <2>0. Trigger(t) \in Msg
    BY <1>5, TriggerType DEF Enqueue, LeaveGraph, Phases, BatchPhases, HandlerPhases,
       RunPhases, DrainPhases, ResumePhases
  <2>1. DataOK'
    <3>1. inbox' = Append(inbox, Trigger(t)) \/ inbox' = inbox
      BY <1>5 DEF Enqueue
    <3>2. inbox' \in Seq(Msg)
      <4>1. inbox \in Seq(Msg)
        BY DEF TypeOK
      <4>2. Append(inbox, Trigger(t)) \in Seq(Msg)
        BY <2>0, <4>1, AppendProperties
      <4> QED BY <3>1, <4>1, <4>2
    <3> QED BY <1>5, <3>2 DEF Enqueue, TypeOK, DataOK, slackVars
  <2>2. FrameOK'
    BY <1>5, LeaveFrame DEF Enqueue, TypeOK, Finish, Release, LeaveGraph
  <2> QED BY <2>1, <2>2 DEF TypeOK, FrameOK, DataOK
<1>6. CASE DrainAndRun(t)
  <2>1. DataOK'
    BY <1>6 DEF DrainAndRun, TypeOK, DataOK, dbVars, slackVars, Leave, Finish, LeaveGraph
  <2>2. FrameOK'
    BY <1>6 DEF DrainAndRun, TypeOK, FrameOK, Goto, Release, dbVars, Phases, BatchPhases,
       HandlerPhases, RunPhases, DrainPhases, ResumePhases
  <2> QED BY <2>1, <2>2 DEF TypeOK, FrameOK, DataOK
<1>7. CASE DrainRaises(t)
  <2>1. DataOK'
    BY <1>7 DEF DrainRaises, TypeOK, DataOK, dbVars, slackVars, Leave, Finish, LeaveGraph
  <2>2. FrameOK'
    BY <1>7 DEF DrainRaises, TypeOK, FrameOK, Goto, Release, dbVars, Phases, BatchPhases,
       HandlerPhases, RunPhases, DrainPhases, ResumePhases
  <2> QED BY <2>1, <2>2 DEF TypeOK, FrameOK, DataOK
<1> QED BY <1>1, <1>2, <1>3, <1>4, <1>5, <1>6, <1>7 DEF RouteStep

LEMMA TypeRunStep ==
    ASSUME ConstantsAssumption, TypeOK, NEW t \in Task, RunStep(t)
    PROVE  TypeOK'
<1>1. CASE Validate(t)
  <2>1. DataOK'
    BY <1>1 DEF Validate, TypeOK, DataOK, dbVars, slackVars, Leave, Finish, LeaveGraph
  <2>2. FrameOK'
    BY <1>1, LeaveFrame, GotoFrame DEF Validate, TypeOK, Finish, Release, Phases, BatchPhases,
       HandlerPhases, RunPhases, DrainPhases, ResumePhases
  <2> QED BY <2>1, <2>2 DEF TypeOK, FrameOK, DataOK
<1>2. CASE Persist(t)
  <2>1. DataOK'
    BY <1>2 DEF Persist, TypeOK, DataOK, dbVars, slackVars, Leave, Finish, LeaveGraph
  <2>2. FrameOK'
    BY <1>2, GotoFrame DEF Persist, TypeOK, Release, LeaveGraph, Phases, BatchPhases,
       HandlerPhases, RunPhases, DrainPhases, ResumePhases
  <2> QED BY <2>1, <2>2 DEF TypeOK, FrameOK, DataOK
<1>3. CASE PersistRaises(t)
  <2>1. DataOK'
    BY <1>3 DEF PersistRaises, TypeOK, DataOK, dbVars, slackVars, Leave, Finish, LeaveGraph
  <2>2. FrameOK'
    BY <1>3, LeaveFrame DEF PersistRaises, TypeOK, Finish, Release, LeaveGraph
  <2> QED BY <2>1, <2>2 DEF TypeOK, FrameOK, DataOK
<1>4. CASE PreflightBlocks(t)
  <2>1. DataOK'
    BY <1>4 DEF PreflightBlocks, TypeOK, DataOK, dbVars, slackVars, Leave, Finish, LeaveGraph
  <2>2. FrameOK'
    BY <1>4, LeaveFrame DEF PreflightBlocks, TypeOK, Finish, Release, LeaveGraph
  <2> QED BY <2>1, <2>2 DEF TypeOK, FrameOK, DataOK
<1>5. CASE InvokeGraph(t)
  <2>0. Trigger(t) \in Msg
    BY <1>5, TriggerType DEF InvokeGraph, LeaveGraph, Phases, BatchPhases, HandlerPhases,
       RunPhases, DrainPhases, ResumePhases
  <2>1. DataOK'
    BY <1>5, <2>0 DEF InvokeGraph, TypeOK, DataOK, dbVars, slackVars, Leave, Finish, LeaveGraph
  <2>2. FrameOK'
    BY <1>5, GotoFrame DEF InvokeGraph, TypeOK, Release, LeaveGraph, Phases, BatchPhases,
       HandlerPhases, RunPhases, DrainPhases, ResumePhases
  <2> QED BY <2>1, <2>2 DEF TypeOK, FrameOK, DataOK
<1>6. CASE GraphEnds(t)
  <2>0. Trigger(t) \in Msg
    BY <1>6, TriggerType DEF GraphEnds, LeaveGraph, Phases, BatchPhases, HandlerPhases,
       RunPhases, DrainPhases, ResumePhases
  <2>1. DataOK'
    BY <1>6, <2>0 DEF GraphEnds, TypeOK, DataOK, dbVars, slackVars, Leave, Finish, LeaveGraph
  <2>2. FrameOK'
    BY <1>6, GotoFrame DEF GraphEnds, TypeOK, Release, LeaveGraph, Phases, BatchPhases,
       HandlerPhases, RunPhases, DrainPhases, ResumePhases
  <2> QED BY <2>1, <2>2 DEF TypeOK, FrameOK, DataOK
<1>7. CASE GraphInterrupts(t)
  <2>0. Trigger(t) \in Msg
    BY <1>7, TriggerType DEF GraphInterrupts, LeaveGraph, Phases, BatchPhases, HandlerPhases,
       RunPhases, DrainPhases, ResumePhases
  <2>1. DataOK'
    BY <1>7, <2>0 DEF GraphInterrupts, TypeOK, DataOK, dbVars, slackVars, Leave, Finish, LeaveGraph
  <2>2. FrameOK'
    BY <1>7, GotoFrame DEF GraphInterrupts, TypeOK, Release, LeaveGraph, Phases, BatchPhases,
       HandlerPhases, RunPhases, DrainPhases, ResumePhases
  <2> QED BY <2>1, <2>2 DEF TypeOK, FrameOK, DataOK
<1>8. CASE GraphRaises(t)
  <2>1. DataOK'
    BY <1>8 DEF GraphRaises, TypeOK, DataOK, dbVars, slackVars, Leave, Finish, LeaveGraph
  <2>2. FrameOK'
    BY <1>8, LeaveFrame DEF GraphRaises, TypeOK, Finish, Release, LeaveGraph
  <2> QED BY <2>1, <2>2 DEF TypeOK, FrameOK, DataOK
<1>9. CASE ReleaseForGate(t)
  <2>1. DataOK'
    BY <1>9 DEF ReleaseForGate, TypeOK, DataOK, dbVars, slackVars, Leave, Finish, LeaveGraph
  <2>2. FrameOK'
    BY <1>9, GotoFrame DEF ReleaseForGate, TypeOK, Release, LeaveGraph, Phases, BatchPhases,
       HandlerPhases, RunPhases, DrainPhases, ResumePhases
  <2> QED BY <2>1, <2>2 DEF TypeOK, FrameOK, DataOK
<1>10. CASE PostGate(t)
  <2>0. Trigger(t) \in Msg
    BY <1>10, TriggerType DEF PostGate, LeaveGraph, Phases, BatchPhases, HandlerPhases,
       RunPhases, DrainPhases, ResumePhases
  <2>1. DataOK'
    <3>1. gate' \in [Msg -> {"none", "approval", "connect"}]
      BY <1>10, <2>0 DEF PostGate, TypeOK
    <3> QED BY <1>10, <3>1 DEF PostGate, TypeOK, DataOK, dbVars
  <2>2. FrameOK'
    BY <1>10, LeaveFrame DEF PostGate, TypeOK, Finish, Release, LeaveGraph
  <2> QED BY <2>1, <2>2 DEF TypeOK, FrameOK, DataOK
<1>11. CASE Reply(t)
  <2>1. DataOK'
    BY <1>11 DEF Reply, TypeOK, DataOK, dbVars, slackVars, Leave, Finish, LeaveGraph
  <2>2. FrameOK'
    BY <1>11, GotoFrame DEF Reply, TypeOK, Release, LeaveGraph, Phases, BatchPhases,
       HandlerPhases, RunPhases, DrainPhases, ResumePhases
  <2> QED BY <2>1, <2>2 DEF TypeOK, FrameOK, DataOK
<1>12. CASE ReplyRaises(t)
  <2>1. DataOK'
    BY <1>12 DEF ReplyRaises, TypeOK, DataOK, dbVars, slackVars, Leave, Finish, LeaveGraph
  <2>2. FrameOK'
    BY <1>12, LeaveFrame DEF ReplyRaises, TypeOK, Finish, Release, LeaveGraph
  <2> QED BY <2>1, <2>2 DEF TypeOK, FrameOK, DataOK
<1>13. CASE ReleaseAndSchedule(t)
  <2>1. DataOK'
    BY <1>13 DEF ReleaseAndSchedule, TypeOK, DataOK, dbVars, slackVars, Leave, Finish, LeaveGraph
  <2>2. FrameOK'
    BY <1>13 DEF ReleaseAndSchedule, TypeOK, FrameOK, Goto, Release, dbVars, Phases,
       BatchPhases, HandlerPhases, RunPhases, DrainPhases, ResumePhases
  <2> QED BY <2>1, <2>2 DEF TypeOK, FrameOK, DataOK
<1> QED BY <1>1, <1>2, <1>3, <1>4, <1>5, <1>6, <1>7, <1>8, <1>9, <1>10, <1>11, <1>12,
           <1>13 DEF RunStep

LEMMA TypeDrainStep ==
    ASSUME ConstantsAssumption, TypeOK, NEW t \in Task, DrainStep(t)
    PROVE  TypeOK'
<1>1. CASE DebounceAcquire(t)
  <2>1. DataOK'
    BY <1>1 DEF DebounceAcquire, TypeOK, DataOK, dbVars, slackVars, Leave, Finish, LeaveGraph
  <2>2. FrameOK'
    BY <1>1, GotoFrame DEF DebounceAcquire, TypeOK, Release, LeaveGraph, Phases, BatchPhases,
       HandlerPhases, RunPhases, DrainPhases, ResumePhases
  <2> QED BY <2>1, <2>2 DEF TypeOK, FrameOK, DataOK
<1>2. CASE DebounceGivesUp(t)
  <2>1. DataOK'
    BY <1>2 DEF DebounceGivesUp, TypeOK, DataOK, dbVars, slackVars, Leave, Finish, LeaveGraph
  <2>2. FrameOK'
    BY <1>2, LeaveFrame DEF DebounceGivesUp, TypeOK, Finish, Release, LeaveGraph
  <2> QED BY <2>1, <2>2 DEF TypeOK, FrameOK, DataOK
<1>3. CASE DebounceDrain(t)
  <2>1. DataOK'
    BY <1>3 DEF DebounceDrain, TypeOK, DataOK, dbVars, slackVars, Leave, Finish, LeaveGraph
  <2>2. FrameOK'
    BY <1>3 DEF DebounceDrain, TypeOK, FrameOK, Goto, Release, dbVars, Phases, BatchPhases,
       HandlerPhases, RunPhases, DrainPhases, ResumePhases
  <2> QED BY <2>1, <2>2 DEF TypeOK, FrameOK, DataOK
<1>4. CASE DebounceRaises(t)
  <2>1. DataOK'
    BY <1>4 DEF DebounceRaises, TypeOK, DataOK, dbVars, slackVars, Leave, Finish, LeaveGraph
  <2>2. FrameOK'
    BY <1>4, GotoFrame DEF DebounceRaises, TypeOK, Release, LeaveGraph, Phases, BatchPhases,
       HandlerPhases, RunPhases, DrainPhases, ResumePhases
  <2> QED BY <2>1, <2>2 DEF TypeOK, FrameOK, DataOK
<1>5. CASE DebounceRelease(t)
  <2>1. DataOK'
    BY <1>5 DEF DebounceRelease, TypeOK, DataOK, dbVars, slackVars, Leave, Finish, LeaveGraph
  <2>2. FrameOK'
    BY <1>5, LeaveFrame DEF DebounceRelease, TypeOK, Finish, Release, LeaveGraph
  <2> QED BY <2>1, <2>2 DEF TypeOK, FrameOK, DataOK
<1> QED BY <1>1, <1>2, <1>3, <1>4, <1>5 DEF DrainStep

LEMMA TypeResumeStep ==
    ASSUME ConstantsAssumption, TypeOK, NEW t \in Task, ResumeStep(t)
    PROVE  TypeOK'
<1>1. CASE Decide(t)
  <2>0. Trigger(t) \in Msg
    BY <1>1, TriggerType DEF Decide, LeaveGraph, Phases, BatchPhases, HandlerPhases,
       RunPhases, DrainPhases, ResumePhases
  <2>1. DataOK'
    BY <1>1, <2>0 DEF Decide, TypeOK, DataOK, dbVars, slackVars, Leave, Finish, LeaveGraph
  <2>2. FrameOK'
    BY <1>1, GotoFrame DEF Decide, TypeOK, Release, LeaveGraph, Phases, BatchPhases,
       HandlerPhases, RunPhases, DrainPhases, ResumePhases
  <2> QED BY <2>1, <2>2 DEF TypeOK, FrameOK, DataOK
<1>2. CASE ResumeCheck(t)
  <2>0. Trigger(t) \in Msg
    BY <1>2, TriggerType DEF ResumeCheck, LeaveGraph, Phases, BatchPhases, HandlerPhases,
       RunPhases, DrainPhases, ResumePhases
  <2>1. DataOK'
    BY <1>2, <2>0 DEF ResumeCheck, TypeOK, DataOK, dbVars, slackVars, Leave, Finish, LeaveGraph
  <2>2. FrameOK'
    BY <1>2, LeaveFrame, GotoFrame DEF ResumeCheck, TypeOK, Finish, Release, Phases,
       BatchPhases, HandlerPhases, RunPhases, DrainPhases, ResumePhases
  <2> QED BY <2>1, <2>2 DEF TypeOK, FrameOK, DataOK
<1>3. CASE ResumeInvoke(t)
  <2>0. Trigger(t) \in Msg
    BY <1>3, TriggerType DEF ResumeInvoke, LeaveGraph, Phases, BatchPhases, HandlerPhases,
       RunPhases, DrainPhases, ResumePhases
  <2>1. DataOK'
    BY <1>3, <2>0 DEF ResumeInvoke, TypeOK, DataOK, dbVars, slackVars, Leave, Finish, LeaveGraph
  <2>2. FrameOK'
    BY <1>3, GotoFrame DEF ResumeInvoke, TypeOK, Release, LeaveGraph, Phases, BatchPhases,
       HandlerPhases, RunPhases, DrainPhases, ResumePhases
  <2> QED BY <2>1, <2>2 DEF TypeOK, FrameOK, DataOK
<1> QED BY <1>1, <1>2, <1>3 DEF ResumeStep

\* A new task occupies one slot.
LEMMA StartFrame ==
    ASSUME TypeOK, ConstantsAssumption, NEW t \in Task, NEW w \in Worker,
           NEW m \in Msg, NEW unlocked \in BOOLEAN, NEW phase \in BatchPhases,
           Start(t, w, m, phase, unlocked), lock' = lock
    PROVE  FrameOK'
<1>1. phase \in Phases /\ phase # "free" /\ w # None
  BY DEF Phases, BatchPhases, HandlerPhases, RunPhases, ResumePhases, ConstantsAssumption
<1>2. <<m>> \in Seq(Msg) /\ <<m>> # <<>> /\ direct' \subseteq Task /\ lock' \in Task \cup {None}
  BY DEF Start, TypeOK
<1> QED BY <1>1, <1>2, OneSlot DEF Start, Goto

LEMMA TypeEnvironment ==
    ASSUME ConstantsAssumption, TypeOK, Environment
    PROVE  TypeOK'
<1> DEFINE Slots(t, w, m) == Deliver(t, w, m) \/ StartNudge(t, w, m)
                              \/ Click(t, w, m) \/ Connected(t, w, m)
<1>1. ASSUME NEW t \in Task, NEW w \in Worker, NEW m \in Msg, Slots(t, w, m)
      PROVE  TypeOK'
  <2>0. {"dedupe", "validate", "decide", "rcheck"} \subseteq BatchPhases
    BY DEF BatchPhases, HandlerPhases, RunPhases, ResumePhases
  <2>1. CASE Deliver(t, w, m)
    <3>1. DataOK'
      BY <2>1 DEF Deliver, TypeOK, DataOK, dbVars
    <3>2. FrameOK'
      BY <2>0, <2>1, StartFrame DEF Deliver
    <3> QED BY <3>1, <3>2 DEF TypeOK, FrameOK, DataOK
  <2>2. CASE StartNudge(t, w, m)
    <3>1. DataOK'
      BY <2>2 DEF StartNudge, TypeOK, DataOK, dbVars
    <3>2. FrameOK'
      BY <2>0, <2>2, StartFrame DEF StartNudge
    <3> QED BY <3>1, <3>2 DEF TypeOK, FrameOK, DataOK
  <2>3. CASE Click(t, w, m)
    <3>1. DataOK'
      BY <2>3 DEF Click, TypeOK, DataOK, dbVars
    <3>2. FrameOK'
      BY <2>0, <2>3, StartFrame DEF Click
    <3> QED BY <3>1, <3>2 DEF TypeOK, FrameOK, DataOK
  <2>4. CASE Connected(t, w, m)
    <3>1. DataOK'
      BY <2>4 DEF Connected, TypeOK, DataOK, dbVars
    <3>2. FrameOK'
      BY <2>0, <2>4, StartFrame DEF Connected
    <3> QED BY <3>1, <3>2 DEF TypeOK, FrameOK, DataOK
  <2> QED BY <1>1, <2>1, <2>2, <2>3, <2>4
<1>2. ASSUME NEW m \in Msg, ForgetEvent(m)
      PROVE  TypeOK'
  BY <1>2 DEF ForgetEvent, TypeOK, slackVars, frame
<1>3. ASSUME NEW t \in Task, CollectAbandoned(t)
      PROVE  TypeOK'
  <2>1. DataOK'
    BY <1>3 DEF CollectAbandoned, TypeOK, DataOK, dbVars, slackVars
  <2>2. FrameOK'
    BY <1>3, LeaveFrame DEF CollectAbandoned, TypeOK, Finish, Release
  <2> QED BY <2>1, <2>2 DEF TypeOK, FrameOK, DataOK
<1>4. ASSUME NEW w \in Worker, Crash(w)
      PROVE  TypeOK'
  <2>1. DataOK'
    BY <1>4 DEF Crash, TypeOK, DataOK, dbVars, slackVars
  <2>2. /\ lock' \in Task \cup {None}
        /\ pc' \in [Task -> Phases]
        /\ home' \in [Task -> Worker \cup {None}]
        /\ batch' \in [Task -> Seq(Msg)]
        /\ direct' \subseteq Task
    BY <1>4 DEF Crash, TypeOK, Phases
  <2>3. ASSUME NEW u \in Task PROVE SlotOK(u)'
    <3>1. "free" \notin BatchPhases
      BY DEF BatchPhases, HandlerPhases, RunPhases, ResumePhases
    <3>2. SlotOK(u)
      BY Zenon DEF TypeOK, SlotOK
    <3>3. CASE home[u] = w
      <4>1. pc'[u] = "free" /\ home'[u] = None /\ batch'[u] = <<>>
        BY <1>4, <3>3 DEF Crash
      <4> QED BY <3>1, <4>1, Zenon DEF SlotOK
    <3>4. CASE home[u] # w
      <4>1. pc'[u] = pc[u] /\ home'[u] = home[u] /\ batch'[u] = batch[u]
        BY <1>4, <3>4 DEF Crash
      <4> QED BY <3>2, <4>1, Zenon DEF SlotOK
    <3> QED BY <3>3, <3>4
  <2>4. FrameOK'
    BY <2>2, <2>3, Zenon DEF FrameOK, SlotOK
  <2> QED BY <2>1, <2>4 DEF TypeOK, FrameOK, DataOK
<1> QED BY <1>1, <1>2, <1>3, <1>4 DEF Environment

LEMMA TypeStep ==
    ASSUME ConstantsAssumption, TypeOK, [Next]_vars
    PROVE  TypeOK'
<1>1. CASE Environment
  BY <1>1, TypeEnvironment
<1>2. CASE \E t \in Task : TaskStep(t)
  <2>1. PICK t \in Task : TaskStep(t)
    BY <1>2
  <2> QED BY <2>1, TypeRouteStep, TypeRunStep, TypeDrainStep, TypeResumeStep DEF TaskStep
<1>3. CASE UNCHANGED vars
  BY <1>3 DEF vars, dbVars, slackVars, frame, TypeOK
<1> QED BY <1>1, <1>2, <1>3 DEF Next

LEMMA TypeInit ==
    ASSUME ConstantsAssumption, Init
    PROVE  TypeOK
<1>1. DataOK
  <2>1. inbox \in Seq(Msg)
    BY DEF Init
  <2>6. seen \subseteq Msg
    BY DEF Init
  <2>7. thread \in BOOLEAN
    BY DEF Init
  <2>2. saved \in [Msg -> Nat] /\ deliveries \in [Msg -> Nat] /\ resumes \in Nat
          /\ crashes \in Nat
    BY DEF Init
  <2>3. checkpoint \in [Msg -> {"none", "open", "done"}]
    BY DEF Init
  <2>4. gate \in [Msg -> {"none", "approval", "connect"}]
    BY DEF Init
  <2>5. active \in [Worker -> Msg \cup {None}]
    BY DEF Init
  <2> QED BY <2>1, <2>2, <2>3, <2>4, <2>5, <2>6, <2>7, Zenon DEF DataOK
<1>2. /\ lock \in Task \cup {None}
      /\ pc \in [Task -> Phases]
      /\ home \in [Task -> Worker \cup {None}]
      /\ batch \in [Task -> Seq(Msg)]
      /\ direct \subseteq Task
  BY DEF Init, Phases
<1>3. ASSUME NEW t \in Task PROVE SlotOK(t)
  <2>1. pc[t] = "free" /\ home[t] = None /\ batch[t] = <<>>
    BY DEF Init
  <2>2. "free" \notin BatchPhases
    BY DEF BatchPhases, HandlerPhases, RunPhases, ResumePhases
  <2> QED BY <2>1, <2>2, Zenon DEF SlotOK
<1>4. FrameOK
  BY <1>2, <1>3, Zenon DEF FrameOK, SlotOK
<1> QED BY <1>1, <1>4 DEF TypeOK, FrameOK, DataOK

\* Every reachable state is well formed: rows and task slots have the shape the
\* code gives them, and no run is ever started or resumed with nothing to
\* answer (TypeOK, run_agent and _debounce_drain).
THEOREM TypeCorrect == Spec => []TypeOK
<1>1. Init => TypeOK
  BY TypeInit, ConstantsAssumption
<1>2. TypeOK /\ [Next]_vars => TypeOK'
  BY TypeStep, ConstantsAssumption
<1> QED BY <1>1, <1>2, PTL DEF Spec

-----------------------------------------------------------------------------
\* Tasks without a handle are runs, resumes or gates being posted; this is
\* what makes LockMatchesPhase inductive.
DirectPhases == RunPhases \cup ResumePhases \cup {"post"}

LockInv ==
    /\ LockMatchesPhase
    /\ \A t \in direct : pc[t] \in DirectPhases
    /\ \A t \in Task : pc[t] \in ResumePhases => t \in direct

\* LockInv, slot by slot.
LEMMA LockOneSlot ==
    ASSUME TypeOK, LockInv, NEW t \in Task, NEW phase \in Phases,
           Goto(t, phase),
           direct' \subseteq Task,
           \A u \in Task \ {t} : /\ u \in direct' <=> u \in direct
                                 /\ lock' = u <=> lock = u,
           lock' = t <=> phase \in LockedPhases /\ t \notin direct',
           t \in direct' => phase \in DirectPhases,
           phase \in ResumePhases => t \in direct'
    PROVE  LockInv'
<1>1. pc'[t] = phase /\ \A u \in Task \ {t} : pc'[u] = pc[u]
  BY DEF TypeOK, Goto
<1>2. ASSUME NEW u \in Task
      PROVE  lock' = u <=> pc'[u] \in LockedPhases /\ u \notin direct'
  <2>1. CASE u = t
    BY <1>1, <2>1
  <2>2. CASE u # t
    BY <1>1, <2>2, Zenon DEF LockInv, LockMatchesPhase
  <2> QED BY <2>1, <2>2
<1>3. ASSUME NEW u \in direct'
      PROVE  pc'[u] \in DirectPhases
  <2>1. CASE u = t
    BY <1>1, <2>1
  <2>2. CASE u # t
    BY <1>1, <1>3, <2>2, Zenon DEF LockInv
  <2> QED BY <2>1, <2>2
<1>4. ASSUME NEW u \in Task, pc'[u] \in ResumePhases
      PROVE  u \in direct'
  <2>1. CASE u = t
    BY <1>1, <1>4, <2>1
  <2>2. CASE u # t
    BY <1>1, <1>4, <2>2, Zenon DEF LockInv
  <2> QED BY <2>1, <2>2
<1> QED BY <1>2, <1>3, <1>4, Zenon DEF LockInv, LockMatchesPhase

\* A task's phase says whether it may be without a handle.
LEMMA NotDirect ==
    ASSUME LockInv, NEW t \in Task,
           pc[t] \in HandlerPhases \cup {"free", "drain", "ddrain", "dwait"}
    PROVE  t \notin direct
  BY DEF LockInv, DirectPhases, HandlerPhases, RunPhases, ResumePhases

LEMMA LockRouteStep ==
    ASSUME ConstantsAssumption, TypeOK, LockInv, NEW t \in Task, RouteStep(t)
    PROVE  LockInv'
<1> USE DEF LockInv, LockMatchesPhase, TypeOK, LockedPhases, DirectPhases,
            RunPhases, DrainPhases, ResumePhases, Goto
<1>1. CASE Dedupe(t)
  <2>1. pc[t] = "dedupe" /\ lock' = lock /\ t \notin direct
    BY <1>1, NotDirect DEF Dedupe, HandlerPhases
  <2>2. /\ Goto(t, "free") \/ Goto(t, "acquire")
        /\ direct' = direct \/ direct' = direct \ {t}
    BY <1>1 DEF Dedupe, Leave, frame
  <2>3. "free" \in Phases /\ "acquire" \in Phases
    BY DEF Phases, HandlerPhases
  <2>4. {"dedupe", "free", "acquire"} \cap LockedPhases = {}
    BY DEF LockedPhases, RunPhases, DrainPhases
  <2>5. lock # t
    BY <2>1, <2>4, Zenon DEF LockInv, LockMatchesPhase
  <2>6. t \notin direct' /\ direct' \subseteq Task
          /\ \A u \in Task \ {t} : u \in direct' <=> u \in direct
    BY <2>1, <2>2
  <2>7. CASE Goto(t, "free")
    BY <2>1, <2>3, <2>4, <2>5, <2>6, <2>7, LockOneSlot
  <2>8. CASE Goto(t, "acquire")
    BY <2>1, <2>3, <2>4, <2>5, <2>6, <2>8, LockOneSlot
  <2> QED BY <2>2, <2>7, <2>8
<1>2. CASE Acquire(t)
  <2>1. Goto(t, "drain") /\ "drain" \in Phases /\ lock = None /\ lock' = t
          /\ direct' = direct /\ t \notin direct
    BY <1>2, NotDirect DEF Acquire, HandlerPhases, Phases, frame
  <2> QED BY <2>1, LockOneSlot DEF ConstantsAssumption
<1>3. CASE AcquireFails(t)
  BY <1>3 DEF AcquireFails, ConstantsAssumption, Leave, Finish, Release, frame, LeaveGraph
<1>4. CASE RespondWithStatus(t)
  BY <1>4 DEF RespondWithStatus, ConstantsAssumption, Leave, Finish, Release, frame, LeaveGraph
<1>5. CASE Enqueue(t)
  BY <1>5 DEF Enqueue, ConstantsAssumption, Leave, Finish, Release, frame, LeaveGraph
<1>6. CASE DrainAndRun(t)
  BY <1>6 DEF DrainAndRun, ConstantsAssumption, Leave, Finish, Release, frame, LeaveGraph
<1>7. CASE DrainRaises(t)
  BY <1>7 DEF DrainRaises, ConstantsAssumption, Leave, Finish, Release, frame, LeaveGraph
<1> QED BY <1>1, <1>2, <1>3, <1>4, <1>5, <1>6, <1>7 DEF RouteStep

LEMMA LockRunStep ==
    ASSUME ConstantsAssumption, TypeOK, LockInv, NEW t \in Task, RunStep(t)
    PROVE  LockInv'
<1> USE DEF LockInv, LockMatchesPhase, TypeOK, LockedPhases, DirectPhases,
            RunPhases, DrainPhases, ResumePhases, Goto
<1>1. CASE Validate(t)
  <2>0. pc[t] = "validate" /\ {"free", "persist"} \subseteq Phases
    BY <1>1 DEF Validate, Phases
  <2>1. CASE Finish(t)
    <3>1. Goto(t, "free") /\ direct' = direct \ {t} /\ lock' # t
            /\ \A u \in Task \ {t} : lock' = u <=> lock = u
      BY <2>1 DEF Finish, Leave, Release, ConstantsAssumption
    <3> QED BY <2>0, <3>1, LockOneSlot
  <2>2. CASE Goto(t, "persist") /\ UNCHANGED <<lock, frame>>
    BY <2>0, <2>2, LockOneSlot DEF frame
  <2> QED BY <1>1, <2>1, <2>2 DEF Validate
<1>2. CASE Persist(t)
  BY <1>2 DEF Persist, ConstantsAssumption, Leave, Finish, Release, frame, LeaveGraph
<1>3. CASE PersistRaises(t)
  BY <1>3 DEF PersistRaises, ConstantsAssumption, Leave, Finish, Release, frame, LeaveGraph
<1>4. CASE PreflightBlocks(t)
  BY <1>4 DEF PreflightBlocks, ConstantsAssumption, Leave, Finish, Release, frame, LeaveGraph
<1>5. CASE InvokeGraph(t)
  BY <1>5 DEF InvokeGraph, ConstantsAssumption, Leave, Finish, Release, frame, LeaveGraph
<1>6. CASE GraphEnds(t)
  BY <1>6 DEF GraphEnds, ConstantsAssumption, Leave, Finish, Release, frame, LeaveGraph
<1>7. CASE GraphInterrupts(t)
  BY <1>7 DEF GraphInterrupts, ConstantsAssumption, Leave, Finish, Release, frame, LeaveGraph
<1>8. CASE GraphRaises(t)
  BY <1>8 DEF GraphRaises, ConstantsAssumption, Leave, Finish, Release, frame, LeaveGraph
<1>9. CASE ReleaseForGate(t)
  BY <1>9 DEF ReleaseForGate, ConstantsAssumption, Leave, Finish, Release, frame, LeaveGraph
<1>10. CASE PostGate(t)
  BY <1>10 DEF PostGate, ConstantsAssumption, Leave, Finish, Release, frame, LeaveGraph
<1>11. CASE Reply(t)
  BY <1>11 DEF Reply, ConstantsAssumption, Leave, Finish, Release, frame, LeaveGraph
<1>12. CASE ReplyRaises(t)
  BY <1>12 DEF ReplyRaises, ConstantsAssumption, Leave, Finish, Release, frame, LeaveGraph
<1>13. CASE ReleaseAndSchedule(t)
  BY <1>13 DEF ReleaseAndSchedule, ConstantsAssumption, Leave, Finish, Release, frame, LeaveGraph
<1> QED BY <1>1, <1>2, <1>3, <1>4, <1>5, <1>6, <1>7, <1>8, <1>9, <1>10, <1>11, <1>12,
           <1>13 DEF RunStep

LEMMA LockDrainStep ==
    ASSUME ConstantsAssumption, TypeOK, LockInv, NEW t \in Task, DrainStep(t)
    PROVE  LockInv'
<1> USE DEF LockInv, LockMatchesPhase, TypeOK, LockedPhases, DirectPhases,
            RunPhases, DrainPhases, ResumePhases, Goto
<1>1. CASE DebounceAcquire(t)
  <2>1. Goto(t, "ddrain") /\ "ddrain" \in Phases /\ lock = None /\ lock' = t
          /\ direct' = direct /\ t \notin direct
    BY <1>1, NotDirect DEF DebounceAcquire, Phases, DrainPhases, frame
  <2> QED BY <2>1, LockOneSlot DEF ConstantsAssumption
<1>2. CASE DebounceGivesUp(t)
  BY <1>2 DEF DebounceGivesUp, ConstantsAssumption, Leave, Finish, Release, frame, LeaveGraph
<1>3. CASE DebounceDrain(t)
  BY <1>3 DEF DebounceDrain, ConstantsAssumption, Leave, Finish, Release, frame, LeaveGraph
<1>4. CASE DebounceRaises(t)
  BY <1>4 DEF DebounceRaises, ConstantsAssumption, Leave, Finish, Release, frame, LeaveGraph
<1>5. CASE DebounceRelease(t)
  BY <1>5 DEF DebounceRelease, ConstantsAssumption, Leave, Finish, Release, frame, LeaveGraph
<1> QED BY <1>1, <1>2, <1>3, <1>4, <1>5 DEF DrainStep

LEMMA LockResumeStep ==
    ASSUME ConstantsAssumption, TypeOK, LockInv, NEW t \in Task, ResumeStep(t)
    PROVE  LockInv'
<1> USE DEF LockInv, LockMatchesPhase, TypeOK, LockedPhases, DirectPhases,
            RunPhases, DrainPhases, ResumePhases, Goto
<1>1. CASE Decide(t)
  BY <1>1 DEF Decide, ConstantsAssumption, Leave, Finish, Release, frame, LeaveGraph
<1>2. CASE ResumeCheck(t)
  <2>1. pc[t] = "rcheck" /\ lock' = lock /\ {"free", "restart"} \subseteq Phases
    BY <1>2 DEF ResumeCheck, Phases
  <2>2. CASE Goto(t, "restart") /\ UNCHANGED frame
    BY <2>1, <2>2, LockOneSlot DEF frame
  <2>3. CASE Leave(t)
    BY <2>1, <2>3, LockOneSlot DEF Leave
  <2> QED BY <1>2, <2>2, <2>3 DEF ResumeCheck
<1>3. CASE ResumeInvoke(t)
  <2>1. /\ pc[t] = "restart" /\ lock' = lock /\ direct' = direct
        /\ {"graph", "reply"} \subseteq Phases
        /\ Goto(t, "graph") \/ Goto(t, "reply")
    BY <1>3 DEF ResumeInvoke, Phases, frame
  <2>2. lock # t /\ t \in direct'
    BY <2>1
  <2>3. CASE Goto(t, "graph")
    BY <2>1, <2>2, <2>3, LockOneSlot
  <2>4. CASE Goto(t, "reply")
    BY <2>1, <2>2, <2>4, LockOneSlot
  <2> QED BY <2>1, <2>3, <2>4
<1> QED BY <1>1, <1>2, <1>3 DEF ResumeStep

LEMMA LockEnvironment ==
    ASSUME ConstantsAssumption, TypeOK, LockInv, Environment
    PROVE  LockInv'
<1> USE DEF LockInv, LockMatchesPhase, TypeOK, LockedPhases, DirectPhases,
            RunPhases, DrainPhases, ResumePhases, Goto
<1>1. ASSUME NEW t \in Task, NEW w \in Worker, NEW m \in Msg,
             \/ Deliver(t, w, m) \/ StartNudge(t, w, m)
             \/ Click(t, w, m) \/ Connected(t, w, m)
      PROVE  LockInv'
  <2>0. ASSUME NEW phase \in {"dedupe", "validate", "decide", "rcheck"},
               NEW unlocked \in BOOLEAN,
               Start(t, w, m, phase, unlocked), lock' = lock,
               unlocked <=> phase # "dedupe"
        PROVE  LockInv'
    <3>1. phase \in Phases /\ pc[t] = "free" /\ Goto(t, phase)
      BY <2>0 DEF Start, Phases, HandlerPhases
    <3>2. lock # t /\ t \notin direct
      BY <3>1, NotDirect
    <3>3. CASE phase = "dedupe"
      BY <2>0, <3>1, <3>2, <3>3, LockOneSlot DEF Start
    <3>4. CASE phase # "dedupe"
      <4>1. direct' = direct \cup {t}
        BY <2>0, <3>4 DEF Start
      <4> QED BY <2>0, <3>1, <3>2, <3>4, <4>1, LockOneSlot
    <3> QED BY <3>3, <3>4
  <2>1. CASE Deliver(t, w, m)
    BY <2>0, <2>1 DEF Deliver
  <2>2. CASE StartNudge(t, w, m)
    BY <2>0, <2>2 DEF StartNudge
  <2>3. CASE Click(t, w, m)
    BY <2>0, <2>3 DEF Click
  <2>4. CASE Connected(t, w, m)
    BY <2>0, <2>4 DEF Connected
  <2> QED BY <1>1, <2>1, <2>2, <2>3, <2>4
<1>2. ASSUME NEW m \in Msg, ForgetEvent(m)
      PROVE  LockInv'
  BY <1>2 DEF ForgetEvent, frame
<1>3. ASSUME NEW t \in Task, CollectAbandoned(t)
      PROVE  LockInv'
  BY <1>3 DEF CollectAbandoned, ConstantsAssumption, Finish, Leave, Release
<1>4. ASSUME NEW w \in Worker, Crash(w)
      PROVE  LockInv'
  BY <1>4 DEF Crash, ConstantsAssumption
<1> QED BY <1>1, <1>2, <1>3, <1>4 DEF Environment

LEMMA LockStep ==
    ASSUME ConstantsAssumption, TypeOK, LockInv, [Next]_vars
    PROVE  LockInv'
<1>1. CASE Environment
  BY <1>1, LockEnvironment
<1>2. CASE \E t \in Task : TaskStep(t)
  <2>1. PICK t \in Task : TaskStep(t)
    BY <1>2
  <2> QED BY <2>1, LockRouteStep, LockRunStep, LockDrainStep, LockResumeStep DEF TaskStep
<1>3. CASE UNCHANGED vars
  BY <1>3 DEF vars, frame, LockInv, LockMatchesPhase
<1> QED BY <1>1, <1>2, <1>3 DEF Next

\* The thread mutex is never leaked and never overrun: it is held exactly by
\* the task that still owes the release, on every path out of run_agent,
\* _drive and _debounce_drain, and across crashes (LockMatchesPhase).
THEOREM LockNeverLeaks == Spec => []LockMatchesPhase
<1>1. Init => LockInv
  BY ConstantsAssumption DEF Init, LockInv, LockMatchesPhase, ConstantsAssumption,
     LockedPhases, RunPhases, DrainPhases, ResumePhases
<1>2. TypeOK /\ LockInv /\ [Next]_vars => LockInv'
  BY LockStep, ConstantsAssumption
<1>3. LockInv => LockMatchesPhase
  BY DEF LockInv
<1> QED BY <1>1, <1>2, <1>3, TypeCorrect, PTL DEF Spec

\* Two runs that came through the mutex are never in flight together.
THEOREM LockedRunsExclude == Spec => []OneLockedRun
<1>1. LockMatchesPhase => OneLockedRun
  BY DEF LockMatchesPhase, OneLockedRun, LockedPhases
<1> QED BY <1>1, LockNeverLeaks, PTL
-----------------------------------------------------------------------------
\* The messages of the sequences the routing builds.
LEMMA ElemsOne ==
    ASSUME NEW m
    PROVE  Elems(<<>>) = {} /\ Elems(<<m>>) = {m}
  BY DEF Elems

LEMMA ElemsAppend ==
    ASSUME NEW s \in Seq(Msg), NEW m \in Msg
    PROVE  Elems(Append(s, m)) = Elems(s) \cup {m}
<1>1. ASSUME NEW i \in DOMAIN Append(s, m)
      PROVE  Append(s, m)[i] \in Elems(s) \cup {m}
  BY DEF Elems
<1>2. ASSUME NEW i \in DOMAIN s
      PROVE  s[i] \in Elems(Append(s, m))
  <2>1. i \in DOMAIN Append(s, m) /\ Append(s, m)[i] = s[i]
    OBVIOUS
  <2> QED BY <2>1 DEF Elems
<1>3. m \in Elems(Append(s, m))
  <2>1. Len(s) + 1 \in DOMAIN Append(s, m) /\ Append(s, m)[Len(s) + 1] = m
    OBVIOUS
  <2> QED BY <2>1 DEF Elems
<1> QED BY <1>1, <1>2, <1>3 DEF Elems

LEMMA ElemsConcat ==
    ASSUME NEW s \in Seq(Msg), NEW u \in Seq(Msg)
    PROVE  Elems(s \o u) = Elems(s) \cup Elems(u)
<1>1. ASSUME NEW i \in DOMAIN (s \o u)
      PROVE  (s \o u)[i] \in Elems(s) \cup Elems(u)
  BY DEF Elems
<1>2. ASSUME NEW i \in DOMAIN s
      PROVE  s[i] \in Elems(s \o u)
  BY DEF Elems
<1>3. ASSUME NEW i \in DOMAIN u
      PROVE  u[i] \in Elems(s \o u)
  <2>1. Len(s) + i \in DOMAIN (s \o u) /\ (s \o u)[Len(s) + i] = u[i]
    OBVIOUS
  <2> QED BY <2>1 DEF Elems
<1> QED BY <1>1, <1>2, <1>3 DEF Elems

LEMMA ElemsType ==
    ASSUME NEW s \in Seq(Msg)
    PROVE  Elems(s) \subseteq Msg
  BY DEF Elems

\* A handler has one message in hand until the drain, and it is not a nudge.
HandlerInv ==
    \A t \in Task : pc[t] \in {"dedupe", "acquire", "enqueue"} =>
        Elems(batch[t]) = {Trigger(t)} /\ Kind[Trigger(t)] # "nudge"

PlaceInv == OnePlace /\ AtMostOnce /\ HandlerInv

\* The fate of a message, read off the place where it is.
FateFacts ==
    \A m \in Msg :
        /\ Fate(m) = "saved" <=> saved[m] > 0
        /\ Fate(m) = "queued" <=> m \in Elems(inbox)
        /\ Fate(m) = "carried" <=> \E t \in Task : m \in Carried(t)
        /\ Fate(m) = "unseen" <=> ~Known(m)
        /\ Fate(m) \in Promise!Fates

\* In one place at a time, the cases of Fate exclude each other.
LEMMA FateIs == saved \in [Msg -> Nat] /\ PlaceInv => FateFacts
<1> SUFFICES ASSUME saved \in [Msg -> Nat], PlaceInv, NEW m \in Msg
             PROVE  /\ Fate(m) = "saved" <=> saved[m] > 0
                    /\ Fate(m) = "queued" <=> m \in Elems(inbox)
                    /\ Fate(m) = "carried" <=> \E t \in Task : m \in Carried(t)
                    /\ Fate(m) = "unseen" <=> ~Known(m)
                    /\ Fate(m) \in Promise!Fates
  BY DEF FateFacts
<1>1. saved[m] \in Nat /\ (saved[m] > 0 <=> saved[m] # 0)
  OBVIOUS
<1>2. saved[m] > 0 => Known(m) /\ m \notin Elems(inbox)
                        /\ ~ \E t \in Task : m \in Carried(t)
  BY <1>1 DEF PlaceInv, OnePlace
<1>3. m \in Elems(inbox) => Known(m) /\ ~ \E t \in Task : m \in Carried(t)
  BY DEF PlaceInv, OnePlace
<1>4. (\E t \in Task : m \in Carried(t)) => Known(m)
  BY DEF PlaceInv, OnePlace
<1> DEFINE p == saved[m] > 0
           q == m \in Elems(inbox)
           c == \E t \in Task : m \in Carried(t)
           k == Known(m)
<1>5. Fate(m) = CASE p -> "saved" [] q -> "queued" [] c -> "carried"
                  [] OTHER -> IF k THEN "gone" ELSE "unseen"
  BY DEF Fate
<1>6. (p => k /\ ~q /\ ~c) /\ (q => k /\ ~c) /\ (c => k)
  BY <1>2, <1>3, <1>4
<1> HIDE DEF p, q, c, k
<1>7. /\ Fate(m) = "saved" <=> p
      /\ Fate(m) = "queued" <=> q
      /\ Fate(m) = "carried" <=> c
      /\ Fate(m) = "unseen" <=> ~k
      /\ Fate(m) \in {"unseen", "carried", "queued", "saved", "gone"}
  BY <1>5, <1>6
<1> QED BY <1>7 DEF p, q, c, k, Promise!Fates

LEMMA FateIsNext == (saved \in [Msg -> Nat])' /\ PlaceInv' => FateFacts'
BY FateIs, PTL

FateStep == Promise!Next

\* What is let in, queued and persisted by nobody may only get lost.
LEMMA FateDrops ==
    ASSUME saved \in [Msg -> Nat], PlaceInv, PlaceInv',
           saved' = saved,
           Elems(inbox)' = Elems(inbox),
           \A u \in Task : Carried(u)' \subseteq Carried(u),
           \A m \in Msg : Known(m) => Known(m)'
    PROVE  FateStep
<1>1. FateFacts /\ FateFacts'
  BY FateIs, FateIsNext
<1> DEFINE f == [m \in Msg |-> Fate(m)]
           S == {m \in Msg : Fate(m)' # Fate(m)}
<1>2. ASSUME NEW m \in S
      PROVE  Fate(m) \in {"unseen", "carried"} /\ Fate(m)' = "gone"
  BY <1>1 DEF FateFacts, Promise!Fates
<1>3. S \in SUBSET {m \in Msg : f[m] \in {"unseen", "carried"}}
  BY <1>2
<1>4. f' = [m \in Msg |-> IF m \in S THEN "gone" ELSE f[m]]
  BY <1>2
<1>5. Promise!Drop
  BY <1>3, <1>4 DEF Promise!Drop
<1> QED BY <1>5 DEF FateStep, Promise!Next

\* A message that stays where it is keeps its fate.
LEMMA FateSame ==
    ASSUME FateFacts, FateFacts', NEW m \in Msg,
           saved'[m] = saved[m],
           m \in Elems(inbox)' <=> m \in Elems(inbox),
           (\E t \in Task : m \in Carried(t)') <=> (\E t \in Task : m \in Carried(t)),
           Known(m)' <=> Known(m)
    PROVE  Fate(m)' = Fate(m)
BY DEF FateFacts, Promise!Fates

\* Messages that all go the same way, while the others stay.
LEMMA FateMoves ==
    ASSUME NEW S \in SUBSET Msg, NEW from, NEW to,
           \A m \in S : Fate(m) = from /\ Fate(m)' = to,
           \A m \in Msg \ S : Fate(m)' = Fate(m)
    PROVE  Promise!Move(S, from, to)
BY DEF Promise!Move

\* A message that is let in: a task carries it, and the others stay.
LEMMA FateLetsIn ==
    ASSUME TypeOK, PlaceInv, PlaceInv', NEW t \in Task, NEW m \in Msg,
           ~Known(m), Known(m)',
           UNCHANGED <<saved, inbox>>,
           Carried(t)' = Carried(t) \cup {m},
           \A u \in Task \ {t} : Carried(u)' = Carried(u),
           \A n \in Msg \ {m} : Known(n)' <=> Known(n)
    PROVE  Promise!LetIn(m)
<1>1. FateFacts /\ FateFacts'
  BY FateIs, FateIsNext DEF TypeOK
<1>2. Fate(m) = "unseen" /\ Fate(m)' = "carried"
  BY <1>1 DEF FateFacts
<1>3. ASSUME NEW n \in Msg \ {m} PROVE Fate(n)' = Fate(n)
  <2>1. (\E u \in Task : n \in Carried(u)') <=> (\E u \in Task : n \in Carried(u))
    OBVIOUS
  <2> QED BY <1>1, <2>1, FateSame
<1>4. Promise!Move({m}, "unseen", "carried")
  BY <1>2, <1>3, FateMoves
<1> QED BY <1>4 DEF Promise!LetIn

\* A step that lets in, queues and persists nothing only moves messages along:
\* every place keeps at most what it had, and what was let in stays known.
LEMMA PlaceStable ==
    ASSUME PlaceInv, TypeOK,
           saved' = saved,
           Elems(inbox)' = Elems(inbox),
           \A u \in Task : Carried(u)' \subseteq Carried(u),
           \A m \in Msg : Known(m) => Known(m)',
           HandlerInv'
    PROVE  PlaceInv' /\ FateStep
<1>1. ASSUME NEW m \in Msg, saved'[m] > 0 PROVE Known(m)'
  BY <1>1 DEF PlaceInv, OnePlace
<1>2. ASSUME NEW m \in Elems(inbox') PROVE Known(m)' /\ saved'[m] = 0
  <2>1. m \in Elems(inbox) /\ m \in Msg
    BY <1>2, ElemsType DEF TypeOK
  <2> QED BY <2>1 DEF PlaceInv, OnePlace
<1>3. ASSUME NEW u \in Task, NEW m \in Carried(u)'
      PROVE  /\ Known(m)' /\ saved'[m] = 0 /\ m \notin Elems(inbox')
             /\ \A v \in Task \ {u} : m \notin Carried(v)'
  <2>1. m \in Carried(u)
    BY <1>3
  <2>2. m \in Msg
    BY <2>1, ElemsType DEF Carried, TypeOK
  <2> QED BY <2>1, <2>2 DEF PlaceInv, OnePlace
<1>4. OnePlace'
  BY <1>1, <1>2, <1>3, Zenon DEF OnePlace
<1>5. AtMostOnce'
  BY DEF PlaceInv, AtMostOnce
<1>6. PlaceInv'
  BY <1>4, <1>5 DEF PlaceInv
<1>7. saved \in [Msg -> Nat]
  BY DEF TypeOK
<1> QED BY <1>6, <1>7, FateDrops

\* A step of one task that leaves the dedupe rows alone and starts no handler
\* keeps what is known, and the handlers' messages.
LEMMA KnownStable ==
    ASSUME TypeOK, HandlerInv, NEW t \in Task, NEW phase \in Phases \ {"dedupe"},
           NEW s \in Seq(Msg),
           Goto(t, phase),
           batch' = [batch EXCEPT ![t] = s],
           deliveries' = deliveries,
           seen \subseteq seen',
           \/ phase \notin {"acquire", "enqueue"}
           \/ s = batch[t] /\ pc[t] \in {"dedupe", "acquire"}
    PROVE  /\ \A m \in Msg : Known(m) => Known(m)'
           /\ pc[t] # "dedupe" /\ seen' = seen => \A m \in Msg : Known(m)' => Known(m)
           /\ HandlerInv'
           /\ \A u \in Task \ {t} : Carried(u)' = Carried(u)
<1>1. /\ pc'[t] = phase /\ batch'[t] = s
      /\ \A u \in Task \ {t} : pc'[u] = pc[u] /\ batch'[u] = batch[u]
  BY DEF TypeOK, Goto
<1>2. \A u \in Task \ {t} : Trigger(u)' = Trigger(u)
  BY <1>1 DEF Trigger
<1>3. ASSUME NEW m \in Msg, Known(m) PROVE Known(m)'
  BY <1>1, <1>2, <1>3 DEF Known
<1>4. ASSUME NEW u \in Task, pc'[u] \in {"dedupe", "acquire", "enqueue"}
      PROVE  Elems(batch'[u]) = {Trigger(u)'} /\ Kind[Trigger(u)'] # "nudge"
  <2>1. CASE u = t
    <3>1. batch'[t] = batch[t] /\ pc[t] \in {"dedupe", "acquire"}
      BY <1>1, <1>4, <2>1
    <3>2. Trigger(t)' = Trigger(t)
      BY <3>1 DEF Trigger
    <3> QED BY <2>1, <3>1, <3>2 DEF HandlerInv
  <2>2. CASE u # t
    BY <1>1, <1>2, <1>4, <2>2 DEF HandlerInv
  <2> QED BY <2>1, <2>2
<1>5. \A u \in Task \ {t} : Carried(u)' = Carried(u)
  BY <1>1 DEF Carried
<1>6. ASSUME pc[t] # "dedupe", seen' = seen, NEW m \in Msg, Known(m)'
      PROVE  Known(m)
  BY <1>1, <1>2, <1>6 DEF Known
<1> QED BY <1>3, <1>4, <1>5, <1>6, Zenon DEF HandlerInv

\* The common case: the task moves on with the messages it has, or drops them.
LEMMA PlaceMove ==
    ASSUME TypeOK, PlaceInv, NEW t \in Task, NEW phase \in Phases \ {"dedupe"},
           NEW s \in Seq(Msg),
           Goto(t, phase),
           batch' = [batch EXCEPT ![t] = s],
           UNCHANGED <<deliveries, seen, saved, inbox>>,
           \/ phase \notin CarryPhases
           \/ s = batch[t] /\ pc[t] \in CarryPhases,
           phase # "acquire",
           phase = "enqueue" => pc[t] = "acquire"
    PROVE  PlaceInv' /\ FateStep
<1>1. HandlerInv
  BY DEF PlaceInv
<1>2. {"acquire", "enqueue"} \subseteq CarryPhases /\ "acquire" \in CarryPhases
  BY DEF CarryPhases
<1>3. /\ \A m \in Msg : Known(m) => Known(m)'
      /\ HandlerInv'
      /\ \A u \in Task \ {t} : Carried(u)' = Carried(u)
  BY <1>1, <1>2, KnownStable
<1>4. pc'[t] = phase /\ batch'[t] = s
  BY DEF TypeOK, Goto
<1>5. Carried(t)' \subseteq Carried(t)
  BY <1>4 DEF Carried
<1>6. Elems(inbox)' = Elems(inbox)
  BY DEF Elems
<1> QED BY <1>3, <1>5, <1>6, PlaceStable

LEMMA PlaceLeave ==
    ASSUME TypeOK, PlaceInv, NEW t \in Task, Leave(t),
           UNCHANGED <<deliveries, seen, saved, inbox>>
    PROVE  PlaceInv' /\ FateStep
<1>1. "free" \in Phases \ {"dedupe"} /\ "free" \notin CarryPhases /\ <<>> \in Seq(Msg)
  BY DEF Phases, CarryPhases
<1> QED BY <1>1, PlaceMove DEF Leave

LEMMA PlaceGoto ==
    ASSUME TypeOK, PlaceInv, NEW t \in Task,
           NEW phase \in Phases \ {"dedupe", "acquire"},
           Goto(t, phase), UNCHANGED <<deliveries, seen, saved, inbox, batch>>,
           phase \in CarryPhases => pc[t] \in CarryPhases,
           phase = "enqueue" => pc[t] = "acquire"
    PROVE  PlaceInv' /\ FateStep
<1>1. batch[t] \in Seq(Msg) /\ batch' = [batch EXCEPT ![t] = batch[t]]
  BY DEF TypeOK
<1> QED BY <1>1, PlaceMove

\* A drain: the task takes every queued message along with its own.
LEMMA PlaceTake ==
    ASSUME TypeOK, PlaceInv, NEW t \in Task, NEW s \in Seq(Msg),
           batch' = [batch EXCEPT ![t] = s],
           Elems(s) = Elems(inbox) \cup Carried(t),
           pc[t] # "dedupe", Goto(t, "validate"), inbox' = <<>>,
           UNCHANGED <<deliveries, seen, saved>>
    PROVE  PlaceInv' /\ FateStep
<1>1. "validate" \in Phases \ {"dedupe"} /\ "validate" \in CarryPhases
        /\ "validate" \notin {"acquire", "enqueue"} /\ HandlerInv
  BY DEF Phases, RunPhases, CarryPhases, PlaceInv
<1>2. /\ \A n \in Msg : Known(n) <=> Known(n)'
      /\ HandlerInv'
      /\ \A u \in Task \ {t} : Carried(u)' = Carried(u)
  BY <1>1, KnownStable
<1>3. Carried(t)' = Elems(inbox) \cup Carried(t)
  BY <1>1 DEF Goto, Carried, TypeOK
<1>4. Elems(inbox') = {}
  BY DEF Elems
<1>5. OnePlace'
  <2>1. ASSUME NEW n \in Msg, saved'[n] > 0 PROVE Known(n)'
    BY <1>2, <2>1 DEF PlaceInv, OnePlace
  <2>2. ASSUME NEW u \in Task, NEW n \in Carried(u)'
        PROVE  /\ Known(n)' /\ saved'[n] = 0 /\ n \notin Elems(inbox')
               /\ \A v \in Task \ {u} : n \notin Carried(v)'
    <3>1. n \in Msg
      BY <1>2, <1>3, <2>2, ElemsType DEF Carried, TypeOK
    <3>2. CASE u = t
      BY <1>2, <1>3, <1>4, <2>2, <3>1, <3>2 DEF PlaceInv, OnePlace
    <3>3. CASE u # t
      BY <1>2, <1>3, <1>4, <2>2, <3>1, <3>3 DEF PlaceInv, OnePlace
    <3> QED BY <3>2, <3>3
  <2> QED BY <1>4, <2>1, <2>2, Zenon DEF OnePlace
<1>6. PlaceInv'
  BY <1>2, <1>5 DEF PlaceInv, AtMostOnce
<1>7. FateFacts /\ FateFacts'
  BY <1>6, FateIs, FateIsNext DEF TypeOK
<1> DEFINE S == {n \in Msg : Fate(n) = "queued"}
<1>8. ASSUME NEW n \in S PROVE Fate(n) = "queued" /\ Fate(n)' = "carried"
  <2>1. n \in Carried(t)'
    BY <1>3, <1>7 DEF FateFacts
  <2> QED BY <1>7, <2>1 DEF FateFacts
<1>9. ASSUME NEW n \in Msg \ S PROVE Fate(n)' = Fate(n)
  <2>1. n \notin Elems(inbox) /\ n \notin Elems(inbox)'
    BY <1>4, <1>7 DEF FateFacts
  <2>2. (\E u \in Task : n \in Carried(u)') <=> (\E u \in Task : n \in Carried(u))
    BY <1>2, <1>3, <2>1
  <2> QED BY <1>2, <1>7, <2>1, <2>2, FateSame
<1>10. Promise!Move(S, "queued", "carried")
  BY <1>8, <1>9, FateMoves
<1>11. S = {n \in Msg : [m \in Msg |-> Fate(m)][n] = "queued"}
  OBVIOUS
<1>12. Promise!TakeAll
  BY <1>10, <1>11 DEF Promise!TakeAll
<1> QED BY <1>6, <1>12 DEF FateStep, Promise!Next

LEMMA PlaceRouteStep ==
    ASSUME ConstantsAssumption, TypeOK, PlaceInv, NEW t \in Task, RouteStep(t)
    PROVE  PlaceInv' /\ FateStep
<1>1. CASE Dedupe(t)
  <2> PICK m \in Msg : m = Trigger(t)
    BY <1>1, TriggerType DEF Dedupe, BatchPhases, HandlerPhases
  <2>0. pc[t] = "dedupe" /\ m \in Msg /\ UNCHANGED <<deliveries, saved, inbox>>
    BY <1>1 DEF Dedupe, slackVars
  <2>1. seen' = seen \cup {m} /\ batch[t] \in Seq(Msg) /\ <<>> \in Seq(Msg)
    BY <1>1 DEF Dedupe, TypeOK
  <2>2. HandlerInv /\ Elems(batch[t]) = {m} /\ Kind[m] # "nudge"
    BY <2>0 DEF PlaceInv, HandlerInv
  <2>3. CASE Leave(t)
    <3>1. "free" \in Phases \ {"dedupe"} /\ "free" \notin CarryPhases
      BY DEF Phases, CarryPhases
    <3>2. "free" \notin {"acquire", "enqueue"}
      OBVIOUS
    <3>3. /\ \A n \in Msg : Known(n) => Known(n)'
          /\ HandlerInv'
          /\ \A u \in Task \ {t} : Carried(u)' = Carried(u)
      BY <2>0, <2>1, <2>2, <2>3, <3>1, <3>2, KnownStable DEF Leave
    <3>4. Carried(t)' = {}
      BY <2>3, <3>1 DEF Leave, Goto, Carried, TypeOK
    <3> QED BY <2>0, <3>3, <3>4, PlaceStable
  <2>4. CASE m \notin seen /\ Goto(t, "acquire") /\ UNCHANGED frame
    <3>1. "acquire" \in Phases \ {"dedupe"} /\ batch' = [batch EXCEPT ![t] = batch[t]]
      BY <2>4 DEF Phases, HandlerPhases, frame, TypeOK
    <3>2. /\ \A n \in Msg : Known(n) => Known(n)'
          /\ HandlerInv'
          /\ \A u \in Task \ {t} : Carried(u)' = Carried(u)
      BY <2>0, <2>1, <2>2, <2>4, <3>1, KnownStable
    <3>3. ~Known(m) /\ Known(m)'
      <4>1. ~Known(m)
        BY <2>0, <2>2, <2>4 DEF Known
      <4>2. m \in seen'
        BY <2>1
      <4> QED BY <2>2, <4>1, <4>2 DEF Known
    <3>4. /\ saved[m] = 0 /\ m \notin Elems(inbox)
          /\ \A u \in Task : m \notin Carried(u)
      BY <2>0, <3>3 DEF PlaceInv, OnePlace, TypeOK
    <3>5. Carried(t)' = {m} /\ Carried(t) = {}
      BY <2>0, <2>2, <2>4 DEF Goto, Carried, CarryPhases, TypeOK, frame
    <3>6. OnePlace'
      <4>1. ASSUME NEW n \in Msg, saved'[n] > 0 PROVE Known(n)'
        BY <2>0, <3>2, <4>1 DEF PlaceInv, OnePlace
      <4>2. ASSUME NEW n \in Elems(inbox') PROVE Known(n)' /\ saved'[n] = 0
        BY <2>0, <3>2, <4>2, ElemsType DEF PlaceInv, OnePlace, TypeOK
      <4>3. ASSUME NEW u \in Task, NEW n \in Carried(u)'
            PROVE  /\ Known(n)' /\ saved'[n] = 0 /\ n \notin Elems(inbox')
                   /\ \A v \in Task \ {u} : n \notin Carried(v)'
        <5>1. CASE u = t
          BY <2>0, <3>2, <3>3, <3>4, <3>5, <4>3, <5>1
        <5>2. CASE u # t
          <6>1. n \in Carried(u) /\ n \in Msg /\ n # m
            BY <3>2, <3>4, <4>3, <5>2, ElemsType DEF Carried, TypeOK
          <6> QED BY <2>0, <3>2, <3>5, <5>2, <6>1 DEF PlaceInv, OnePlace
        <5> QED BY <5>1, <5>2
      <4> QED BY <4>1, <4>2, <4>3, Zenon DEF OnePlace
    <3>7. PlaceInv'
      BY <2>0, <3>2, <3>6 DEF PlaceInv, AtMostOnce
    <3>8. ASSUME NEW n \in Msg \ {m} PROVE Known(n)' <=> Known(n)
      <4>1. /\ \A u \in Task \ {t} : pc'[u] = pc[u] /\ Trigger(u)' = Trigger(u)
            /\ pc'[t] = "acquire"
        BY <2>4 DEF Goto, frame, Trigger, TypeOK
      <4> QED BY <2>0, <2>1, <4>1 DEF Known
    <3>9. Promise!LetIn(m)
      BY <2>0, <3>2, <3>3, <3>4, <3>5, <3>7, <3>8, FateLetsIn
    <3> QED BY <3>7, <3>9 DEF FateStep, Promise!Next
  <2> QED BY <1>1, <2>3, <2>4 DEF Dedupe
<1>2. CASE Acquire(t)
  BY <1>2, PlaceGoto DEF Acquire, dbVars, slackVars, frame, LeaveGraph, CarryPhases, Phases,
     HandlerPhases, RunPhases, DrainPhases, ResumePhases
<1>3. CASE AcquireFails(t)
  <2>1. pc[t] = "acquire" /\ UNCHANGED <<deliveries, seen, saved, inbox, batch>>
          /\ (Goto(t, "status") \/ Goto(t, "enqueue"))
    BY <1>3 DEF AcquireFails, dbVars, slackVars, frame
  <2>2. CASE Goto(t, "status")
    BY <2>1, <2>2, PlaceGoto DEF CarryPhases, Phases, HandlerPhases, RunPhases, DrainPhases,
       ResumePhases
  <2>3. CASE Goto(t, "enqueue")
    BY <2>1, <2>3, PlaceGoto DEF CarryPhases, Phases, HandlerPhases, RunPhases, DrainPhases,
       ResumePhases
  <2> QED BY <2>1, <2>2, <2>3
<1>4. CASE RespondWithStatus(t)
  BY <1>4, PlaceLeave DEF RespondWithStatus, dbVars, slackVars, Finish
<1>5. CASE Enqueue(t)
  <2>1. CASE inbox' = inbox
    BY <1>5, <2>1, PlaceLeave DEF Enqueue, slackVars
  <2>2. CASE inbox' = Append(inbox, Trigger(t))
    <3> PICK m \in Msg : m = Trigger(t)
      BY <1>5, TriggerType DEF Enqueue, BatchPhases, HandlerPhases
    <3>1. /\ pc[t] = "enqueue" /\ m \in Msg /\ inbox \in Seq(Msg) /\ <<>> \in Seq(Msg)
          /\ UNCHANGED <<deliveries, saved, seen>> /\ Leave(t)
      BY <1>5, TriggerType DEF Enqueue, BatchPhases, HandlerPhases, slackVars, TypeOK
    <3>2. Carried(t) = {m}
      BY <3>1 DEF PlaceInv, HandlerInv, Carried, CarryPhases
    <3>3. "free" \in Phases \ {"dedupe"} /\ "free" \notin CarryPhases
            /\ "free" \notin {"acquire", "enqueue"} /\ HandlerInv
      BY DEF Phases, CarryPhases, PlaceInv
    <3>4. /\ \A n \in Msg : Known(n) <=> Known(n)'
          /\ HandlerInv'
          /\ \A u \in Task \ {t} : Carried(u)' = Carried(u)
      BY <3>1, <3>3, KnownStable DEF Leave
    <3>5. Carried(t)' = {}
      BY <3>1, <3>3 DEF Leave, Goto, Carried, TypeOK
    <3>6. Elems(inbox') = Elems(inbox) \cup {m}
      BY <2>2, <3>1, ElemsAppend
    <3>7. OnePlace'
      <4>1. ASSUME NEW n \in Msg, saved'[n] > 0 PROVE Known(n)'
        BY <3>1, <3>4, <4>1 DEF PlaceInv, OnePlace
      <4>2. ASSUME NEW n \in Elems(inbox') PROVE Known(n)' /\ saved'[n] = 0
        <5>1. n \in Elems(inbox) \/ n = m
          BY <3>6, <4>2
        <5>2. n \in Msg /\ Known(n) /\ saved[n] = 0
          BY <3>1, <3>2, <5>1, ElemsType DEF PlaceInv, OnePlace
        <5> QED BY <3>1, <3>4, <5>2
      <4>3. ASSUME NEW u \in Task, NEW n \in Carried(u)'
            PROVE  /\ Known(n)' /\ saved'[n] = 0 /\ n \notin Elems(inbox')
                   /\ \A v \in Task \ {u} : n \notin Carried(v)'
        <5>1. u # t /\ n \in Carried(u)
          BY <3>4, <3>5, <4>3
        <5>2. n \in Msg /\ n # m
          BY <3>2, <5>1, ElemsType DEF Carried, TypeOK, PlaceInv, OnePlace
        <5> QED BY <3>1, <3>4, <3>5, <3>6, <5>1, <5>2 DEF PlaceInv, OnePlace
      <4> QED BY <4>1, <4>2, <4>3, Zenon DEF OnePlace
    <3>8. PlaceInv'
      BY <3>1, <3>4, <3>7 DEF PlaceInv, AtMostOnce
    <3>9. FateFacts /\ FateFacts'
      BY <3>1, <3>8, FateIs, FateIsNext DEF TypeOK
    <3>10. Fate(m) = "carried" /\ Fate(m)' = "queued"
      BY <3>1, <3>2, <3>6, <3>9 DEF FateFacts
    <3>11. ASSUME NEW n \in Msg \ {m} PROVE Fate(n)' = Fate(n)
      <4>1. (\E u \in Task : n \in Carried(u)') <=> (\E u \in Task : n \in Carried(u))
        BY <3>2, <3>4, <3>5
      <4>2. n \in Elems(inbox)' <=> n \in Elems(inbox)
        BY <3>6
      <4> QED BY <3>1, <3>4, <3>9, <4>1, <4>2, FateSame
    <3>12. Promise!Move({m}, "carried", "queued")
      BY <3>1, <3>10, <3>11, FateMoves
    <3> QED BY <3>1, <3>8, <3>12 DEF FateStep, Promise!Next, Promise!Queue
  <2> QED BY <1>5, <2>1, <2>2 DEF Enqueue
<1>6. CASE DrainAndRun(t)
  <2>1. /\ pc[t] = "drain" /\ batch[t] \in Seq(Msg)
        /\ batch' = [batch EXCEPT ![t] = inbox \o batch[t]]
        /\ Goto(t, "validate") /\ inbox' = <<>>
        /\ UNCHANGED <<deliveries, seen, saved>>
    BY <1>6 DEF DrainAndRun, slackVars, TypeOK
  <2>2. inbox \o batch[t] \in Seq(Msg) /\ inbox \in Seq(Msg)
    BY <2>1 DEF TypeOK
  <2>3. Elems(inbox \o batch[t]) = Elems(inbox) \cup Carried(t)
    BY <2>1, <2>2, ElemsConcat DEF Carried, CarryPhases
  <2> QED BY <2>1, <2>2, <2>3, PlaceTake DEF Phases, RunPhases
<1>7. CASE DrainRaises(t)
  <2>1. "abandoned" \in Phases \ {"dedupe"} /\ "abandoned" \notin CarryPhases /\ <<>> \in Seq(Msg)
    BY DEF CarryPhases, Phases, HandlerPhases, RunPhases, DrainPhases, ResumePhases
  <2> QED BY <1>7, <2>1, PlaceMove DEF DrainRaises, dbVars, slackVars
<1> QED BY <1>1, <1>2, <1>3, <1>4, <1>5, <1>6, <1>7 DEF RouteStep

LEMMA PlaceRunStep ==
    ASSUME ConstantsAssumption, TypeOK, PlaceInv, NEW t \in Task, RunStep(t)
    PROVE  PlaceInv' /\ FateStep
<1>1. CASE Validate(t)
  <2>1. CASE Leave(t)
    BY <1>1, <2>1, PlaceLeave DEF Validate, dbVars, slackVars
  <2>2. CASE Goto(t, "persist") /\ UNCHANGED frame
    BY <1>1, <2>2, PlaceGoto DEF Validate, dbVars, slackVars, frame, CarryPhases, Phases,
       HandlerPhases, RunPhases, DrainPhases, ResumePhases
  <2> QED BY <1>1, <2>1, <2>2 DEF Validate, Finish
<1>2. CASE Persist(t)
  <2>1. /\ pc[t] = "persist" /\ Carried(t) = Elems(batch[t])
        /\ saved' = [m \in Msg |-> IF m \in Carried(t) THEN saved[m] + 1 ELSE saved[m]]
        /\ Goto(t, "preflight") /\ UNCHANGED <<deliveries, seen, inbox, batch>>
    BY <1>2 DEF Persist, slackVars, frame, Carried, CarryPhases
  <2>2. "preflight" \in Phases \ {"dedupe"} /\ "preflight" \notin CarryPhases
          /\ "preflight" \notin {"acquire", "enqueue"} /\ HandlerInv
    BY DEF Phases, RunPhases, CarryPhases, PlaceInv
  <2>3. batch[t] \in Seq(Msg) /\ batch' = [batch EXCEPT ![t] = batch[t]]
    BY <2>1 DEF TypeOK
  <2>4. /\ \A n \in Msg : Known(n) <=> Known(n)'
        /\ HandlerInv'
        /\ \A u \in Task \ {t} : Carried(u)' = Carried(u)
    BY <2>1, <2>2, <2>3, KnownStable
  <2>5. Carried(t)' = {}
    BY <2>1, <2>2 DEF Goto, Carried, TypeOK
  <2>6. OnePlace'
    <3>1. ASSUME NEW n \in Msg, saved'[n] > 0 PROVE Known(n)'
      <4>1. n \in Carried(t) \/ saved[n] > 0
        BY <2>1, <3>1
      <4> QED BY <2>4, <4>1 DEF PlaceInv, OnePlace
    <3>2. ASSUME NEW n \in Elems(inbox') PROVE Known(n)' /\ saved'[n] = 0
      <4>1. n \in Elems(inbox) /\ n \in Msg /\ n \notin Carried(t)
        BY <2>1, <3>2, ElemsType DEF TypeOK, PlaceInv, OnePlace
      <4> QED BY <2>1, <2>4, <4>1 DEF PlaceInv, OnePlace
    <3>3. ASSUME NEW u \in Task, NEW n \in Carried(u)'
          PROVE  /\ Known(n)' /\ saved'[n] = 0 /\ n \notin Elems(inbox')
                 /\ \A v \in Task \ {u} : n \notin Carried(v)'
      <4>1. u # t /\ n \in Carried(u)
        BY <2>4, <2>5, <3>3
      <4>2. n \in Msg /\ n \notin Carried(t)
        BY <4>1, ElemsType DEF Carried, TypeOK, PlaceInv, OnePlace
      <4> QED BY <2>1, <2>4, <2>5, <4>1, <4>2 DEF PlaceInv, OnePlace
    <3> QED BY <3>1, <3>2, <3>3, Zenon DEF OnePlace
  <2>7. ASSUME NEW n \in Msg PROVE saved'[n] <= 1
    <3>1. n \in Carried(t) => saved[n] = 0
      BY DEF PlaceInv, OnePlace
    <3> QED BY <2>1, <3>1 DEF PlaceInv, AtMostOnce
  <2>8. PlaceInv'
    BY <2>4, <2>6, <2>7 DEF PlaceInv, AtMostOnce
  <2>9. saved' \in [Msg -> Nat] /\ saved \in [Msg -> Nat]
    BY <2>1 DEF TypeOK
  <2>10. FateFacts /\ FateFacts'
    BY <2>8, <2>9, FateIs, FateIsNext
  <2> DEFINE S == Carried(t)
  <2>11. S \in SUBSET Msg
    BY <2>1, <2>3, ElemsType
  <2>12. ASSUME NEW n \in S PROVE Fate(n) = "carried" /\ Fate(n)' = "saved"
    <3>1. saved'[n] > 0
      BY <2>1, <2>9, <2>11
    <3> QED BY <2>10, <2>11, <3>1 DEF FateFacts
  <2>13. ASSUME NEW n \in Msg \ S PROVE Fate(n)' = Fate(n)
    <3>1. saved'[n] = saved[n] /\ (n \in Elems(inbox)' <=> n \in Elems(inbox))
      BY <2>1
    <3>2. (\E u \in Task : n \in Carried(u)') <=> (\E u \in Task : n \in Carried(u))
      BY <2>4, <2>5
    <3> QED BY <2>4, <2>10, <3>1, <3>2, FateSame
  <2>14. Promise!Move(S, "carried", "saved")
    BY <2>11, <2>12, <2>13, FateMoves
  <2>15. Promise!SaveBatch
    BY <2>11, <2>14 DEF Promise!SaveBatch
  <2> QED BY <2>8, <2>15 DEF FateStep, Promise!Next
<1>3. CASE PersistRaises(t)
  BY <1>3, PlaceLeave DEF PersistRaises, dbVars, slackVars, Finish
<1>4. CASE PreflightBlocks(t)
  BY <1>4, PlaceLeave DEF PreflightBlocks, dbVars, slackVars, Finish
<1>5. CASE InvokeGraph(t)
  BY <1>5, PlaceGoto DEF InvokeGraph, dbVars, slackVars, frame, LeaveGraph, CarryPhases,
     Phases, HandlerPhases, RunPhases, DrainPhases, ResumePhases
<1>6. CASE GraphEnds(t)
  BY <1>6, PlaceGoto DEF GraphEnds, dbVars, slackVars, frame, LeaveGraph, CarryPhases, Phases,
     HandlerPhases, RunPhases, DrainPhases, ResumePhases
<1>7. CASE GraphInterrupts(t)
  BY <1>7, PlaceGoto DEF GraphInterrupts, dbVars, slackVars, frame, LeaveGraph, CarryPhases,
     Phases, HandlerPhases, RunPhases, DrainPhases, ResumePhases
<1>8. CASE GraphRaises(t)
  BY <1>8, PlaceLeave DEF GraphRaises, dbVars, slackVars, Finish
<1>9. CASE ReleaseForGate(t)
  BY <1>9, PlaceGoto DEF ReleaseForGate, dbVars, slackVars, frame, LeaveGraph, CarryPhases,
     Phases, HandlerPhases, RunPhases, DrainPhases, ResumePhases
<1>10. CASE PostGate(t)
  BY <1>10, PlaceLeave DEF PostGate, dbVars, slackVars, Finish
<1>11. CASE Reply(t)
  BY <1>11, PlaceGoto DEF Reply, dbVars, slackVars, frame, LeaveGraph, CarryPhases, Phases,
     HandlerPhases, RunPhases, DrainPhases, ResumePhases
<1>12. CASE ReplyRaises(t)
  BY <1>12, PlaceLeave DEF ReplyRaises, dbVars, slackVars, Finish
<1>13. CASE ReleaseAndSchedule(t)
  <2>1. "dwait" \in Phases \ {"dedupe"} /\ "dwait" \notin CarryPhases /\ <<>> \in Seq(Msg)
    BY DEF CarryPhases, Phases, HandlerPhases, RunPhases, DrainPhases, ResumePhases
  <2> QED BY <1>13, <2>1, PlaceMove DEF ReleaseAndSchedule, dbVars, slackVars
<1> QED BY <1>1, <1>2, <1>3, <1>4, <1>5, <1>6, <1>7, <1>8, <1>9, <1>10, <1>11, <1>12,
           <1>13 DEF RunStep

LEMMA PlaceDrainStep ==
    ASSUME ConstantsAssumption, TypeOK, PlaceInv, NEW t \in Task, DrainStep(t)
    PROVE  PlaceInv' /\ FateStep
<1>1. CASE DebounceAcquire(t)
  BY <1>1, PlaceGoto DEF DebounceAcquire, dbVars, slackVars, frame, LeaveGraph, CarryPhases,
     Phases, HandlerPhases, RunPhases, DrainPhases, ResumePhases
<1>2. CASE DebounceGivesUp(t)
  BY <1>2, PlaceLeave DEF DebounceGivesUp, dbVars, slackVars, Finish
<1>3. CASE DebounceDrain(t)
  <2>1. CASE inbox = <<>>
    <3>1. /\ Goto(t, "drelease") /\ batch' = [batch EXCEPT ![t] = <<>>]
          /\ <<>> \in Seq(Msg) /\ UNCHANGED <<deliveries, seen, saved, inbox>>
      BY <1>3, <2>1 DEF DebounceDrain, slackVars
    <3>2. "drelease" \in Phases \ {"dedupe"} /\ "drelease" \notin CarryPhases
            /\ "drelease" \notin {"acquire", "enqueue"}
      BY DEF Phases, DrainPhases, CarryPhases
    <3> QED BY <3>1, <3>2, PlaceMove
  <2>2. CASE inbox # <<>>
    <3>1. /\ pc[t] = "ddrain" /\ inbox \in Seq(Msg)
          /\ batch' = [batch EXCEPT ![t] = inbox]
          /\ Goto(t, "validate") /\ inbox' = <<>>
          /\ UNCHANGED <<deliveries, seen, saved>>
      BY <1>3, <2>2 DEF DebounceDrain, slackVars, TypeOK
    <3>2. Carried(t) = {}
      BY <3>1 DEF Carried, CarryPhases
    <3> QED BY <3>1, <3>2, PlaceTake DEF Phases, RunPhases
  <2> QED BY <2>1, <2>2
<1>4. CASE DebounceRaises(t)
  BY <1>4, PlaceGoto DEF DebounceRaises, dbVars, slackVars, frame, LeaveGraph, CarryPhases,
     Phases, HandlerPhases, RunPhases, DrainPhases, ResumePhases
<1>5. CASE DebounceRelease(t)
  BY <1>5, PlaceLeave DEF DebounceRelease, dbVars, slackVars, Finish
<1> QED BY <1>1, <1>2, <1>3, <1>4, <1>5 DEF DrainStep

LEMMA PlaceResumeStep ==
    ASSUME ConstantsAssumption, TypeOK, PlaceInv, NEW t \in Task, ResumeStep(t)
    PROVE  PlaceInv' /\ FateStep
<1>1. CASE Decide(t)
  BY <1>1, PlaceGoto DEF Decide, dbVars, slackVars, frame, LeaveGraph, CarryPhases, Phases,
     HandlerPhases, RunPhases, DrainPhases, ResumePhases
<1>2. CASE ResumeCheck(t)
  <2>1. CASE Leave(t)
    BY <1>2, <2>1, PlaceLeave DEF ResumeCheck, dbVars, slackVars
  <2>2. CASE Goto(t, "restart") /\ UNCHANGED frame
    BY <1>2, <2>2, PlaceGoto DEF ResumeCheck, dbVars, slackVars, frame, CarryPhases, Phases,
       HandlerPhases, RunPhases, DrainPhases, ResumePhases
  <2> QED BY <1>2, <2>1, <2>2 DEF ResumeCheck
<1>3. CASE ResumeInvoke(t)
  <2>1. UNCHANGED <<deliveries, seen, saved, inbox, batch>>
          /\ (Goto(t, "graph") \/ Goto(t, "reply"))
    BY <1>3 DEF ResumeInvoke, dbVars, slackVars, frame
  <2>2. CASE Goto(t, "graph")
    BY <2>1, <2>2, PlaceGoto DEF CarryPhases, Phases, HandlerPhases, RunPhases, DrainPhases,
       ResumePhases
  <2>3. CASE Goto(t, "reply")
    BY <2>1, <2>3, PlaceGoto DEF CarryPhases, Phases, HandlerPhases, RunPhases, DrainPhases,
       ResumePhases
  <2> QED BY <2>1, <2>2, <2>3
<1> QED BY <1>1, <1>2, <1>3 DEF ResumeStep

LEMMA PlaceEnvironment ==
    ASSUME ConstantsAssumption, TypeOK, PlaceInv, Environment
    PROVE  PlaceInv' /\ FateStep
<1>1. ASSUME NEW t \in Task, NEW w \in Worker, NEW m \in Msg, Deliver(t, w, m)
      PROVE  PlaceInv' /\ FateStep
  <2>1. /\ pc[t] = "free" /\ pc'[t] = "dedupe" /\ batch'[t] = <<m>>
        /\ \A u \in Task \ {t} : pc'[u] = pc[u] /\ batch'[u] = batch[u]
        /\ deliveries[m] < MaxDeliveries /\ Kind[m] # "nudge"
        /\ \A n \in Msg \ {m} : deliveries'[n] = deliveries[n]
        /\ UNCHANGED <<seen, saved, inbox>>
    BY <1>1 DEF Deliver, Start, Goto, TypeOK, dbVars
  <2>2. Trigger(t)' = m /\ \A u \in Task \ {t} : Trigger(u)' = Trigger(u)
    BY <2>1 DEF Trigger
  <2>3. ASSUME NEW n \in Msg, Known(n) PROVE Known(n)'
    <3>1. CASE n = m
      <4>1. m \in seen
        BY <2>1, <2>3, <3>1 DEF Known, TypeOK, ConstantsAssumption
      <4> QED BY <2>1, <3>1, <4>1 DEF Known
    <3>2. CASE n # m
      BY <2>1, <2>2, <2>3, <3>2 DEF Known
    <3> QED BY <3>1, <3>2
  <2>4. HandlerInv'
    BY <2>1, <2>2, ElemsOne DEF PlaceInv, HandlerInv
  <2>5. \A u \in Task : Carried(u)' \subseteq Carried(u)
    BY <2>1 DEF Carried, CarryPhases
  <2> QED BY <2>1, <2>3, <2>4, <2>5, PlaceStable
<1>2. ASSUME NEW t \in Task, NEW w \in Worker, NEW m \in Msg, StartNudge(t, w, m)
      PROVE  PlaceInv' /\ FateStep
  <2>1. /\ pc[t] = "free" /\ pc'[t] = "validate" /\ batch'[t] = <<m>>
        /\ \A u \in Task \ {t} : pc'[u] = pc[u] /\ batch'[u] = batch[u]
        /\ deliveries[m] = 0 /\ deliveries'[m] = 1 /\ Kind[m] = "nudge"
        /\ \A n \in Msg \ {m} : deliveries'[n] = deliveries[n]
        /\ UNCHANGED <<seen, saved, inbox>>
    BY <1>2 DEF StartNudge, Start, Goto, TypeOK, dbVars
  <2>2. \A u \in Task \ {t} : Trigger(u)' = Trigger(u)
    BY <2>1 DEF Trigger
  <2>3. ~Known(m) /\ Known(m)'
    BY <2>1 DEF Known
  <2>4. ASSUME NEW n \in Msg, Known(n) PROVE Known(n)'
    BY <2>1, <2>2, <2>3, <2>4 DEF Known
  <2>5. HandlerInv'
    BY <2>1, <2>2 DEF PlaceInv, HandlerInv
  <2>6. /\ Carried(t)' = {m} /\ Carried(t) = {}
        /\ \A u \in Task \ {t} : Carried(u)' = Carried(u)
    BY <2>1, ElemsOne DEF Carried, CarryPhases
  <2>7. /\ saved[m] = 0 /\ m \notin Elems(inbox)
        /\ \A u \in Task : m \notin Carried(u)
    BY <2>3 DEF PlaceInv, OnePlace, TypeOK
  <2>8. OnePlace'
    <3>1. ASSUME NEW n \in Msg, saved'[n] > 0 PROVE Known(n)'
      BY <2>1, <2>4, <3>1 DEF PlaceInv, OnePlace
    <3>2. ASSUME NEW n \in Elems(inbox') PROVE Known(n)' /\ saved'[n] = 0
      BY <2>1, <2>4, <3>2, ElemsType DEF PlaceInv, OnePlace, TypeOK
    <3>3. ASSUME NEW u \in Task, NEW n \in Carried(u)'
          PROVE  /\ Known(n)' /\ saved'[n] = 0 /\ n \notin Elems(inbox')
                 /\ \A v \in Task \ {u} : n \notin Carried(v)'
      <4>1. CASE u = t
        BY <2>1, <2>3, <2>6, <2>7, <3>3, <4>1
      <4>2. CASE u # t
        <5>1. n \in Carried(u) /\ n \in Msg /\ n # m
          BY <2>6, <2>7, <3>3, <4>2, ElemsType DEF Carried, TypeOK
        <5> QED BY <2>1, <2>4, <2>6, <4>2, <5>1 DEF PlaceInv, OnePlace
      <4> QED BY <4>1, <4>2
    <3> QED BY <3>1, <3>2, <3>3, Zenon DEF OnePlace
  <2>9. PlaceInv'
    BY <2>1, <2>5, <2>8 DEF PlaceInv, AtMostOnce
  <2>10. ASSUME NEW n \in Msg \ {m} PROVE Known(n)' <=> Known(n)
    BY <2>1, <2>2 DEF Known
  <2>11. Promise!LetIn(m)
    BY <2>1, <2>3, <2>6, <2>7, <2>9, <2>10, FateLetsIn
  <2> QED BY <2>9, <2>11 DEF FateStep, Promise!Next
<1>3. ASSUME NEW t \in Task, NEW w \in Worker, NEW m \in Msg,
             NEW phase \in {"decide", "rcheck"}, Start(t, w, m, phase, TRUE),
             UNCHANGED <<deliveries, seen, saved, inbox>>
      PROVE  PlaceInv' /\ FateStep
  <2>1. /\ phase \in Phases \ {"dedupe"} /\ phase \notin CarryPhases
        /\ phase # "acquire" /\ phase # "enqueue" /\ <<m>> \in Seq(Msg)
    BY DEF Phases, ResumePhases, CarryPhases
  <2>2. Goto(t, phase) /\ batch' = [batch EXCEPT ![t] = <<m>>]
    BY <1>3 DEF Start
  <2> QED BY <1>3, <2>1, <2>2, PlaceMove
<1>4. ASSUME NEW m \in Msg, ForgetEvent(m)
      PROVE  PlaceInv' /\ FateStep
  <2>1. UNCHANGED <<saved, inbox, pc, batch, deliveries>> /\ seen' = seen \ {m}
    BY <1>4 DEF ForgetEvent, slackVars, frame
  <2>2. \A u \in Task : Trigger(u)' = Trigger(u) /\ Carried(u)' = Carried(u)
    BY <2>1 DEF Trigger, Carried
  <2>3. ASSUME NEW n \in Msg, Known(n) PROVE Known(n)'
    BY <1>4, <2>1, <2>2, <2>3 DEF ForgetEvent, Known
  <2>4. HandlerInv'
    BY <2>1, <2>2 DEF PlaceInv, HandlerInv
  <2> QED BY <2>1, <2>2, <2>3, <2>4, PlaceStable
<1>5. ASSUME NEW t \in Task, CollectAbandoned(t)
      PROVE  PlaceInv' /\ FateStep
  BY <1>5, PlaceLeave DEF CollectAbandoned, Finish, dbVars, slackVars
<1>6. ASSUME NEW w \in Worker, Crash(w)
      PROVE  PlaceInv' /\ FateStep
  <2>1. /\ UNCHANGED <<saved, inbox, seen, deliveries>>
        /\ \A u \in Task : \/ pc'[u] = "free"
                           \/ pc'[u] = pc[u] /\ batch'[u] = batch[u]
    BY <1>6 DEF Crash, dbVars, slackVars
  <2>2. \A u \in Task : pc'[u] # "free" => Trigger(u)' = Trigger(u)
    BY <2>1 DEF Trigger
  <2>3. \A u \in Task : Carried(u)' \subseteq Carried(u)
    BY <2>1 DEF Carried, CarryPhases
  <2>4. ASSUME NEW n \in Msg, Known(n) PROVE Known(n)'
    BY <2>1, <2>2, <2>4 DEF Known
  <2>5. HandlerInv'
    BY <2>1, <2>2 DEF PlaceInv, HandlerInv
  <2> QED BY <2>1, <2>3, <2>4, <2>5, PlaceStable
<1> QED BY <1>1, <1>2, <1>3, <1>4, <1>5, <1>6
        DEF Environment, Click, Connected, dbVars

LEMMA PlaceStep ==
    ASSUME ConstantsAssumption, TypeOK, PlaceInv, [Next]_vars
    PROVE  PlaceInv' /\ FateStep
<1>1. CASE Environment
  BY <1>1, PlaceEnvironment
<1>2. CASE \E t \in Task : TaskStep(t)
  <2>1. PICK t \in Task : TaskStep(t)
    BY <1>2
  <2> QED BY <2>1, PlaceRouteStep, PlaceRunStep, PlaceDrainStep, PlaceResumeStep
          DEF TaskStep
<1>3. CASE UNCHANGED vars
  <2>1. UNCHANGED <<saved, inbox, seen, deliveries, pc, batch>>
    BY <1>3 DEF vars, dbVars, slackVars, frame
  <2>2. \A u \in Task : Trigger(u)' = Trigger(u) /\ Carried(u)' = Carried(u)
    BY <2>1 DEF Trigger, Carried
  <2>3. HandlerInv' /\ \A n \in Msg : Known(n) => Known(n)'
    BY <2>1, <2>2 DEF PlaceInv, HandlerInv, Known
  <2> QED BY <2>1, <2>2, <2>3, PlaceStable
<1> QED BY <1>1, <1>2, <1>3 DEF Next

LEMMA PlaceInit ==
    Init => /\ PlaceInv /\ saved \in [Msg -> Nat]
            /\ MaxDeliveries > 0 => \A m \in Msg : ~Known(m)
<1> SUFFICES ASSUME Init
             PROVE  /\ PlaceInv /\ saved \in [Msg -> Nat]
                    /\ MaxDeliveries > 0 => \A m \in Msg : ~Known(m)
  OBVIOUS
<1>1. saved \in [Msg -> Nat] /\ \A m \in Msg : saved[m] = 0
  BY DEF Init
<1>2. Elems(inbox) = {}
  BY ElemsOne DEF Init
<1>3. \A t \in Task : Carried(t) = {}
  BY DEF Init, Carried, CarryPhases
<1>4. OnePlace
  BY <1>1, <1>2, <1>3 DEF OnePlace
<1>5. AtMostOnce /\ HandlerInv
  BY DEF Init, AtMostOnce, HandlerInv
<1>6. ASSUME MaxDeliveries > 0, NEW m \in Msg PROVE ~Known(m)
  BY <1>6, ConstantsAssumption DEF Init, Known
<1> QED BY <1>1, <1>4, <1>5, <1>6 DEF PlaceInv

\* The invariant behind the three theorems that follow.
LEMMA PlaceAlways == Spec => []PlaceInv
<1>1. Init => PlaceInv
  BY PlaceInit
<1>2. TypeOK /\ PlaceInv /\ [Next]_vars => PlaceInv'
  BY PlaceStep, ConstantsAssumption
<1> QED BY <1>1, <1>2, TypeCorrect, PTL DEF Spec

\* The dedupe row, the mutex, the atomic drain and the batch hand-over keep
\* every accepted message in exactly one place: a task, the inbox or the
\* messages table, and it is not let in again.
THEOREM MessagesInOnePlace == Spec => []OnePlace
<1>1. PlaceInv => OnePlace
  BY DEF PlaceInv
<1> QED BY <1>1, PlaceAlways, PTL

\* However often an event is delivered, to whichever replicas, and whatever
\* crashes or fails, its message is persisted by at most one run (AtMostOnce).
THEOREM HandledAtMostOnce == Spec => []AtMostOnce
<1>1. PlaceInv => AtMostOnce
  BY DEF PlaceInv
<1> QED BY <1>1, PlaceAlways, PTL

\* The routing implements MessageFate: whatever is redelivered, raced for or
\* lost in a crash, a message is let in once, waits in the inbox at most once,
\* leaves it only with all the others, and stays where a run persisted it.
\* (If Slack delivered nothing, every message would be gone from the start.)
THEOREM RoutingKeepsPromise ==
    ASSUME MaxDeliveries > 0 PROVE Spec => KeepsPromise
<1>1. Init => Promise!Init
  <2> SUFFICES ASSUME Init, NEW m \in Msg PROVE Fate(m) = "unseen"
    BY DEF Promise!Init
  <2>1. FateFacts /\ ~Known(m)
    BY PlaceInit, FateIs
  <2> QED BY <2>1 DEF FateFacts
<1>2. TypeOK /\ PlaceInv /\ [Next]_vars => Promise!Next
  BY PlaceStep, ConstantsAssumption DEF FateStep
<1> QED BY <1>1, <1>2, PlaceAlways, TypeCorrect, PTL DEF Spec, KeepsPromise, Promise!Spec

-----------------------------------------------------------------------------
(* Nothing is forgotten                                                    *)

\* A step of one task: the mentions it carries, finds in the inbox or lets in
\* are saved, queued or carried afterwards.
LEMMA HeldStep ==
    ASSUME TypeOK, NothingForgotten, NEW t \in Task,
           \A m \in Msg : saved[m] > 0 => saved'[m] > 0,
           \A u \in Task \ {t} : Carried(u)' = Carried(u),
           \A m \in Msg :
              /\ Kind[m] = "dm"
              /\ m \in Elems(inbox) \/ m \in Carried(t) \/ m \in seen' \ seen
              => saved'[m] > 0 \/ m \in Elems(inbox)' \/ m \in Carried(t)'
    PROVE  NothingForgotten'
<1> SUFFICES ASSUME NEW m \in Msg, Kind[m] = "dm", m \in seen'
             PROVE  \/ saved'[m] > 0
                    \/ m \in Elems(inbox)'
                    \/ \E u \in Task : m \in Carried(u)'
  BY DEF NothingForgotten
<1>1. CASE m \in seen' \ seen
  BY <1>1
<1>2. CASE m \in seen
  BY <1>2 DEF NothingForgotten
<1> QED BY <1>1, <1>2

\* The slot of a task that moves, and the others.
LEMMA HeldSlot ==
    ASSUME TypeOK, NEW t \in Task, NEW phase, NEW s,
           Goto(t, phase), batch' = [batch EXCEPT ![t] = s]
    PROVE  /\ pc'[t] = phase /\ batch'[t] = s
           /\ \A u \in Task \ {t} : pc'[u] = pc[u] /\ Carried(u)' = Carried(u)
BY DEF Goto, Carried, TypeOK

\* A task that carries nothing moves.
LEMMA HeldIdle ==
    ASSUME TypeOK, NothingForgotten, NEW t \in Task, pc[t] \notin CarryPhases,
           NEW phase, NEW s, Goto(t, phase), batch' = [batch EXCEPT ![t] = s],
           UNCHANGED <<saved, inbox, seen>>
    PROVE  NothingForgotten'
<1>1. \A u \in Task \ {t} : Carried(u)' = Carried(u)
  BY HeldSlot
<1>2. Carried(t) = {}
  BY DEF Carried
<1>3. Elems(inbox)' = Elems(inbox)
  BY DEF Elems
<1> QED BY <1>1, <1>2, <1>3, HeldStep

\* A task moves on with what it carries.
LEMMA HeldGoto ==
    ASSUME TypeOK, NothingForgotten, NEW t \in Task, NEW phase \in CarryPhases,
           Goto(t, phase), UNCHANGED <<saved, inbox, seen, batch>>
    PROVE  NothingForgotten'
<1>1. batch' = [batch EXCEPT ![t] = batch[t]]
  BY DEF TypeOK
<1>2. /\ pc'[t] = phase /\ batch'[t] = batch[t]
      /\ \A u \in Task \ {t} : Carried(u)' = Carried(u)
  BY <1>1, HeldSlot
<1>3. Carried(t) \subseteq Carried(t)'
  BY <1>2 DEF Carried
<1>4. Elems(inbox)' = Elems(inbox)
  BY DEF Elems
<1> QED BY <1>2, <1>3, <1>4, HeldStep

\* A task lets go of messages that are no mentions.
LEMMA HeldDrops ==
    ASSUME TypeOK, NothingForgotten, NEW t \in Task, NEW phase, NEW s,
           Goto(t, phase), batch' = [batch EXCEPT ![t] = s],
           \A m \in Carried(t) : Kind[m] # "dm",
           UNCHANGED <<saved, inbox, seen>>
    PROVE  NothingForgotten'
<1>1. \A u \in Task \ {t} : Carried(u)' = Carried(u)
  BY HeldSlot
<1>2. Elems(inbox)' = Elems(inbox)
  BY DEF Elems
<1> QED BY <1>1, <1>2, HeldStep

\* A drain takes everything along.
LEMMA HeldTake ==
    ASSUME TypeOK, NothingForgotten, NEW t \in Task, NEW s,
           Goto(t, "validate"), batch' = [batch EXCEPT ![t] = s],
           Elems(s) = Elems(inbox) \cup Carried(t),
           UNCHANGED <<saved, seen>>
    PROVE  NothingForgotten'
<1>1. /\ pc'[t] = "validate" /\ batch'[t] = s
      /\ \A u \in Task \ {t} : Carried(u)' = Carried(u)
  BY HeldSlot
<1>2. Carried(t)' = Elems(inbox) \cup Carried(t)
  BY <1>1 DEF Carried, CarryPhases
<1> QED BY <1>1, <1>2, HeldStep

\* The environment in which no mention may get lost: the database answers, no
\* replica dies, and nobody replies in a channel (a reply in a thread that is
\* not known is dropped together with what was queued before it).
Calm ==
    /\ "db" \notin Faults
    /\ MaxCrashes = 0
    /\ \A m \in Msg : Kind[m] # "reply"

LEMMA HeldRouteStep ==
    ASSUME Calm, ConstantsAssumption, TypeOK, PlaceInv, NothingForgotten,
           NEW t \in Task, RouteStep(t)
    PROVE  NothingForgotten'
<1>0. /\ batch[t] \in Seq(Msg) /\ inbox \in Seq(Msg)
      /\ UNCHANGED batch => batch' = [batch EXCEPT ![t] = batch[t]]
  BY DEF TypeOK
<1>1. CASE Dedupe(t)
  <2> PICK m \in Msg : m = Trigger(t)
    BY <1>1, TriggerType DEF Dedupe, BatchPhases, HandlerPhases
  <2>0. /\ pc[t] = "dedupe" /\ seen' = seen \cup {m} /\ UNCHANGED <<saved, inbox>>
        /\ Elems(batch[t]) = {m} /\ Elems(inbox)' = Elems(inbox)
    BY <1>1 DEF Dedupe, PlaceInv, HandlerInv, Elems
  <2>1. Carried(t) = {}
    BY <2>0 DEF Carried, CarryPhases
  <2>2. CASE Leave(t) /\ (m \in seen \/ Kind[m] = "teamless")
    <3>1. \A u \in Task \ {t} : Carried(u)' = Carried(u)
      BY <2>2, HeldSlot DEF Leave
    <3> QED BY <2>0, <2>1, <2>2, <3>1, HeldStep
  <2>3. CASE Goto(t, "acquire") /\ UNCHANGED frame
    <3>1. /\ pc'[t] = "acquire" /\ batch'[t] = batch[t]
          /\ \A u \in Task \ {t} : Carried(u)' = Carried(u)
      BY <1>0, <2>3, HeldSlot DEF frame
    <3>2. Carried(t)' = {m}
      BY <2>0, <3>1 DEF Carried, CarryPhases
    <3> QED BY <2>0, <2>1, <3>1, <3>2, HeldStep
  <2> QED BY <1>1, <2>2, <2>3 DEF Dedupe
<1>2. CASE Acquire(t)
  BY <1>2, HeldGoto DEF Acquire, dbVars, frame, CarryPhases
<1>3. CASE AcquireFails(t)
  <2>1. pc[t] = "acquire" /\ UNCHANGED <<seen, saved, inbox, batch>>
    BY <1>3 DEF AcquireFails, dbVars, frame
  <2>2. CASE Kind[Trigger(t)] = "status"
    <3>1. Goto(t, "status") /\ batch' = [batch EXCEPT ![t] = batch[t]]
      BY <1>0, <1>3, <2>1, <2>2 DEF AcquireFails
    <3>2. \A m \in Carried(t) : Kind[m] # "dm"
      BY <2>1, <2>2 DEF PlaceInv, HandlerInv, Carried
    <3> QED BY <2>1, <3>1, <3>2, HeldDrops
  <2>3. CASE Kind[Trigger(t)] # "status"
    <3>1. Goto(t, "enqueue") /\ "enqueue" \in CarryPhases
      BY <1>3, <2>3 DEF AcquireFails, CarryPhases
    <3> QED BY <2>1, <3>1, HeldGoto
  <2> QED BY <2>2, <2>3
<1>4. CASE RespondWithStatus(t)
  <2>1. pc[t] \notin CarryPhases /\ UNCHANGED <<seen, saved, inbox>>
    BY <1>4 DEF RespondWithStatus, dbVars, CarryPhases
  <2> QED BY <1>4, <2>1, HeldIdle DEF RespondWithStatus, Leave
<1>5. CASE Enqueue(t)
  <2> PICK m \in Msg : m = Trigger(t)
    BY <1>5, TriggerType DEF Enqueue, BatchPhases, HandlerPhases
  <2>1. /\ pc[t] = "enqueue" /\ inbox' = Append(inbox, m) /\ Leave(t)
        /\ UNCHANGED <<saved, seen>>
    BY <1>5 DEF Enqueue, Calm
  <2>2. Carried(t) = {m}
    BY <2>1 DEF PlaceInv, HandlerInv, Carried, CarryPhases
  <2>3. Elems(inbox)' = Elems(inbox) \cup {m}
    BY <1>0, <2>1, ElemsAppend
  <2>4. \A u \in Task \ {t} : Carried(u)' = Carried(u)
    BY <2>1, HeldSlot DEF Leave
  <2> QED BY <2>1, <2>2, <2>3, <2>4, HeldStep
<1>6. CASE DrainAndRun(t)
  <2>1. /\ pc[t] = "drain" /\ Goto(t, "validate") /\ UNCHANGED <<saved, seen>>
        /\ batch' = [batch EXCEPT ![t] = inbox \o batch[t]]
    BY <1>6 DEF DrainAndRun, TypeOK
  <2>2. Elems(inbox \o batch[t]) = Elems(inbox) \cup Carried(t)
    BY <1>0, <2>1, ElemsConcat DEF Carried, CarryPhases
  <2> QED BY <2>1, <2>2, HeldTake
<1>7. CASE DrainRaises(t)
  BY <1>7 DEF DrainRaises, Calm
<1> QED BY <1>1, <1>2, <1>3, <1>4, <1>5, <1>6, <1>7 DEF RouteStep

LEMMA HeldRunStep ==
    ASSUME Calm, ConstantsAssumption, TypeOK, PlaceInv, NothingForgotten,
           NEW t \in Task, RunStep(t)
    PROVE  NothingForgotten'
<1>0. /\ batch[t] \in Seq(Msg)
      /\ UNCHANGED batch => batch' = [batch EXCEPT ![t] = batch[t]]
  BY DEF TypeOK
<1>1. CASE Validate(t)
  <2>1. pc[t] = "validate" /\ UNCHANGED <<seen, saved, inbox>>
    BY <1>1 DEF Validate, dbVars
  <2>2. CASE AllVoid(batch[t]) /\ Leave(t)
    <3>1. \A m \in Carried(t) : Kind[m] # "dm"
      BY <2>2 DEF AllVoid, Carried
    <3> QED BY <2>1, <2>2, <3>1, HeldDrops DEF Leave
  <2>3. CASE Kind[Trigger(t)] = "reply"
    <3>1. Trigger(t) \in Msg
      BY <2>1, TriggerType DEF BatchPhases, RunPhases
    <3> QED BY <2>3, <3>1 DEF Calm
  <2>4. CASE Goto(t, "persist") /\ UNCHANGED frame
    BY <2>1, <2>4, HeldGoto DEF frame, CarryPhases
  <2> QED BY <1>1, <2>2, <2>3, <2>4 DEF Validate, Finish
<1>2. CASE Persist(t)
  <2>1. /\ pc[t] = "persist" /\ Carried(t) = Elems(batch[t])
        /\ saved' = [m \in Msg |-> IF m \in Carried(t) THEN saved[m] + 1 ELSE saved[m]]
        /\ Goto(t, "preflight") /\ batch' = [batch EXCEPT ![t] = batch[t]]
        /\ UNCHANGED <<seen, inbox>>
    BY <1>0, <1>2 DEF Persist, frame, Carried, CarryPhases
  <2>2. \A u \in Task \ {t} : Carried(u)' = Carried(u)
    BY <2>1, HeldSlot
  <2>3. \A m \in Msg : saved[m] \in Nat
    BY DEF TypeOK
  <2>4. \A m \in Msg : (saved[m] > 0 => saved'[m] > 0) /\ (m \in Carried(t) => saved'[m] > 0)
    BY <2>1, <2>3
  <2>5. Elems(inbox)' = Elems(inbox)
    BY <2>1 DEF Elems
  <2> QED BY <2>1, <2>2, <2>4, <2>5, HeldStep
<1>3. CASE PersistRaises(t)
  BY <1>3 DEF PersistRaises, Calm
<1>4. CASE pc[t] \notin CarryPhases
  <2>1. UNCHANGED <<seen, saved, inbox>>
    BY <1>4 DEF RunStep, Validate, Persist, PersistRaises, PreflightBlocks, InvokeGraph,
                GraphEnds, GraphInterrupts, GraphRaises, ReleaseForGate, PostGate, Reply,
                ReplyRaises, ReleaseAndSchedule, dbVars, CarryPhases
  <2>2. \E phase \in Phases, s \in Seq(Msg) :
            Goto(t, phase) /\ batch' = [batch EXCEPT ![t] = s]
    <3>1. <<>> \in Seq(Msg)
      OBVIOUS
    <3>2. CASE Leave(t)
      BY <3>1, <3>2 DEF Leave, Phases
    <3>3. CASE ~Leave(t)
      BY <1>0, <1>4, <3>1, <3>3
         DEF RunStep, Validate, Persist, PersistRaises, PreflightBlocks, InvokeGraph,
             GraphEnds, GraphInterrupts, GraphRaises, ReleaseForGate, PostGate, Reply,
             ReplyRaises, ReleaseAndSchedule, Finish, frame, CarryPhases, Phases, RunPhases
    <3> QED BY <3>2, <3>3
  <2> QED BY <1>4, <2>1, <2>2, HeldIdle
<1>5. pc[t] \in CarryPhases => Validate(t) \/ Persist(t) \/ PersistRaises(t)
  BY DEF RunStep, PreflightBlocks, InvokeGraph, GraphEnds, GraphInterrupts, GraphRaises,
         LeaveGraph, ReleaseForGate, PostGate, Reply, ReplyRaises, ReleaseAndSchedule,
         CarryPhases
<1> QED BY <1>1, <1>2, <1>3, <1>4, <1>5

LEMMA HeldDrainStep ==
    ASSUME Calm, ConstantsAssumption, TypeOK, NothingForgotten,
           NEW t \in Task, DrainStep(t)
    PROVE  NothingForgotten'
<1>0. /\ pc[t] \notin CarryPhases /\ UNCHANGED <<seen, saved>>
      /\ UNCHANGED batch => batch' = [batch EXCEPT ![t] = batch[t]]
  BY DEF DrainStep, DebounceAcquire, DebounceGivesUp, DebounceDrain, DebounceRaises,
         DebounceRelease, dbVars, CarryPhases, TypeOK
<1>1. CASE DebounceAcquire(t)
  BY <1>0, <1>1, HeldIdle DEF DebounceAcquire, dbVars, frame
<1>2. CASE DebounceGivesUp(t)
  BY <1>0, <1>2, HeldIdle DEF DebounceGivesUp, dbVars, Leave
<1>3. CASE DebounceDrain(t)
  <2>1. CASE inbox = <<>>
    BY <1>0, <1>3, <2>1, HeldIdle DEF DebounceDrain
  <2>2. CASE inbox # <<>>
    <3>1. Carried(t) = {}
      BY <1>0 DEF Carried
    <3> QED BY <1>0, <1>3, <2>2, <3>1, HeldTake DEF DebounceDrain
  <2> QED BY <2>1, <2>2
<1>4. CASE DebounceRaises(t)
  BY <1>4 DEF DebounceRaises, Calm
<1>5. CASE DebounceRelease(t)
  BY <1>0, <1>5, HeldIdle DEF DebounceRelease, Finish, dbVars, Leave
<1> QED BY <1>1, <1>2, <1>3, <1>4, <1>5 DEF DrainStep

LEMMA HeldResumeStep ==
    ASSUME TypeOK, NothingForgotten, NEW t \in Task, ResumeStep(t)
    PROVE  NothingForgotten'
<1>0. /\ pc[t] \notin CarryPhases /\ UNCHANGED <<seen, saved, inbox>>
      /\ UNCHANGED batch => batch' = [batch EXCEPT ![t] = batch[t]]
  BY DEF ResumeStep, Decide, ResumeCheck, ResumeInvoke, dbVars, CarryPhases, TypeOK
<1>1. CASE Decide(t)
  BY <1>0, <1>1, HeldIdle DEF Decide, frame
<1>2. CASE ResumeCheck(t)
  BY <1>0, <1>2, HeldIdle DEF ResumeCheck, frame, Leave
<1>3. CASE ResumeInvoke(t)
  BY <1>0, <1>3, HeldIdle DEF ResumeInvoke, frame
<1> QED BY <1>1, <1>2, <1>3 DEF ResumeStep

LEMMA HeldEnvironment ==
    ASSUME Calm, TypeOK, NothingForgotten, Environment
    PROVE  NothingForgotten'
<1>1. ASSUME NEW t \in Task, NEW w, NEW m, NEW phase, NEW unlocked,
             Start(t, w, m, phase, unlocked), UNCHANGED <<seen, saved, inbox>>
      PROVE  NothingForgotten'
  <2>1. pc[t] \notin CarryPhases
    BY <1>1 DEF Start, CarryPhases
  <2> QED BY <1>1, <2>1, HeldIdle DEF Start
<1>2. ASSUME NEW m \in Msg, ForgetEvent(m)
      PROVE  NothingForgotten'
  <2>1. seen' \subseteq seen /\ UNCHANGED <<saved, inbox, pc, batch>>
    BY <1>2 DEF ForgetEvent, frame
  <2>2. (\A u \in Task : Carried(u)' = Carried(u)) /\ Elems(inbox)' = Elems(inbox)
    BY <2>1 DEF Carried, Elems
  <2> QED BY <2>1, <2>2 DEF NothingForgotten
<1>3. ASSUME NEW t \in Task, CollectAbandoned(t)
      PROVE  NothingForgotten'
  <2>1. pc[t] \notin CarryPhases /\ UNCHANGED <<seen, saved, inbox>>
    BY <1>3 DEF CollectAbandoned, CarryPhases, dbVars
  <2> QED BY <1>3, <2>1, HeldIdle DEF CollectAbandoned, Finish, Leave
<1>4. ASSUME NEW w \in Worker, Crash(w)
      PROVE  NothingForgotten'
  BY <1>4 DEF Crash, Calm, TypeOK
<1> QED BY <1>1, <1>2, <1>3, <1>4
        DEF Environment, Deliver, StartNudge, Click, Connected, dbVars

LEMMA HeldNext ==
    ASSUME Calm, ConstantsAssumption, TypeOK, PlaceInv, NothingForgotten, [Next]_vars
    PROVE  NothingForgotten'
<1>1. CASE Environment
  BY <1>1, HeldEnvironment
<1>2. CASE \E t \in Task : TaskStep(t)
  <2>1. PICK t \in Task : TaskStep(t)
    BY <1>2
  <2> QED BY <2>1, HeldRouteStep, HeldRunStep, HeldDrainStep, HeldResumeStep
          DEF TaskStep
<1>3. CASE UNCHANGED vars
  <2>1. UNCHANGED <<saved, inbox, seen, pc, batch>>
    BY <1>3 DEF vars, dbVars, frame
  <2>2. (\A u \in Task : Carried(u)' = Carried(u)) /\ Elems(inbox)' = Elems(inbox)
    BY <2>1 DEF Carried, Elems
  <2> QED BY <2>1, <2>2 DEF NothingForgotten
<1> QED BY <1>1, <1>2, <1>3 DEF Next

\* Where the database answers and no replica dies, a mention that was let in is
\* queued, travels with a task or has been persisted, however many interrupts,
\* failed runs, lost posts and refused lock connections come in between.
THEOREM MentionsAreHeld ==
    ASSUME Calm PROVE Spec => []NothingForgotten
<1>1. Init => NothingForgotten
  BY DEF Init, NothingForgotten
<1>2. TypeOK /\ PlaceInv /\ NothingForgotten /\ [Next]_vars => NothingForgotten'
  BY HeldNext, ConstantsAssumption
<1> QED BY <1>1, <1>2, PlaceAlways, TypeCorrect, PTL DEF Spec
=============================================================================
